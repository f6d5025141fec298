---------------------------- MODULE RewardEngine ----------------------------
(***************************************************************************)
(* The block reward engine: Ethash.Finalize / FinalizeAndAssemble          *)
(* (consensus.go 587-602) run accumulateRewards (consensus.go 642-708),    *)
(* which gathers the participants from the registry contract through       *)
(* NUCReward4 and its helpers (consensus_reward3.go), credits the state    *)
(* and writes the coinbase record into the header and into the side       *)
(* "mining-rewards" database, keyed by block number (consensus_reward.go   *)
(* 497-502, ethdb/reward/record_db.go).                                    *)
(*                                                                         *)
(* What the registry answers at a block's pre-state is an input, a record  *)
(* of Registries: the PoC, PoW and pool lists with the outcome of every    *)
(* contract call.  The state kept across blocks is what Finalize changes:  *)
(* balances, AllPocBalance, the side database and the canonical headers'   *)
(* coinbase records.  Finalize runs on a copy of the state of the block    *)
(* being built: the copy is kept when the block is imported and dropped    *)
(* when it is a mining template or a block that is not imported; the      *)
(* side database write happens either way.                                 *)
(***************************************************************************)
EXTENDS RewardCodec, FiniteSets

CONSTANTS
  Users,                 \* participant addresses
  Zero,                  \* the zero address: ZERO_ADDR and DefaultCoinbaseAddr
  FrontierBlockReward,   \* blockReward of accumulateRewards
  PocBlockReward,
  PowBlockReward,
  PageSize,              \* pageSize of the pagers: 1000
  StartNumber,           \* number of the first block finalised in a run
  MaxBlocks,             \* bound: blocks imported in a run
  Registries,            \* registry answers a block may see
  UncleLists,            \* the uncles a block may include
  TxFeeLists,            \* gasPrice * gas of the transactions of a block
  SaveMayFail            \* whether a Put of the side database may fail

ASSUME RewardAssumption ==
  /\ Zero \notin Users
  /\ {FrontierBlockReward, PocBlockReward, PowBlockReward, StartNumber, MaxBlocks} \subseteq Nat
  /\ PageSize \in Nat \ {0}

Accounts == Users \cup {Zero}
Heights == StartNumber .. StartNumber + MaxBlocks - 1
CallFails == -1         \* GetRewardRatio returned an error

(* What the inputs are, as the code receives them: a finite set of         *)
(* addresses; registry lists of ABI-decoded entries (addresses and uint    *)
(* amounts, len(Records) >= 0); a reward ratio that is a uint or the       *)
(* failed call; uncles that VerifyUncles admitted, whose parent is one of  *)
(* the 7 ancestors but not the parent, so 1 to 6 blocks deep; fees         *)
(* gasPrice * gas, natural numbers.  2^ratio is a natural number, a fact   *)
(* of arithmetic stated for the ratios at hand.                            *)
ASSUME InputAssumption ==
  /\ IsFiniteSet(Users)
  /\ \A reg \in Registries :
       /\ reg.pocers \in Seq([user : Accounts, records : Nat, stake : Nat, bind : Accounts])
       /\ reg.powers \in Seq([user : Accounts, records : Nat, bind : Accounts])
       /\ reg.poolers \in Seq(Accounts)
       /\ reg.ratio \in Nat \cup {CallFails}
       /\ reg.ratio \in Nat => 2 ^ reg.ratio \in Nat \ {0}
  /\ \A us \in UncleLists : us \in Seq([depth : 1 .. 6, coinbase : Accounts])
  /\ TxFeeLists \subseteq Seq(Nat)

(* The PoC registry's answer lists each pledging address with one stake:  *)
(* two entries for the same address carry the same MortageBalance.  The  *)
(* contract is not part of this repository; the cap of GetAllPocers3 is   *)
(* checked per entry, so it relies on this.                               *)
ConsistentStakes ==
  \A reg \in Registries : \A i, j \in 1 .. Len(reg.pocers) :
    reg.pocers[i].user = reg.pocers[j].user => reg.pocers[i].stake = reg.pocers[j].stake

(* The registry lists every address at most once in each list: the pocer, *)
(* power and pooler arrays of the contract are keyed by address.  For a   *)
(* duplicated address the code would add the second entry's weight       *)
(* (AddWeightCount), which the members below do not model.                *)
ASSUME UniqueEntries ==
  \A reg \in Registries :
    /\ \A i, j \in 1 .. Len(reg.pocers) : reg.pocers[i].user = reg.pocers[j].user => i = j
    /\ \A i, j \in 1 .. Len(reg.powers) : reg.powers[i].user = reg.powers[j].user => i = j

-----------------------------------------------------------------------------
(* The pager of GetAllPocers3 / GetAllPowers3 / GetAllPoolers3: the count  *)
(* call, then pages of PageSize in ascending offset.  A failing count      *)
(* yields no member; a failing page ends the walk with the pages before    *)
(* it (return l); a page whose answer does not unpack is skipped (the      *)
(* Unpack error is dropped in AllPocers/AllPowers/AllPoolers).             *)
Gather(list, outcome) ==
  IF ~outcome.countOk THEN <<>>
  ELSE
    LET pages == (Len(list) + PageSize - 1) \div PageSize
        failed == {p \in 1 .. pages : outcome.pages[p] = "fails"}
        upto == IF failed = {} THEN pages ELSE Min(failed) - 1
        page(p) == IF outcome.pages[p] = "garbled" THEN <<>>
                   ELSE SubSeq(list, (p - 1) * PageSize + 1,
                                     Min({p * PageSize, Len(list)}))
    IN  FlattenSeq([p \in 1 .. upto |-> page(p)])

(* Struct1.CanGetMaxReward: 120% of the stake, rounded down.              *)
CanGetMaxReward(stake) == (stake * 120) \div 100

(* A member as MiningUsers.Add, SetBindAddr and AddWeightCount leave it:  *)
(* weight 1 + (len(Records) - 1), bound iff the pool address is not zero. *)
Member(e) == [weight |-> 1 + (e.records - 1), bind |-> e.bind # Zero, pool |-> e.bind]

(* Fault variant: the 120% check of line 124 left out.                    *)
AllPocers3NoCap(reg, allPoc) ==
  LET got == Gather(reg.pocers, reg.pocCall)
      ok == {i \in 1 .. Len(got) : got[i].user # Zero}
  IN  [a \in {got[i].user : i \in ok} |->
         Member(got[CHOOSE i \in ok : got[i].user = a])]

(* GetAllPocers3 (lines 105-136): a member only while                     *)
(* CanGetMaxReward() > GetAllPocBalance, checked before this block's      *)
(* reward; MiningUsers.Add drops the zero address.                        *)
AllPocers3(reg, allPoc) ==
  LET got == Gather(reg.pocers, reg.pocCall)
      ok == {i \in 1 .. Len(got) : /\ got[i].user # Zero
                                   /\ CanGetMaxReward(got[i].stake) > allPoc[got[i].user]}
  IN  [a \in {got[i].user : i \in ok} |->
         Member(got[CHOOSE i \in ok : got[i].user = a])]

(* GetAllPowers3 (lines 139-162).                                         *)
AllPowers3(reg) ==
  LET got == Gather(reg.powers, reg.powCall)
      ok == {i \in 1 .. Len(got) : got[i].user # Zero}
  IN  [a \in {got[i].user : i \in ok} |->
         Member(got[CHOOSE i \in ok : got[i].user = a])]

(* GetAllPoolers3 (lines 165-184): only the addresses matter.             *)
AllPoolers3(reg) == {u \in Range(Gather(reg.poolers, reg.poolCall)) : u # Zero}

(* GetRewardByType3 (lines 186-203): no reward when the ratio call fails; *)
(* ratio 25 counts as 0 up to block 10000; divided by 2^ratio only when   *)
(* ratio > 1.                                                              *)
GetRewardByType3(reward, ratioIn, number) ==
  IF ratioIn = CallFails THEN 0
  ELSE LET ratio == IF ratioIn = 25 /\ number <= 10000 THEN 0 ELSE ratioIn
       IN  IF ratio > 1 THEN reward \div (2 ^ ratio) ELSE reward

-----------------------------------------------------------------------------
(* One class of NUCReward4 (lines 21-46 for PoC, 50-74 for PoW): the      *)
(* share is R / AllWeight (R itself when the weight is 0) times the       *)
(* member's weight; unbound members keep half, bound ones 90%, the other  *)
(* 10% going to their pool.                                               *)
Share(ms, R, a) ==
  LET W == SumFunction([b \in DOMAIN ms |-> ms[b].weight])
      every == IF W > 0 THEN R \div W ELSE R
  IN  every * ms[a].weight

PoolCut(ms, R, a) == IF ms[a].bind THEN (Share(ms, R, a) * 10) \div 100 ELSE 0

UserCut(ms, R, a) ==
  IF ms[a].bind THEN Share(ms, R, a) - PoolCut(ms, R, a) ELSE Share(ms, R, a) \div 2

(* What members bound to pool p forward to it: poolUser.Reward.Add, done  *)
(* only when p is in allPoolers (the ok of lines 38-41 and 67-70).        *)
Forwarded(ms, R, p) ==
  SumFunction([a \in {b \in DOMAIN ms : ms[b].bind /\ ms[b].pool = p} |-> PoolCut(ms, R, a)])

(* NUCReward4 and MergeCoinbasetxs3 (lines 15-102): one entry per member  *)
(* of any class with its PoC, PoW and pool parts.                          *)
NUCReward4(reg, allPoc, number) ==
  LET poolers == AllPoolers3(reg)
      pocers == AllPocers3(reg, allPoc)
      powers == AllPowers3(reg)
      pocR == GetRewardByType3(PocBlockReward, reg.ratio, number)
      powR == GetRewardByType3(PowBlockReward, reg.ratio, number)
  IN  [a \in DOMAIN pocers \cup DOMAIN powers \cup poolers |->
         [poc |-> IF a \in DOMAIN pocers THEN UserCut(pocers, pocR, a) ELSE 0,
          pow |-> IF a \in DOMAIN powers THEN UserCut(powers, powR, a) ELSE 0,
          pool |-> IF a \in poolers
                   THEN Forwarded(pocers, pocR, a) + Forwarded(powers, powR, a)
                   ELSE 0]]

(* The fee pool of accumulateRewards (lines 646-665): blockReward/32 per  *)
(* uncle, then per transaction fee += gasPrice*gas and fee = fee*70/100.  *)
Fee(uncles, fees) ==
  FoldLeft(LAMBDA f, t : ((f + t) * 70) \div 100,
           Len(uncles) * (FrontierBlockReward \div 32), fees)

TeamFee(uncles, fees) == (Fee(uncles, fees) * 5) \div 100

(* (uncle.Number + 8 - header.Number) * blockReward / 8 (lines 649-654).  *)
UncleReward(u, number) == (((number - u.depth) + 8 - number) * FrontierBlockReward) \div 8

UncleCredit(uncles, number, x) ==
  SumFunction([i \in {j \in 1 .. Len(uncles) : uncles[j].coinbase = x} |->
                 UncleReward(uncles[i], number)])

(* Fault variant: powFee paid whole to every address, not divided by     *)
(* len(ctxs).                                                               *)
PowFeeShareUndivided(ctxs, uncles, fees) == (Fee(uncles, fees) * 95) \div 100

(* Every address of ctxs gets its parts plus the same powFee share.       *)
PowFeeShare(ctxs, uncles, fees) ==
  LET powFee == (Fee(uncles, fees) * 95) \div 100
  IN  IF DOMAIN ctxs # {} THEN powFee \div Cardinality(DOMAIN ctxs) ELSE powFee

Paid(ctxs, share, a) == ctxs[a].poc + ctxs[a].pow + ctxs[a].pool + share

(* Lines 673-705: AddBalance of every part, the sink's top-up to          *)
(* blockReward and the team fee, and the uncle rewards.                   *)
Credit(ctxs, uncles, fees, number) ==
  LET share == PowFeeShare(ctxs, uncles, fees)
      allBlockReward == SumFunction([a \in DOMAIN ctxs |-> Paid(ctxs, share, a)])
      left == IF allBlockReward < FrontierBlockReward
              THEN FrontierBlockReward - allBlockReward ELSE 0
  IN  [x \in Accounts |->
         UncleCredit(uncles, number, x)
         + (IF x \in DOMAIN ctxs THEN Paid(ctxs, share, x) ELSE 0)
         + (IF x = Zero THEN left + TeamFee(uncles, fees) ELSE 0)]

(* AddAllPocBalance(addr, pocReward) when the PoC part is positive.       *)
PocCredit(ctxs) == [x \in Accounts |-> IF x \in DOMAIN ctxs THEN ctxs[x].poc ELSE 0]

-----------------------------------------------------------------------------
VARIABLES
  number,     \* number of the next block to import
  balance,    \* balance[a] in the canonical state
  allPoc,     \* GetAllPocBalance(a) in the canonical state
  parentPoc,  \* AllPocBalance in the parent state of the head block
  recordDB,   \* the side database: number -> coinbase record bytes
  canon       \* number -> the imported block: what its Finalize read and wrote

vars == <<number, balance, allPoc, parentPoc, recordDB, canon>>

Init ==
  /\ number = StartNumber
  /\ balance = [x \in Accounts |-> 0]
  /\ allPoc = [x \in Accounts |-> 0]
  /\ parentPoc = allPoc
  /\ recordDB = [h \in {} |-> <<>>]
  /\ canon = [h \in {} |-> <<>>]

(* A write under key k of a key-value store (the side database's Put, or *)
(* the chain's canonical header at a height): v replaces what k held.     *)
Put(m, k, v) == [x \in DOMAIN m \cup {k} |-> IF x = k THEN v ELSE m[x]]

(* Finalize of block number h on a state with AllPocBalance pre, for a    *)
(* given registry answer, uncles and transactions: ctxs = NUCReward4(...), *)
(* header.CoinbaseTxs = ctxs.Encode() (line 706), and ctxs.Save(number)    *)
(* (line 707), which encodes the map again in an iteration order of its   *)
(* own and puts it under h.  The Put may fail: Finalize discards Save's   *)
(* error (`_ = ctxs.Save(...)`) and the database keeps what it had.       *)
(* SaveMayFail says whether the environment lets a Put fail at all.       *)
SaveRecord(h, ctxs) ==
  \/ \E order \in EncodeOrders(ctxs) : recordDB' = Put(recordDB, h, Encode(ctxs, order))
  \/ SaveMayFail /\ UNCHANGED recordDB

(* The block is imported: its state copy, credited by accumulateRewards,  *)
(* becomes the canonical state, and its header keeps the record.          *)
Import ==
  /\ number \in Heights
  /\ \E reg \in Registries, uncles \in UncleLists, fees \in TxFeeLists :
       LET ctxs == NUCReward4(reg, allPoc, number)
           credit == Credit(ctxs, uncles, fees, number)
       IN  /\ SaveRecord(number, ctxs)
           /\ \E order \in EncodeOrders(ctxs) :
                canon' = Put(canon, number, [reg |-> reg, uncles |-> uncles, fees |-> fees,
                                             ctxs |-> ctxs, header |-> Encode(ctxs, order)])
           /\ balance' = [x \in Accounts |-> balance[x] + credit[x]]
           /\ allPoc' = [x \in Accounts |-> allPoc[x] + PocCredit(ctxs)[x]]
           /\ parentPoc' = allPoc
           /\ number' = number + 1

(* A mining template for the next block (or a block that fails import) is *)
(* finalised on a state copy that is then dropped.                        *)
Template ==
  /\ number \in Heights
  /\ \E reg \in Registries : SaveRecord(number, NUCReward4(reg, allPoc, number))
  /\ UNCHANGED <<number, balance, allPoc, parentPoc, canon>>

(* GetRewardsByNumber (record_db.go 30-37): the record under a number,  *)
(* or the empty record when there is none.                                *)
GetRewardsByNumber(n) == IF n \in DOMAIN recordDB THEN recordDB[n] ELSE <<>>

(* Fault variant: the late block saved under the next number.            *)
LateAtHead ==
  /\ number - 1 \in Heights
  /\ \E reg \in Registries : SaveRecord(number, NUCReward4(reg, parentPoc, number - 1))
  /\ UNCHANGED <<number, balance, allPoc, parentPoc, canon>>

(* A template or side block for the head's number, on the head's parent   *)
(* state, finalised after the head was imported.                          *)
Late ==
  /\ number - 1 \in Heights
  /\ \E reg \in Registries : SaveRecord(number - 1, NUCReward4(reg, parentPoc, number - 1))
  /\ UNCHANGED <<number, balance, allPoc, parentPoc, canon>>

Next == Import \/ Template \/ Late

Spec == Init /\ [][Next]_vars

-----------------------------------------------------------------------------
(* Properties.                                                            *)

Bytes == Seq(Accounts \cup (0 .. ByteBase - 1))

TypeOK ==
  /\ number \in StartNumber .. StartNumber + MaxBlocks
  /\ balance \in [Accounts -> Nat]
  /\ allPoc \in [Accounts -> Nat] /\ parentPoc \in [Accounts -> Nat]
  /\ DOMAIN recordDB \subseteq Heights /\ \A h \in DOMAIN recordDB : recordDB[h] \in Bytes
  /\ DOMAIN canon = StartNumber .. number - 1
  /\ \A h \in DOMAIN canon : canon[h].header \in Bytes

(* The block imported by a step, when the step imports one.               *)
Imported == canon'[number]

(* Spec section 8, "PoC cap": a PoC member whose AllPocBalance has reached *)
(* 120% of its stake gets no PoC part in the coinbase record and no        *)
(* AddAllPocBalance (the check of GetAllPocers3, lines 121-126).           *)
PocCapRespected ==
  [][number' = number + 1 =>
       \A i \in 1 .. Len(Imported.reg.pocers) :
         LET e == Imported.reg.pocers[i] IN
         e.user \in Users /\ allPoc[e.user] * 100 >= e.stake * 120 =>
           /\ e.user \in DOMAIN Imported.ctxs => Imported.ctxs[e.user].poc = 0
           /\ allPoc'[e.user] = allPoc[e.user]]_vars

(* Spec section 8, "Reward conservation", with the uncle rewards the spec  *)
(* leaves out: an imported block credits, over all addresses and the sink, *)
(* exactly blockReward plus the team fee plus its uncles' rewards.  The    *)
(* powFee shares (line 690) are not in the spec's sum.                     *)
ExactIssuance ==
  [][number' = number + 1 =>
       SumFunction(balance') - SumFunction(balance)
         = FrontierBlockReward + TeamFee(Imported.uncles, Imported.fees)
           + SumFunction([x \in Accounts |-> UncleCredit(Imported.uncles, number, x)])]_vars

(* What the code does issue, with rounding and the fee: an imported block *)
(* credits at least blockReward plus the team fee plus its uncles'        *)
(* rewards (the sink's top-up, lines 699-702, absorbs every rounding loss *)
(* and every part paid to nobody), and at most powFee more (the shares of *)
(* powFee added to every participant, line 690, when the parts and the    *)
(* shares exceed blockReward).                                             *)
IssuanceBounds ==
  [][number' = number + 1 =>
       LET floor == FrontierBlockReward + TeamFee(Imported.uncles, Imported.fees)
                    + SumFunction([x \in Accounts |-> UncleCredit(Imported.uncles, number, x)])
           minted == SumFunction(balance') - SumFunction(balance)
       IN  /\ floor <= minted
           /\ minted <= floor + (Fee(Imported.uncles, Imported.fees) * 95) \div 100]_vars

(* Spec section 8, "Round-trip of coinbase record": decoding the record    *)
(* in an imported header gives back every PoC, PoW and pool part.          *)
CoinbaseRoundTrip == \A h \in DOMAIN canon : Decode(canon[h].header) = canon[h].ctxs

(* The side database holds, for every imported block, that block's        *)
(* coinbase record (spec 4.5 step 8: the record of block.number).          *)
RecordOfCanonical ==
  \A h \in DOMAIN canon : Decode(GetRewardsByNumber(h)) = Decode(canon[h].header)

(* Glossary, "PoC": the PoC reward is capped at 120% of stake; the code's  *)
(* comment says the reward stops when it reaches 120%.  No PoC credit      *)
(* takes a member's AllPocBalance past 120% of its stake.                  *)
PocCreditWithinCap ==
  [][number' = number + 1 =>
       \A i \in 1 .. Len(Imported.reg.pocers) :
         LET e == Imported.reg.pocers[i] IN
         e.user \in Users /\ allPoc'[e.user] # allPoc[e.user] =>
           allPoc'[e.user] * 100 <= e.stake * 120]_vars
=============================================================================
