---------------------------- MODULE HeaderChain ----------------------------
(***************************************************************************)
(* Header admission of the ethash engine (src/consensus/ethash/           *)
(* consensus.go): VerifyHeader and verifyHeader (lines 103-122, 260-321), *)
(* VerifyUncles (204-258), the retarget calcDifficultyFrontier that       *)
(* CalcDifficulty returns (323-341, 470-500), Prepare (575-583) and the   *)
(* target check of verifySeal (510-573).                                  *)
(*                                                                         *)
(* The chain database is the sequence `blocks` of the headers admitted so *)
(* far, genesis first; a header names its parent by position.  A header   *)
(* is its own hash: two headers are the same block iff every field is     *)
(* equal.  The ethash digest is abstracted to its two outcomes the code   *)
(* looks at: whether it equals MixDigest, and the integer `result`.       *)
(***************************************************************************)
EXTENDS Integers, Sequences, FiniteSets, Functions

CONSTANTS
  Genesis,                 \* the genesis header
  MaxBlocks,               \* bound: headers in the chain database
  MaxTime,                 \* bound: the wall clock
  Coinbases,               \* miners a header may name
  TimeSteps,               \* header.Time - parent.Time of proposed headers
  GasLimits,               \* gas limits of proposed headers
  GasUsed,                 \* gas used of proposed headers
  ExtraLens,               \* len(header.Extra) of proposed headers
  NucDifficulties,         \* NUCDifficulty of headers from peers
  Results,                 \* big-endian value of the hashimoto result
  UncleWindow,             \* generations walked by VerifyUncles: 7
  MaxUncles,               \* maxUncles: 2
  AllowedFuture,           \* allowedFutureBlockTime: 60 s
  MaximumExtraDataSize, GasCap, GasLimitBoundDivisor, MinGasLimit,
  DurationLimit, MinimumDifficulty, DifficultyBoundDivisor, ExpDiffPeriod,
  Two256,                  \* 2^256, the numerator of the PoW target
  FakePow,                 \* PowMode is ModeFake or ModeFullFake
  FakeFail                 \* ethash.fakeFail: the number a fake seal refuses

(* The fields of a header the checks read; `parent` is the position of   *)
(* the header whose hash is ParentHash.                                    *)
Headers ==
  [parent : Nat, number : Nat, time : Nat, coinbase : Coinbases, difficulty : Nat,
   nucDifficulty : Int, mixOk : BOOLEAN, result : Results, gasLimit : Nat,
   gasUsed : Nat, extra : Nat, uncles : Seq(Nat)]

(* The last conjunct is the fact of arithmetic the retarget's bomb        *)
(* 2^(period-2) rests on, for the periods a chain of MaxBlocks headers     *)
(* reaches (a header's number is at most twice its position).              *)
ASSUME HeaderAssumption ==
  /\ {MaxTime, UncleWindow, MaxUncles, AllowedFuture} \subseteq Nat
  /\ MaxBlocks \in Nat \ {0}
  /\ {GasLimitBoundDivisor, DifficultyBoundDivisor, ExpDiffPeriod} \subseteq Nat \ {0}
  /\ {MaximumExtraDataSize, GasCap, MinGasLimit, DurationLimit, Two256} \subseteq Nat
  /\ MinimumDifficulty \in Nat \ {0}
  /\ FakePow \in BOOLEAN /\ FakeFail \in Nat
  /\ TimeSteps \subseteq Nat /\ GasLimits \subseteq Nat /\ GasUsed \subseteq Nat
  /\ ExtraLens \subseteq Nat /\ Results \subseteq Nat
  /\ NucDifficulties \subseteq Int
  /\ Genesis \in Headers /\ Genesis.number = 0 /\ Genesis.time <= MaxTime
  /\ \A k \in 0 .. 2 * MaxBlocks : 2 ^ k \in Nat

(* The genesis block has no uncles, and its ParentHash is the hash of no  *)
(* block: position 0.                                                      *)
ASSUME GenesisAssumption == Genesis.parent = 0 /\ Genesis.uncles = <<>>

VARIABLES
  blocks,   \* the chain database: the admitted headers, genesis at 1
  now       \* time.Now() in seconds

vars == <<blocks, now>>

Ids == 1 .. Len(blocks)

-----------------------------------------------------------------------------
(* calcDifficultyFrontier (lines 470-500): one step of DifficultyBound-   *)
(* Divisor up when the block came faster than DurationLimit, down         *)
(* otherwise, floored at MinimumDifficulty, plus the bomb 2^(period-2).   *)
calcDifficultyFrontier(time, p) ==
  LET adjust == p.difficulty \div DifficultyBoundDivisor
      d == IF time - p.time < DurationLimit THEN p.difficulty + adjust
                                            ELSE p.difficulty - adjust
      floored == IF d < MinimumDifficulty THEN MinimumDifficulty ELSE d
      period == (p.number + 1) \div ExpDiffPeriod
      bombed == floored + 2 ^ (period - 2)
  IN  IF period > 1
      THEN IF bombed < MinimumDifficulty THEN MinimumDifficulty ELSE bombed
      ELSE floored

(* CalcDifficulty (lines 323-341) returns the Frontier rule whatever the *)
(* fork: the other variants are commented out.                           *)
CalcDifficulty(time, p) == calcDifficultyFrontier(time, p)

(* verifySeal (lines 510-573): in the fake modes only the number FakeFail *)
(* is refused; otherwise NUCDifficulty must be positive, the digest must  *)
(* match MixDigest, and the result must not exceed 2^256 / NUCDifficulty. *)
(* A shared ethash delegates to the same function.                       *)
SealError(h) ==
  IF FakePow THEN (IF h.number = FakeFail THEN "InvalidPoW" ELSE "ok")
  ELSE IF h.nucDifficulty <= 0 THEN "InvalidDifficulty"
  ELSE IF ~h.mixOk THEN "InvalidMixDigest"
  ELSE IF h.result > Two256 \div h.nucDifficulty THEN "InvalidPoW"
  ELSE "ok"

(* Fault variant: the gasUsed <= gasLimit check of lines 285-287 left   *)
(* out.                                                                   *)
HeaderChecksNoGasUsed(h, p, uncle, seal) ==
  LET gasDiff == IF p.gasLimit >= h.gasLimit THEN p.gasLimit - h.gasLimit
                                              ELSE h.gasLimit - p.gasLimit
  IN
  << [fails |-> h.extra > MaximumExtraDataSize, err |-> "ExtraTooLong"],
     [fails |-> ~uncle /\ h.time > now + AllowedFuture, err |-> "FutureBlock"],
     [fails |-> h.time <= p.time, err |-> "ZeroBlockTime"],
     [fails |-> CalcDifficulty(h.time, p) # h.difficulty, err |-> "InvalidDifficulty"],
     [fails |-> h.gasLimit > GasCap, err |-> "InvalidGasLimit"],
     [fails |-> gasDiff >= p.gasLimit \div GasLimitBoundDivisor \/ h.gasLimit < MinGasLimit,
      err |-> "InvalidGasLimit"],
     [fails |-> h.number - p.number # 1, err |-> "InvalidNumber"],
     [fails |-> seal /\ SealError(h) # "ok", err |-> SealError(h)] >>

(* The checks of verifyHeader (lines 260-321) in the code's order; the    *)
(* first that fails is the error returned.                                *)
HeaderChecks(h, p, uncle, seal) ==
  LET gasDiff == IF p.gasLimit >= h.gasLimit THEN p.gasLimit - h.gasLimit
                                              ELSE h.gasLimit - p.gasLimit
  IN
  << [fails |-> h.extra > MaximumExtraDataSize, err |-> "ExtraTooLong"],
     [fails |-> ~uncle /\ h.time > now + AllowedFuture, err |-> "FutureBlock"],
     [fails |-> h.time <= p.time, err |-> "ZeroBlockTime"],
     [fails |-> CalcDifficulty(h.time, p) # h.difficulty, err |-> "InvalidDifficulty"],
     [fails |-> h.gasLimit > GasCap, err |-> "InvalidGasLimit"],
     [fails |-> h.gasUsed > h.gasLimit, err |-> "InvalidGasUsed"],
     [fails |-> gasDiff >= p.gasLimit \div GasLimitBoundDivisor \/ h.gasLimit < MinGasLimit,
      err |-> "InvalidGasLimit"],
     [fails |-> h.number - p.number # 1, err |-> "InvalidNumber"],
     [fails |-> seal /\ SealError(h) # "ok", err |-> SealError(h)] >>

(* The error of the first failing check of a sequence, or "ok".          *)
FirstError(checks) ==
  LET bad == {i \in 1 .. Len(checks) : checks[i].fails}
  IN  IF bad = {} THEN "ok" ELSE checks[CHOOSE i \in bad : \A j \in bad : i <= j].err

VerifyHeaderError(h, p, uncle, seal) == FirstError(HeaderChecks(h, p, uncle, seal))

(* VerifyHeader (lines 103-122): a known header is accepted as it is; the *)
(* parent is looked up by hash and number-1.                              *)
VerifyHeader(h) ==
  IF \E i \in Ids : blocks[i] = h THEN "ok"
  ELSE IF h.parent \notin Ids \/ blocks[h.parent].number # h.number - 1
       THEN "UnknownAncestor"
  ELSE VerifyHeaderError(h, blocks[h.parent], FALSE, TRUE)

-----------------------------------------------------------------------------
(* VerifyUncles (lines 204-258) for a new block b.  The walk of lines     *)
(* 219-230 visits b's parent and up to UncleWindow - 1 further ancestors, *)
(* stopping at genesis; their own uncles are the ones already rewarded.   *)
Ancestors(b) ==
  LET walk[k \in 0 .. UncleWindow] ==
        IF k = 0 THEN <<>>
        ELSE LET prev == walk[k - 1]
                 next == IF prev = <<>> THEN b.parent ELSE blocks[prev[Len(prev)]].parent
             IN  IF next \in Ids THEN Append(prev, next) ELSE prev
  IN  Range(walk[UncleWindow])

(* Fault variant: the uncles of the ancestors are not gathered (line     *)
(* 226 dropped); only repetitions within the list are caught.            *)
UncleErrorFresh(b, i) ==
  LET anc == Ancestors(b)
      u == blocks[b.uncles[i]]
      rewarded == {b.uncles[j] : j \in 1 .. i - 1}
  IN  IF b.uncles[i] \in rewarded THEN "DuplicateUncle"
      ELSE IF b.uncles[i] \in anc THEN "UncleIsAncestor"
      ELSE IF u.parent \notin anc \/ u.parent = b.parent THEN "DanglingUncle"
      ELSE VerifyHeaderError(u, blocks[u.parent], TRUE, TRUE)

(* The error for the i-th uncle: already rewarded (by an ancestor or      *)
(* earlier in this list), an ancestor itself, a parent outside the        *)
(* ancestors or equal to b's parent, or a header that verifyHeader        *)
(* rejects as an uncle with its seal checked.  b itself, added to both    *)
(* sets at lines 231-232, is new and so is no uncle of its own.           *)
UncleError(b, i) ==
  LET anc == Ancestors(b)
      u == blocks[b.uncles[i]]
      rewarded == (UNION {Range(blocks[a].uncles) : a \in anc})
                  \cup {b.uncles[j] : j \in 1 .. i - 1}
  IN  IF b.uncles[i] \in rewarded THEN "DuplicateUncle"
      ELSE IF b.uncles[i] \in anc THEN "UncleIsAncestor"
      ELSE IF u.parent \notin anc \/ u.parent = b.parent THEN "DanglingUncle"
      ELSE VerifyHeaderError(u, blocks[u.parent], TRUE, TRUE)

VerifyUncles(b) ==
  IF Len(b.uncles) > MaxUncles THEN "TooManyUncles"
  ELSE FirstError([i \in 1 .. Len(b.uncles) |->
                     [fails |-> UncleError(b, i) # "ok", err |-> UncleError(b, i)]])

-----------------------------------------------------------------------------
Init ==
  /\ blocks = <<Genesis>>
  /\ now = Genesis.time

(* Uncle lists a new header may carry: up to MaxUncles + 1 known headers, *)
(* repetitions included, so that every check of VerifyUncles can fail.    *)
UncleLists == UNION {[1 .. k -> Ids] : k \in 0 .. MaxUncles + 1}

(* Fault variant: a header already in the database is admitted again.   *)
AdmitKnown(h) ==
  /\ Len(blocks) < MaxBlocks
  /\ VerifyHeader(h) = "ok"
  /\ VerifyUncles(h) = "ok"
  /\ blocks' = Append(blocks, h)
  /\ UNCHANGED now

(* Admit a header: VerifyHeader and VerifyUncles both accept it and it is *)
(* new (a known header short-circuits and changes nothing).               *)
Admit(h) ==
  /\ Len(blocks) < MaxBlocks
  /\ \A i \in Ids : blocks[i] # h
  /\ VerifyHeader(h) = "ok"
  /\ VerifyUncles(h) = "ok"
  /\ blocks' = Append(blocks, h)
  /\ UNCHANGED now

(* A header built by this node: Prepare (lines 575-583) sets Difficulty   *)
(* and NUCDifficulty to CalcDifficulty of the parent, Author is the       *)
(* coinbase, and the sealer found a result under the target.              *)
Mine ==
  \E p \in Ids, dt \in TimeSteps, cb \in Coinbases, gl \in GasLimits, gu \in GasUsed,
     us \in UncleLists, r \in Results :
    LET d == CalcDifficulty(blocks[p].time + dt, blocks[p]) IN
    Admit([parent |-> p, number |-> blocks[p].number + 1, time |-> blocks[p].time + dt,
           coinbase |-> cb, difficulty |-> d, nucDifficulty |-> d, mixOk |-> TRUE,
           result |-> r, gasLimit |-> gl, gasUsed |-> gu, extra |-> 0, uncles |-> us])

(* A header received from a peer: every field is the sender's choice.     *)
Receive ==
  \E p \in Ids, dn \in {1, 2}, dt \in TimeSteps, cb \in Coinbases, dd \in {0, 1},
     nd \in NucDifficulties, mix \in BOOLEAN, r \in Results, gl \in GasLimits,
     gu \in GasUsed, ex \in ExtraLens, us \in UncleLists :
    Admit([parent |-> p, number |-> blocks[p].number + dn, time |-> blocks[p].time + dt,
           coinbase |-> cb,
           difficulty |-> CalcDifficulty(blocks[p].time + dt, blocks[p]) + dd,
           nucDifficulty |-> nd, mixOk |-> mix, result |-> r,
           gasLimit |-> gl, gasUsed |-> gu, extra |-> ex, uncles |-> us])

(* The wall clock advances.                                               *)
Tick ==
  /\ now < MaxTime
  /\ now' = now + 1
  /\ UNCHANGED blocks

Next == Mine \/ Receive \/ Tick

Spec == Init /\ [][Next]_vars

-----------------------------------------------------------------------------
(* Properties.                                                            *)

TypeOK ==
  /\ blocks \in Seq(Headers) /\ Len(blocks) \in 1 .. MaxBlocks
  /\ IsInjective(blocks)
  /\ \A i \in 2 .. Len(blocks) : blocks[i].parent \in 1 .. i - 1
  /\ \A i \in Ids : blocks[i].number <= 2 * (i - 1)
  /\ now \in Genesis.time .. MaxTime

(* The chain ending in block b: b and all its ancestors.                  *)
ChainOf ==
  LET c[i \in 0 .. Len(blocks)] ==
        IF i \in Ids THEN {i} \cup c[blocks[i].parent] ELSE {}
  IN  c

(* Every uncle is rewarded only once (the comment of line 236): on every  *)
(* chain no header is an uncle twice, whether in one block or in two, and *)
(* no block of the chain is an uncle on it.  VerifyUncles only looks      *)
(* UncleWindow generations back; this holds on the whole chain.           *)
UnclesOnce ==
  \A b \in Ids :
    LET ch == ChainOf[b] IN
    /\ \A a \in ch : IsInjective(blocks[a].uncles)
    /\ \A a1, a2 \in ch : a1 # a2 => Range(blocks[a1].uncles) \cap Range(blocks[a2].uncles) = {}
    /\ \A a \in ch : Range(blocks[a].uncles) \cap ch = {}

(* The retarget of spec section 4.3, Frontier rule with bomb delay 0.     *)
SpecDifficulty(time, p) ==
  LET adjust == p.difficulty \div DifficultyBoundDivisor
      d0 == IF time - p.time < DurationLimit THEN p.difficulty + adjust
                                             ELSE p.difficulty - adjust
      d == IF d0 > MinimumDifficulty THEN d0 ELSE MinimumDifficulty
      fake == IF p.number + 1 > 0 THEN p.number + 1 ELSE 0
      period == fake \div ExpDiffPeriod
  IN  IF period > 1 THEN d + 2 ^ (period - 2) ELSE d

(* The header invariants of spec section 2 and the retarget of section    *)
(* 4.3 hold for every admitted header against its parent: what            *)
(* verifyHeader (lines 260-321) must have enforced, whichever way the     *)
(* header came in.                                                        *)
HeaderRules ==
  \A i \in 2 .. Len(blocks) :
    LET h == blocks[i]
        p == blocks[h.parent]
    IN  /\ h.gasUsed <= h.gasLimit /\ h.gasLimit <= GasCap
        /\ h.gasLimit - p.gasLimit < p.gasLimit \div GasLimitBoundDivisor
        /\ p.gasLimit - h.gasLimit < p.gasLimit \div GasLimitBoundDivisor
        /\ h.gasLimit >= MinGasLimit
        /\ h.number = p.number + 1 /\ h.time > p.time
        /\ h.difficulty = SpecDifficulty(h.time, p) /\ h.difficulty > 0
        /\ h.nucDifficulty > 0 /\ h.extra <= MaximumExtraDataSize
=============================================================================
