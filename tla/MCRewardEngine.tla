--------------------------- MODULE MCRewardEngine ---------------------------
(***************************************************************************)
(* Small instances of RewardEngine for TLC.  Two participants and the zero *)
(* address.  Amounts are counted in units of 10^17 wei: blockReward 120,   *)
(* the PoC class reward 100 and the PoW class reward 20, so that, as in    *)
(* consensus.go 49-51 (12 * 10^18, 10 * 10^18, 2 * 10^18), blockReward is *)
(* exactly the sum of the two class rewards.  A byte holds one bit and a   *)
(* reward field eight of them, so a field holds values below 256 as the    *)
(* 8-byte field of the code holds values below 2^64 (about 184 units): a   *)
(* class reward fits in a field in both.                                   *)
(***************************************************************************)
EXTENDS RewardEngine

CONSTANTS u1, u2, zero

MCUsers == {u1, u2}

(* One page per entry, so that a list of two spans two pages.             *)
MCPageSize == 1

Ok == [countOk |-> TRUE, pages |-> <<"ok", "ok">>]

PocEntry(u, r, s, b) == [user |-> u, records |-> r, stake |-> s, bind |-> b]
PowEntry(u, r, b) == [user |-> u, records |-> r, bind |-> b]

(* Registries for the runs over several blocks: each exercises one part  *)
(* of NUCReward4.  RegA: a member bound to a registered pool whose stake *)
(* cap (60) one block's PoC part (90) crosses, and PoW members with and   *)
(* without a pool.  RegB: a member with no records next to one with one, *)
(* a failing second page, halving by the ratio.  RegC: the same PoC list *)
(* read whole, a PoW member bound to a pool that is not registered, and  *)
(* a failing GetRewardRatio call.                                         *)
RegA == [pocers |-> <<PocEntry(u1, 2, 50, u2)>>, pocCall |-> Ok,
         powers |-> <<PowEntry(u1, 1, u2), PowEntry(u2, 2, zero)>>, powCall |-> Ok,
         poolers |-> <<u2>>, poolCall |-> Ok, ratio |-> 0]

RegB == [pocers |-> <<PocEntry(u1, 0, 500, zero), PocEntry(u2, 1, 500, u1)>>,
         pocCall |-> [countOk |-> TRUE, pages |-> <<"ok", "fails">>],
         powers |-> <<>>, powCall |-> Ok, poolers |-> <<>>, poolCall |-> Ok, ratio |-> 2]

RegC == [pocers |-> <<PocEntry(u1, 0, 500, zero), PocEntry(u2, 1, 500, u1)>>, pocCall |-> Ok,
         powers |-> <<PowEntry(u1, 1, u2)>>, powCall |-> Ok,
         poolers |-> <<>>, poolCall |-> Ok, ratio |-> CallFails]

BlockRegistries == {RegA, RegB, RegC}

(* The registries of every run list each address with one stake, as the  *)
(* theorem PocCapCorrect of RewardEngineProofs assumes.                    *)
ASSUME MCStakesConsistent == ConsistentStakes

MCUncleLists == {<<>>, <<[depth |-> 1, coinbase |-> u1]>>}

(* No transaction, or one whose fee (20 units) gives a powFee of 13.      *)
MCTxFeeLists == {<<>>, <<20>>}
=============================================================================
