--------------------------- MODULE MCHeaderChain ---------------------------
(***************************************************************************)
(* Small instances of HeaderChain.  Difficulties are scaled so that every *)
(* branch of the retarget is taken: DifficultyBoundDivisor 2 and          *)
(* MinimumDifficulty 2 make the floor reachable, ExpDiffPeriod 2 makes    *)
(* the bomb start at block 3.  The uncle window is scaled from 7 to 3 and *)
(* maxUncles from 2 to 1, keeping what the code relies on: an uncle's     *)
(* parent lies in the window but is not the block's parent, so a header  *)
(* can be an uncle at two heights of one chain and a list can be too long.*)
(***************************************************************************)
EXTENDS HeaderChain

CONSTANTS c1, c2

MCGenesis ==
  [parent |-> 0, number |-> 0, time |-> 0, coinbase |-> c1, difficulty |-> 4,
   nucDifficulty |-> 4, mixOk |-> TRUE, result |-> 0, gasLimit |-> 8, gasUsed |-> 0,
   extra |-> 0, uncles |-> <<>>]
=============================================================================
