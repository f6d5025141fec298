--------------------------- MODULE HeaderResults ---------------------------
(***************************************************************************)
(* What Ethash.VerifyHeaders promises its caller (spec section 4.1, "Batch *)
(* verification"): the results channel carries the verdicts of the N      *)
(* headers in input order, a prefix at a time; a delivered result is never *)
(* changed; and unless the caller closes abort, all N are delivered.       *)
(* The batch pipeline of VerifyHeaders.tla is shown to implement it.       *)
(***************************************************************************)
EXTENDS Naturals, Sequences

CONSTANTS
  N,          \* len(headers)
  Answer(_)   \* Answer(i): the verdict the caller must get for headers[i]

VARIABLES
  results,    \* what the caller has received from the results channel
  aborted     \* the caller closed the abort channel

vars == <<results, aborted>>

(* The first k verdicts, in input order. *)
Promised(k) == [j \in 1 .. k |-> Answer(j - 1)]

(* The fast path may deliver everything at once, before any step. *)
Init ==
  /\ results \in {Promised(k) : k \in 0 .. N}
  /\ aborted = FALSE

(* One or more further verdicts arrive, the next ones in input order. *)
Deliver ==
  /\ \E k \in Len(results) + 1 .. N : results' = Promised(k)
  /\ UNCHANGED aborted

Abort ==
  /\ ~aborted
  /\ aborted' = TRUE
  /\ UNCHANGED results

Next == Deliver \/ Abort

(* Delivery makes progress for as long as the caller has not aborted.     *)
Spec == Init /\ [][Next]_vars /\ WF_vars(~aborted /\ Deliver)
=============================================================================
