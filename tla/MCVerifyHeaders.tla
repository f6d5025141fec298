-------------------------- MODULE MCVerifyHeaders --------------------------
(* Small instances of VerifyHeaders for TLC.  Four headers and three       *)
(* workers (the nominal and the abort runs) let completions arrive out of *)
(* order and fill the done buffer, and the abort run's abort can come at *)
(* any point of the batch;                                                *)
(* two headers and one worker are the smallest batch in which a worker    *)
(* can be left blocked on done after an abort.                             *)
EXTENDS VerifyHeaders

MCHeaders == 4
MCProcs == 3
MCLeakHeaders == 2
MCLeakProcs == 1
=============================================================================
