--------------------------- MODULE VerifyHeaders ---------------------------
(***************************************************************************)
(* The concurrent batch header verifier Ethash.VerifyHeaders              *)
(* (src/consensus/ethash/consensus.go, lines 121-200).                     *)
(*                                                                         *)
(* A dispatcher goroutine hands the indices 0..N-1 to W worker goroutines  *)
(* over the unbuffered channel `inputs`; a worker verifies headers[index], *)
(* writes the verdict into the shared slice errors[index] and reports the  *)
(* index on the buffered channel `done` (capacity W).  The dispatcher marks *)
(* checked[index] and forwards errors[out], errors[out+1], ... to the      *)
(* caller's results channel for as long as checked[out] holds: a reorder   *)
(* buffer that restores input order.  The caller may close `abort`; the    *)
(* dispatcher then returns and closes `inputs` (defer close(inputs)).      *)
(*                                                                         *)
(* The verdict of verifyHeaderWorker for header i is a pure function of    *)
(* the chain and the headers; it is abstracted as the value i itself, so   *)
(* that a result delivered for the wrong index, or read from a slot no     *)
(* worker has written yet (which reads as nil, "valid"), is told apart.    *)
(***************************************************************************)
EXTENDS Integers, Sequences

CONSTANTS
  N,          \* len(headers)
  MaxProcs,   \* runtime.GOMAXPROCS(0)
  FullFake,   \* ethash.config.PowMode == ModeFullFake
  AbortUsed   \* whether the caller of this run ever closes abort

ASSUME NAssumption == N \in Nat
ASSUME MaxProcsAssumption == MaxProcs \in Nat \ {0}
ASSUME FlagsAssumption == FullFake \in BOOLEAN /\ AbortUsed \in BOOLEAN

Idx == 0 .. N - 1

Unset == -1     \* errors[i] before a worker wrote it: the zero value, nil
FakeNil == -2   \* the nil sent on the fast path without any verification

Verdict(i) == i

(* Workers are spawned unless the fast path is taken (lines 126-132).     *)
Spawned == ~FullFake /\ N # 0

(* workers := min(GOMAXPROCS, len(headers)) (lines 135-138).              *)
NumWorkers == IF ~Spawned THEN 0 ELSE IF N < MaxProcs THEN N ELSE MaxProcs

Workers == 1 .. NumWorkers

(* The verdict the caller is owed for headers[i].                        *)
Expected(i) == IF Spawned THEN Verdict(i) ELSE FakeNil

VARIABLES
  in,          \* the next index the dispatcher offers on inputs
  checked,     \* checked[i]: the dispatcher has received i from done
  errors,      \* the shared slice errors
  done,        \* contents of the buffered channel done, oldest first
  errorsOut,   \* what has been sent on the results channel errorsOut
  dispatcher,  \* "running" or "returned"
  wstate,      \* wstate[w]: "idle" (in range inputs), "verifying", "sending", "exited"
  windex,      \* windex[w]: the index worker w holds
  aborted      \* the caller has closed abort

vars == <<in, checked, errors, done, errorsOut, dispatcher, wstate, windex, aborted>>

-----------------------------------------------------------------------------
(* Lines 126-162: the fast path fills the results channel with nils and    *)
(* returns; otherwise the slices and channels are made, the workers        *)
(* spawned idle, and the dispatcher started.                              *)
Init ==
  /\ in = 0
  /\ checked = [i \in Idx |-> FALSE]
  /\ errors = [i \in Idx |-> Unset]
  /\ done = <<>>
  /\ errorsOut = IF Spawned THEN <<>> ELSE [j \in 1 .. N |-> FakeNil]
  /\ dispatcher = IF Spawned THEN "running" ELSE "returned"
  /\ wstate = [w \in Workers |-> "idle"]
  /\ windex = [w \in Workers |-> 0]
  /\ aborted = FALSE

(* case inputs <- in (lines 166-170), met by `for index := range inputs`  *)
(* of an idle worker (line 149).  After the last index the dispatcher sets *)
(* its local inputs to nil, which disables the case: in < N.              *)
Receive(w) ==
  /\ dispatcher = "running"
  /\ in < N
  /\ wstate[w] = "idle"
  /\ windex' = [windex EXCEPT ![w] = in]
  /\ wstate' = [wstate EXCEPT ![w] = "verifying"]
  /\ in' = in + 1
  /\ UNCHANGED <<checked, errors, done, errorsOut, dispatcher, aborted>>

(* errors[index] = ethash.verifyHeaderWorker(...) (line 150).             *)
Verify(w) ==
  /\ wstate[w] = "verifying"
  /\ errors' = [errors EXCEPT ![windex[w]] = Verdict(windex[w])]
  /\ wstate' = [wstate EXCEPT ![w] = "sending"]
  /\ UNCHANGED <<in, checked, done, errorsOut, dispatcher, windex, aborted>>

(* Fault variant: the worker reports its index before writing the slot.  *)
SendDoneEarly(w) ==
  /\ wstate[w] = "verifying"
  /\ Len(done) < NumWorkers
  /\ done' = Append(done, windex[w])
  /\ wstate' = [wstate EXCEPT ![w] = "idle"]
  /\ UNCHANGED <<in, checked, errors, errorsOut, dispatcher, windex, aborted>>

(* Fault variant: the send does not wait for room in the buffer.        *)
SendDoneUnbounded(w) ==
  /\ wstate[w] = "sending"
  /\ done' = Append(done, windex[w])
  /\ wstate' = [wstate EXCEPT ![w] = "idle"]
  /\ UNCHANGED <<in, checked, errors, errorsOut, dispatcher, windex, aborted>>

(* done <- index (line 151): blocks while the buffer holds W indices.     *)
SendDone(w) ==
  /\ wstate[w] = "sending"
  /\ Len(done) < NumWorkers
  /\ done' = Append(done, windex[w])
  /\ wstate' = [wstate EXCEPT ![w] = "idle"]
  /\ UNCHANGED <<in, checked, errors, errorsOut, dispatcher, windex, aborted>>

(* Fault variant: inputs is closed on the abort path only.               *)
ExitOnAbort(w) ==
  /\ wstate[w] = "idle"
  /\ dispatcher = "returned"
  /\ aborted
  /\ wstate' = [wstate EXCEPT ![w] = "exited"]
  /\ UNCHANGED <<in, checked, errors, done, errorsOut, dispatcher, windex, aborted>>

(* The range loop ends once the dispatcher has closed inputs (line 158).  *)
Exit(w) ==
  /\ wstate[w] = "idle"
  /\ dispatcher = "returned"
  /\ wstate' = [wstate EXCEPT ![w] = "exited"]
  /\ UNCHANGED <<in, checked, errors, done, errorsOut, dispatcher, windex, aborted>>

(* Fault variant: `if checked[out]` for `for checked[out]`: at most one   *)
(* result is forwarded per index received.                               *)
FlushOnce(chk, k) ==
  LET out == Len(errorsOut) IN
  /\ k = IF out \in Idx /\ chk[out] THEN out + 1 ELSE out
  /\ errorsOut' = errorsOut \o [j \in 1 .. k - out |-> errors[out + j - 1]]

(* The results errors[out], ..., errors[k-1] forwarded by the reorder     *)
(* loop once checked has become chk: k is the first index from out on     *)
(* that is N or unchecked.                                                *)
Flush(chk, k) ==
  LET out == Len(errorsOut) IN
  /\ k \in Idx => ~chk[k]
  /\ \A j \in out .. k - 1 : chk[j]
  /\ errorsOut' = errorsOut \o [j \in 1 .. k - out |-> errors[out + j - 1]]

(* case index := <-done (lines 171-177): mark the index checked, forward  *)
(* every result that is now in order, and return after the last one.     *)
RecvDone ==
  /\ dispatcher = "running"
  /\ done # <<>>
  /\ LET chk == [checked EXCEPT ![Head(done)] = TRUE] IN
       /\ checked' = chk
       /\ \E k \in Len(errorsOut) .. N :
            /\ Flush(chk, k)
            /\ dispatcher' = IF k = N THEN "returned" ELSE "running"
  /\ done' = Tail(done)
  /\ UNCHANGED <<in, errors, wstate, windex, aborted>>

(* The caller closes the abort channel it was handed (line 183).         *)
Abort ==
  /\ AbortUsed
  /\ ~aborted
  /\ aborted' = TRUE
  /\ UNCHANGED <<in, checked, errors, done, errorsOut, dispatcher, wstate, windex>>

(* case <-abort (lines 178-179): the dispatcher returns.  Go's select     *)
(* picks among ready cases at random, so the other cases stay possible.  *)
DispatchAbort ==
  /\ dispatcher = "running"
  /\ aborted
  /\ dispatcher' = "returned"
  /\ UNCHANGED <<in, checked, errors, done, errorsOut, wstate, windex, aborted>>

(* Every goroutine of the batch has finished.                            *)
Terminated ==
  /\ dispatcher = "returned"
  /\ \A w \in Workers : wstate[w] = "exited"

Next ==
  \/ \E w \in Workers : Receive(w) \/ Verify(w) \/ SendDone(w) \/ Exit(w)
  \/ RecvDone
  \/ Abort
  \/ DispatchAbort

(* Go schedules every runnable goroutine eventually; a goroutine blocked  *)
(* on a channel is runnable again once the channel is ready.  The caller  *)
(* is not obliged to abort.                                               *)
Fairness ==
  /\ \A w \in Workers : WF_vars(Verify(w)) /\ WF_vars(SendDone(w)) /\ WF_vars(Exit(w))
  /\ WF_vars(\E w \in Workers : Receive(w))
  /\ WF_vars(RecvDone)
  /\ WF_vars(DispatchAbort)

Spec == Init /\ [][Next]_vars /\ Fairness

-----------------------------------------------------------------------------
(* Properties.                                                            *)

TypeOK ==
  /\ in \in 0 .. N
  /\ checked \in [Idx -> BOOLEAN]
  /\ errors \in [Idx -> Idx \cup {Unset}]
  /\ done \in Seq(Idx) /\ Len(done) <= NumWorkers
  /\ errorsOut \in Seq(Idx \cup {Unset, FakeNil}) /\ Len(errorsOut) <= N
  /\ dispatcher \in {"running", "returned"}
  /\ wstate \in [Workers -> {"idle", "verifying", "sending", "exited"}]
  /\ windex \in [Workers -> Idx \cup {0}]
  /\ aborted \in BOOLEAN

(* Results are delivered in input order, each the verdict of its own      *)
(* header: the j-th value on the results channel is the verdict of        *)
(* headers[j-1], never a slot the reorder loop of lines 172-177 reads     *)
(* before its worker (line 150) wrote it.                                 *)
OrderedDelivery ==
  \A j \in 1 .. Len(errorsOut) : errorsOut[j] = Expected(j - 1)

(* The batch pipeline implements the abstract promise of HeaderResults:   *)
(* results only grow, by verdicts in input order, and all N arrive unless  *)
(* the caller aborts.                                                     *)
HR == INSTANCE HeaderResults WITH results <- errorsOut, Answer <- Expected

Refines == HR!Spec

(* Every goroutine VerifyHeaders starts eventually ends: workers leave     *)
(* the range loop of line 149 once the dispatcher has closed inputs.      *)
WorkersExit == <>Terminated
=============================================================================
