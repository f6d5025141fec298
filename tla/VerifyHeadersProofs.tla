------------------------ MODULE VerifyHeadersProofs ------------------------
(***************************************************************************)
(* Proofs about the batch header verifier of VerifyHeaders.tla, for every  *)
(* number of headers and every GOMAXPROCS: the type invariant, and that    *)
(* the results channel carries the verdicts in input order.               *)
(***************************************************************************)
EXTENDS VerifyHeaders, SequenceTheorems, TLAPS

(* The worker count: min(GOMAXPROCS, len(headers)) or none at all.        *)
LEMMA WorkerCount ==
  /\ NumWorkers \in Nat
  /\ NumWorkers <= N
  /\ Workers # {} => Spawned /\ N > 0
  /\ Workers # {} => 0 \in Idx
<1>1. NumWorkers \in Nat /\ NumWorkers <= N
  BY NAssumption, MaxProcsAssumption DEF NumWorkers
<1>2. Workers # {} => NumWorkers > 0
  BY <1>1 DEF Workers
<1>3. NumWorkers > 0 => Spawned /\ N > 0
  BY NAssumption, MaxProcsAssumption DEF NumWorkers
<1>4. QED
  BY <1>1, <1>2, <1>3, NAssumption DEF Idx

(* What the reorder loop of RecvDone appends: the slots f[out..k-1] after  *)
(* the out results already sent.                                          *)
LEMMA FlushAppend ==
  ASSUME NEW S, NEW s \in Seq(S), NEW n \in Nat,
         NEW f \in [0 .. n - 1 -> S], NEW k \in Len(s) .. n
  PROVE  /\ s \o [j \in 1 .. k - Len(s) |-> f[Len(s) + j - 1]] \in Seq(S)
         /\ Len(s \o [j \in 1 .. k - Len(s) |-> f[Len(s) + j - 1]]) = k
         /\ \A j \in 1 .. k : (s \o [j2 \in 1 .. k - Len(s) |-> f[Len(s) + j2 - 1]])[j]
                              = IF j <= Len(s) THEN s[j] ELSE f[j - 1]
<1> DEFINE t == [j \in 1 .. k - Len(s) |-> f[Len(s) + j - 1]]
<1>1. Len(s) \in Nat
  BY LenProperties
<1>2. t \in Seq(S)
  <2>1. k - Len(s) \in Nat
    BY <1>1
  <2>2. t \in [1 .. k - Len(s) -> S]
    BY <1>1
  <2>3. QED
    BY <2>1, <2>2, SeqDef
<1>3. Len(t) = k - Len(s)
  BY <1>1, <1>2
<1>4. QED
  BY <1>1, <1>2, <1>3, ConcatProperties

-----------------------------------------------------------------------------
(* Type correctness.                                                      *)

Results == Idx \cup {Unset, FakeNil}

LEMMA TypeInit == Init => TypeOK
<1> SUFFICES ASSUME Init PROVE TypeOK
  OBVIOUS
<1>1. in \in 0 .. N /\ checked \in [Idx -> BOOLEAN] /\ errors \in [Idx -> Idx \cup {Unset}]
  BY NAssumption DEF Init
<1>2. done \in Seq(Idx) /\ Len(done) <= NumWorkers
  BY WorkerCount, EmptySeq DEF Init
<1>3. errorsOut \in Seq(Results) /\ Len(errorsOut) <= N
  <2>1. CASE Spawned
    BY <2>1, NAssumption, EmptySeq DEF Init
  <2>2. CASE ~Spawned
    <3>1. [j \in 1 .. N |-> FakeNil] \in Seq(Results)
      BY NAssumption, SeqDef DEF Results
    <3>2. Len([j \in 1 .. N |-> FakeNil]) = N
      BY <3>1, NAssumption
    <3>3. errorsOut = [j \in 1 .. N |-> FakeNil]
      BY <2>2 DEF Init
    <3>4. QED
      BY <3>1, <3>2, <3>3, NAssumption
  <2>3. QED
    BY <2>1, <2>2
<1>4. wstate \in [Workers -> {"idle", "verifying", "sending", "exited"}]
  BY DEF Init
<1>5. windex \in [Workers -> Idx \cup {0}]
  BY DEF Init
<1>6. dispatcher \in {"running", "returned"} /\ aborted \in BOOLEAN
  BY DEF Init
<1>7. QED
  BY <1>1, <1>2, <1>3, <1>4, <1>5, <1>6 DEF TypeOK, Results

LEMMA TypeStep == TypeOK /\ [Next]_vars => TypeOK'
<1> SUFFICES ASSUME TypeOK, [Next]_vars PROVE TypeOK'
  OBVIOUS
<1> USE NAssumption
<1>1. ASSUME NEW w \in Workers, Receive(w) PROVE TypeOK'
  BY <1>1 DEF Receive, TypeOK, Idx
<1>2. ASSUME NEW w \in Workers, Verify(w) PROVE TypeOK'
  <2>1. windex[w] \in Idx
    BY WorkerCount DEF TypeOK
  <2>2. QED
    BY <1>2, <2>1 DEF Verify, TypeOK, Verdict
<1>3. ASSUME NEW w \in Workers, SendDone(w) PROVE TypeOK'
  <2>1. windex[w] \in Idx \cup {0} /\ Idx \cup {0} = Idx
    BY WorkerCount DEF TypeOK, Idx
  <2>2. done' \in Seq(Idx) /\ Len(done') = Len(done) + 1
    BY <1>3, <2>1, AppendProperties DEF SendDone, TypeOK
  <2>3. Len(done') <= NumWorkers
    BY <1>3, <2>2, WorkerCount DEF SendDone, TypeOK
  <2>4. wstate' \in [Workers -> {"idle", "verifying", "sending", "exited"}]
    BY <1>3 DEF SendDone, TypeOK
  <2>5. QED
    BY <1>3, <2>2, <2>3, <2>4 DEF SendDone, TypeOK
<1>4. ASSUME NEW w \in Workers, Exit(w) PROVE TypeOK'
  BY <1>4 DEF Exit, TypeOK
<1>5. CASE RecvDone
  <2>1. PICK k \in Len(errorsOut) .. N :
          /\ Flush([checked EXCEPT ![Head(done)] = TRUE], k)
          /\ dispatcher' = IF k = N THEN "returned" ELSE "running"
    BY <1>5 DEF RecvDone
  <2>2. errors \in [0 .. N - 1 -> Results]
    BY DEF TypeOK, Idx, Results
  <2>3. errorsOut \in Seq(Results)
    BY DEF TypeOK, Results
  <2>4. errorsOut' \in Seq(Results) /\ Len(errorsOut') = k
    BY <2>1, <2>2, <2>3, FlushAppend DEF Flush
  <2>5. Head(done) \in Idx /\ Tail(done) \in Seq(Idx) /\ Len(Tail(done)) = Len(done) - 1
    BY <1>5, HeadTailProperties DEF RecvDone, TypeOK
  <2>6. Len(Tail(done)) <= NumWorkers
    BY <2>5, WorkerCount DEF TypeOK
  <2>7. checked' \in [Idx -> BOOLEAN]
    BY <1>5, <2>5 DEF RecvDone, TypeOK
  <2>8. k <= N /\ dispatcher' \in {"running", "returned"}
    BY <2>1, NAssumption, LenProperties DEF TypeOK
  <2>9. QED
    BY <1>5, <2>4, <2>5, <2>6, <2>7, <2>8 DEF RecvDone, TypeOK, Results
<1>6. CASE Abort
  BY <1>6 DEF Abort, TypeOK
<1>7. CASE DispatchAbort
  BY <1>7 DEF DispatchAbort, TypeOK
<1>8. CASE UNCHANGED vars
  BY <1>8 DEF vars, TypeOK
<1>9. QED
  BY <1>1, <1>2, <1>3, <1>4, <1>5, <1>6, <1>7, <1>8 DEF Next

(* The type invariant holds in every state of every behaviour.           *)
THEOREM TypeCorrect == Spec => []TypeOK
BY TypeInit, TypeStep, PTL DEF Spec
-----------------------------------------------------------------------------
(* Ordered delivery.  The reorder loop forwards errors[out..k-1] because   *)
(* those indices are checked; that is sound only if a checked index, an    *)
(* index in the done buffer and the index of a worker about to send all    *)
(* hold a written verdict.  On the fast path nothing runs after Init.      *)

FastPathReturned == ~Spawned => dispatcher = "returned"
CheckedSound == \A i \in Idx : checked[i] => errors[i] = Verdict(i)
DoneSound == \A j \in 1 .. Len(done) : errors[done[j]] = Verdict(done[j])
SendingSound ==
  \A w \in Workers : wstate[w] = "sending" => errors[windex[w]] = Verdict(windex[w])

IInv ==
  /\ TypeOK
  /\ FastPathReturned
  /\ CheckedSound
  /\ DoneSound
  /\ SendingSound
  /\ OrderedDelivery

LEMMA IInvInit == Init => IInv
<1> SUFFICES ASSUME Init PROVE IInv
  OBVIOUS
<1>1. TypeOK
  BY TypeInit
<1>2. FastPathReturned /\ CheckedSound /\ DoneSound /\ SendingSound
  BY DEF Init, FastPathReturned, CheckedSound, DoneSound, SendingSound
<1>3. OrderedDelivery
  <2>1. CASE Spawned
    BY <2>1 DEF Init, OrderedDelivery
  <2>2. CASE ~Spawned
    BY <2>2, NAssumption DEF Init, OrderedDelivery, Expected
  <2>3. QED
    BY <2>1, <2>2
<1>4. QED
  BY <1>1, <1>2, <1>3 DEF IInv

LEMMA IInvStep == IInv /\ [Next]_vars => IInv'
<1> SUFFICES ASSUME IInv, [Next]_vars PROVE IInv'
  OBVIOUS
<1> USE NAssumption
<1>0. TypeOK /\ TypeOK'
  BY TypeStep DEF IInv
<1>1. ASSUME NEW w \in Workers, Receive(w) PROVE IInv'
  <2>1. wstate'[w] = "verifying"
    BY <1>0, <1>1 DEF Receive, TypeOK
  <2>2. SendingSound'
    BY <1>0, <1>1, <2>1 DEF IInv, SendingSound, Receive, TypeOK
  <2>3. QED
    BY <1>0, <1>1, <2>2 DEF IInv, Receive, FastPathReturned, CheckedSound, DoneSound, OrderedDelivery
<1>2. ASSUME NEW w \in Workers, Verify(w) PROVE IInv'
  <2>1. windex[w] \in Idx
    BY <1>0, WorkerCount DEF TypeOK
  <2>2. \A i \in Idx : errors'[i] = IF i = windex[w] THEN Verdict(i) ELSE errors[i]
    BY <1>0, <1>2, <2>1 DEF Verify, TypeOK
  <2>3. CheckedSound' /\ DoneSound'
    BY <1>0, <1>2, <2>2 DEF IInv, Verify, TypeOK, CheckedSound, DoneSound
  <2>4. SendingSound'
    BY <1>0, <1>2, <2>1, <2>2 DEF IInv, Verify, TypeOK, SendingSound
  <2>5. QED
    BY <1>0, <1>2, <2>3, <2>4 DEF IInv, Verify, FastPathReturned, OrderedDelivery
<1>3. ASSUME NEW w \in Workers, SendDone(w) PROVE IInv'
  <2>1. windex[w] \in Idx
    BY <1>0, WorkerCount DEF TypeOK
  <2>2. errors[windex[w]] = Verdict(windex[w])
    BY <1>3 DEF IInv, SendingSound, SendDone
  <2>3. DoneSound'
    <3>1. done' = Append(done, windex[w]) /\ done \in Seq(Idx)
      BY <1>0, <1>3 DEF SendDone, TypeOK
    <3>2. Len(done') = Len(done) + 1 /\ done'[Len(done) + 1] = windex[w]
          /\ \A j \in 1 .. Len(done) : done'[j] = done[j]
      BY <2>1, <3>1, AppendProperties
    <3>3. QED
      BY <1>3, <2>2, <3>2, LenProperties, <3>1 DEF IInv, DoneSound, SendDone
  <2>4. SendingSound'
    BY <1>0, <1>3 DEF IInv, SendingSound, SendDone, TypeOK
  <2>5. QED
    BY <1>0, <1>3, <2>3, <2>4 DEF IInv, SendDone, FastPathReturned, CheckedSound, OrderedDelivery
<1>4. ASSUME NEW w \in Workers, Exit(w) PROVE IInv'
  <2>1. SendingSound'
    BY <1>0, <1>4 DEF IInv, SendingSound, Exit, TypeOK
  <2>2. QED
    BY <1>0, <1>4, <2>1 DEF IInv, Exit, FastPathReturned, CheckedSound, DoneSound, OrderedDelivery
<1>5. CASE RecvDone
  <2> DEFINE out == Len(errorsOut)
             chk == [checked EXCEPT ![Head(done)] = TRUE]
  <2> USE DEF out
  <2>1. PICK k \in out .. N :
          /\ Flush(chk, k)
          /\ dispatcher' = IF k = N THEN "returned" ELSE "running"
    BY <1>5 DEF RecvDone
  <2>2. Spawned
    BY <1>5 DEF RecvDone, IInv, FastPathReturned
  <2>3. done \in Seq(Idx) /\ done # <<>>
    BY <1>0, <1>5 DEF RecvDone, TypeOK
  <2>4. Head(done) \in Idx /\ errors[Head(done)] = Verdict(Head(done))
    <3>1. Len(done) >= 1 /\ Head(done) = done[1]
      BY <2>3, HeadTailProperties, EmptySeq, LenProperties
    <3>2. QED
      BY <2>3, <3>1, HeadTailProperties DEF IInv, DoneSound
  <2>5. CheckedSound'
    BY <1>0, <1>5, <2>4 DEF IInv, CheckedSound, RecvDone, TypeOK
  <2>6. DoneSound'
    <3>1. Len(Tail(done)) = Len(done) - 1
          /\ \A j \in 1 .. Len(Tail(done)) : Tail(done)[j] = done[j + 1]
      BY <2>3, HeadTailProperties
    <3>2. QED
      BY <1>5, <3>1, LenProperties, <2>3 DEF IInv, DoneSound, RecvDone
  <2>7. SendingSound'
    BY <1>5 DEF IInv, SendingSound, RecvDone
  <2>8. OrderedDelivery'
    <3>1. errors \in [0 .. N - 1 -> Results] /\ errorsOut \in Seq(Results)
      BY <1>0 DEF TypeOK, Idx, Results
    <3>2. /\ \A j \in 1 .. k : errorsOut'[j] = IF j <= out THEN errorsOut[j] ELSE errors[j - 1]
          /\ Len(errorsOut') = k
      <4>1. errorsOut' = errorsOut \o [j \in 1 .. k - out |-> errors[out + j - 1]]
        BY <2>1 DEF Flush
      <4>2. k \in Len(errorsOut) .. N /\ N \in Nat
        OBVIOUS
      <4>3. /\ Len(errorsOut \o [j \in 1 .. k - Len(errorsOut) |-> errors[Len(errorsOut) + j - 1]]) = k
            /\ \A j \in 1 .. k :
                 (errorsOut \o [j2 \in 1 .. k - Len(errorsOut) |-> errors[Len(errorsOut) + j2 - 1]])[j]
                   = IF j <= Len(errorsOut) THEN errorsOut[j] ELSE errors[j - 1]
        BY <4>2, <3>1, FlushAppend
      <4>4. QED
        BY <4>1, <4>3
    <3>3. \A j \in out .. k - 1 : chk[j]
      BY <2>1 DEF Flush
    <3>4. \A j \in out .. k - 1 : errors[j] = Verdict(j)
      BY <1>0, <2>4, <3>3 DEF IInv, CheckedSound, TypeOK, Idx
    <3>5. \A j \in 1 .. k : errorsOut'[j] = Expected(j - 1)
      BY <2>2, <3>2, <3>4, <3>1, LenProperties DEF IInv, OrderedDelivery, Expected
    <3>6. QED
      BY <3>2, <3>5 DEF OrderedDelivery
  <2>9. FastPathReturned'
    BY <2>2 DEF FastPathReturned
  <2>10. QED
    BY <1>0, <2>5, <2>6, <2>7, <2>8, <2>9 DEF IInv
<1>6. CASE Abort
  BY <1>0, <1>6 DEF Abort, IInv, FastPathReturned, CheckedSound, DoneSound, SendingSound, OrderedDelivery
<1>7. CASE DispatchAbort
  BY <1>0, <1>7 DEF DispatchAbort, IInv, FastPathReturned, CheckedSound, DoneSound, SendingSound, OrderedDelivery
<1>8. CASE UNCHANGED vars
  BY <1>0, <1>8 DEF vars, IInv, FastPathReturned, CheckedSound, DoneSound, SendingSound, OrderedDelivery
<1>9. QED
  BY <1>1, <1>2, <1>3, <1>4, <1>5, <1>6, <1>7, <1>8 DEF Next

(* Every value the caller reads from the results channel of VerifyHeaders *)
(* is the verdict of the header at that position, whatever the number of  *)
(* headers and of workers and whatever the interleaving of the goroutines. *)
THEOREM OrderedCorrect == Spec => []OrderedDelivery
<1>1. Init => IInv
  BY IInvInit
<1>2. IInv /\ [Next]_vars => IInv'
  BY IInvStep
<1>3. IInv => OrderedDelivery
  BY DEF IInv
<1>4. QED
  BY <1>1, <1>2, <1>3, PTL DEF Spec

-----------------------------------------------------------------------------
(* Refinement.  VerifyHeaders implements the safety part of HeaderResults *)
(* under the mapping results <- errorsOut, Answer <- Expected: its        *)
(* initial states are initial states of HeaderResults, and every step of  *)
(* the pipeline delivers the next verdicts in order, closes abort, or     *)
(* leaves both the results and abort as they were.                       *)

(* A sequence whose j-th value is the verdict of header j-1 is the prefix *)
(* of the promised verdicts of its own length.                            *)
LEMMA PromisedPrefix ==
  ASSUME NEW s \in Seq(Results), Len(s) <= N,
         \A j \in 1 .. Len(s) : s[j] = Expected(j - 1)
  PROVE  s = HR!Promised(Len(s)) /\ Len(s) \in 0 .. N
<1>1. Len(s) \in Nat /\ DOMAIN s = 1 .. Len(s)
  BY LenProperties
<1>2. QED
  BY <1>1 DEF HR!Promised

(* How a step of the pipeline moves the caller's view: the results only   *)
(* grow, abort is closed only by the caller's Abort and only while open,  *)
(* and the results and abort never change in the same step.               *)
LEMMA CallerView ==
  ASSUME TypeOK, [Next]_vars
  PROVE  /\ Len(errorsOut') >= Len(errorsOut)
         /\ aborted' # aborted => ~aborted /\ aborted' = TRUE /\ errorsOut' = errorsOut
         /\ errorsOut' # errorsOut => aborted' = aborted
<1> USE NAssumption
<1>1. CASE \E w \in Workers : Receive(w) \/ Verify(w) \/ SendDone(w) \/ Exit(w)
  BY <1>1 DEF Receive, Verify, SendDone, Exit
<1>2. CASE RecvDone
  <2>1. PICK k \in Len(errorsOut) .. N :
          errorsOut' = errorsOut \o [j \in 1 .. k - Len(errorsOut) |-> errors[Len(errorsOut) + j - 1]]
    BY <1>2 DEF RecvDone, Flush
  <2>2. errors \in [0 .. N - 1 -> Results] /\ errorsOut \in Seq(Results)
    BY DEF TypeOK, Idx, Results
  <2>3. Len(errorsOut') = k
    BY <2>1, <2>2, FlushAppend
  <2>4. aborted' = aborted
    BY <1>2 DEF RecvDone
  <2>5. QED
    BY <2>1, <2>2, <2>3, <2>4, LenProperties
<1>3. CASE Abort
  <2>1. Len(errorsOut) \in Nat
    BY LenProperties DEF TypeOK
  <2>2. errorsOut' = errorsOut /\ ~aborted /\ aborted' = TRUE
    BY <1>3 DEF Abort
  <2>3. Len(errorsOut') >= Len(errorsOut)
    BY <2>1, <2>2
  <2>4. QED
    BY <2>2, <2>3, Zenon
<1>4. CASE DispatchAbort
  BY <1>4 DEF DispatchAbort
<1>5. CASE UNCHANGED vars
  BY <1>5 DEF vars
<1>6. QED
  BY <1>1, <1>2, <1>3, <1>4, <1>5 DEF Next

(* Every step of the pipeline, between states of the inductive invariant, *)
(* is a step of HeaderResults or leaves what the caller sees unchanged.   *)
LEMMA RefineStep ==
  ASSUME IInv, IInv', [Next]_vars
  PROVE  [HR!Next]_HR!vars
<1>1. /\ errorsOut = HR!Promised(Len(errorsOut)) /\ Len(errorsOut) \in 0 .. N
      /\ errorsOut' = HR!Promised(Len(errorsOut')) /\ Len(errorsOut') \in 0 .. N
  <2>1. errorsOut \in Seq(Results) /\ Len(errorsOut) <= N
        /\ errorsOut' \in Seq(Results) /\ Len(errorsOut') <= N
    BY DEF IInv, TypeOK, Results
  <2>2. \A j \in 1 .. Len(errorsOut) : errorsOut[j] = Expected(j - 1)
    BY DEF IInv, OrderedDelivery
  <2>3. \A j \in 1 .. Len(errorsOut') : errorsOut'[j] = Expected(j - 1)
    BY DEF IInv, OrderedDelivery
  <2>4. QED
    BY <2>1, <2>2, <2>3, PromisedPrefix
<1>2. /\ Len(errorsOut') >= Len(errorsOut)
      /\ aborted' # aborted => ~aborted /\ aborted' = TRUE /\ errorsOut' = errorsOut
      /\ errorsOut' # errorsOut => aborted' = aborted
  BY CallerView DEF IInv
<1>3. CASE Len(errorsOut') = Len(errorsOut)
  <2>1. errorsOut' = errorsOut
    BY <1>1, <1>3
  <2>2. CASE aborted' = aborted
    BY <2>1, <2>2 DEF HR!vars
  <2>3. CASE aborted' # aborted
    BY <1>2, <2>3 DEF HR!Next, HR!Abort
  <2>4. QED
    BY <2>2, <2>3
<1>4. CASE Len(errorsOut') # Len(errorsOut)
  <2>1. Len(errorsOut') \in Len(errorsOut) + 1 .. N
    BY <1>1, <1>2, <1>4
  <2>2. aborted' = aborted
    BY <1>2, <1>4
  <2>3. HR!Deliver
    BY <1>1, <2>1, <2>2 DEF HR!Deliver
  <2>4. QED
    BY <2>3 DEF HR!Next
<1>5. QED
  BY <1>3, <1>4

(* The results channel of VerifyHeaders behaves as HeaderResults (spec    *)
(* section 4.1) promises: it starts with a prefix of the verdicts, and    *)
(* every step either delivers the next verdicts in input order or is the  *)
(* caller closing abort; a delivered result is never changed.  The        *)
(* liveness half of Refines (all N arrive unless the caller aborts) is    *)
(* checked by TLC only.                                                   *)
THEOREM RefinesSafety == Spec => HR!Init /\ [][HR!Next]_HR!vars
<1>1. Init => HR!Init
  <2> SUFFICES ASSUME Init PROVE HR!Init
    OBVIOUS
  <2>1. IInv
    BY IInvInit
  <2>2. errorsOut = HR!Promised(Len(errorsOut)) /\ Len(errorsOut) \in 0 .. N
    BY <2>1, PromisedPrefix DEF IInv, TypeOK, Results, OrderedDelivery
  <2>3. QED
    BY <2>2 DEF Init, HR!Init
<1>2. IInv /\ IInv' /\ [Next]_vars => [HR!Next]_HR!vars
  BY RefineStep
<1>3. QED
  BY <1>1, <1>2, IInvInit, IInvStep, PTL DEF Spec
=============================================================================
