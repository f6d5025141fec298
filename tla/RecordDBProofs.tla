-------------------------- MODULE RecordDBProofs ---------------------------
(***************************************************************************)
(* Proof that NewRecordDB opens the side database at most once when a      *)
(* single goroutine uses it, for every number of calls, keys and values.  *)
(* With two goroutines the run RecordDB_race shows that it does not hold.  *)
(***************************************************************************)
EXTENDS RecordDB, TLAPS

(* The inductive strengthening of OpenedOnce.  While the process runs,    *)
(* recodDB is nil exactly when leveldb.New has not been called, and a     *)
(* goroutine that is about to call leveldb.New saw nil and still sees it: *)
(* the last conjunct is what a second goroutine breaks.                   *)
IInv ==
  /\ TypeOK
  /\ opens <= 1
  /\ exit = "none" => (recodDB = Nil <=> opens = 0)
  /\ \A g \in Callers : pc[g] = "open" /\ exit = "none" => recodDB = Nil

(* The process starts with recodDB nil and no call of leveldb.New.        *)
LEMMA InitIInv ==
  Init => IInv
  <1> SUFFICES ASSUME Init PROVE IInv
    OBVIOUS
  <1>1. (CHOOSE o \in Ops : TRUE) \in Ops
    <2>1. PICK k \in Keys : TRUE
      BY RecordDBAssumption
    <2>2. [kind |-> "get", key |-> k] \in Ops
      BY DEF Ops
    <2>3. QED
      BY <2>2
  <1>2. QED
    BY <1>1, RecordDBAssumption DEF Init, IInv, TypeOK, Handles

(* Every step keeps the strengthening when one goroutine is the only      *)
(* caller.                                                                 *)
LEMMA StepIInv ==
  ASSUME NEW c, Callers = {c}, IInv, [Next]_vars
  PROVE  IInv'
  <1> USE RecordDBAssumption
  <1>1. CASE Call(c)
    BY <1>1 DEF IInv, Call, TypeOK, Handles
  <1>2. CASE Check(c)
    BY <1>2 DEF IInv, Check, TypeOK, Handles
  <1>3. CASE UserFails(c)
    BY <1>3 DEF IInv, UserFails, TypeOK, Handles
  <1>4. CASE Open(c)
    <2>1. recodDB = Nil /\ opens = 0 /\ exit = "none" /\ pc[c] = "open"
      BY <1>4 DEF IInv, Open
    <2>2. /\ opens' = 1 /\ recodDB' = 1 /\ exit' = "none"
          /\ db' = [db EXCEPT ![c] = 1] /\ pc' = [pc EXCEPT ![c] = "use"]
          /\ UNCHANGED <<store, op, calls>>
      BY <1>4, <2>1 DEF Open
    <2>3. QED
      BY <2>1, <2>2 DEF IInv, TypeOK, Handles
  <1>5. CASE OpenFails(c)
    BY <1>5 DEF IInv, OpenFails, TypeOK, Handles
  <1>6. CASE Use(c)
    <2>1. store' \in [Keys -> Values \cup {Absent}]
      BY <1>6 DEF IInv, Use, TypeOK, Ops
    <2>2. QED
      BY <1>6, <2>1 DEF IInv, Use, TypeOK, Handles
  <1>7. CASE UNCHANGED vars
    BY <1>7 DEF IInv, vars, TypeOK, Handles
  <1>8. QED
    BY <1>1, <1>2, <1>3, <1>4, <1>5, <1>6, <1>7 DEF Next

(* With the block importer as the only goroutine that saves and reads     *)
(* coinbase records, the lazy open of NewRecordDB calls leveldb.New at    *)
(* most once, whatever the calls, the keys and the failures.               *)
THEOREM SequentialOpenedOnce ==
  ASSUME NEW c, Callers = {c}
  PROVE  Spec => []OpenedOnce
  <1>1. IInv => OpenedOnce
    BY DEF IInv, OpenedOnce
  <1>2. IInv /\ [Next]_vars => IInv'
    BY StepIInv
  <1>3. QED
    BY <1>1, <1>2, InitIInv, PTL DEF Spec
=============================================================================
