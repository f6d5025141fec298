------------------------------ MODULE RecordDB ------------------------------
(***************************************************************************)
(* The mining-rewards side database of src/ethdb/reward/record_db.go and   *)
(* its writer CoinbaseTxs.Save (src/consensus/ethash/consensus_reward.go   *)
(* lines 497-502), called at the end of every Finalize.                    *)
(*                                                                         *)
(* NewRecordDB opens the database lazily into the package variable         *)
(* recodDB, with no lock: the test `recodDB != nil` and the assignment of  *)
(* leveldb.New's result are separate steps of the calling goroutine.       *)
(* Every goroutine that finalises a block (the miner's                     *)
(* FinalizeAndAssemble, the importer's Finalize) and every reader of       *)
(* GetRewardsByNumber goes through it.                                     *)
(*                                                                         *)
(* LevelDB (a dependency, not part of the repository) holds a lock file in *)
(* the database directory while a handle is open: a second leveldb.New of  *)
(* the same directory fails.  It may also fail for reasons of its own (a   *)
(* disk or permission error); so may a Put.  log.Fatal ends the process.   *)
(***************************************************************************)
EXTENDS Naturals

CONSTANTS
  Callers,    \* goroutines that call Save or GetRewardsByNumber
  Keys,       \* block numbers
  Values,     \* coinbase records
  MaxCalls,   \* calls each goroutine makes
  Nil         \* the nil *leveldb.Database

ASSUME RecordDBAssumption ==
  /\ MaxCalls \in Nat
  /\ Nil \notin Nat
  /\ Keys # {}

VARIABLES
  recodDB,    \* the package variable: Nil or the handle (a number) stored in it
  opens,      \* calls of leveldb.New so far; handle i is the i-th one
  store,      \* the database contents on disk
  pc,         \* each goroutine's position
  op,         \* each goroutine's current call
  db,         \* each goroutine's local db, the handle NewRecordDB returned
  calls,      \* calls each goroutine has made
  exit        \* "none", or why log.Fatal ended the process

vars == <<recodDB, opens, store, pc, op, db, calls, exit>>

Absent == "absent"

Ops == [kind : {"save"}, key : Keys, val : Values] \cup [kind : {"get"}, key : Keys]

Init ==
  /\ recodDB = Nil
  /\ opens = 0
  /\ store = [k \in Keys |-> Absent]
  /\ pc = [g \in Callers |-> "idle"]
  /\ op = [g \in Callers |-> CHOOSE o \in Ops : TRUE]
  /\ db = [g \in Callers |-> Nil]
  /\ calls = [g \in Callers |-> 0]
  /\ exit = "none"

(* Save(number) or GetRewardsByNumber(number) begins with NewRecordDB.    *)
Call(g) ==
  /\ exit = "none"
  /\ pc[g] = "idle"
  /\ calls[g] < MaxCalls
  /\ \E o \in Ops : op' = [op EXCEPT ![g] = o]
  /\ pc' = [pc EXCEPT ![g] = "check"]
  /\ calls' = [calls EXCEPT ![g] = @ + 1]
  /\ UNCHANGED <<recodDB, opens, store, db, exit>>

(* `if recodDB != nil { return recodDB }`: an unsynchronised read of the  *)
(* package variable.                                                       *)
Check(g) ==
  /\ exit = "none"
  /\ pc[g] = "check"
  /\ IF recodDB # Nil
       THEN /\ db' = [db EXCEPT ![g] = recodDB]
            /\ pc' = [pc EXCEPT ![g] = "use"]
       ELSE /\ pc' = [pc EXCEPT ![g] = "open"]
            /\ db' = db
  /\ UNCHANGED <<recodDB, opens, store, op, calls, exit>>

(* user.Current() fails: log.Fatal.                                        *)
UserFails(g) ==
  /\ exit = "none"
  /\ pc[g] = "open"
  /\ exit' = "user"
  /\ UNCHANGED <<recodDB, opens, store, pc, op, db, calls>>

(* A mutant of Open: `db, err := leveldb.New(...)` declares a local and    *)
(* leaves the package variable nil.                                        *)
OpenShadowed(g) ==
  /\ exit = "none"
  /\ pc[g] = "open"
  /\ opens' = opens + 1
  /\ IF opens = 0
       THEN /\ db' = [db EXCEPT ![g] = opens + 1]
            /\ pc' = [pc EXCEPT ![g] = "use"]
            /\ exit' = exit
       ELSE /\ exit' = "locked"
            /\ UNCHANGED <<pc, db>>
  /\ UNCHANGED <<recodDB, store, op, calls>>

(* `recodDB, err = leveldb.New(path, 32, 32, "mining")`: the open succeeds *)
(* when no handle holds the directory's lock, and recodDB is assigned;     *)
(* when one does, New fails and log.Fatal ends the process.                *)
Open(g) ==
  /\ exit = "none"
  /\ pc[g] = "open"
  /\ opens' = opens + 1
  /\ IF opens = 0
       THEN /\ recodDB' = opens + 1
            /\ db' = [db EXCEPT ![g] = opens + 1]
            /\ pc' = [pc EXCEPT ![g] = "use"]
            /\ exit' = exit
       ELSE /\ exit' = "locked"
            /\ UNCHANGED <<recodDB, pc, db>>
  /\ UNCHANGED <<store, op, calls>>

(* leveldb.New fails on its own (disk, permissions): log.Fatal.            *)
OpenFails(g) ==
  /\ exit = "none"
  /\ pc[g] = "open"
  /\ opens = 0
  /\ opens' = opens + 1
  /\ exit' = "io"
  /\ UNCHANGED <<recodDB, store, pc, op, db, calls>>

(* Save: `return db.Put(number.Bytes(), rewardRecords)`; Finalize drops   *)
(* the error (consensus.go line 707), so a failed Put just returns.       *)
(* GetRewardsByNumber: db.Get, with []byte{} on error; it changes nothing. *)
Use(g) ==
  /\ exit = "none"
  /\ pc[g] = "use"
  /\ \/ /\ op[g].kind = "save"
        /\ store' = [store EXCEPT ![op[g].key] = op[g].val]
     \/ UNCHANGED store
  /\ pc' = [pc EXCEPT ![g] = "idle"]
  /\ UNCHANGED <<recodDB, opens, op, db, calls, exit>>

Next ==
  \E g \in Callers :
    \/ Call(g) \/ Check(g) \/ UserFails(g) \/ Open(g) \/ OpenFails(g) \/ Use(g)

Spec == Init /\ [][Next]_vars

Handles == {Nil} \cup (1 .. opens)

TypeOK ==
  /\ recodDB \in Handles
  /\ opens \in Nat
  /\ store \in [Keys -> Values \cup {Absent}]
  /\ pc \in [Callers -> {"idle", "check", "open", "use"}]
  /\ op \in [Callers -> Ops]
  /\ db \in [Callers -> Handles]
  /\ calls \in [Callers -> 0 .. MaxCalls]
  /\ exit \in {"none", "user", "io", "locked"}

(* The side database is a process-wide resource opened once and reused    *)
(* (spec section 5): NewRecordDB calls leveldb.New at most once in the     *)
(* life of the process, whichever goroutines call Save and                 *)
(* GetRewardsByNumber and in whatever order.                               *)
OpenedOnce == opens <= 1
=============================================================================
