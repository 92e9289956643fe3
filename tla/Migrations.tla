------------------------------ MODULE Migrations ------------------------------
(***************************************************************************)
(* Opening the database: getDb of src/main/db/singleton.ts, openDb of      *)
(* connection.ts and runMigrations of migrations/runner.ts.                *)
(*                                                                         *)
(* The program may run more than once on the same file: nothing asks for   *)
(* the single-instance lock.  Each process reads once which migrations are *)
(* recorded, and then makes the others in order, each in a transaction     *)
(* with its row.  Another process may do the same meanwhile, and a process *)
(* may end between any two steps.                                          *)
(*                                                                         *)
(* SQLite has one writer at a time; a transaction of a process that ends   *)
(* is rolled back.  Migration m is the m-th of the .sql files by name.     *)
(***************************************************************************)
EXTENDS Naturals

CONSTANTS
  Process,
  Nobody,
  N,           \* number of migrations
  Repeatable,  \* migrations whose statements run a second time without an error
  MaxEnds      \* bound: ends of processes

Migration == 1 .. N

ASSUME MigrationsAssumption ==
  /\ Nobody \notin Process
  /\ N \in Nat
  /\ Repeatable \subseteq Migration
  /\ MaxEnds \in Nat

VARIABLES
  schema,   \* per migration, how often its statements are committed
  ledger,   \* _migrations
  writer,   \* the process whose transaction is open
  proc,     \* per process, where it is, and the migrations it still has to make
  ends      \* ends of processes so far

vars == <<schema, ledger, writer, proc, ends>>

Opening == {"migrating", "executed"}
At      == {"down", "up", "ready"} \cup Opening

TypeOK ==
  /\ schema \in [Migration -> Nat]
  /\ ledger \subseteq Migration
  /\ writer \in Process \cup {Nobody}
  /\ proc \in [Process -> [at : At, todo : SUBSET Migration]]
  /\ ends \in 0 .. MaxEnds

(* The file is new, or what a version with fewer migrations left.           *)
Init ==
  /\ \E k \in 0 .. N : /\ ledger = 1 .. k
                       /\ schema = [m \in Migration |-> IF m \in ledger THEN 1 ELSE 0]
  /\ writer = Nobody
  /\ proc = [p \in Process |-> [at |-> "down", todo |-> {}]]
  /\ ends = 0

-----------------------------------------------------------------------------
Becomes(p, at, todo) == proc' = [proc EXCEPT ![p] = [at |-> at, todo |-> todo]]

StartUp(p) ==
  /\ proc[p].at = "down"
  /\ Becomes(p, "up", {})
  /\ UNCHANGED <<schema, ledger, writer, ends>>

(* Mutated form: a file that has migrations is taken for up to date. *)
OpenIfNew(p) ==
  /\ proc[p].at = "up"
  /\ Becomes(p, "migrating", IF ledger = {} THEN Migration ELSE {})
  /\ UNCHANGED <<schema, ledger, writer, ends>>

(* getDb without an instance. *)
Open(p) ==
  /\ proc[p].at = "up"
  /\ Becomes(p, "migrating", Migration \ ledger)
  /\ UNCHANGED <<schema, ledger, writer, ends>>

(* getDb throws and the instance stays null: the next call opens anew. *)
Throws(p) == Becomes(p, "up", {})

(* Mutated form: the files in no order. *)
IsLast(p, m) == m \in proc[p].todo /\ \A k \in proc[p].todo : k <= m

(* The migration that p comes to: the files are sorted by name.             *)
IsNext(p, m) == m \in proc[p].todo /\ \A k \in proc[p].todo : m <= k

(* The statements of m: they build on those before, and adding a column     *)
(* twice is an error.                                                       *)
Runs(m) ==
  /\ \A k \in 1 .. m - 1 : schema[k] # 0
  /\ schema[m] = 0 \/ m \in Repeatable

(* Mutated form: no transaction, so that each statement commits. *)
ExecuteAlone(p, m) ==
  /\ proc[p].at = "migrating" /\ IsNext(p, m)
  /\ writer = Nobody
  /\ IF Runs(m)
       THEN /\ writer' = p
            /\ schema' = [schema EXCEPT ![m] = 1]
            /\ Becomes(p, "executed", proc[p].todo)
       ELSE Throws(p) /\ UNCHANGED <<schema, writer>>
  /\ UNCHANGED <<ledger, ends>>

(* BEGIN, and the file's statements.                                        *)
Execute(p, m) ==
  /\ proc[p].at = "migrating" /\ IsNext(p, m)
  /\ writer = Nobody
  /\ IF Runs(m)
       THEN /\ writer' = p
            /\ Becomes(p, "executed", proc[p].todo)
       ELSE Throws(p) /\ UNCHANGED writer
  /\ UNCHANGED <<schema, ledger, ends>>

(* The busy timeout: another process writes for too long. *)
Busy(p) ==
  /\ proc[p].at = "migrating" /\ proc[p].todo # {}
  /\ writer # Nobody
  /\ Throws(p)
  /\ UNCHANGED <<schema, ledger, writer, ends>>

(* Mutated form: the row is that of the next file. *)
RecordAhead(p, m) ==
  /\ proc[p].at = "executed" /\ IsNext(p, m)
  /\ writer' = Nobody
  /\ IF m \in ledger
       THEN Throws(p) /\ UNCHANGED <<schema, ledger>>
       ELSE /\ ledger' = ledger \cup {m + 1}
            /\ schema' = [schema EXCEPT ![m] = @ + 1]
            /\ Becomes(p, "migrating", proc[p].todo \ {m})
  /\ UNCHANGED ends

(* The row of m, whose id is the key of _migrations, and COMMIT. *)
Record(p, m) ==
  /\ proc[p].at = "executed" /\ IsNext(p, m)
  /\ writer' = Nobody
  /\ IF m \in ledger
       THEN Throws(p) /\ UNCHANGED <<schema, ledger>>
       ELSE /\ ledger' = ledger \cup {m}
            /\ schema' = [schema EXCEPT ![m] = @ + 1]
            /\ Becomes(p, "migrating", proc[p].todo \ {m})
  /\ UNCHANGED ends

Opened(p) ==
  /\ proc[p].at = "migrating" /\ proc[p].todo = {}
  /\ Becomes(p, "ready", {})
  /\ UNCHANGED <<schema, ledger, writer, ends>>

(* The process ends, however it does. *)
End(p) ==
  /\ ends < MaxEnds
  /\ proc[p].at # "down"
  /\ ends' = ends + 1
  /\ Becomes(p, "down", {})
  /\ writer' = IF writer = p THEN Nobody ELSE writer
  /\ UNCHANGED <<schema, ledger>>

Progress(p) ==
  \/ Open(p)
  \/ \E m \in Migration : Execute(p, m) \/ Record(p, m)
  \/ Opened(p)

Next == \E p \in Process : StartUp(p) \/ Progress(p) \/ Busy(p) \/ End(p)

Spec == Init /\ [][Next]_vars

(* The window calls the main process again and again, and statements end.   *)
Fairness == \A p \in Process : WF_vars(Progress(p))

FairSpec == Spec /\ Fairness

-----------------------------------------------------------------------------
(* Properties.                                                              *)

(* The schema is what _migrations says: each migration's statements are     *)
(* committed once if it is recorded and not at all else, and those recorded *)
(* are the first ones, so a start never meets a half-made migration         *)
(* (migrations/runner.ts:44-48).                                            *)
SchemaIsRecorded ==
  /\ \A m \in Migration : schema[m] = IF m \in ledger THEN 1 ELSE 0
  /\ \A m \in ledger : 1 .. m \subseteq ledger

(* A process that has its database has the whole schema, though another one *)
(* may have made any part of it (singleton.ts:13-18).                       *)
ReadyHasAll ==
  \A p \in Process : proc[p].at = "ready" => ledger = Migration

(* What is migrated stays so. *)
OneAfterTheOther ==
  [][\E m \in Migration : m \notin ledger /\ ledger' = ledger \cup {m} /\ 1 .. m - 1 \subseteq ledger]_ledger

(* However the processes get in each other's way, and whatever they read    *)
(* before the other one committed, each has its database in the end.        *)
GetsItsDatabase ==
  \A p \in Process : proc[p].at = "up" ~> proc[p].at \in {"ready", "down"}

=============================================================================
