--------------------------- MODULE MigrationsProofs ---------------------------
(***************************************************************************)
(* What holds of Migrations for every number of processes, migrations and  *)
(* ends of processes.                                                      *)
(***************************************************************************)
EXTENDS Migrations, TLAPS

(* A process that is migrating, or has its database, has on its list every  *)
(* migration that is not recorded yet: it read the record before it began.  *)
TodoCovers ==
  \A p \in Process : proc[p].at \in Opening \cup {"ready"} => Migration \ ledger \subseteq proc[p].todo

(* A process that has its database has nothing left to do. *)
ReadyIsDone == \A p \in Process : proc[p].at = "ready" => proc[p].todo = {}

IInv == TypeOK /\ SchemaIsRecorded /\ TodoCovers /\ ReadyIsDone

USE MigrationsAssumption DEF MigrationsAssumption

-----------------------------------------------------------------------------
LEMMA InitHolds == Init => IInv
  <1> SUFFICES ASSUME Init PROVE IInv
    OBVIOUS
  <1>1. PICK k \in 0 .. N : /\ ledger = 1 .. k
                            /\ schema = [m \in Migration |-> IF m \in ledger THEN 1 ELSE 0]
    BY DEF Init
  <1>2. TypeOK
    BY <1>1 DEF Init, TypeOK, Migration, At, Opening
  <1>3. SchemaIsRecorded
    BY <1>1 DEF SchemaIsRecorded, Migration
  <1>4. TodoCovers /\ ReadyIsDone
    BY DEF Init, TodoCovers, ReadyIsDone, Opening
  <1> QED BY <1>2, <1>3, <1>4 DEF IInv

(* A step that leaves the file alone.                                       *)
LEMMA OnlyProcess ==
  ASSUME IInv, NEW p \in Process, NEW at \in At, NEW todo \in SUBSET Migration,
         Becomes(p, at, todo), UNCHANGED <<schema, ledger>>,
         writer' \in Process \cup {Nobody}, ends' \in 0 .. MaxEnds,
         at \in Opening \cup {"ready"} => Migration \ ledger \subseteq todo,
         at = "ready" => todo = {}
  PROVE  IInv'
  <1>1. proc'[p] = [at |-> at, todo |-> todo] /\ \A q \in Process \ {p} : proc'[q] = proc[q]
    BY DEF Becomes, IInv, TypeOK
  <1>2. proc' \in [Process -> [at : At, todo : SUBSET Migration]]
    BY DEF Becomes, IInv, TypeOK
  <1>3. TypeOK'
    BY <1>2 DEF IInv, TypeOK
  <1>4. SchemaIsRecorded'
    BY DEF IInv, SchemaIsRecorded
  <1>5. TodoCovers'
    BY <1>1 DEF IInv, TodoCovers
  <1>6. ReadyIsDone'
    BY <1>1 DEF IInv, ReadyIsDone
  <1> QED BY <1>3, <1>4, <1>5, <1>6 DEF IInv

LEMMA Places == {"down", "up", "ready", "migrating", "executed"} \subseteq At
  BY DEF At, Opening

LEMMA ThrowsKeeps ==
  ASSUME IInv, NEW p \in Process, Throws(p), UNCHANGED <<schema, ledger>>,
         writer' \in Process \cup {Nobody}, ends' = ends
  PROVE  IInv'
  <1>1. ends' \in 0 .. MaxEnds
    BY DEF IInv, TypeOK
  <1> QED BY <1>1, OnlyProcess, Places DEF Throws, Opening

(* The migrations before the next one of p are recorded. *)
LEMMA NextIsNext ==
  ASSUME IInv, NEW p \in Process, NEW m \in Migration, IsNext(p, m), proc[p].at \in Opening
  PROVE  1 .. m - 1 \subseteq ledger
  BY DEF IInv, TodoCovers, IsNext, TypeOK, Migration

LEMMA RecordKeeps ==
  ASSUME IInv, NEW p \in Process, NEW m \in Migration, Record(p, m)
  PROVE  IInv'
  <1>1. CASE m \in ledger
    BY <1>1, ThrowsKeeps DEF Record
  <1>2. CASE m \notin ledger
    <2>1. /\ proc[p].at = "executed" /\ IsNext(p, m)
          /\ writer' = Nobody /\ ends' = ends
          /\ ledger' = ledger \cup {m}
          /\ schema' = [schema EXCEPT ![m] = @ + 1]
          /\ Becomes(p, "migrating", proc[p].todo \ {m})
      BY <1>2 DEF Record
    <2>2. /\ proc'[p] = [at |-> "migrating", todo |-> proc[p].todo \ {m}]
          /\ \A q \in Process \ {p} : proc'[q] = proc[q]
          /\ proc' \in [Process -> [at : At, todo : SUBSET Migration]]
      BY <2>1, Places DEF Becomes, IInv, TypeOK
    <2>3. TypeOK'
      BY <2>1, <2>2 DEF IInv, TypeOK
    <2>4. SchemaIsRecorded'
      <3>1. schema[m] = 0
        BY <1>2 DEF IInv, SchemaIsRecorded
      <3>2. \A k \in Migration : schema'[k] = IF k \in ledger' THEN 1 ELSE 0
        BY <2>1, <3>1 DEF IInv, TypeOK, SchemaIsRecorded
      <3>3. 1 .. m - 1 \subseteq ledger
        BY <2>1, NextIsNext DEF Opening
      <3>4. 1 .. m \subseteq ledger'
        BY <2>1, <3>3 DEF Migration
      <3>5. \A k \in ledger' : 1 .. k \subseteq ledger'
        BY <2>1, <3>4 DEF IInv, SchemaIsRecorded
      <3> QED BY <3>2, <3>5 DEF SchemaIsRecorded
    <2>5. TodoCovers'
      BY <2>1, <2>2 DEF IInv, TodoCovers, Opening
    <2>6. ReadyIsDone'
      BY <2>2 DEF IInv, ReadyIsDone
    <2> QED BY <2>3, <2>4, <2>5, <2>6 DEF IInv
  <1> QED BY <1>1, <1>2

LEMMA StepHolds == IInv /\ [Next]_vars => IInv'
  <1> SUFFICES ASSUME IInv, [Next]_vars PROVE IInv'
    OBVIOUS
  <1>1. CASE UNCHANGED vars
    BY <1>1 DEF vars, IInv, TypeOK, SchemaIsRecorded, TodoCovers, ReadyIsDone
  <1>2. ends \in 0 .. MaxEnds /\ writer \in Process \cup {Nobody}
    BY DEF IInv, TypeOK
  <1>3. ASSUME NEW p \in Process, StartUp(p) PROVE IInv'
    BY <1>2, <1>3, OnlyProcess, Places DEF StartUp, Opening
  <1>4. ASSUME NEW p \in Process, Open(p) PROVE IInv'
    BY <1>2, <1>4, OnlyProcess, Places DEF Open, Opening
  <1>5. ASSUME NEW p \in Process, NEW m \in Migration, Execute(p, m) PROVE IInv'
    <2>1. CASE Runs(m)
      <3>1. proc[p].todo \in SUBSET Migration /\ Migration \ ledger \subseteq proc[p].todo
        BY <1>5 DEF Execute, IInv, TypeOK, TodoCovers, Opening
      <3> QED BY <1>2, <1>5, <2>1, <3>1, OnlyProcess, Places DEF Execute
    <2>2. CASE ~Runs(m)
      BY <1>2, <1>5, <2>2, ThrowsKeeps DEF Execute
    <2> QED BY <2>1, <2>2
  <1>6. ASSUME NEW p \in Process, Busy(p) PROVE IInv'
    BY <1>2, <1>6, ThrowsKeeps DEF Busy
  <1>7. ASSUME NEW p \in Process, Opened(p) PROVE IInv'
    <2>1. Migration \ ledger \subseteq {}
      BY <1>7 DEF Opened, IInv, TodoCovers, Opening
    <2> QED BY <1>2, <1>7, <2>1, OnlyProcess, Places DEF Opened
  <1>8. ASSUME NEW p \in Process, End(p) PROVE IInv'
    <2>1. ends' \in 0 .. MaxEnds /\ writer' \in Process \cup {Nobody}
      BY <1>2, <1>8 DEF End
    <2> QED BY <1>8, <2>1, OnlyProcess, Places DEF End, Opening
  <1> QED BY <1>1, <1>3, <1>4, <1>5, <1>6, <1>7, <1>8, RecordKeeps DEF Next, Progress

LEMMA Inductive == Spec => []IInv
  BY InitHolds, StepHolds, PTL DEF Spec

-----------------------------------------------------------------------------
(* The state has its types. *)
THEOREM TypesAreRight == Spec => []TypeOK
  <1>1. IInv => TypeOK
    BY DEF IInv
  <1> QED BY <1>1, Inductive, PTL

(* However many processes open the file at once and wherever they end, its  *)
(* schema is what _migrations says.                                         *)
THEOREM SchemaIsRecordedEver == Spec => []SchemaIsRecorded
  <1>1. IInv => SchemaIsRecorded
    BY DEF IInv
  <1> QED BY <1>1, Inductive, PTL

(* A process that has its database has the whole schema.                    *)
THEOREM ReadyHasAllEver == Spec => []ReadyHasAll
  <1>1. IInv => ReadyHasAll
    BY DEF IInv, ReadyHasAll, TodoCovers, ReadyIsDone, TypeOK
  <1> QED BY <1>1, Inductive, PTL

(* The migrations are recorded one at a time and in order. *)
THEOREM OneAfterTheOtherEver == Spec => OneAfterTheOther
  <1>1. IInv /\ [Next]_vars =>
          [\E m \in Migration : m \notin ledger /\ ledger' = ledger \cup {m} /\ 1 .. m - 1 \subseteq ledger]_ledger
    <2> SUFFICES ASSUME IInv, [Next]_vars, ledger' # ledger
                 PROVE  \E m \in Migration : /\ m \notin ledger /\ ledger' = ledger \cup {m}
                                             /\ 1 .. m - 1 \subseteq ledger
      OBVIOUS
    <2>1. PICK p \in Process, m \in Migration : Record(p, m) /\ m \notin ledger
      BY DEF Next, Progress, StartUp, Open, Execute, Busy, Record, Opened, End, vars
    <2>2. 1 .. m - 1 \subseteq ledger
      BY <2>1, NextIsNext DEF Record, Opening
    <2> QED BY <2>1, <2>2 DEF Record
  <1> QED BY <1>1, Inductive, PTL DEF Spec, OneAfterTheOther

=============================================================================
