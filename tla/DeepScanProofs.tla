--------------------------- MODULE DeepScanProofs ---------------------------
(***************************************************************************)
(* What holds of DeepScan for every number of messages and row ids, every  *)
(* chunk size and every retry budget.                                      *)
(***************************************************************************)
EXTENDS DeepScan, TLAPS

(* The awaits at which a chunk is under way.                                *)
InChunk == {"opening", "fetching", "backoff", "parsing"}

(* No two messages share a row, and no row has an id not yet handed out.     *)
RowsDistinct ==
  \A u \in Uid :
    /\ row[u] <= rowIds
    /\ \A v \in Uid : row[u] # 0 /\ row[u] = row[v] => u = v

(* The same of the rows the run has read, which may be gone: but if a row has *)
(* the id, it is still the row of that message.                             *)
TargetsKnown ==
  \A u \in Uid :
    /\ target[u] <= rowIds
    /\ \A v \in Uid : target[u] # 0 /\ target[u] \in {row[v], target[v]} => u = v

(* The run works on its targets; what is streamed, parsed or being parsed is *)
(* of the chunk, and between two chunks nothing is.                         *)
GroupInv ==
  /\ \A u \in todo \cup chunk : target[u] # 0
  /\ todo \cap chunk = {}
  /\ stream \cup parsed \cup {u \in Uid : parsing[u] > 0} \subseteq chunk
  /\ stream # {} => pc \in {"fetching", "cancelled"}
  /\ pc = "idle" => chunk = {}
  /\ pc \in {"idle", "chunk"} => parsed = {} /\ \A u \in Uid : parsing[u] = 0

(* Each attempt parses a message at most once.                              *)
AttemptInv ==
  \A u \in Uid :
    /\ parsing[u] <= attempt + 1
    /\ u \in stream \/ pc \in {"opening", "backoff"} => parsing[u] <= attempt

(* What is still to be fetched has no body.                                 *)
Uncached ==
  \A u \in Uid :
    u \in todo \cup stream \/ (pc \in InChunk /\ u \in chunk) =>
      (row[u] = target[u] => bodies[target[u]] = 0)

(* A target is cached, was passed over for a reason, or is on its way.       *)
OnItsWay(u) ==
  \/ u \in todo
  \/ pc \in {"opening", "backoff"} /\ u \in chunk
  \/ pc = "fetching" /\ (u \in stream \cup parsed \/ parsing[u] > 0)
  \/ pc = "parsing" /\ (u \in parsed \/ parsing[u] > 0)

Accounted ==
  pc \in Running \cup {"done"} =>
    \A u \in Uid : target[u] # 0 /\ row[u] = target[u] =>
      bodies[target[u]] = u \/ u \in skipped \/ OnItsWay(u)

DbInv == RowsDistinct /\ TargetsKnown /\ BodyBelongsToMessage /\ NothingOutlivesItsMessage
RunInv == GroupInv /\ AttemptInv
IInv  == TypeOK /\ DbInv /\ RunInv /\ Uncached /\ Accounted /\ (pc = "done" => todo = {})

USE BoundsAssumption DEF BoundsAssumption

-----------------------------------------------------------------------------
(* Small facts.                                                             *)

LEMMA RowIdOf ==
  ASSUME IInv, NEW u \in Uid
  PROVE  /\ row[u] \in 0 .. MaxRow /\ (row[u] # 0 => row[u] \in RowId)
         /\ target[u] \in 0 .. MaxRow /\ (target[u] # 0 => target[u] \in RowId)
  BY DEF IInv, TypeOK, RowId

(* The run's variables, and the tables, alone decide the invariant.          *)
LEMMA InvReads ==
  ASSUME IInv, UNCHANGED <<dbVars, runVars, skipped>>, present' \in SUBSET Uid
  PROVE  IInv'
  BY DEF IInv, TypeOK, DbInv, RunInv, RowsDistinct, TargetsKnown, BodyBelongsToMessage,
         NothingOutlivesItsMessage, Exists, GroupInv, AttemptInv, Uncached, Accounted, OnItsWay,
         dbVars, runVars

(* A step of the run that touches neither the tables nor its targets.        *)
LEMMA DbInvReads ==
  ASSUME IInv, UNCHANGED <<dbVars, target>>
  PROVE  DbInv'
  BY DEF IInv, DbInv, RowsDistinct, TargetsKnown, BodyBelongsToMessage,
         NothingOutlivesItsMessage, Exists, dbVars

LEMMA InitInv == Init => IInv
  <1> SUFFICES ASSUME Init PROVE IInv
    OBVIOUS
  <1>1. \A S : NoneOf(S) = [u \in S |-> 0]
    BY DEF NoneOf
  <1>2. /\ \A u \in Uid : row[u] = 0 /\ target[u] = 0 /\ parsing[u] = 0
        /\ \A r \in RowId : bodies[r] = 0 /\ ~ flagged[r]
    BY <1>1 DEF Init
  <1>3. TypeOK
    <2>1. /\ row \in [Uid -> 0 .. MaxRow] /\ bodies \in [RowId -> 0 .. MaxUid]
          /\ target \in [Uid -> 0 .. MaxRow] /\ parsing \in [Uid -> 0 .. RetryBudget + 1]
          /\ flagged \in [RowId -> BOOLEAN]
      BY <1>1 DEF Init
    <2>2. 0 \in 0 .. MaxRow /\ 0 \in 0 .. RetryBudget
      OBVIOUS
    <2> QED BY <2>1, <2>2 DEF Init, TypeOK
  <1>4. DbInv
    BY <1>2 DEF Init, DbInv, RowsDistinct, TargetsKnown, BodyBelongsToMessage,
          NothingOutlivesItsMessage
  <1>5. RunInv
    BY <1>2 DEF Init, RunInv, GroupInv, AttemptInv
  <1>6. Uncached /\ Accounted /\ pc # "done"
    BY <1>2 DEF Init, Uncached, Accounted, InChunk, Running
  <1> QED BY <1>3, <1>4, <1>5, <1>6 DEF IInv

-----------------------------------------------------------------------------
(* What others do to the tables while the run is at work.                   *)

LEMMA IngestInv ==
  ASSUME IInv, NEW u \in Uid, Ingest(u)
  PROVE  IInv'
  <1>1. /\ row' = [row EXCEPT ![u] = rowIds + 1]
        /\ rowIds' = rowIds + 1
        /\ rowIds + 1 \in RowId
        /\ row[u] = 0
        /\ UNCHANGED <<present, flagged, bodies, runVars, skipped>>
    BY DEF Ingest, NextRowId, IInv, TypeOK, RowId
  <1>2. \A v \in Uid : row'[v] = IF v = u THEN rowIds + 1 ELSE row[v]
    BY <1>1 DEF IInv, TypeOK
  <1>3. /\ \A v \in Uid : row[v] <= rowIds /\ target[v] <= rowIds
        /\ \A v \in Uid : row[v] \in Int /\ target[v] \in Int
        /\ rowIds \in Nat
    BY RowIdOf DEF IInv, DbInv, RowsDistinct, TargetsKnown, TypeOK
  <1>4. TypeOK'
    BY <1>1 DEF IInv, TypeOK, runVars, RowId
  <1>5. RowsDistinct'
    BY <1>1, <1>2, <1>3 DEF IInv, DbInv, RowsDistinct
  <1>6. TargetsKnown'
    BY <1>1, <1>2, <1>3 DEF IInv, DbInv, TargetsKnown, runVars
  <1>7. bodies[rowIds + 1] = 0 /\ ~ flagged[rowIds + 1]
    BY <1>1, <1>3 DEF IInv, DbInv, NothingOutlivesItsMessage, Exists
  <1>8. BodyBelongsToMessage'
    BY <1>1, <1>2, <1>7 DEF IInv, DbInv, BodyBelongsToMessage
  <1>9. NothingOutlivesItsMessage'
    <2> SUFFICES ASSUME NEW r \in RowId, bodies[r] # 0 \/ flagged[r]
                 PROVE  \E v \in Uid : row'[v] = r
      BY <1>1 DEF NothingOutlivesItsMessage, Exists
    <2>1. PICK v \in Uid : row[v] = r
      BY DEF IInv, DbInv, NothingOutlivesItsMessage, Exists
    <2> QED BY <1>1, <1>2, <2>1 DEF RowId
  <1>10. RunInv'
    BY <1>1 DEF IInv, RunInv, GroupInv, AttemptInv, runVars
  <1>11. \A v \in Uid : row'[v] = target[v] => row[v] = target[v]
    BY <1>2, <1>3
  <1>12. Uncached' /\ Accounted'
    BY <1>1, <1>11 DEF IInv, Uncached, Accounted, OnItsWay, runVars
  <1> QED
    BY <1>1, <1>4, <1>5, <1>6, <1>8, <1>9, <1>10, <1>12 DEF IInv, DbInv, runVars

LEMMA DeleteRowsInv ==
  ASSUME IInv, NEW gone \in SUBSET Uid, DeleteRows(gone),
         UNCHANGED <<present, rowIds, runVars, skipped>>
  PROVE  IInv'
  <1>1. /\ \A u \in Uid : row'[u] = IF u \in gone THEN 0 ELSE row[u]
        /\ \A r \in RowId : flagged'[r] = (flagged[r] /\ \A u \in gone : row[u] # r)
        /\ \A r \in RowId : bodies'[r] = IF \E u \in gone : row[u] = r THEN 0 ELSE bodies[r]
    BY DEF DeleteRows
  <1>2. /\ row' \in [Uid -> 0 .. MaxRow]
        /\ flagged' \in [RowId -> BOOLEAN]
        /\ bodies' \in [RowId -> 0 .. MaxUid]
    BY DEF DeleteRows, IInv, TypeOK
  <1>3. TypeOK'
    BY <1>2 DEF IInv, TypeOK, runVars
  <1>4. RowsDistinct'
    BY <1>1 DEF IInv, DbInv, RowsDistinct, TypeOK
  <1>5. TargetsKnown'
    BY <1>1 DEF IInv, DbInv, TargetsKnown, runVars
  <1>6. BodyBelongsToMessage'
    <2> SUFFICES ASSUME NEW u \in Uid, row'[u] # 0
                 PROVE  /\ bodies'[row'[u]] \in {0, u}
                        /\ flagged'[row'[u]] => u \in Unsubscribe
      BY DEF BodyBelongsToMessage
    <2>1. row'[u] = row[u] /\ row[u] \in RowId
      BY <1>1, RowIdOf
    <2>2. bodies[row[u]] \in {0, u} /\ (flagged[row[u]] => u \in Unsubscribe)
      BY <2>1 DEF IInv, DbInv, BodyBelongsToMessage, RowId
    <2>3. bodies'[row[u]] \in {0, bodies[row[u]]}
      BY <1>1, <2>1
    <2>4. flagged'[row[u]] => flagged[row[u]]
      BY <1>1, <2>1
    <2> QED BY <2>1, <2>2, <2>3, <2>4
  <1>7. NothingOutlivesItsMessage'
    <2> SUFFICES ASSUME NEW r \in RowId, bodies'[r] # 0 \/ flagged'[r]
                 PROVE  \E v \in Uid : row'[v] = r
      BY DEF NothingOutlivesItsMessage, Exists
    <2>1. (bodies[r] # 0 \/ flagged[r]) /\ \A u \in gone : row[u] # r
      BY <1>1
    <2>2. PICK v \in Uid : row[v] = r
      BY <2>1 DEF IInv, DbInv, NothingOutlivesItsMessage, Exists
    <2> QED BY <1>1, <2>1, <2>2
  <1>8. RunInv'
    BY DEF IInv, RunInv, GroupInv, AttemptInv, runVars
  <1>9. \A u \in Uid : target[u] # 0 /\ row'[u] = target[u] =>
          row[u] = target[u] /\ bodies'[target[u]] = bodies[target[u]]
    <2> SUFFICES ASSUME NEW u \in Uid, target[u] # 0, row'[u] = target[u]
                 PROVE  row[u] = target[u] /\ bodies'[target[u]] = bodies[target[u]]
      OBVIOUS
    <2>1. u \notin gone /\ row[u] = target[u] /\ target[u] \in RowId
      BY <1>1, RowIdOf
    <2>2. \A v \in gone : row[v] # target[u]
      BY <2>1 DEF IInv, DbInv, RowsDistinct
    <2> QED BY <1>1, <2>1, <2>2
  <1>10. Uncached'
    BY <1>9 DEF IInv, Uncached, RunInv, GroupInv, runVars
  <1>11. Accounted'
    BY <1>9 DEF IInv, Accounted, OnItsWay, runVars
  <1> QED
    BY <1>3, <1>4, <1>5, <1>6, <1>7, <1>8, <1>10, <1>11 DEF IInv, DbInv, runVars

-----------------------------------------------------------------------------
(* The steps of the run.                                                    *)

(* A step that leaves tables and targets alone: what is left to show.        *)
LEMMA RunStepInv ==
  ASSUME IInv, UNCHANGED <<present, dbVars, target>>,
         pc' \in {"idle"} \cup Running \cup Outcome,
         todo' \in SUBSET Uid, chunk' \in SUBSET Uid, stream' \in SUBSET Uid,
         parsing' \in [Uid -> Nat], parsed' \in SUBSET Uid,
         attempt' \in 0 .. RetryBudget, connected' \in BOOLEAN, aborted' \in BOOLEAN,
         skipped' \in SUBSET Uid,
         RunInv', Uncached', Accounted', (pc = "done" => todo = {})'
  PROVE  IInv'
  <1>1. \A u \in Uid : parsing'[u] \in 0 .. RetryBudget + 1
    BY DEF RunInv, AttemptInv
  <1>2. parsing' \in [Uid -> 0 .. RetryBudget + 1]
    BY <1>1
  <1>3. TypeOK'
    BY <1>2 DEF IInv, TypeOK, dbVars
  <1>4. DbInv'
    BY DbInvReads
  <1> QED BY <1>3, <1>4 DEF IInv

LEMMA CollectInv == ASSUME IInv, Collect PROVE IInv'
  <1>1. PICK kept \in SUBSET Uid :
          /\ target' = [u \in Uid |-> IF u \in kept /\ Fresh(u) THEN row[u] ELSE 0]
          /\ todo' = {u \in kept : Fresh(u)}
    BY DEF Collect
  <1>2. /\ pc = "idle" /\ pc' = "chunk" /\ connected' = TRUE
        /\ UNCHANGED <<present, dbVars, chunk, stream, parsing, parsed, attempt, aborted, skipped>>
    BY DEF Collect
  <1>3. chunk = {} /\ stream = {} /\ parsed = {} /\ \A u \in Uid : parsing[u] = 0
    BY <1>2 DEF IInv, RunInv, GroupInv
  <1>4. \A u \in Uid : /\ target'[u] \in {0, row[u]}
                       /\ target'[u] # 0 <=> u \in todo'
                       /\ u \in todo' => target'[u] = row[u] /\ bodies[row[u]] = 0
    BY <1>1 DEF Fresh
  <1>5. TypeOK'
    <2>1. target' \in [Uid -> 0 .. MaxRow] /\ todo' \in SUBSET Uid
      BY <1>1, RowIdOf
    <2> QED BY <1>2, <2>1 DEF IInv, TypeOK, dbVars, Running
  <1>6. DbInv'
    <2>1. TargetsKnown'
      <3>1. rowIds' = rowIds /\ row' = row /\ \A u \in Uid : 0 <= rowIds /\ row[u] <= rowIds
        BY <1>2 DEF IInv, TypeOK, DbInv, RowsDistinct, dbVars
      <3>2. \A u \in Uid : target'[u] <= rowIds
        BY <1>4, <3>1
      <3>3. \A u, v \in Uid : row[u] # 0 /\ row[u] = row[v] => u = v
        BY DEF IInv, DbInv, RowsDistinct
      <3> QED BY <1>4, <3>1, <3>2, <3>3 DEF TargetsKnown
    <2> QED BY <1>2, <2>1 DEF IInv, DbInv, RowsDistinct, BodyBelongsToMessage,
              NothingOutlivesItsMessage, Exists, dbVars
  <1>7. RunInv'
    BY <1>1, <1>2, <1>3, <1>4 DEF IInv, TypeOK, RunInv, GroupInv, AttemptInv
  <1>8. Uncached' /\ Accounted'
    BY <1>2, <1>3, <1>4 DEF Uncached, Accounted, OnItsWay, dbVars
  <1> QED BY <1>2, <1>5, <1>6, <1>7, <1>8 DEF IInv

LEMMA NextChunkInv == ASSUME IInv, NextChunk PROVE IInv'
  <1>1. /\ pc = "chunk" /\ pc' = "opening" /\ attempt' = 0
        /\ chunk' = FirstOf(todo, ChunkSize) /\ todo' = todo \ FirstOf(todo, ChunkSize)
        /\ UNCHANGED <<present, dbVars, target, stream, parsing, parsed, connected, aborted, skipped>>
    BY DEF NextChunk, AfterChunk
  <1>2. chunk' \subseteq todo /\ todo' = todo \ chunk' /\ todo \in SUBSET Uid
    BY <1>1 DEF FirstOf, IInv, TypeOK
  <1>3. stream = {} /\ parsed = {} /\ \A u \in Uid : parsing[u] = 0
    BY <1>1 DEF IInv, RunInv, GroupInv
  <1>4. RunInv'
    BY <1>1, <1>2, <1>3 DEF IInv, RunInv, GroupInv, AttemptInv
  <1>5. Uncached'
    BY <1>1, <1>2, <1>3 DEF IInv, Uncached, dbVars
  <1>6. Accounted'
    BY <1>1, <1>2 DEF IInv, Accounted, OnItsWay, Running, dbVars
  <1>7. parsing \in [Uid -> Nat]
    BY DEF IInv, TypeOK
  <1> QED BY <1>1, <1>2, <1>4, <1>5, <1>6, <1>7, RunStepInv DEF IInv, TypeOK, Running

LEMMA LeaveLoopInv == ASSUME IInv, LeaveLoop PROVE IInv'
  <1>1. /\ pc = "chunk" /\ pc' = IF todo = {} THEN "done" ELSE "cancelled"
        /\ UNCHANGED <<present, dbVars, target, todo, chunk, stream, parsing, parsed, attempt,
                       connected, aborted, skipped>>
    BY DEF LeaveLoop
  <1>2. RunInv' /\ Uncached'
    BY <1>1 DEF IInv, RunInv, GroupInv, AttemptInv, Uncached, InChunk, dbVars
  <1>3. Accounted'
    BY <1>1 DEF IInv, Accounted, OnItsWay, Running, dbVars
  <1>4. parsing \in [Uid -> Nat]
    BY DEF IInv, TypeOK
  <1> QED BY <1>1, <1>2, <1>3, <1>4, RunStepInv DEF IInv, TypeOK, Outcome

LEMMA StartFetchInv == ASSUME IInv, StartFetch PROVE IInv'
  <1>1. /\ pc = "opening" /\ pc' = "fetching"
        /\ stream' = chunk \cap present /\ skipped' = skipped \cup (chunk \ present)
        /\ UNCHANGED <<present, dbVars, target, todo, chunk, parsing, parsed, attempt, connected,
                       aborted>>
    BY DEF StartFetch
  <1>2. RunInv'
    BY <1>1 DEF IInv, RunInv, GroupInv, AttemptInv
  <1>3. Uncached'
    BY <1>1 DEF IInv, Uncached, InChunk, dbVars
  <1>4. Accounted'
    BY <1>1 DEF IInv, Accounted, OnItsWay, Running, dbVars
  <1>5. parsing \in [Uid -> Nat]
    BY DEF IInv, TypeOK
  <1> QED BY <1>1, <1>2, <1>3, <1>4, <1>5, RunStepInv DEF IInv, TypeOK, Running

LEMMA ReceiveInv == ASSUME IInv, Receive PROVE IInv'
  <1>1. PICK u \in FirstOf(stream, 1) :
          /\ stream' = stream \ {u}
          /\ \/ parsing' = [parsing EXCEPT ![u] = @ + 1] /\ UNCHANGED skipped
             \/ skipped' = skipped \cup {u} /\ UNCHANGED parsing
    BY DEF Receive
  <1>2. /\ pc = "fetching"
        /\ UNCHANGED <<present, dbVars, pc, target, todo, chunk, parsed, attempt, connected, aborted>>
    BY DEF Receive
  <1>3. u \in stream /\ u \in Uid /\ u \in chunk
    BY DEF FirstOf, IInv, TypeOK, RunInv, GroupInv
  <1>4. /\ parsing' \in [Uid -> Nat]
        /\ \A v \in Uid : parsing'[v] = parsing[v] \/ (v = u /\ parsing'[v] = parsing[v] + 1)
        /\ skipped' \in SUBSET Uid /\ skipped \subseteq skipped'
        /\ parsing'[u] > 0 \/ u \in skipped'
    BY <1>1, <1>3 DEF IInv, TypeOK
  <1>5. \A v \in Uid : parsing[v] \in Nat /\ attempt \in Nat
    BY DEF IInv, TypeOK
  <1>6. RunInv'
    BY <1>1, <1>2, <1>3, <1>4, <1>5 DEF IInv, RunInv, GroupInv, AttemptInv
  <1>7. Uncached'
    BY <1>1, <1>2 DEF IInv, Uncached, dbVars
  <1>8. Accounted'
    BY <1>1, <1>2, <1>3, <1>4, <1>5 DEF IInv, Accounted, OnItsWay, dbVars
  <1> QED BY <1>1, <1>2, <1>4, <1>6, <1>7, <1>8, RunStepInv DEF IInv, TypeOK, Running

LEMMA ParseSettlesInv == ASSUME IInv, NEW u \in Uid, ParseSettles(u) PROVE IInv'
  <1>1. /\ parsing[u] > 0
        /\ parsing' = [parsing EXCEPT ![u] = @ - 1]
        /\ \/ parsed' = parsed \cup {u} /\ UNCHANGED skipped
           \/ skipped' = skipped \cup {u} /\ UNCHANGED parsed
        /\ UNCHANGED <<present, dbVars, pc, target, todo, chunk, stream, attempt, connected, aborted>>
    BY DEF ParseSettles
  <1>2. u \in chunk /\ pc \notin {"idle", "chunk"}
    BY <1>1 DEF IInv, RunInv, GroupInv
  <1>3. /\ parsing' \in [Uid -> Nat]
        /\ \A v \in Uid : parsing'[v] = IF v = u THEN parsing[v] - 1 ELSE parsing[v]
        /\ \A v \in Uid : parsing[v] \in Nat /\ attempt \in Nat
    BY <1>1 DEF IInv, TypeOK
  <1>4. RunInv'
    BY <1>1, <1>2, <1>3 DEF IInv, RunInv, GroupInv, AttemptInv
  <1>5. Uncached'
    BY <1>1 DEF IInv, Uncached, dbVars
  <1>6. Accounted'
    BY <1>1, <1>3 DEF IInv, Accounted, OnItsWay, dbVars
  <1> QED BY <1>1, <1>3, <1>4, <1>5, <1>6, RunStepInv DEF IInv, TypeOK

(* The run leaves the stream, for the parses, a retry or for good.           *)
LEMMA LeaveStreamInv ==
  ASSUME IInv, EndFetch \/ FetchCancelled \/ Reconnect
                 \/ \E transient \in BOOLEAN : FetchBreaks(transient)
  PROVE  IInv'
  <1>1. UNCHANGED <<present, dbVars, target, todo, chunk, parsing, parsed, aborted, skipped>>
    BY DEF EndFetch, FetchCancelled, Reconnect, FetchBreaks
  <1>2. parsing \in [Uid -> Nat] /\ \A u \in Uid : parsing[u] \in Nat /\ attempt \in Nat
    BY DEF IInv, TypeOK
  <1>3. CASE EndFetch \/ FetchCancelled
    <2>1. /\ pc = "fetching"
          /\ \/ pc' = "parsing" /\ stream = {}
             \/ pc' = "cancelled"
          /\ UNCHANGED <<stream, attempt, connected>>
      BY <1>3 DEF EndFetch, FetchCancelled
    <2>2. RunInv' /\ Uncached'
      BY <1>1, <2>1 DEF IInv, RunInv, GroupInv, AttemptInv, Uncached, InChunk, dbVars
    <2>3. Accounted'
      BY <1>1, <2>1 DEF IInv, Accounted, OnItsWay, Running, dbVars
    <2> QED BY <1>1, <1>2, <2>1, <2>2, <2>3, RunStepInv DEF IInv, TypeOK, Running, Outcome
  <1>4. CASE Reconnect
    <2>1. /\ pc = "backoff"
          /\ pc' \in {"opening", "failed", "cancelled"}
          /\ connected' \in BOOLEAN
          /\ UNCHANGED <<stream, attempt>>
      BY <1>4 DEF Reconnect, IInv, TypeOK
    <2>2. RunInv' /\ Uncached'
      BY <1>1, <2>1 DEF IInv, RunInv, GroupInv, AttemptInv, Uncached, InChunk, dbVars
    <2>3. Accounted'
      BY <1>1, <2>1 DEF IInv, Accounted, OnItsWay, Running, dbVars
    <2> QED BY <1>1, <1>2, <2>1, <2>2, <2>3, RunStepInv DEF IInv, TypeOK, Running, Outcome
  <1>5. ASSUME NEW transient \in BOOLEAN, FetchBreaks(transient) PROVE IInv'
    <2>1. /\ pc \in {"opening", "fetching"}
          /\ stream' = {}
          /\ UNCHANGED connected
          /\ \/ pc' = "backoff" /\ attempt' = attempt + 1 /\ attempt < RetryBudget
             \/ pc' \in {"cancelled", "failed"} /\ attempt' = attempt
      BY <1>5 DEF FetchBreaks, RetryLeft, NextAttempt
    <2>2. RunInv'
      BY <1>1, <1>2, <2>1 DEF IInv, RunInv, GroupInv, AttemptInv
    <2>3. Uncached'
      BY <1>1, <2>1 DEF IInv, Uncached, InChunk, dbVars
    <2>4. Accounted'
      BY <1>1, <2>1 DEF IInv, Accounted, OnItsWay, Running, RunInv, GroupInv, dbVars
    <2>5. attempt' \in 0 .. RetryBudget
      BY <1>2, <2>1 DEF IInv, TypeOK
    <2> QED BY <1>1, <1>2, <2>1, <2>2, <2>3, <2>4, <2>5, RunStepInv
            DEF IInv, TypeOK, Running, Outcome
  <1> QED BY <1>3, <1>4, <1>5

(* What the transaction of a chunk does to the tables, row by row.           *)
LEMMA WriteFlagsEffect ==
  ASSUME IInv, WriteFlags(parsed)
  PROVE  /\ flagged' \in [RowId -> BOOLEAN]
         /\ \A r \in RowId : flagged'[r] =>
              \/ flagged[r]
              \/ Exists(r) /\ \E u \in parsed : target[u] = r /\ u \in Unsubscribe
         /\ \A u \in parsed : Exists(target[u]) /\ flagged'[target[u]] =>
              \E w \in parsed : target[w] = target[u] /\ w \in Unsubscribe
  <1>1. \A u \in parsed : u \in Uid /\ target[u] \in RowId
    BY RowIdOf DEF IInv, TypeOK, RunInv, GroupInv
  <1>2. flagged \in [RowId -> BOOLEAN]
    BY DEF IInv, TypeOK
  <1>3. \A r \in RowId :
          flagged'[r] = IF Exists(r) /\ \E u \in parsed : target[u] = r
                        THEN \E u \in parsed : target[u] = r /\ u \in Unsubscribe
                        ELSE flagged[r]
    BY DEF WriteFlags
  <1>4. flagged' \in [RowId -> BOOLEAN]
    BY <1>2 DEF WriteFlags
  <1>5. ASSUME NEW r \in RowId, flagged'[r]
        PROVE  flagged[r] \/ (Exists(r) /\ \E u \in parsed : target[u] = r /\ u \in Unsubscribe)
    BY <1>3, <1>5
  <1>6. ASSUME NEW u \in parsed, Exists(target[u]), flagged'[target[u]]
        PROVE  \E w \in parsed : target[w] = target[u] /\ w \in Unsubscribe
    BY <1>1, <1>3, <1>6
  <1> QED BY <1>4, <1>5, <1>6

LEMMA WriteBodiesEffect ==
  ASSUME IInv, WriteBodies(parsed)
  PROVE  /\ bodies' \in [RowId -> 0 .. MaxUid]
         /\ \A u \in parsed : bodies'[target[u]] = u
         /\ \A r \in RowId : (\A u \in parsed : target[u] # r) => bodies'[r] = bodies[r]
  <1>1. \A u \in parsed : u \in Uid /\ u \in 0 .. MaxUid /\ target[u] \in RowId
    <2>1. \A u \in parsed : u \in Uid /\ target[u] # 0
      BY DEF IInv, TypeOK, RunInv, GroupInv
    <2> QED BY <2>1, RowIdOf DEF Uid
  <1>2. \A u, v \in parsed : target[u] = target[v] => u = v
    BY <1>1 DEF IInv, DbInv, TargetsKnown, RowId
  <1>3. \A r \in RowId :
          bodies'[r] = IF \E u \in parsed : target[u] = r
                       THEN CHOOSE u \in parsed : target[u] = r
                       ELSE bodies[r]
    BY DEF WriteBodies
  <1>4. ASSUME NEW u \in parsed PROVE bodies'[target[u]] = u
    <2>1. bodies'[target[u]] = CHOOSE v \in parsed : target[v] = target[u]
      BY <1>1, <1>3
    <2>2. \A v \in parsed : target[v] = target[u] <=> v = u
      BY <1>2
    <2> QED BY <2>1, <2>2
  <1>5. ASSUME NEW r \in RowId, \A u \in parsed : target[u] # r PROVE bodies'[r] = bodies[r]
    BY <1>3, <1>5
  <1>6. bodies' \in [RowId -> 0 .. MaxUid]
    <2>1. \A r \in RowId : bodies'[r] \in 0 .. MaxUid
      BY <1>1, <1>4, <1>5 DEF IInv, TypeOK
    <2>2. bodies' = [r \in RowId |-> bodies'[r]]
      BY DEF WriteBodies
    <2> QED BY <2>1, <2>2
  <1> QED BY <1>4, <1>5, <1>6

LEMMA CommitInv == ASSUME IInv, Commit PROVE IInv'
  <1>1. /\ pc = "parsing" /\ parsed' = {} /\ \A u \in Uid : parsing[u] = 0
        /\ UNCHANGED <<present, row, rowIds, target, todo, chunk, stream, parsing, attempt,
                       connected, aborted>>
    BY DEF Commit
  <1>2. stream = {} /\ parsed \subseteq chunk /\ \A u \in parsed : u \in Uid /\ target[u] \in RowId
    BY <1>1, RowIdOf DEF IInv, TypeOK, RunInv, GroupInv
  <1>3. \/ ForeignKeysHold(parsed) /\ WriteBodies(parsed) /\ WriteFlags(parsed)
            /\ pc' = "chunk" /\ skipped' = skipped
        \/ WriteFlags(parsed) /\ pc' = "chunk" /\ bodies' = bodies
            /\ skipped' = skipped \cup parsed
        \/ pc' = "failed" /\ UNCHANGED <<flagged, bodies, skipped>>
    BY DEF Commit
  <1>4. RowsDistinct' /\ TargetsKnown'
    BY <1>1 DEF IInv, DbInv, RowsDistinct, TargetsKnown
  <1>5. RunInv'
    BY <1>1, <1>2, <1>3 DEF IInv, RunInv, GroupInv, AttemptInv
  <1>6. /\ flagged' \in [RowId -> BOOLEAN]
        /\ \A r \in RowId : flagged'[r] => Exists(r)
        /\ \A u \in Uid : row[u] # 0 /\ flagged'[row[u]] => u \in Unsubscribe
    <2>1. CASE flagged' = flagged
      BY <2>1 DEF IInv, TypeOK, DbInv, NothingOutlivesItsMessage, BodyBelongsToMessage
    <2>2. CASE WriteFlags(parsed)
      <3>1. \A r \in RowId : flagged'[r] => Exists(r)
        BY <2>2, WriteFlagsEffect DEF IInv, DbInv, NothingOutlivesItsMessage
      <3>2. ASSUME NEW u \in Uid, row[u] # 0, flagged'[row[u]] PROVE u \in Unsubscribe
        <4>1. row[u] \in RowId
          BY <3>2, RowIdOf
        <4>2. \/ flagged[row[u]]
              \/ \E w \in parsed : target[w] = row[u] /\ w \in Unsubscribe
          BY <2>2, <3>2, <4>1, WriteFlagsEffect
        <4>3. \A w \in parsed : target[w] = row[u] => w = u
          BY <1>2, <3>2 DEF IInv, DbInv, TargetsKnown
        <4> QED BY <3>2, <4>2, <4>3 DEF IInv, DbInv, BodyBelongsToMessage
      <3> QED BY <2>2, <3>1, <3>2, WriteFlagsEffect
    <2> QED BY <1>3, <2>1, <2>2
  <1>7. /\ bodies' \in [RowId -> 0 .. MaxUid]
        /\ \A r \in RowId : bodies'[r] # 0 => Exists(r)
        /\ \A u \in Uid : row[u] # 0 => bodies'[row[u]] \in {0, u}
    <2>1. CASE bodies' = bodies
      BY <2>1 DEF IInv, TypeOK, DbInv, NothingOutlivesItsMessage, BodyBelongsToMessage
    <2>2. CASE ForeignKeysHold(parsed) /\ WriteBodies(parsed)
      <3>1. ASSUME NEW r \in RowId, bodies'[r] # 0 PROVE Exists(r)
        <4>1. CASE \E u \in parsed : target[u] = r
          BY <2>2, <4>1 DEF ForeignKeysHold
        <4>2. CASE \A u \in parsed : target[u] # r
          BY <2>2, <3>1, <4>2, WriteBodiesEffect DEF IInv, DbInv, NothingOutlivesItsMessage
        <4> QED BY <4>1, <4>2
      <3>2. ASSUME NEW u \in Uid, row[u] # 0 PROVE bodies'[row[u]] \in {0, u}
        <4>1. row[u] \in RowId
          BY <3>2, RowIdOf
        <4>2. \A w \in parsed : target[w] = row[u] => w = u
          BY <1>2, <3>2 DEF IInv, DbInv, TargetsKnown
        <4>3. CASE \E w \in parsed : target[w] = row[u]
          BY <2>2, <4>2, <4>3, WriteBodiesEffect
        <4>4. CASE \A w \in parsed : target[w] # row[u]
          <5>1. bodies'[row[u]] = bodies[row[u]]
            BY <2>2, <4>1, <4>4, WriteBodiesEffect
          <5> QED BY <3>2, <5>1 DEF IInv, DbInv, BodyBelongsToMessage
        <4> QED BY <4>3, <4>4
      <3> QED BY <2>2, <3>1, <3>2, WriteBodiesEffect
    <2> QED BY <1>3, <2>1, <2>2
  <1>8. BodyBelongsToMessage' /\ NothingOutlivesItsMessage'
    BY <1>1, <1>6, <1>7 DEF BodyBelongsToMessage, NothingOutlivesItsMessage, Exists
  <1>9. TypeOK'
    BY <1>1, <1>2, <1>3, <1>6, <1>7 DEF IInv, TypeOK, Running, Outcome
  <1>10. Uncached'
    <2> SUFFICES ASSUME NEW u \in todo, u \in Uid, row[u] = target[u]
                 PROVE  bodies'[target[u]] = 0
      BY <1>1, <1>2, <1>3 DEF Uncached, InChunk
    <2>1. bodies[target[u]] = 0 /\ target[u] # 0 /\ target[u] \in RowId /\ u \notin chunk
      BY RowIdOf DEF IInv, RunInv, GroupInv, Uncached
    <2>2. \A w \in parsed : target[w] # target[u]
      BY <1>2, <2>1 DEF IInv, DbInv, TargetsKnown
    <2> QED BY <1>3, <2>1, <2>2, WriteBodiesEffect
  <1>11. Accounted'
    <2> SUFFICES ASSUME NEW u \in Uid, target[u] # 0, row[u] = target[u], pc' = "chunk"
                 PROVE  bodies'[target[u]] = u \/ u \in skipped' \/ u \in todo
      BY <1>1, <1>3 DEF Accounted, OnItsWay, Running
    <2>1. bodies[target[u]] = u \/ u \in skipped \/ u \in todo \/ u \in parsed
      BY <1>1 DEF IInv, Accounted, OnItsWay, Running
    <2>2. \A w \in parsed : target[w] = target[u] => w = u
      BY <1>2 DEF IInv, DbInv, TargetsKnown
    <2>3. target[u] \in RowId
      BY RowIdOf
    <2> QED BY <1>3, <2>1, <2>2, <2>3, WriteBodiesEffect
  <1> QED BY <1>3, <1>4, <1>5, <1>8, <1>9, <1>10, <1>11 DEF IInv, DbInv

LEMMA AbortInv == ASSUME IInv, Abort PROVE IInv'
  <1>1. /\ aborted' = TRUE
        /\ UNCHANGED <<present, dbVars, pc, target, todo, chunk, stream, parsing, parsed, attempt,
                       connected, skipped>>
    BY DEF Abort
  <1>2. RunInv' /\ Uncached' /\ Accounted'
    BY <1>1 DEF IInv, RunInv, GroupInv, AttemptInv, Uncached, Accounted, OnItsWay, dbVars
  <1>3. parsing \in [Uid -> Nat]
    BY DEF IInv, TypeOK
  <1> QED BY <1>1, <1>2, <1>3, RunStepInv DEF IInv, TypeOK

LEMMA ForgetInv == ASSUME IInv, Forget PROVE IInv'
  <1>1. /\ pc' = "idle" /\ target' = NoneOf(Uid) /\ todo' = {} /\ chunk' = {} /\ stream' = {}
        /\ parsing' = NoneOf(Uid) /\ parsed' = {} /\ attempt' = 0 /\ connected' = FALSE
        /\ aborted' = FALSE /\ skipped' = {} /\ UNCHANGED <<present, dbVars>>
    BY DEF Forget
  <1>2. NoneOf(Uid) \in [Uid -> 0 .. 0] /\ \A u \in Uid : NoneOf(Uid)[u] = 0
    BY DEF NoneOf
  <1>3. TypeOK'
    <2>1. target' \in [Uid -> 0 .. MaxRow] /\ parsing' \in [Uid -> 0 .. RetryBudget + 1]
      BY <1>1, <1>2
    <2>2. 0 \in 0 .. RetryBudget
      OBVIOUS
    <2> QED BY <1>1, <2>1, <2>2 DEF IInv, TypeOK, dbVars
  <1>4. DbInv'
    <2>1. TargetsKnown'
      BY <1>1, <1>2 DEF IInv, TypeOK, TargetsKnown, dbVars
    <2> QED BY <1>1, <2>1 DEF IInv, DbInv, RowsDistinct, BodyBelongsToMessage,
              NothingOutlivesItsMessage, Exists, dbVars
  <1>5. RunInv' /\ Uncached' /\ Accounted'
    BY <1>1, <1>2 DEF RunInv, GroupInv, AttemptInv, Uncached, Accounted, InChunk, Running
  <1> QED BY <1>1, <1>3, <1>4, <1>5 DEF IInv

LEMMA NextKeepsInv == IInv /\ [Next]_vars => IInv'
  <1> SUFFICES ASSUME IInv, [Next]_vars PROVE IInv'
    OBVIOUS
  <1>1. ASSUME NEW u \in Uid, Expunge(u) PROVE IInv'
    <2>1. UNCHANGED <<dbVars, runVars, skipped>> /\ present' \in SUBSET Uid
      BY <1>1 DEF Expunge, IInv, TypeOK
    <2> QED BY <2>1, InvReads
  <1>2. ASSUME NEW u \in Uid, Ingest(u) PROVE IInv'
    BY <1>2, IngestInv
  <1>3. ASSUME NEW u \in Uid, Prune(u) PROVE IInv'
    <2>1. DeleteRows({u}) /\ UNCHANGED <<present, rowIds, runVars, skipped>>
      BY <1>3 DEF Prune
    <2> QED BY <2>1, DeleteRowsInv
  <1>4. CASE ResetCache
    <2>1. DeleteRows(Uid) /\ UNCHANGED <<present, rowIds, runVars, skipped>>
      BY <1>4 DEF ResetCache
    <2> QED BY <2>1, DeleteRowsInv
  <1>5. ASSUME NEW u \in Uid, ParseSettles(u) PROVE IInv'
    BY <1>5, ParseSettlesInv
  <1>6. CASE RunStep
    BY <1>6, NextChunkInv, LeaveLoopInv, StartFetchInv, ReceiveInv, LeaveStreamInv, CommitInv
       DEF RunStep
  <1>7. CASE Collect \/ Abort \/ Forget
    BY <1>7, CollectInv, AbortInv, ForgetInv
  <1>8. CASE UNCHANGED vars
    <2>1. UNCHANGED <<dbVars, runVars, skipped>> /\ present' \in SUBSET Uid
      BY <1>8 DEF vars, IInv, TypeOK
    <2> QED BY <2>1, InvReads
  <1> QED
    BY <1>1, <1>2, <1>3, <1>4, <1>5, <1>6, <1>7, <1>8 DEF Next

THEOREM Invariance == Spec => []IInv
  BY InitInv, NextKeepsInv, PTL DEF Spec

-----------------------------------------------------------------------------
(* The theorems.                                                            *)

(* Every variable keeps its type; retries keep their budget, and a message is *)
(* never parsed more often than the chunk was fetched.                      *)
THEOREM DeepScanTypeCorrect == Spec => []TypeOK
  <1>1. IInv => TypeOK
    BY DEF IInv
  <1> QED BY <1>1, Invariance, PTL

(* A body, or an unsubscribe flag, is stored with the message it was found   *)
(* in, although the run writes to row ids it read before its fetches.       *)
THEOREM BodiesBelong == Spec => []BodyBelongsToMessage
  <1>1. IInv => BodyBelongsToMessage
    BY DEF IInv, DbInv
  <1> QED BY <1>1, Invariance, PTL

(* No body is left behind by a prune or a reset in the middle of a pass.     *)
THEOREM NoOrphans == Spec => []NothingOutlivesItsMessage
  <1>1. IInv => NothingOutlivesItsMessage
    BY DEF IInv, DbInv
  <1> QED BY <1>1, Invariance, PTL

(* A pass that reports success has missed none of its messages, across       *)
(* chunks, retries and parses that outlive an attempt.                      *)
THEOREM DoneIsCached == Spec => []CachedWhenDone
  <1>1. IInv => CachedWhenDone
    BY DEF IInv, Accounted, OnItsWay, CachedWhenDone
  <1> QED BY <1>1, Invariance, PTL

(* No body is fetched that an earlier chunk, attempt or pass has cached.     *)
THEOREM FetchedOnce == Spec => []CachedBodyIsNotFetched
  <1>1. IInv => CachedBodyIsNotFetched
    BY DEF IInv, TypeOK, Uncached, CachedBodyIsNotFetched
  <1> QED BY <1>1, Invariance, PTL

=============================================================================
