------------------------------ MODULE DeepScan ------------------------------
(***************************************************************************)
(* Pass 2 over one folder: deepScanBodies and its processFolderGroup       *)
(* (src/main/pipeline/body-scan.ts), with withReconnectRetry around each   *)
(* chunk, the parses it has in flight, and the messages and message_bodies *)
(* tables.                                                                 *)
(*                                                                         *)
(* The group names messages by the row ids it read when it began.  Other   *)
(* scans, and a cache reset, may remove those rows while it runs: a scan   *)
(* that was cancelled, or failed in another folder, runs on unseen.        *)
(*                                                                         *)
(* A body is the UID of the message its text is from.  The parser answers  *)
(* each call with its own text or an error, in the end (Parser).           *)
(***************************************************************************)
EXTENDS Integers, FiniteSets

CONSTANTS
  MaxUid,       \* bound: the folder's messages are 1..MaxUid
  MaxRow,       \* bound: the row ids handed out
  ChunkSize,    \* FETCH_CHUNK (200 in the code)
  RetryBudget,  \* backoffMs.length (3 in the code)
  Unsubscribe   \* the messages with an unsubscribe line in their text

ASSUME BoundsAssumption ==
  /\ MaxUid \in Nat
  /\ MaxRow \in Nat
  /\ ChunkSize \in Nat \ {0}
  /\ RetryBudget \in Nat
  /\ Unsubscribe \subseteq 1 .. MaxUid

VARIABLES
  present,   \* the messages on the server
  (* the database *)
  row,       \* the id of each message's row, 0 = no row
  rowIds,    \* how many row ids have been handed out
  flagged,   \* has_inline_unsubscribe, by row id
  bodies,    \* message_bodies, by row id: whose text, 0 = no row
  (* the run *)
  pc,
  target,    \* byUid: the row id of each message of the group, 0 = not in it
  todo,      \* sortedUids, from the next chunk on
  chunk,
  stream,    \* what the running FETCH has still to deliver
  parsing,   \* inflightParses not yet settled
  parsed,    \* those of the chunk that have a text
  attempt,
  connected,
  aborted,
  (* history *)
  skipped    \* messages the run had a reason to leave without a body

dbVars   == <<row, rowIds, flagged, bodies>>
runVars  == <<pc, target, todo, chunk, stream, parsing, parsed, attempt, connected, aborted>>
vars     == <<present, dbVars, runVars, skipped>>

Uid   == 1 .. MaxUid
RowId == 1 .. MaxRow

Outcome == {"done", "failed", "cancelled"}
Running == {"chunk", "opening", "fetching", "backoff", "parsing"}

TypeOK ==
  /\ present \in SUBSET Uid
  /\ row \in [Uid -> 0 .. MaxRow]
  /\ rowIds \in 0 .. MaxRow
  /\ flagged \in [RowId -> BOOLEAN]
  /\ bodies \in [RowId -> 0 .. MaxUid]
  /\ pc \in {"idle"} \cup Running \cup Outcome
  /\ target \in [Uid -> 0 .. MaxRow]
  /\ todo \in SUBSET Uid
  /\ chunk \in SUBSET Uid
  /\ stream \in SUBSET Uid
  /\ parsing \in [Uid -> 0 .. RetryBudget + 1]
  /\ parsed \in SUBSET Uid
  /\ attempt \in 0 .. RetryBudget
  /\ connected \in BOOLEAN
  /\ aborted \in BOOLEAN
  /\ skipped \in SUBSET Uid

NoneOf(S) == [u \in S |-> 0]

Init ==
  /\ present = Uid
  /\ row = NoneOf(Uid)
  /\ rowIds = 0
  /\ flagged = [r \in RowId |-> FALSE]
  /\ bodies = NoneOf(RowId)
  /\ pc = "idle"
  /\ target = NoneOf(Uid)
  /\ todo = {}
  /\ chunk = {}
  /\ stream = {}
  /\ parsing = NoneOf(Uid)
  /\ parsed = {}
  /\ attempt = 0
  /\ connected = FALSE
  /\ aborted = FALSE
  /\ skipped = {}

-----------------------------------------------------------------------------
(* The mailbox, and what other scans and the user do to the tables.         *)

Expunge(u) ==
  /\ u \in present
  /\ present' = present \ {u}
  /\ UNCHANGED <<dbVars, runVars, skipped>>

(* A dropped row leaves its id free for the next one. *)
NextRowIdReused ==
  1 + (CHOOSE m \in 0 .. MaxRow : /\ \A u \in Uid : row[u] <= m
                                  /\ m = 0 \/ \E u \in Uid : row[u] = m)

(* AUTOINCREMENT: an id is never handed out again. *)
NextRowId == rowIds + 1

Ingest(u) ==
  /\ u \in present
  /\ row[u] = 0
  /\ rowIds < MaxRow
  /\ row' = [row EXCEPT ![u] = NextRowId]
  /\ rowIds' = NextRowId
  /\ UNCHANGED <<present, flagged, bodies, runVars, skipped>>

(* Rows are deleted, and ON DELETE CASCADE their bodies with them. *)
DeleteRows(gone) ==
  /\ row' = [u \in Uid |-> IF u \in gone THEN 0 ELSE row[u]]
  /\ flagged' = [r \in RowId |-> flagged[r] /\ \A u \in gone : row[u] # r]
  /\ bodies' = [r \in RowId |-> IF \E u \in gone : row[u] = r THEN 0 ELSE bodies[r]]

(* The UID sync of another run. *)
Prune(u) ==
  /\ row[u] # 0
  /\ u \notin present
  /\ DeleteRows({u})
  /\ UNCHANGED <<present, rowIds, runVars, skipped>>

ResetCache ==
  /\ \E u \in Uid : row[u] # 0
  /\ DeleteRows(Uid)
  /\ UNCHANGED <<present, rowIds, runVars, skipped>>

-----------------------------------------------------------------------------
(* The run.                                                                 *)

Fresh(u) == row[u] # 0 /\ bodies[row[u]] = 0

(* The targets: messages of kept contacts without a cached body. *)
Collect ==
  /\ pc = "idle"
  /\ \E kept \in SUBSET Uid :
       /\ target' = [u \in Uid |-> IF u \in kept /\ Fresh(u) THEN row[u] ELSE 0]
       /\ todo' = {u \in kept : Fresh(u)}
  /\ pc' = "chunk"
  /\ connected' = TRUE
  /\ UNCHANGED <<present, dbVars, chunk, stream, parsing, parsed, attempt, aborted, skipped>>

FirstOf(S, n) == {u \in S : Cardinality({v \in S : v < u}) < n}

OneChunkAhead(S) == S \ FirstOf(S, ChunkSize + 1)
AfterChunk(S) == S \ FirstOf(S, ChunkSize)

NextChunk ==
  /\ pc = "chunk"
  /\ ~ aborted
  /\ todo # {}
  /\ chunk' = FirstOf(todo, ChunkSize)
  /\ todo' = AfterChunk(todo)
  /\ attempt' = 0
  /\ pc' = "opening"
  /\ UNCHANGED <<present, dbVars, target, stream, parsing, parsed, connected, aborted, skipped>>

LeaveLoop ==
  /\ pc = "chunk"
  /\ aborted \/ todo = {}
  /\ pc' = IF todo = {} THEN "done" ELSE "cancelled"
  /\ UNCHANGED <<present, dbVars, target, todo, chunk, stream, parsing, parsed, attempt,
                 connected, aborted, skipped>>

StartFetch ==
  /\ pc = "opening"
  /\ connected
  /\ stream' = chunk \cap present
  /\ skipped' = skipped \cup (chunk \ present)
  /\ pc' = "fetching"
  /\ UNCHANGED <<present, dbVars, target, todo, chunk, parsing, parsed, attempt, connected,
                 aborted>>

(* A message arrives, in UID order, and its parse is under way; without a    *)
(* source it is passed over.                                                *)
Receive ==
  /\ pc = "fetching"
  /\ ~ aborted
  /\ \E u \in FirstOf(stream, 1) :
       /\ stream' = stream \ {u}
       /\ \/ parsing' = [parsing EXCEPT ![u] = @ + 1] /\ UNCHANGED skipped
          \/ skipped' = skipped \cup {u} /\ UNCHANGED parsing
  /\ UNCHANGED <<present, dbVars, pc, target, todo, chunk, parsed, attempt, connected, aborted>>

ParseSettles(u) ==
  /\ parsing[u] > 0
  /\ parsing' = [parsing EXCEPT ![u] = @ - 1]
  /\ \/ parsed' = parsed \cup {u} /\ UNCHANGED skipped
     \/ skipped' = skipped \cup {u} /\ UNCHANGED parsed
  /\ UNCHANGED <<present, dbVars, pc, target, todo, chunk, stream, attempt, connected, aborted>>

(* The abort is seen with the next message; after the last it is not looked *)
(* for until the chunk is committed.                                        *)
FetchCancelled ==
  /\ pc = "fetching"
  /\ aborted
  /\ stream # {}
  /\ pc' = "cancelled"
  /\ UNCHANGED <<present, dbVars, target, todo, chunk, stream, parsing, parsed, attempt,
                 connected, aborted, skipped>>

RetryWithoutLimit == TRUE
RetryLeft == attempt < RetryBudget

AttemptsForgotten == attempt
NextAttempt == attempt + 1

(* The connection breaks.  A retry fetches the whole chunk again; what was   *)
(* parsed, or is being parsed, stays with the chunk.                        *)
FetchBreaks(transient) ==
  /\ pc \in {"opening", "fetching"}
  /\ stream' = {}
  /\ LET retry == transient /\ ~ aborted /\ RetryLeft
     IN  /\ attempt' = IF retry THEN NextAttempt ELSE attempt
         /\ pc' = IF retry THEN "backoff" ELSE IF aborted THEN "cancelled" ELSE "failed"
  /\ UNCHANGED <<present, dbVars, target, todo, chunk, parsing, parsed, connected, aborted,
                 skipped>>

(* sleep, disconnect, connect.                                              *)
Reconnect ==
  /\ pc = "backoff"
  /\ \/ /\ aborted
        /\ pc' = "cancelled"
        /\ UNCHANGED connected
     \/ /\ ~ aborted
        /\ connected' = TRUE
        /\ pc' = "opening"
     \/ /\ connected' = FALSE
        /\ pc' = IF attempt >= RetryBudget THEN "failed"
                 ELSE IF aborted THEN "cancelled" ELSE "opening"
  /\ UNCHANGED <<present, dbVars, target, todo, chunk, stream, parsing, parsed, attempt,
                 aborted, skipped>>

EndFetch ==
  /\ pc = "fetching"
  /\ stream = {}
  /\ pc' = "parsing"
  /\ UNCHANGED <<present, dbVars, target, todo, chunk, stream, parsing, parsed, attempt,
                 connected, aborted, skipped>>

Exists(r) == \E u \in Uid : row[u] = r

AnyRow(writes) == TRUE

(* message_bodies.message_id REFERENCES messages(id). *)
ForeignKeysHold(writes) == \A u \in writes : Exists(target[u])

WriteFlags(writes) ==
  flagged' = [r \in RowId |->
                IF Exists(r) /\ \E u \in writes : target[u] = r
                THEN \E u \in writes : target[u] = r /\ u \in Unsubscribe
                ELSE flagged[r]]

WriteBodies(writes) ==
  bodies' = [r \in RowId |-> IF \E u \in writes : target[u] = r
                             THEN CHOOSE u \in writes : target[u] = r
                             ELSE bodies[r]]

(* All parses of the chunk have settled: their bodies and flags go in, in    *)
(* one transaction, or nothing does and the folder has failed.  Without a   *)
(* key store the flags alone are written.                                   *)
Commit ==
  /\ pc = "parsing"
  /\ \A u \in Uid : parsing[u] = 0
  /\ \/ /\ ForeignKeysHold(parsed)
        /\ WriteBodies(parsed)
        /\ WriteFlags(parsed)
        /\ pc' = "chunk"
        /\ UNCHANGED skipped
     \/ /\ parsed # {}
        /\ WriteFlags(parsed)
        /\ skipped' = skipped \cup parsed
        /\ pc' = "chunk"
        /\ UNCHANGED bodies
     \/ /\ parsed # {}
        /\ pc' = "failed"
        /\ UNCHANGED <<flagged, bodies, skipped>>
  /\ parsed' = {}
  /\ UNCHANGED <<present, row, rowIds, target, todo, chunk, stream, parsing, attempt,
                 connected, aborted>>

RunStep ==
  \/ NextChunk \/ LeaveLoop
  \/ StartFetch \/ Receive \/ FetchCancelled \/ EndFetch
  \/ \E transient \in BOOLEAN : FetchBreaks(transient)
  \/ Reconnect \/ Commit

Abort ==
  /\ pc \in Running
  /\ ~ aborted
  /\ aborted' = TRUE
  /\ UNCHANGED <<present, dbVars, pc, target, todo, chunk, stream, parsing, parsed, attempt,
                 connected, skipped>>

(* The pass is over, or the process died; parses in flight are dropped.      *)
Forget ==
  /\ pc # "idle"
  /\ pc' = "idle"
  /\ target' = NoneOf(Uid)
  /\ todo' = {}
  /\ chunk' = {}
  /\ stream' = {}
  /\ parsing' = NoneOf(Uid)
  /\ parsed' = {}
  /\ attempt' = 0
  /\ connected' = FALSE
  /\ aborted' = FALSE
  /\ skipped' = {}
  /\ UNCHANGED <<present, dbVars>>

Next ==
  \/ \E u \in Uid : Expunge(u) \/ Ingest(u) \/ Prune(u) \/ ParseSettles(u)
  \/ ResetCache
  \/ Collect \/ RunStep \/ Abort \/ Forget

Spec == Init /\ [][Next]_vars

(* Network calls and timers settle, and the parser answers every call.       *)
FairSpec ==
  /\ Spec
  /\ WF_vars(RunStep)
  /\ \A u \in Uid : WF_vars(ParseSettles(u))

-----------------------------------------------------------------------------
(* Properties.                                                              *)

(* What is stored with a row was found in the message the row is of, however *)
(* long ago the run that stores it read the row's id.                       *)
BodyBelongsToMessage ==
  \A u \in Uid : row[u] # 0 =>
    /\ bodies[row[u]] \in {0, u}
    /\ flagged[row[u]] => u \in Unsubscribe

(* A run that outlives a reset, or the deletion of a message, leaves nothing *)
(* behind that has no message.                                              *)
NothingOutlivesItsMessage ==
  \A r \in RowId : bodies[r] # 0 \/ flagged[r] => Exists(r)

(* A pass that reports success has the body of each of its messages that     *)
(* still has its row, unless the server or the parser did not supply it.    *)
CachedWhenDone ==
  pc = "done" =>
    \A u \in Uid : target[u] # 0 /\ row[u] = target[u] => bodies[target[u]] = u \/ u \in skipped

(* A body this run or an earlier one has cached is never fetched again,      *)
(* across chunks, retries and passes.                                       *)
CachedBodyIsNotFetched ==
  \A u \in stream : row[u] = target[u] => bodies[target[u]] = 0

(* Retries and chunks are bounded and every parse is answered: a pass ends.  *)
DeepScanEnds == pc = "chunk" ~> pc \in Outcome \cup {"idle"}

=============================================================================
