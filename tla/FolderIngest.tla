---------------------------- MODULE FolderIngest ----------------------------
(***************************************************************************)
(* One run of ingestFolder (src/main/pipeline/ingestion.ts) over one IMAP  *)
(* folder, with the folder's rows in SQLite and the mailbox on the server. *)
(*                                                                         *)
(* The main process is single-threaded and better-sqlite3 is synchronous,  *)
(* so a step is what runs between two awaits.  A transaction has no await  *)
(* inside, so it belongs to one step.  Between two steps the server may    *)
(* change the mailbox, the user may cancel, and the process may die: the   *)
(* variables of the run are lost and those of the database stay.           *)
(*                                                                         *)
(* A message is its UID and what the fetch loop does with it: "plain" is   *)
(* stored, "trash" carries the \Deleted flag, "junk" has headers that do   *)
(* not parse.                                                              *)
(***************************************************************************)
EXTENDS Integers, FiniteSets

CONSTANTS
  MaxUid,       \* bound: the largest UID the server hands out
  MaxEpoch,     \* bound: UIDVALIDITY takes the values 1..MaxEpoch
  BatchSize,    \* BATCH_SIZE (500 in the code)
  RetryBudget   \* backoff.length (3 in the code)

ASSUME BoundsAssumption ==
  /\ MaxUid \in Nat
  /\ MaxEpoch \in Nat \ {0}
  /\ BatchSize \in Nat \ {0}
  /\ RetryBudget \in Nat

VARIABLES
  (* the server *)
  mail,         \* the kind of the message at each UID, "absent" when there is none
  uidnext,      \* UIDNEXT: the UID of the next message to arrive
  uidvalidity,  \* UIDVALIDITY: the numbering the UIDs belong to
  (* the database *)
  folder,       \* the folders row
  rows,         \* the messages rows: the UIDVALIDITY each UID was fetched under, 0 = no row
  (* the run *)
  pc,           \* the await the run stands at
  state,        \* FolderState as STATUS answered it
  uidnextSeen,  \* folderRow.uidnextSeen, the run's copy of the watermark
  liveUids,     \* the answer of listLiveUids
  highestUid,
  batch,        \* parsed messages not yet committed, as in rows
  stream,       \* what the running FETCH has still to deliver
  attempt,
  connected,    \* client.isConnected()
  aborted,      \* signal.aborted
  (* what became of the run, for the properties to tell *)
  refused,      \* liveUids stands for a SEARCH that failed, not for an answer
  gone,         \* the folders row the run works on was deleted under it
  lateCommits,  \* the transactions it committed after the abort
  (* history *)
  passedOver,   \* UIDs a run received and did not store: \Deleted or malformed
  misjudged     \* UIDs whose rows a run deleted on the word of a failed SEARCH

serverVars == <<mail, uidnext, uidvalidity>>
dbVars     == <<folder, rows>>
runVars    == <<pc, state, uidnextSeen, liveUids, highestUid, batch, stream,
                attempt, connected, aborted, refused, gone, lateCommits>>
histVars   == <<passedOver, misjudged>>
vars       == <<serverVars, dbVars, runVars, histVars>>

Uid   == 1 .. MaxUid
Epoch == 1 .. MaxEpoch
Kind  == {"plain", "trash", "junk", "absent"}

NoMail   == [u \in Uid |-> "absent"]
NoRows   == [u \in Uid |-> 0]
NoFolder == [uidvalidity |-> 0, uidnextSeen |-> 0]
NoState  == [uidvalidity |-> 0, uidnext |-> 0]

Outcome == {"done", "failed", "cancelled"}
Running == {"selected", "syncing", "pruning", "loop", "fetching", "parsing",
            "backoff"}

TypeOK ==
  /\ mail \in [Uid -> Kind]
  /\ uidnext \in 1 .. MaxUid + 1
  /\ uidvalidity \in Epoch
  /\ folder \in [uidvalidity : 0 .. MaxEpoch, uidnextSeen : 0 .. MaxUid]
  /\ rows \in [Uid -> 0 .. MaxEpoch]
  /\ pc \in {"idle"} \cup Running \cup Outcome
  /\ state \in [uidvalidity : 0 .. MaxEpoch, uidnext : 0 .. MaxUid + 1]
  /\ uidnextSeen \in 0 .. MaxUid
  /\ liveUids \in SUBSET Uid
  /\ highestUid \in 0 .. MaxUid
  /\ batch \in [Uid -> 0 .. MaxEpoch]
  /\ stream \in [Uid -> Kind]
  /\ attempt \in 0 .. RetryBudget
  /\ connected \in BOOLEAN
  /\ aborted \in BOOLEAN
  /\ refused \in BOOLEAN
  /\ gone \in BOOLEAN
  /\ lateCommits \in Nat
  /\ passedOver \in SUBSET Uid
  /\ misjudged \in SUBSET Uid

Init ==
  /\ mail = NoMail
  /\ uidnext = 1
  /\ uidvalidity = 1
  /\ folder = NoFolder
  /\ rows = NoRows
  /\ pc = "idle"
  /\ state = NoState
  /\ uidnextSeen = 0
  /\ liveUids = {}
  /\ highestUid = 0
  /\ batch = NoRows
  /\ stream = NoMail
  /\ attempt = 0
  /\ connected = FALSE
  /\ aborted = FALSE
  /\ refused = FALSE
  /\ gone = FALSE
  /\ lateCommits = 0
  /\ passedOver = {}
  /\ misjudged = {}

-----------------------------------------------------------------------------
(* The mailbox.  UIDs ascend and are not reused under one UIDVALIDITY; a    *)
(* session that has the mailbox open never sees UIDVALIDITY change.         *)

Arrive ==
  /\ uidnext <= MaxUid
  /\ \E k \in Kind \ {"absent"} : mail' = [mail EXCEPT ![uidnext] = k]
  /\ uidnext' = uidnext + 1
  /\ UNCHANGED <<uidvalidity, dbVars, runVars, histVars>>

Expunge(u) ==
  /\ mail[u] # "absent"
  /\ mail' = [mail EXCEPT ![u] = "absent"]
  /\ UNCHANGED <<uidnext, uidvalidity, dbVars, runVars, histVars>>

(* A mail client sets or clears \Deleted. *)
FlagDeleted(u) ==
  /\ mail[u] \in {"plain", "trash"}
  /\ mail' = [mail EXCEPT ![u] = IF @ = "plain" THEN "trash" ELSE "plain"]
  /\ UNCHANGED <<uidnext, uidvalidity, dbVars, runVars, histVars>>

(* The server rebuilds the mailbox: n messages under a new numbering. *)
Renumber ==
  /\ uidvalidity < MaxEpoch
  /\ pc \notin {"fetching", "parsing"}
  /\ uidvalidity' = uidvalidity + 1
  /\ \E n \in 0 .. MaxUid :
       /\ mail' = [u \in Uid |-> IF u <= n THEN "plain" ELSE "absent"]
       /\ uidnext' = n + 1
  /\ passedOver' = {}
  /\ misjudged' = {}
  /\ UNCHANGED <<dbVars, runVars>>

(* FETCH min:* selects the UIDs from min up.  With none there, * stands for *)
(* the last message, which is then selected although it is below min.       *)
Selected(min) ==
  LET live == {u \in Uid : mail[u] # "absent"}
  IN  {u \in live : u >= min \/ (\A v \in live : v < min /\ v <= u)}

FetchStream(min) ==
  [u \in Uid |-> IF u \in Selected(min) THEN mail[u] ELSE "absent"]

ServerStep ==
  \/ Arrive
  \/ \E u \in Uid : Expunge(u) \/ FlagDeleted(u)
  \/ Renumber

-----------------------------------------------------------------------------
(* The database operations the run calls.                                   *)

Stored(u) == rows[u] # 0

ReplaceFolder(uv) == [uidvalidity |-> uv, uidnextSeen |-> 0]

(* upsertFolder: insert, or on conflict set uidvalidity; RETURNING the row   *)
(* as it then is.                                                           *)
UpsertFolder(uv) == [folder EXCEPT !.uidvalidity = uv]

(* Rows of a batch join the table ON CONFLICT (folder_id, uid) DO NOTHING.   *)
InsertMessages(b) == [u \in Uid |-> IF rows[u] = 0 THEN b[u] ELSE rows[u]]

DeleteMessagesByUids(stale) == [u \in Uid |-> IF u \in stale THEN 0 ELSE rows[u]]

(* There is something for flushAndCheckpoint to write.                       *)
Unwritten(b, h) == b # NoRows \/ h # uidnextSeen

(* flushAndCheckpoint on batch b with highest UID h: the rows and the        *)
(* watermark in one transaction.  A folders row that is gone takes no         *)
(* message (foreign key), and moving its watermark updates nothing.          *)
Checkpoint(b, h) ==
  /\ gone => b = NoRows
  /\ rows' = InsertMessages(b)
  /\ folder' = [folder EXCEPT !.uidnextSeen = IF ~ gone /\ h > uidnextSeen THEN h ELSE @]
  /\ uidnextSeen' = IF h > uidnextSeen THEN h ELSE uidnextSeen
  /\ batch' = NoRows
  /\ highestUid' = h
  /\ lateCommits' = IF aborted /\ Unwritten(b, h) THEN lateCommits + 1 ELSE lateCommits

WatermarkOutsideTransaction(b, h) ==
  /\ rows' = rows
  /\ folder' = [folder EXCEPT !.uidnextSeen = IF ~ gone /\ h > uidnextSeen THEN h ELSE @]
  /\ uidnextSeen' = uidnextSeen
  /\ batch' = b
  /\ highestUid' = h
  /\ UNCHANGED lateCommits

(* The transaction failed and rolled back: the batch stays in memory.        *)
RolledBack(b, h) ==
  /\ UNCHANGED <<dbVars, uidnextSeen, lateCommits>>
  /\ batch' = b
  /\ highestUid' = h

(* The catch arm of the fetch loop commits what it has, as well as it can.   *)
FlushAnyway(b, h) == Checkpoint(b, h) \/ RolledBack(b, h)

-----------------------------------------------------------------------------
(* The run.                                                                 *)

UpToDateTooEarly == uidnextSeen + 2 >= state.uidnext
UpToDate == uidnextSeen + 1 >= state.uidnext

(* runScan asks for the folder's state and upserts its row, for every        *)
(* selected folder before the first of them is ingested.                     *)
GetFolderState ==
  /\ pc = "idle"
  /\ state' = [uidvalidity |-> uidvalidity, uidnext |-> uidnext]
  /\ folder' = UpsertFolder(uidvalidity)
  /\ connected' = TRUE
  /\ pc' = "selected"
  /\ UNCHANGED <<serverVars, rows, uidnextSeen, liveUids, highestUid, batch, stream,
                 attempt, aborted, refused, gone, lateCommits, histVars>>

(* ingestFolder starts: the row is upserted again, and a row of another      *)
(* numbering is to be wiped.                                                 *)
OpenFolder ==
  /\ pc = "selected"
  /\ ~ aborted
  /\ LET row  == UpsertFolder(state.uidvalidity)
         wipe == row.uidvalidity # state.uidvalidity
     IN  /\ rows' = IF wipe THEN NoRows ELSE rows
         /\ folder' = IF wipe THEN [uidvalidity |-> state.uidvalidity, uidnextSeen |-> 0]
                              ELSE row
         /\ uidnextSeen' = folder'.uidnextSeen
         /\ highestUid' = folder'.uidnextSeen
  /\ pc' = "syncing"
  /\ UNCHANGED <<serverVars, state, liveUids, batch, stream, attempt, connected,
                 aborted, refused, gone, lateCommits, histVars>>

AfterSync == IF UpToDate THEN "done" ELSE "loop"

(* imapflow's search() returns false for a SEARCH that failed.                *)
SearchUndeleted(failed) == {u \in Uid : ~ failed /\ mail[u] \in {"plain", "junk"}}
SearchAll(failed) == {u \in Uid : ~ failed /\ mail[u] # "absent"}

(* listLiveUids settles with a list.  For a SEARCH that failed it is empty:   *)
(* the client takes the false for an empty search.                           *)
ListLiveUids ==
  /\ pc = "syncing"
  /\ ~ aborted
  /\ refused' \in BOOLEAN
  /\ liveUids' = SearchAll(refused')
  /\ pc' = "pruning"
  /\ UNCHANGED <<serverVars, dbVars, state, uidnextSeen, highestUid, batch, stream,
                 attempt, connected, aborted, gone, lateCommits, histVars>>

(* listLiveUids rejects, as it does when the folder cannot be opened.  An     *)
(* abort seen while SEARCH was in flight is one of these: the client wraps it *)
(* as a NetworkError, and the sync shrugs it off.                            *)
ListLiveUidsFails ==
  /\ pc = "syncing"
  /\ pc' = AfterSync
  /\ UNCHANGED <<serverVars, dbVars, state, uidnextSeen, liveUids, highestUid, batch,
                 stream, attempt, connected, aborted, refused, gone, lateCommits, histVars>>

(* An abort seen before ingestFolder, or after the answer of listLiveUids.   *)
SyncCancelled ==
  /\ pc \in {"selected", "pruning"}
  /\ aborted
  /\ liveUids' = {}
  /\ refused' = FALSE
  /\ pc' = "cancelled"
  /\ UNCHANGED <<serverVars, dbVars, state, uidnextSeen, highestUid, batch, stream,
                 attempt, connected, aborted, gone, lateCommits, histVars>>

Stale == {u \in Uid : ~ gone /\ Stored(u) /\ u \notin liveUids}

(* The stale rows are deleted in one transaction; should it fail, the run     *)
(* goes on without.                                                          *)
PruneStale ==
  /\ pc = "pruning"
  /\ ~ aborted
  /\ \/ /\ rows' = DeleteMessagesByUids(Stale)
        /\ misjudged' = IF refused THEN misjudged \cup Stale ELSE misjudged
     \/ UNCHANGED <<rows, misjudged>>
  /\ liveUids' = {}
  /\ refused' = FALSE
  /\ pc' = AfterSync
  /\ UNCHANGED <<serverVars, folder, state, uidnextSeen, highestUid, batch, stream,
                 attempt, connected, aborted, gone, lateCommits, passedOver>>

(* The head of the fetch loop, when it leaves the loop.                      *)
LeaveLoop ==
  /\ pc = "loop"
  /\ aborted \/ UpToDate
  /\ pc' = IF aborted THEN "cancelled" ELSE "done"
  /\ UNCHANGED <<serverVars, dbVars, state, uidnextSeen, liveUids, highestUid, batch,
                 stream, attempt, connected, aborted, refused, gone, lateCommits, histVars>>

StartFetch ==
  /\ pc = "loop"
  /\ ~ aborted
  /\ ~ UpToDate
  /\ connected
  /\ stream' = FetchStream(uidnextSeen + 1)
  /\ pc' = "fetching"
  /\ UNCHANGED <<serverVars, dbVars, state, uidnextSeen, liveUids, highestUid, batch,
                 attempt, connected, aborted, refused, gone, lateCommits, histVars>>

Full(b) == Cardinality({u \in Uid : b[u] # 0}) >= BatchSize

(* A batch that outlived a failed commit is fetched again after the retry,   *)
(* holds those messages twice, and is full sooner.                           *)
MayBeFull(b) == Full(b) \/ attempt > 0

ReceiveRegardless == TRUE
MayReceive == ~ aborted

(* u is the next message of the stream.                                      *)
AtHead(u) == stream[u] # "absent" /\ \A v \in Uid : stream[v] # "absent" => u <= v

PassOver(u) == IF gone THEN UNCHANGED passedOver ELSE passedOver' = passedOver \cup {u}

(* The loop body up to its await: the watermark candidate moves first, so     *)
(* that a message that is passed over is not fetched again; one that is       *)
(* flagged \Deleted is, any other goes to the parser.                        *)
Receive ==
  /\ pc = "fetching"
  /\ MayReceive
  /\ \E u \in Uid :
       /\ AtHead(u)
       /\ highestUid' = IF u > highestUid THEN u ELSE highestUid
       /\ \/ /\ stream[u] = "trash"
             /\ PassOver(u)
             /\ stream' = [stream EXCEPT ![u] = "absent"]
             /\ UNCHANGED pc
          \/ /\ stream[u] # "trash"
             /\ pc' = "parsing"
             /\ UNCHANGED <<stream, passedOver>>
  /\ UNCHANGED <<serverVars, dbVars, state, uidnextSeen, liveUids, batch, attempt,
                 connected, aborted, refused, gone, lateCommits, misjudged>>

(* parseHeaders settles, and nothing asks for the abort here: what does not   *)
(* parse is passed over, the rest joins the batch.  A full batch is           *)
(* committed, and a commit that fails ends the run by the catch arm.         *)
ParseSettles ==
  /\ pc = "parsing"
  /\ \E u \in Uid :
       LET b == IF batch[u] = 0 THEN [batch EXCEPT ![u] = uidvalidity] ELSE batch
       IN  /\ AtHead(u)
           /\ \/ /\ stream[u] = "junk"
                 /\ PassOver(u)
                 /\ stream' = [stream EXCEPT ![u] = "absent"]
                 /\ pc' = "fetching"
                 /\ UNCHANGED <<dbVars, uidnextSeen, highestUid, batch, lateCommits>>
              \/ /\ stream[u] = "plain"
                 /\ ~ Full(b)
                 /\ batch' = b
                 /\ stream' = [stream EXCEPT ![u] = "absent"]
                 /\ pc' = "fetching"
                 /\ UNCHANGED <<dbVars, uidnextSeen, highestUid, lateCommits, passedOver>>
              \/ /\ stream[u] = "plain"
                 /\ MayBeFull(b)
                 /\ \/ /\ Checkpoint(b, highestUid)
                       /\ stream' = [stream EXCEPT ![u] = "absent"]
                       /\ pc' = "fetching"
                    \/ /\ FlushAnyway(b, highestUid)
                       /\ stream' = NoMail
                       /\ pc' = IF aborted THEN "cancelled" ELSE "failed"
                 /\ UNCHANGED passedOver
  /\ UNCHANGED <<serverVars, state, liveUids, attempt, connected, aborted, refused, gone,
                 misjudged>>

(* The FETCH is answered: the rest is committed and the folder is done.      *)
EndFetch ==
  /\ pc = "fetching"
  /\ ~ aborted
  /\ stream = NoMail
  /\ \/ Checkpoint(batch, highestUid) /\ pc' = "done"
     \/ FlushAnyway(batch, highestUid) /\ pc' = "failed"
  /\ UNCHANGED <<serverVars, state, liveUids, stream, attempt, connected, aborted,
                 refused, gone, histVars>>

(* The abort is seen with the next message or at the end of the stream; the  *)
(* catch arm commits the batch in hand.                                      *)
FetchCancelled ==
  /\ pc = "fetching"
  /\ aborted
  /\ FlushAnyway(batch, highestUid)
  /\ stream' = NoMail
  /\ pc' = "cancelled"
  /\ UNCHANGED <<serverVars, state, liveUids, attempt, connected, aborted, refused, gone,
                 histVars>>

RetryWithoutLimit == TRUE
RetryLeft == attempt < RetryBudget

AttemptsForgotten == attempt
NextAttempt == attempt + 1

(* The connection breaks, while the mailbox is opened or in mid-stream.  A   *)
(* transient error is retried while the budget lasts, any other ends the run.*)
FetchBreaks(transient) ==
  /\ \/ pc = "fetching"
     \/ pc = "loop" /\ ~ aborted /\ ~ UpToDate
  /\ FlushAnyway(batch, highestUid)
  /\ stream' = NoMail
  /\ LET retry == transient /\ ~ aborted /\ RetryLeft
     IN  /\ attempt' = IF retry THEN NextAttempt ELSE attempt
         /\ pc' = IF retry THEN "backoff" ELSE IF aborted THEN "cancelled" ELSE "failed"
  /\ UNCHANGED <<serverVars, state, liveUids, connected, aborted, refused, gone, histVars>>

(* sleep, disconnect, connect.  Sleeping rejects on abort; a failed connect   *)
(* is fatal on the last attempt only.                                        *)
Reconnect ==
  /\ pc = "backoff"
  /\ \/ /\ aborted
        /\ pc' = "cancelled"
        /\ UNCHANGED connected
     \/ /\ connected' = TRUE
        /\ pc' = "loop"
     \/ /\ connected' = FALSE
        /\ pc' = IF attempt >= RetryBudget THEN "failed" ELSE "loop"
  /\ UNCHANGED <<serverVars, dbVars, state, uidnextSeen, liveUids, highestUid, batch,
                 stream, attempt, aborted, refused, gone, lateCommits, histVars>>

RunStep ==
  \/ OpenFolder
  \/ ListLiveUids \/ ListLiveUidsFails \/ SyncCancelled \/ PruneStale
  \/ LeaveLoop \/ StartFetch \/ Receive \/ ParseSettles \/ EndFetch \/ FetchCancelled
  \/ \E transient \in BOOLEAN : FetchBreaks(transient)
  \/ Reconnect

(* scan.cancel, or any other abort of the scan's controller.                 *)
Abort ==
  /\ pc \in Running
  /\ ~ aborted
  /\ aborted' = TRUE
  /\ UNCHANGED <<serverVars, dbVars, pc, state, uidnextSeen, liveUids, highestUid, batch,
                 stream, attempt, connected, refused, gone, lateCommits, histVars>>

(* The promise of ingestFolder has settled, or the process died: nothing of  *)
(* the run is left but what it committed.                                    *)
Forget ==
  /\ pc # "idle"
  /\ pc' = "idle"
  /\ state' = NoState
  /\ uidnextSeen' = 0
  /\ liveUids' = {}
  /\ highestUid' = 0
  /\ batch' = NoRows
  /\ stream' = NoMail
  /\ attempt' = 0
  /\ connected' = FALSE
  /\ aborted' = FALSE
  /\ refused' = FALSE
  /\ gone' = FALSE
  /\ lateCommits' = 0
  /\ UNCHANGED <<serverVars, dbVars, histVars>>

(* cache.reset, in the middle of a run too: the handler asks for no scan, and *)
(* the screen only for its own status.  A run that has ingestFolder before    *)
(* it upserts a row of its own; one that is inside goes on with the id of the *)
(* row it had, which no later row is given.                                  *)
ResetCache ==
  /\ folder' = NoFolder
  /\ rows' = NoRows
  /\ gone' = (pc \notin {"idle", "selected"})
  /\ passedOver' = {}
  /\ misjudged' = {}
  /\ UNCHANGED <<serverVars, pc, state, uidnextSeen, liveUids, highestUid, batch, stream,
                 attempt, connected, aborted, refused, lateCommits>>

Next ==
  \/ ServerStep
  \/ GetFolderState
  \/ RunStep
  \/ Abort
  \/ Forget
  \/ ResetCache

Spec == Init /\ [][Next]_vars

(* The promises the run awaits settle, so the run goes on until it ends.      *)
FairSpec == Spec /\ WF_vars(RunStep)

-----------------------------------------------------------------------------
(* Properties.                                                              *)

FirstNumbering == uidvalidity = 1

(* A run has dealt with the message: it has its row, or was passed over, or   *)
(* had a row until a SEARCH failed.  That last is the code's own way to lose  *)
(* mail: every row of the folder goes, the watermark stays, and nothing below *)
(* it is ever asked for again.                                               *)
Accounted(u) == Stored(u) \/ u \in passedOver \/ u \in misjudged

(* The watermark never runs ahead of the rows: as long as UIDVALIDITY stands, *)
(* a message at or below uidnext_seen that is on the server, is not flagged   *)
(* \Deleted and was not passed over has its row, whatever crashes, drops,     *)
(* failed transactions, cancellations and cache resets lie behind - unless a  *)
(* failed SEARCH deleted that row.                                           *)
NoMessageLost ==
  FirstNumbering =>
    \A u \in Uid : u <= folder.uidnextSeen /\ mail[u] = "plain" => Accounted(u)

(* A run that reports success, and had its cache not reset under it, has      *)
(* mirrored the folder as STATUS described it: no message older than the      *)
(* UIDNEXT the scan started from is missing, but by a failed SEARCH.          *)
CompleteWhenDone ==
  FirstNumbering /\ pc = "done" /\ ~ gone =>
    \A u \in Uid : u < state.uidnext /\ mail[u] = "plain" => Accounted(u)

(* The UID sync deletes a cached message only if the server no longer has it, *)
(* or did not say.                                                           *)
OnlyGoneRowsDropped ==
  [][FirstNumbering /\ folder' # NoFolder =>
       \A u \in Uid : Stored(u) /\ rows'[u] = 0
                         => mail[u] = "absent" \/ u \in misjudged']_vars

(* The watermark falls only together with every row it vouches for.           *)
WatermarkFallsOnlyWithItsRows ==
  [][folder'.uidnextSeen < folder.uidnextSeen => rows' = NoRows]_vars

(* A cancelled run commits once more at most: the batch that was full when    *)
(* the parser answered, or, in the catch arm, the one in hand - never both.  *)
CancelledRunCommitsOnce == lateCommits <= 1

(* Every behaviour of the run is one of the mirror: each commit extends it,   *)
(* prunes it or, after a failed SEARCH, loses it, and nothing else a run does *)
(* shows.                                                                    *)
Mirror == INSTANCE FolderMirror
            WITH mirror <- {u \in Uid : Stored(u)}, mark <- folder.uidnextSeen

MirrorsMailbox == Mirror!Spec

(* Retries are bounded and every stream is finite: a run comes to an end.     *)
IngestTerminates == pc = "selected" ~> pc \in Outcome \cup {"idle"}

(* "UIDVALIDITY changed: wipe and full rescan from UID 1": CompleteWhenDone   *)
(* for every numbering.  A run that reports success has a row, fetched under  *)
(* the numbering in force, for every message that was there when it began.    *)
(* (Resets and failed SEARCHes during the run are set aside.)                *)
RenumberedFolderIsRescanned ==
  pc = "done" /\ uidvalidity = state.uidvalidity /\ ~ gone =>
    \A u \in Uid : u < state.uidnext /\ mail[u] = "plain" =>
      rows[u] = uidvalidity \/ u \in passedOver \/ u \in misjudged

=============================================================================
