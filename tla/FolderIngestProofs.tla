------------------------- MODULE FolderIngestProofs -------------------------
(***************************************************************************)
(* What holds of FolderIngest for every mailbox size, batch size, retry    *)
(* budget and number of renumberings: of one run, of one beside others,    *)
(* and of two in turn.                                                     *)
(***************************************************************************)
EXTENDS OverlappingIngest, TLAPS

(* The run has opened the folder and has not ended.                         *)
Opened == {"syncing", "pruning", "loop", "fetching", "parsing", "backoff"}

Live(u) == mail[u] # "absent"

(* What a fetch has dealt with, or has in the batch in hand.                *)
Handled(u) == Accounted(u) \/ batch[u] # 0

(* The candidate is not behind the run's copy of the watermark, nor behind    *)
(* the message the parser has; and a failed SEARCH found nothing.            *)
SeenInOrder ==
  /\ pc \in Opened => uidnextSeen <= highestUid
  /\ pc \in {"syncing", "pruning"} => highestUid = uidnextSeen
  /\ pc = "parsing" => \A u \in Uid : AtHead(u) => u <= highestUid
  /\ refused => liveUids = {}

(* The copy is the folder's own, and no row lies above the watermark, unless  *)
(* another run moves that.                                                  *)
InStep ==
  /\ pc \in Opened /\ ~ gone => uidnextSeen = folder.uidnextSeen
  /\ \A u \in Uid : Stored(u) \/ u \in misjudged => u <= folder.uidnextSeen
  /\ \A u \in Uid : batch[u] # 0 => u <= highestUid /\ pc \notin {"idle", "selected"}

(* Nothing the run or the database knows of lies beyond UIDNEXT.             *)
BelowUidnext ==
  /\ \A u \in Uid : Live(u) \/ Stored(u) \/ batch[u] # 0 \/ stream[u] # "absent" => u < uidnext
  /\ folder.uidnextSeen < uidnext
  /\ pc \in Opened => highestUid < uidnext
  /\ state.uidnext <= uidnext

(* Below the watermark and the run's copy of it, and below the candidate     *)
(* while a fetch goes on, every live message has been dealt with, but for the *)
(* one the parser has.                                                      *)
WatermarkCovered ==
  /\ \A u \in Uid : u <= folder.uidnextSeen /\ Live(u) => Accounted(u)
  /\ pc \in Opened /\ ~ gone => \A u \in Uid : u <= uidnextSeen /\ Live(u) => Accounted(u)

CandidateCovered ==
  pc \in {"loop", "fetching", "parsing", "backoff"} /\ ~ gone =>
    \A u \in Uid : u <= highestUid /\ Live(u) => Handled(u) \/ (pc = "parsing" /\ AtHead(u))

(* Above the candidate, the stream still holds every live message that comes *)
(* before one of its own or that STATUS counted.                            *)
StreamComplete ==
  pc \in {"fetching", "parsing"} =>
    \A v \in Uid :
      /\ Live(v)
      /\ highestUid < v
      /\ v < state.uidnext \/ \E w \in Uid : v <= w /\ stream[w] # "absent"
      => stream[v] # "absent"

(* What the sync is about to delete has gone, if SEARCH was answered.        *)
SyncSound ==
  pc = "pruning" /\ ~ refused => \A u \in Uid : Stored(u) /\ Live(u) => u \in liveUids

DoneCovered ==
  pc = "done" /\ ~ gone => \A u \in Uid : u < state.uidnext /\ Live(u) => Accounted(u)

FolderInv ==
  /\ BelowUidnext
  /\ WatermarkCovered
  /\ CandidateCovered
  /\ StreamComplete
  /\ SyncSound
  /\ DoneCovered

SharedInv == TypeOK /\ SeenInOrder /\ (FirstNumbering => FolderInv)

IInv == SharedInv /\ InStep

-----------------------------------------------------------------------------
(* Types.                                                                   *)

(* The outcomes of committing, or failing to commit, a batch have their type.*)
LEMMA CommitType ==
  ASSUME TypeOK, NEW b \in [Uid -> 0 .. MaxEpoch], NEW h \in 0 .. MaxUid,
         FlushAnyway(b, h)
  PROVE  /\ rows' \in [Uid -> 0 .. MaxEpoch]
         /\ folder' \in [uidvalidity : 0 .. MaxEpoch, uidnextSeen : 0 .. MaxUid]
         /\ uidnextSeen' \in 0 .. MaxUid
         /\ batch' \in [Uid -> 0 .. MaxEpoch]
         /\ highestUid' \in 0 .. MaxUid
         /\ lateCommits' \in Nat
<1> USE DEF TypeOK
<1>1. CASE Checkpoint(b, h)
  BY <1>1, BoundsAssumption DEF Checkpoint, InsertMessages, NoRows
<1>2. CASE RolledBack(b, h)
  BY <1>2 DEF RolledBack, dbVars
<1> QED BY <1>1, <1>2 DEF FlushAnyway

(* The parser's answer to the message u, with the batch b it leaves.        *)
Turn(u, b) ==
  /\ pc = "parsing"
  /\ AtHead(u)
  /\ gone \/ b[u] # 0 \/ u \in passedOver'
  /\ \A v \in Uid : batch[v] # 0 => b[v] # 0
  /\ \A v \in Uid : b[v] # 0 => batch[v] # 0 \/ v = u
  /\ passedOver' \in {passedOver, passedOver \cup {u}}
  /\ \/ FlushAnyway(b, highestUid) /\ passedOver' = passedOver
     \/ batch' = b /\ UNCHANGED <<dbVars, uidnextSeen, highestUid, lateCommits>>
  /\ \/ stream' = [stream EXCEPT ![u] = "absent"] /\ pc' = "fetching"
     \/ stream' = NoMail /\ pc' \in {"failed", "cancelled"}
  /\ UNCHANGED <<serverVars, state, liveUids, attempt, connected, aborted, refused, gone,
                 misjudged>>

LEMMA ParseEffect ==
  ASSUME TypeOK, ParseSettles
  PROVE  \E u \in Uid, b \in [Uid -> 0 .. MaxEpoch] : Turn(u, b)
<1> DEFINE Grown(u) == IF batch[u] = 0 THEN [batch EXCEPT ![u] = uidvalidity] ELSE batch
<1>0. /\ pc = "parsing"
      /\ UNCHANGED <<serverVars, state, liveUids, attempt, connected, aborted, refused, gone,
                     misjudged>>
  BY DEF ParseSettles
<1> DEFINE Next1(u) == stream' = [stream EXCEPT ![u] = "absent"] /\ pc' = "fetching"
           Skips(u) == /\ PassOver(u) /\ Next1(u)
                       /\ UNCHANGED <<dbVars, uidnextSeen, highestUid, batch, lateCommits>>
           Keeps(u) == /\ batch' = Grown(u) /\ Next1(u)
                       /\ UNCHANGED <<dbVars, uidnextSeen, highestUid, lateCommits, passedOver>>
           Commits(u) == /\ FlushAnyway(Grown(u), highestUid)
                         /\ Next1(u) \/ (stream' = NoMail /\ pc' \in {"failed", "cancelled"})
                         /\ UNCHANGED passedOver
<1>1. PICK u \in Uid : AtHead(u) /\ (Skips(u) \/ Keeps(u) \/ Commits(u))
  BY DEF ParseSettles, FlushAnyway
<1>2. batch \in [Uid -> 0 .. MaxEpoch] /\ Grown(u) \in [Uid -> 0 .. MaxEpoch]
  BY DEF TypeOK, Epoch
<1>3. /\ Grown(u)[u] # 0
      /\ \A v \in Uid : batch[v] # 0 => Grown(u)[v] # 0
      /\ \A v \in Uid : Grown(u)[v] # 0 => batch[v] # 0 \/ v = u
  BY DEF TypeOK, Epoch
<1>4. CASE Skips(u)
  <2>1. passedOver' \in {passedOver, passedOver \cup {u}} /\ (gone \/ u \in passedOver')
    BY <1>4 DEF PassOver
  <2>2. Turn(u, batch)
    BY <1>0, <1>1, <1>4, <2>1 DEF Turn
  <2> QED BY <1>2, <2>2
<1>5. CASE Keeps(u) \/ Commits(u)
  <2> HIDE DEF Grown
  <2>1. Turn(u, Grown(u))
    BY <1>0, <1>1, <1>3, <1>5 DEF Turn
  <2> QED BY <1>2, <2>1
<1> QED BY <1>1, <1>4, <1>5

(* A step keeps every variable in its type.                                 *)
LEMMA TypeStep == TypeOK /\ [Next]_vars => TypeOK'
<1> SUFFICES ASSUME TypeOK, [Next]_vars PROVE TypeOK'
  OBVIOUS
<1> USE BoundsAssumption DEF TypeOK
<1> USE DEF serverVars, dbVars, runVars, histVars, Running, Outcome, Kind
<1>1. CASE Arrive
  <2>1. uidnext' \in 1 .. MaxUid + 1
    BY <1>1 DEF Arrive
  <2>2. mail' \in [Uid -> Kind]
    BY <1>1 DEF Arrive
  <2> QED BY <1>1, <2>1, <2>2 DEF Arrive
<1>2. ASSUME NEW u \in Uid, Expunge(u) PROVE TypeOK'
  BY <1>2 DEF Expunge
<1>3. ASSUME NEW u \in Uid, FlagDeleted(u) PROVE TypeOK'
  BY <1>3 DEF FlagDeleted
<1>4. CASE Renumber
  <2>1. uidvalidity' \in Epoch
    BY <1>4 DEF Renumber, Epoch
  <2>2. mail' \in [Uid -> Kind] /\ uidnext' \in 1 .. MaxUid + 1
    BY <1>4 DEF Renumber
  <2> QED BY <1>4, <2>1, <2>2 DEF Renumber
<1>5. CASE GetFolderState
  BY <1>5 DEF GetFolderState, UpsertFolder, Epoch
<1>6. CASE OpenFolder
  <2>1. UpsertFolder(state.uidvalidity) \in [uidvalidity : 0 .. MaxEpoch, uidnextSeen : 0 .. MaxUid]
    BY DEF UpsertFolder
  <2> QED BY <1>6, <2>1 DEF OpenFolder, NoRows
<1>7. CASE ListLiveUids
  BY <1>7 DEF ListLiveUids, SearchAll
<1>8. CASE ListLiveUidsFails
  BY <1>8 DEF ListLiveUidsFails, AfterSync
<1>9. CASE SyncCancelled
  BY <1>9 DEF SyncCancelled
<1>10. CASE PruneStale
  <2>1. rows' \in [Uid -> 0 .. MaxEpoch]
    BY <1>10 DEF PruneStale, DeleteMessagesByUids
  <2>2. misjudged' \in SUBSET Uid
    BY <1>10 DEF PruneStale, Stale
  <2>3. pc' \in Running \cup Outcome /\ liveUids' \in SUBSET Uid /\ refused' \in BOOLEAN
    BY <1>10 DEF PruneStale, AfterSync
  <2> QED BY <1>10, <2>1, <2>2, <2>3 DEF PruneStale
<1>11. CASE LeaveLoop
  BY <1>11 DEF LeaveLoop
<1>12. CASE StartFetch
  BY <1>12 DEF StartFetch, FetchStream
<1>13. CASE Receive
  <2>1. passedOver' \in SUBSET Uid
    BY <1>13 DEF Receive, PassOver
  <2>2. stream' \in [Uid -> Kind] /\ pc' \in Running
    BY <1>13 DEF Receive
  <2>3. highestUid' \in 0 .. MaxUid
    BY <1>13 DEF Receive, Uid
  <2> QED BY <1>13, <2>1, <2>2, <2>3 DEF Receive
<1>13a. CASE ParseSettles
  <2>1. PICK u \in Uid, b \in [Uid -> 0 .. MaxEpoch] : Turn(u, b)
    BY <1>13a, ParseEffect
  <2>2. stream' \in [Uid -> Kind] /\ pc' \in {"idle"} \cup Running \cup Outcome
    BY <2>1 DEF NoMail, Turn
  <2>3. passedOver' \in SUBSET Uid
    BY <2>1 DEF Turn
  <2>4. highestUid \in 0 .. MaxUid
    OBVIOUS
  <2> QED BY <2>1, <2>2, <2>3, <2>4, CommitType DEF Turn
<1>14. CASE EndFetch
  BY <1>14, CommitType DEF EndFetch, FlushAnyway
<1>15. CASE FetchCancelled
  BY <1>15, CommitType DEF FetchCancelled, NoMail
<1>16. ASSUME NEW transient \in BOOLEAN, FetchBreaks(transient) PROVE TypeOK'
  <2>1. FlushAnyway(batch, highestUid)
    BY <1>16 DEF FetchBreaks
  <2>2. attempt' \in 0 .. RetryBudget
    BY <1>16 DEF FetchBreaks, RetryLeft, NextAttempt
  <2>3. pc' \in {"idle"} \cup Running \cup Outcome /\ stream' \in [Uid -> Kind]
    BY <1>16 DEF FetchBreaks, NoMail
  <2>4. UNCHANGED <<serverVars, state, liveUids, connected, aborted, refused, gone, histVars>>
    BY <1>16 DEF FetchBreaks
  <2> QED BY <2>1, <2>2, <2>3, <2>4, CommitType
<1>17. CASE Reconnect
  BY <1>17 DEF Reconnect
<1>18. CASE Abort
  BY <1>18 DEF Abort
<1>19. CASE Forget
  <2>1. state' \in [uidvalidity : 0 .. MaxEpoch, uidnext : 0 .. MaxUid + 1]
    BY <1>19 DEF Forget, NoState
  <2>2. batch' \in [Uid -> 0 .. MaxEpoch] /\ stream' \in [Uid -> Kind]
    BY <1>19 DEF Forget, NoRows, NoMail
  <2>3. /\ uidnextSeen' \in 0 .. MaxUid /\ highestUid' \in 0 .. MaxUid
        /\ attempt' \in 0 .. RetryBudget /\ liveUids' \in SUBSET Uid
    BY <1>19 DEF Forget
  <2>4. /\ connected' \in BOOLEAN /\ aborted' \in BOOLEAN /\ pc' = "idle"
        /\ refused' \in BOOLEAN /\ gone' \in BOOLEAN /\ lateCommits' \in Nat
    BY <1>19 DEF Forget
  <2> QED BY <1>19, <2>1, <2>2, <2>3, <2>4 DEF Forget
<1>20. CASE ResetCache
  BY <1>20 DEF ResetCache, NoFolder, NoRows
<1>21. CASE UNCHANGED vars
  BY <1>21 DEF vars
<1> QED
  BY <1>1, <1>2, <1>3, <1>4, <1>5, <1>6, <1>7, <1>8, <1>9, <1>10, <1>11, <1>12, <1>13,
     <1>14, <1>15, <1>16, <1>17, <1>18, <1>19, <1>20, <1>21, <1>13a
     DEF Next, ServerStep, RunStep

(* The initial state has its type.                                          *)
LEMMA InitType == Init => TypeOK
<1> SUFFICES ASSUME Init PROVE TypeOK
  OBVIOUS
<1> USE BoundsAssumption DEF Init
<1>1. mail \in [Uid -> Kind] /\ stream \in [Uid -> Kind]
  BY DEF NoMail, Kind
<1>2. rows \in [Uid -> 0 .. MaxEpoch] /\ batch \in [Uid -> 0 .. MaxEpoch]
  BY DEF NoRows
<1>3. folder \in [uidvalidity : 0 .. MaxEpoch, uidnextSeen : 0 .. MaxUid]
  BY DEF NoFolder
<1>4. state \in [uidvalidity : 0 .. MaxEpoch, uidnext : 0 .. MaxUid + 1]
  BY DEF NoState
<1>5. uidvalidity \in Epoch /\ uidnext \in 1 .. MaxUid + 1
  BY DEF Epoch
<1>6. uidnextSeen \in 0 .. MaxUid /\ highestUid \in 0 .. MaxUid /\ attempt \in 0 .. RetryBudget
  OBVIOUS
<1>7. /\ connected \in BOOLEAN /\ aborted \in BOOLEAN
      /\ refused \in BOOLEAN /\ gone \in BOOLEAN /\ lateCommits \in Nat
      /\ liveUids \in SUBSET Uid /\ passedOver \in SUBSET Uid /\ misjudged \in SUBSET Uid
  OBVIOUS
<1> QED BY <1>1, <1>2, <1>3, <1>4, <1>5, <1>6, <1>7 DEF TypeOK

(* Every variable keeps its type, whatever the bounds; in particular the      *)
(* retry counter never exceeds the budget.                                  *)
THEOREM TypeCorrect == Spec => []TypeOK
BY InitType, TypeStep, PTL DEF Spec

-----------------------------------------------------------------------------
(* The inductive invariant.                                                 *)

(* Committing moves the watermark, if at all, to the candidate, and only      *)
(* together with the whole batch; nothing stored is lost by it.  Without its  *)
(* folders row the run commits nothing.                                     *)
LEMMA CommitCovers ==
  ASSUME TypeOK, NEW b \in [Uid -> 0 .. MaxEpoch], NEW h \in 0 .. MaxUid, uidnextSeen <= h,
         FlushAnyway(b, h)
  PROVE  /\ highestUid' = h /\ uidnextSeen' <= h
         /\ \A u \in Uid : Stored(u) => Stored(u)'
         /\ \A u \in Uid : Stored(u)' \/ batch'[u] # 0 <=> Stored(u) \/ b[u] # 0
         /\ \A u \in Uid : batch'[u] # 0 => b[u] # 0
         /\ \/ gone /\ UNCHANGED dbVars
            \/ /\ ~ gone
               /\ folder'.uidnextSeen = folder.uidnextSeen /\ uidnextSeen' = uidnextSeen
            \/ /\ ~ gone
               /\ folder'.uidnextSeen = h /\ uidnextSeen' = h
               /\ \A u \in Uid : b[u] # 0 => Stored(u)'
<1> USE DEF TypeOK, Stored
<1>1. CASE Checkpoint(b, h)
  <2>1. \A u \in Uid : /\ Stored(u) => Stored(u)'
                       /\ Stored(u)' <=> Stored(u) \/ b[u] # 0
                       /\ batch'[u] = 0
    BY <1>1 DEF Checkpoint, InsertMessages, NoRows
  <2>2. highestUid' = h /\ uidnextSeen' <= h
    BY <1>1 DEF Checkpoint
  <2>3. CASE gone
    <3>1. rows' = rows
      BY <1>1, <2>3 DEF Checkpoint, InsertMessages, NoRows
    <3>2. folder' = folder
      BY <1>1, <2>3 DEF Checkpoint
    <3> QED BY <2>1, <2>2, <2>3, <3>1, <3>2 DEF dbVars
  <2>4. CASE ~ gone
    <3>1. \/ folder'.uidnextSeen = folder.uidnextSeen /\ uidnextSeen' = uidnextSeen
          \/ folder'.uidnextSeen = h /\ uidnextSeen' = h
      BY <1>1, <2>4 DEF Checkpoint
    <3> QED BY <2>1, <2>2, <2>4, <3>1
  <2> QED BY <2>3, <2>4
<1>2. CASE RolledBack(b, h)
  BY <1>2 DEF RolledBack, dbVars
<1> QED BY <1>1, <1>2 DEF FlushAnyway

(* By a run in step with the folder the watermark only moves up, and no row   *)
(* comes to lie above it.                                                   *)
LEMMA CommitInStep ==
  ASSUME TypeOK, InStep, pc \in Opened,
         NEW b \in [Uid -> 0 .. MaxEpoch], NEW h \in 0 .. MaxUid, uidnextSeen <= h,
         \A u \in Uid : b[u] # 0 => u <= h,
         FlushAnyway(b, h)
  PROVE  /\ ~ gone => uidnextSeen' = folder'.uidnextSeen
         /\ folder.uidnextSeen <= folder'.uidnextSeen
         /\ \A u \in Uid : Stored(u)' => u <= folder'.uidnextSeen
<1> USE DEF TypeOK, Stored
<1>1. \A u \in Uid : Stored(u) => u <= folder.uidnextSeen
  BY DEF InStep
<1>2. CASE gone
  BY <1>1, <1>2, CommitCovers DEF dbVars
<1>3. CASE ~ gone /\ Checkpoint(b, h)
  <2>1. uidnextSeen = folder.uidnextSeen
    BY <1>3 DEF InStep
  <2>2. /\ folder'.uidnextSeen = h /\ uidnextSeen' = h
        /\ folder.uidnextSeen <= h
    BY <1>3, <2>1 DEF Checkpoint
  <2>3. \A u \in Uid : Stored(u)' => Stored(u) \/ b[u] # 0
    BY <1>3 DEF Checkpoint, InsertMessages
  <2> QED BY <1>1, <2>2, <2>3 DEF Uid
<1>4. CASE ~ gone /\ RolledBack(b, h)
  BY <1>1, <1>4 DEF RolledBack, dbVars, InStep
<1> QED BY <1>2, <1>3, <1>4 DEF FlushAnyway

(* A commit that succeeds leaves nothing behind.                            *)
LEMMA CheckpointCovers ==
  ASSUME TypeOK, NEW b \in [Uid -> 0 .. MaxEpoch], NEW h \in 0 .. MaxUid, Checkpoint(b, h)
  PROVE  \A u \in Uid : Stored(u) \/ b[u] # 0 => Stored(u)'
BY DEF Checkpoint, InsertMessages, TypeOK, Stored

(* What a step does to the run's copy of the watermark and its candidate.    *)
LEMMA OrderStep ==
  /\ TypeOK /\ SeenInOrder /\ [Next]_vars => SeenInOrder'
  /\ TypeOK /\ SeenInOrder /\ InStep /\ [Next]_vars => InStep'
<1> SUFFICES ASSUME TypeOK, SeenInOrder, [Next]_vars PROVE SeenInOrder' /\ (InStep => InStep')
  OBVIOUS
<1> USE DEF SeenInOrder, InStep, Opened, Stored, serverVars, dbVars, runVars, histVars
<1>1. CASE ServerStep
  BY <1>1 DEF ServerStep, Arrive, Expunge, FlagDeleted, Renumber, AtHead
<1>2. CASE GetFolderState
  BY <1>2 DEF GetFolderState, UpsertFolder, TypeOK
<1>3. CASE OpenFolder
  <2>1. UpsertFolder(state.uidvalidity).uidvalidity = state.uidvalidity
    BY DEF UpsertFolder, TypeOK
  <2>2. folder' = UpsertFolder(state.uidvalidity) /\ rows' = rows
    BY <1>3, <2>1 DEF OpenFolder
  <2>3. folder'.uidnextSeen = folder.uidnextSeen /\ folder.uidnextSeen \in 0 .. MaxUid
    BY <2>2 DEF UpsertFolder, TypeOK
  <2>4. SeenInOrder'
    BY <1>3, <2>3 DEF OpenFolder
  <2>5. /\ pc' = "syncing" /\ uidnextSeen' = folder'.uidnextSeen
        /\ highestUid' = folder'.uidnextSeen /\ pc = "selected"
        /\ UNCHANGED <<rows, misjudged, batch, gone>>
    BY <1>3, <2>2 DEF OpenFolder
  <2>6. ASSUME InStep PROVE InStep'
    BY <2>3, <2>5, <2>6
  <2> QED BY <2>4, <2>6
<1>4. CASE ListLiveUids \/ ListLiveUidsFails \/ SyncCancelled
  BY <1>4 DEF ListLiveUids, ListLiveUidsFails, SyncCancelled, AfterSync, SearchAll
<1>4a. CASE PruneStale
  BY <1>4a DEF PruneStale, AfterSync, DeleteMessagesByUids, Stale, TypeOK
<1>5. CASE LeaveLoop \/ StartFetch \/ Reconnect
  BY <1>5 DEF LeaveLoop, StartFetch, Reconnect
<1>6. CASE Receive
  <2>1. PICK u \in Uid :
          /\ AtHead(u)
          /\ highestUid' = IF u > highestUid THEN u ELSE highestUid
          /\ pc' = "parsing" => UNCHANGED stream
    BY <1>6 DEF Receive
  <2>2. /\ pc = "fetching" /\ pc' \in {"fetching", "parsing"}
        /\ UNCHANGED <<rows, folder, uidnextSeen, batch, gone, misjudged, refused, liveUids>>
    BY <1>6 DEF Receive
  <2>3. highestUid <= highestUid' /\ u <= highestUid' /\ highestUid' \in 0 .. MaxUid
    BY <2>1 DEF TypeOK, Uid
  <2>4. pc' = "parsing" => \A v \in Uid : AtHead(v)' => v = u
    BY <2>1 DEF AtHead, Uid
  <2>5. SeenInOrder'
    BY <2>2, <2>3, <2>4 DEF TypeOK
  <2>6. ASSUME InStep PROVE InStep'
    BY <2>2, <2>3, <2>6 DEF TypeOK, Uid
  <2> QED BY <2>5, <2>6
<1>7. CASE ParseSettles
  <2>1. PICK u \in Uid, b \in [Uid -> 0 .. MaxEpoch] : Turn(u, b)
    BY <1>7, ParseEffect
  <2>2. /\ pc = "parsing" /\ uidnextSeen <= highestUid /\ u <= highestUid
        /\ highestUid \in 0 .. MaxUid
        /\ \/ FlushAnyway(b, highestUid)
           \/ batch' = b /\ UNCHANGED <<rows, folder, uidnextSeen, highestUid>>
        /\ pc' \in {"fetching", "failed", "cancelled"}
        /\ UNCHANGED <<gone, misjudged, refused, liveUids>>
    BY <2>1 DEF Turn, TypeOK
  <2>3. InStep => \A v \in Uid : b[v] # 0 => v <= highestUid
    BY <2>1, <2>2 DEF Turn
  <2>4. CASE FlushAnyway(b, highestUid)
    <3>1. /\ highestUid' = highestUid /\ uidnextSeen' <= highestUid
          /\ \A v \in Uid : batch'[v] # 0 => b[v] # 0
      BY <2>2, <2>4, CommitCovers
    <3>2. ASSUME InStep PROVE InStep'
      <4>1. /\ ~ gone => uidnextSeen' = folder'.uidnextSeen
            /\ folder.uidnextSeen <= folder'.uidnextSeen
            /\ \A v \in Uid : Stored(v)' => v <= folder'.uidnextSeen
        BY <2>2, <2>3, <2>4, <3>2, CommitInStep
      <4>2. \A v \in Uid : v \in misjudged => v <= folder'.uidnextSeen
        <5>1. folder.uidnextSeen \in Nat /\ folder'.uidnextSeen \in Nat
          BY <2>2, <2>4, CommitType DEF TypeOK
        <5> QED BY <3>2, <4>1, <5>1 DEF Uid
      <4> QED BY <2>2, <2>3, <3>1, <3>2, <4>1, <4>2
    <3> QED BY <2>2, <3>1, <3>2
  <2>5. CASE batch' = b /\ UNCHANGED <<rows, folder, uidnextSeen, highestUid>>
    BY <2>2, <2>3, <2>5
  <2> QED BY <2>2, <2>4, <2>5
<1>8. CASE EndFetch \/ FetchCancelled \/ \E transient \in BOOLEAN : FetchBreaks(transient)
  <2>1. /\ pc \in Opened /\ FlushAnyway(batch, highestUid)
        /\ pc' \in {"done", "backoff", "cancelled", "failed"}
        /\ UNCHANGED <<gone, misjudged, refused, liveUids>>
    BY <1>8 DEF EndFetch, FetchCancelled, FetchBreaks, FlushAnyway
  <2>2. batch \in [Uid -> 0 .. MaxEpoch] /\ highestUid \in 0 .. MaxUid
    BY DEF TypeOK
  <2>3. /\ highestUid' = highestUid /\ uidnextSeen' <= highestUid
        /\ \A v \in Uid : batch'[v] # 0 => batch[v] # 0
    BY <2>1, <2>2, CommitCovers
  <2>4. ASSUME InStep PROVE InStep'
    <3>1. /\ ~ gone => uidnextSeen' = folder'.uidnextSeen
          /\ folder.uidnextSeen <= folder'.uidnextSeen
          /\ \A v \in Uid : Stored(v)' => v <= folder'.uidnextSeen
      BY <2>1, <2>2, <2>4, CommitInStep
    <3>2. \A v \in Uid : v \in misjudged => v <= folder'.uidnextSeen
      <4>1. folder.uidnextSeen \in Nat /\ folder'.uidnextSeen \in Nat
        BY <2>1, <2>2, CommitType DEF TypeOK
      <4> QED BY <2>4, <3>1, <4>1 DEF Uid
    <3> QED BY <2>1, <2>3, <2>4, <3>1, <3>2
  <2> QED BY <2>1, <2>3, <2>4
<1>9. CASE Abort
  BY <1>9 DEF Abort, Running, AtHead
<1>10. CASE Forget
  BY <1>10 DEF Forget, NoRows
<1>11. CASE ResetCache
  BY <1>11 DEF ResetCache, NoRows, AtHead
<1>12. CASE UNCHANGED vars
  BY <1>12 DEF vars, AtHead
<1> QED
  BY <1>1, <1>2, <1>3, <1>4, <1>4a, <1>5, <1>6, <1>7, <1>8, <1>9, <1>10, <1>11, <1>12
     DEF Next, RunStep

(* While the numbering stands, UIDNEXT only grows, no message comes back, and *)
(* one that arrives does so at or above UIDNEXT.                             *)
LEMMA ServerStepEffect ==
  ASSUME TypeOK, BelowUidnext, ServerStep, FirstNumbering'
  PROVE  /\ uidnext <= uidnext' /\ uidvalidity' = uidvalidity
         /\ \A u \in Uid : u < uidnext /\ Live(u)' => Live(u)
         /\ \A u \in Uid : u >= uidnext => ~ Live(u)
         /\ \A u \in Uid : Live(u)' => u < uidnext'
         /\ UNCHANGED <<dbVars, runVars, histVars>>
<1> USE DEF Live
<1>0. ~ Renumber
  BY DEF Renumber, FirstNumbering, TypeOK, Epoch
<1>1. CASE Arrive
  BY <1>1 DEF Arrive, TypeOK, BelowUidnext, Uid
<1>2. ASSUME NEW w \in Uid, Expunge(w) \/ FlagDeleted(w)
      PROVE  /\ \A u \in Uid : Live(u)' => Live(u)
             /\ UNCHANGED <<uidnext, uidvalidity, dbVars, runVars, histVars>>
  BY <1>2 DEF Expunge, FlagDeleted, TypeOK
<1>3. \A u \in Uid : Live(u) => u < uidnext
  BY DEF BelowUidnext
<1> QED BY <1>0, <1>1, <1>2, <1>3 DEF ServerStep, TypeOK, Uid

(* While the numbering stands, the server's steps leave FolderInv standing:   *)
(* a message that goes leaves every claim about live messages, one that       *)
(* arrives lies above them all.                                              *)
LEMMA ServerStepKeeps ==
  TypeOK /\ SeenInOrder /\ FolderInv /\ ServerStep /\ FirstNumbering' => FolderInv'
<1> SUFFICES ASSUME TypeOK, SeenInOrder, FolderInv, ServerStep, FirstNumbering' PROVE FolderInv'
  OBVIOUS
<1> USE DEF dbVars, runVars, histVars, Live, Stored, Accounted, Handled, AtHead
<1>1. /\ uidnext <= uidnext'
      /\ \A u \in Uid : u < uidnext /\ Live(u)' => Live(u)
      /\ \A u \in Uid : u >= uidnext => ~ Live(u)
      /\ \A u \in Uid : Live(u)' => u < uidnext'
      /\ UNCHANGED <<dbVars, runVars, histVars>>
  BY ServerStepEffect DEF FolderInv
<1>2. BelowUidnext'
  <2>1. UNCHANGED <<folder, rows, pc, state, highestUid, batch, stream>>
    BY <1>1
  <2>2. uidnext \in Nat /\ uidnext' \in Nat /\ uidnext <= uidnext'
    <3>1. uidnext' \in {uidnext, uidnext + 1}
      BY DEF ServerStep, Arrive, Expunge, FlagDeleted, Renumber, FirstNumbering, TypeOK, Epoch
    <3> QED BY <1>1, <3>1 DEF TypeOK
  <2>3. \A u \in Uid : Stored(u) \/ batch[u] # 0 \/ stream[u] # "absent" => u < uidnext'
    BY <2>2 DEF FolderInv, BelowUidnext, Uid
  <2>4. /\ folder.uidnextSeen < uidnext' /\ state.uidnext <= uidnext'
        /\ (pc \in Opened => highestUid < uidnext')
    BY <2>2 DEF FolderInv, BelowUidnext, TypeOK
  <2> QED BY <1>1, <2>1, <2>3, <2>4 DEF BelowUidnext
<1>3. WatermarkCovered'
  <2>1. pc \in Opened => uidnextSeen < uidnext
    BY DEF FolderInv, BelowUidnext, SeenInOrder, TypeOK
  <2> QED BY <1>1, <2>1 DEF FolderInv, BelowUidnext, WatermarkCovered, TypeOK, Uid
<1>4. CandidateCovered'
  BY <1>1 DEF FolderInv, BelowUidnext, CandidateCovered, TypeOK, Uid, Opened
<1>5. StreamComplete'
  BY <1>1 DEF FolderInv, BelowUidnext, StreamComplete, TypeOK, Uid
<1>6. SyncSound'
  BY <1>1 DEF FolderInv, BelowUidnext, SyncSound, TypeOK, Uid
<1>7. DoneCovered'
  BY <1>1 DEF FolderInv, BelowUidnext, DoneCovered, TypeOK, Uid
<1> QED BY <1>2, <1>3, <1>4, <1>5, <1>6, <1>7 DEF FolderInv

(* A commit keeps everything FolderInv says that does not depend on where     *)
(* the run goes next, provided the candidate it commits was covered.         *)
LEMMA CommitKeeps ==
  ASSUME TypeOK, FolderInv, pc \in Opened,
         NEW b \in [Uid -> 0 .. MaxEpoch], NEW h \in 0 .. MaxUid, uidnextSeen <= h,
         FlushAnyway(b, h), UNCHANGED <<serverVars, state>>,
         UNCHANGED <<histVars, gone>>, h < uidnext,
         \A u \in Uid : stream'[u] # "absent" => stream[u] # "absent",
         \A u \in Uid : b[u] # 0 => u < uidnext,
         ~ gone => \A u \in Uid : u <= h /\ Live(u) => Accounted(u) \/ b[u] # 0
  PROVE  /\ BelowUidnext' /\ WatermarkCovered'
         /\ ~ gone => \A u \in Uid : u <= h /\ Live(u)' => Handled(u)'
         /\ highestUid' = h
<1>1. /\ highestUid' = h
      /\ \A u \in Uid : Stored(u) => Stored(u)'
      /\ \A u \in Uid : Stored(u)' \/ batch'[u] # 0 <=> Stored(u) \/ b[u] # 0
      /\ \/ gone /\ folder'.uidnextSeen = folder.uidnextSeen
         \/ /\ ~ gone
            /\ folder'.uidnextSeen = folder.uidnextSeen /\ uidnextSeen' = uidnextSeen
         \/ /\ ~ gone
            /\ folder'.uidnextSeen = h /\ uidnextSeen' = h
            /\ \A u \in Uid : b[u] # 0 => Stored(u)'
  BY CommitCovers DEF dbVars
<1>2. /\ \A u \in Uid : Live(u)' <=> Live(u)
      /\ UNCHANGED <<passedOver, misjudged, gone, uidnext, state>>
  BY DEF Live, serverVars, histVars
<1>3. BelowUidnext'
  BY <1>1, <1>2 DEF FolderInv, BelowUidnext
<1>4. \A u \in Uid : Accounted(u) => Accounted(u)'
  BY <1>1, <1>2 DEF Accounted
<1>5. WatermarkCovered'
  BY <1>1, <1>2, <1>4 DEF FolderInv, WatermarkCovered, Accounted
<1>6. ~ gone => \A u \in Uid : u <= h /\ Live(u)' => Handled(u)'
  BY <1>1, <1>2 DEF Handled, Accounted
<1> QED BY <1>1, <1>3, <1>5, <1>6

(* FolderInv is kept by the steps of the fetch: a message that goes to the    *)
(* parser is accounted for as the one in hand.                              *)
LEMMA ReceiveKeeps ==
  TypeOK /\ SeenInOrder /\ FolderInv /\ Receive => FolderInv'
<1> SUFFICES ASSUME TypeOK, SeenInOrder, FolderInv, Receive PROVE FolderInv'
  OBVIOUS
<1>1. /\ pc = "fetching" /\ pc' \in {"fetching", "parsing"}
      /\ UNCHANGED <<mail, uidnext, folder, rows, state, uidnextSeen, batch, gone, misjudged>>
      /\ passedOver \subseteq passedOver'
  BY DEF Receive, PassOver, serverVars, dbVars
<1>2. PICK u \in Uid :
        /\ AtHead(u)
        /\ highestUid' = IF u > highestUid THEN u ELSE highestUid
        /\ \/ /\ gone \/ u \in passedOver'
              /\ stream' = [stream EXCEPT ![u] = "absent"] /\ pc' = "fetching"
           \/ stream' = stream /\ pc' = "parsing"
  BY DEF Receive, PassOver
<1>3. /\ pc \in Opened /\ highestUid <= highestUid' /\ u <= highestUid'
      /\ highestUid' < uidnext /\ uidnextSeen <= highestUid' /\ highestUid' \in 0 .. MaxUid
  BY <1>1, <1>2 DEF SeenInOrder, Opened, FolderInv, BelowUidnext, AtHead, TypeOK, Uid
<1>4. \A v \in Uid : stream'[v] # "absent" => stream[v] # "absent"
  BY <1>2 DEF TypeOK
<1>5. BelowUidnext'
  BY <1>1, <1>3, <1>4 DEF FolderInv, BelowUidnext, Live, Stored
<1>6. \A v \in Uid : Accounted(v) => Accounted(v)'
  BY <1>1 DEF Accounted, Stored
<1>7. WatermarkCovered'
  BY <1>1, <1>3, <1>6 DEF FolderInv, WatermarkCovered, Live
<1>8. CandidateCovered'
  <2> SUFFICES ASSUME ~ gone, NEW v \in Uid, v <= highestUid', Live(v)
               PROVE  Handled(v)' \/ (pc' = "parsing" /\ AtHead(v)')
    BY <1>1 DEF CandidateCovered, Live
  <2>1. CASE v <= highestUid
    BY <1>1, <1>6, <2>1 DEF FolderInv, CandidateCovered, Handled
  <2>2. CASE highestUid < v
    <3>1. v <= u /\ stream[v] # "absent"
      BY <1>1, <1>2, <2>2 DEF FolderInv, StreamComplete, AtHead, TypeOK, Uid
    <3>2. v = u
      BY <1>2, <3>1 DEF AtHead, Uid
    <3>3. CASE pc' = "parsing"
      BY <1>2, <3>2, <3>3 DEF AtHead
    <3>4. CASE pc' = "fetching"
      BY <1>2, <3>2, <3>4 DEF Handled, Accounted
    <3> QED BY <1>1, <3>3, <3>4
  <2> QED BY <2>1, <2>2 DEF TypeOK, Uid
<1>9. StreamComplete'
  <2> SUFFICES ASSUME NEW v \in Uid, Live(v), highestUid' < v,
                      v < state.uidnext \/ \E w \in Uid : v <= w /\ stream'[w] # "absent"
               PROVE  stream'[v] # "absent"
    BY <1>1 DEF StreamComplete, Live
  <2>1. highestUid < v /\ v # u
    BY <1>3 DEF TypeOK, Uid
  <2>2. stream[v] # "absent"
    BY <1>1, <1>4, <2>1 DEF FolderInv, StreamComplete
  <2> QED BY <1>2, <2>1, <2>2 DEF TypeOK
<1> QED BY <1>1, <1>5, <1>7, <1>8, <1>9 DEF FolderInv, SyncSound, DoneCovered

(* The message in hand joins the batch or those passed over, and the batch    *)
(* may be committed.                                                        *)
LEMMA ParseKeeps ==
  TypeOK /\ SeenInOrder /\ FolderInv /\ ParseSettles => FolderInv'
<1> SUFFICES ASSUME TypeOK, SeenInOrder, FolderInv, ParseSettles PROVE FolderInv'
  OBVIOUS
<1>0. PICK u \in Uid, b \in [Uid -> 0 .. MaxEpoch] : Turn(u, b)
  BY ParseEffect
<1>1. /\ pc = "parsing" /\ AtHead(u)
      /\ gone \/ b[u] # 0 \/ u \in passedOver'
      /\ \A v \in Uid : batch[v] # 0 => b[v] # 0
      /\ \A v \in Uid : b[v] # 0 => batch[v] # 0 \/ v = u
      /\ passedOver \subseteq passedOver'
      /\ \/ FlushAnyway(b, highestUid) /\ passedOver' = passedOver
         \/ batch' = b /\ UNCHANGED <<rows, folder, uidnextSeen, highestUid>>
      /\ \/ stream' = [stream EXCEPT ![u] = "absent"] /\ pc' = "fetching"
         \/ stream' = NoMail /\ pc' \in {"failed", "cancelled"}
      /\ UNCHANGED <<mail, uidnext, uidvalidity, state, gone, misjudged>>
  BY <1>0 DEF Turn, serverVars, dbVars
<1>2. /\ pc \in Opened /\ uidnextSeen <= highestUid /\ highestUid < uidnext
      /\ u <= highestUid /\ highestUid \in 0 .. MaxUid
  BY <1>1 DEF SeenInOrder, Opened, FolderInv, BelowUidnext, TypeOK
<1>3. \A v \in Uid : stream'[v] # "absent" => stream[v] # "absent" /\ v # u
  BY <1>1 DEF TypeOK, NoMail
<1>4. \A v \in Uid : b[v] # 0 => v < uidnext
  BY <1>1 DEF FolderInv, BelowUidnext, AtHead
<1>5. ASSUME ~ gone, NEW v \in Uid, v <= highestUid, Live(v)
      PROVE  Accounted(v) \/ b[v] # 0 \/ v \in passedOver'
  <2>1. CASE AtHead(v)
    <3>1. v = u
      BY <1>1, <2>1 DEF AtHead, Uid
    <3> QED BY <1>1, <1>5, <3>1
  <2>2. CASE ~ AtHead(v)
    BY <1>1, <1>5, <2>2 DEF FolderInv, CandidateCovered, Handled
  <2> QED BY <2>1, <2>2
<1>6. /\ BelowUidnext' /\ WatermarkCovered'
      /\ ~ gone => \A v \in Uid : v <= highestUid /\ Live(v)' => Handled(v)'
      /\ highestUid' = highestUid
  <2>1. CASE FlushAnyway(b, highestUid) /\ passedOver' = passedOver
    <3>1. ~ gone => \A v \in Uid : v <= highestUid /\ Live(v) => Accounted(v) \/ b[v] # 0
      BY <1>5, <2>1 DEF Accounted
    <3>2. UNCHANGED <<serverVars, state>> /\ UNCHANGED <<histVars, gone>>
      BY <1>1, <2>1 DEF serverVars, histVars
    <3> QED BY <1>2, <1>3, <1>4, <2>1, <3>1, <3>2, CommitKeeps
  <2>2. CASE batch' = b /\ UNCHANGED <<rows, folder, uidnextSeen, highestUid>>
    <3>1. BelowUidnext'
      BY <1>1, <1>2, <1>3, <1>4, <2>2 DEF FolderInv, BelowUidnext, Live, Stored
    <3>2. \A v \in Uid : Accounted(v) => Accounted(v)'
      BY <1>1, <2>2 DEF Accounted, Stored
    <3>3. WatermarkCovered'
      BY <1>1, <1>2, <2>2, <3>2 DEF FolderInv, WatermarkCovered, Live
    <3>4. ~ gone => \A v \in Uid : v <= highestUid /\ Live(v)' => Handled(v)'
      BY <1>1, <1>5, <2>2, <3>2 DEF Live, Handled, Accounted
    <3> QED BY <2>2, <3>1, <3>3, <3>4
  <2> QED BY <1>1, <2>1, <2>2
<1>7. StreamComplete'
  <2> SUFFICES ASSUME pc' = "fetching", NEW v \in Uid, Live(v), highestUid < v,
                      v < state.uidnext \/ \E w \in Uid : v <= w /\ stream'[w] # "absent"
               PROVE  stream'[v] # "absent"
    BY <1>1, <1>6 DEF StreamComplete, Live
  <2>1. v # u
    BY <1>2 DEF TypeOK, Uid
  <2>2. stream[v] # "absent"
    BY <1>1, <1>3 DEF FolderInv, StreamComplete
  <2> QED BY <1>1, <2>1, <2>2 DEF TypeOK
<1> QED BY <1>1, <1>6, <1>7 DEF FolderInv, CandidateCovered, SyncSound, DoneCovered

LEMMA EndFetchKeeps ==
  TypeOK /\ SeenInOrder /\ FolderInv /\ (EndFetch \/ FetchCancelled) => FolderInv'
<1> SUFFICES ASSUME TypeOK, SeenInOrder, FolderInv, EndFetch \/ FetchCancelled PROVE FolderInv'
  OBVIOUS
<1>1. /\ FlushAnyway(batch, highestUid) /\ pc = "fetching"
      /\ UNCHANGED <<serverVars, state>> /\ UNCHANGED <<histVars, gone>>
      /\ stream' \in {stream, NoMail} /\ pc' \in Outcome
      /\ pc' = "done" => stream = NoMail /\ Checkpoint(batch, highestUid)
  BY DEF EndFetch, FetchCancelled, FlushAnyway, Outcome
<1>2. pc \in Opened /\ uidnextSeen <= highestUid /\ highestUid < uidnext
  BY <1>1 DEF SeenInOrder, Opened, FolderInv, BelowUidnext
<1>3. batch \in [Uid -> 0 .. MaxEpoch] /\ highestUid \in 0 .. MaxUid
  BY DEF TypeOK
<1>4. BelowUidnext' /\ WatermarkCovered'
  <2>1. ~ gone => \A v \in Uid : v <= highestUid /\ Live(v) => Accounted(v) \/ batch[v] # 0
    BY <1>1 DEF FolderInv, CandidateCovered, Handled
  <2>2. \A v \in Uid : batch[v] # 0 => v < uidnext
    BY DEF FolderInv, BelowUidnext
  <2>3. \A v \in Uid : stream'[v] # "absent" => stream[v] # "absent"
    BY <1>1 DEF NoMail
  <2> QED BY <1>1, <1>2, <1>3, <2>1, <2>2, <2>3, CommitKeeps
<1>5. DoneCovered'
  <2> SUFFICES ASSUME pc' = "done", ~ gone', NEW v \in Uid, v < state'.uidnext, Live(v)'
               PROVE  Accounted(v)'
    BY DEF DoneCovered
  <2>1. Live(v) /\ v < state.uidnext /\ ~ gone
    BY <1>1 DEF Live, serverVars
  <2>2. v <= highestUid
    BY <1>1, <2>1 DEF FolderInv, StreamComplete, NoMail, TypeOK, Uid
  <2>3. Accounted(v) \/ batch[v] # 0
    BY <1>1, <2>1, <2>2 DEF FolderInv, CandidateCovered, Handled
  <2> QED BY <1>1, <1>2, <1>3, <2>3, CheckpointCovers DEF Accounted, histVars
<1> QED
  BY <1>1, <1>4, <1>5 DEF FolderInv, CandidateCovered, StreamComplete, SyncSound, Outcome

LEMMA FetchBreaksKeeps ==
  ASSUME TypeOK, SeenInOrder, FolderInv, NEW transient \in BOOLEAN, FetchBreaks(transient)
  PROVE  FolderInv'
<1>1. /\ FlushAnyway(batch, highestUid) /\ pc \in {"loop", "fetching"}
      /\ UNCHANGED <<serverVars, state>> /\ UNCHANGED <<histVars, gone>>
      /\ stream' = NoMail /\ pc' \in {"backoff", "cancelled", "failed"}
  BY DEF FetchBreaks
<1>2. pc \in Opened /\ uidnextSeen <= highestUid /\ highestUid < uidnext
  BY <1>1 DEF SeenInOrder, Opened, FolderInv, BelowUidnext
<1>3. batch \in [Uid -> 0 .. MaxEpoch] /\ highestUid \in 0 .. MaxUid
  BY DEF TypeOK
<1>4. /\ BelowUidnext' /\ WatermarkCovered'
      /\ ~ gone => \A v \in Uid : v <= highestUid /\ Live(v)' => Handled(v)'
      /\ highestUid' = highestUid
  <2>1. ~ gone => \A v \in Uid : v <= highestUid /\ Live(v) => Accounted(v) \/ batch[v] # 0
    BY <1>1 DEF FolderInv, CandidateCovered, Handled
  <2>2. \A v \in Uid : batch[v] # 0 => v < uidnext
    BY DEF FolderInv, BelowUidnext
  <2>3. \A v \in Uid : stream'[v] # "absent" => stream[v] # "absent"
    BY <1>1 DEF NoMail
  <2> QED BY <1>1, <1>2, <1>3, <2>1, <2>2, <2>3, CommitKeeps
<1> QED
  BY <1>1, <1>4 DEF FolderInv, CandidateCovered, StreamComplete, SyncSound, DoneCovered

(* The other steps of the run.                                              *)
LEMMA OpenFolderKeeps ==
  TypeOK /\ SeenInOrder /\ FolderInv /\ (GetFolderState \/ OpenFolder) => FolderInv'
<1> SUFFICES ASSUME TypeOK, SeenInOrder, FolderInv, GetFolderState \/ OpenFolder PROVE FolderInv'
  OBVIOUS
<1>1. /\ UNCHANGED <<mail, uidnext, rows, batch, stream, passedOver, misjudged>>
      /\ folder'.uidnextSeen = folder.uidnextSeen
      /\ state'.uidnext <= uidnext
      /\ \/ pc' = "selected"
         \/ /\ pc' = "syncing" /\ uidnextSeen' = folder.uidnextSeen
            /\ highestUid' = folder.uidnextSeen
  <2>1. CASE GetFolderState
    <3>1. folder'.uidnextSeen = folder.uidnextSeen
      BY <2>1 DEF GetFolderState, UpsertFolder, TypeOK
    <3>2. state'.uidnext <= uidnext
      BY <2>1 DEF GetFolderState, TypeOK
    <3>3. UNCHANGED <<mail, uidnext, rows, batch, stream, passedOver, misjudged>> /\ pc' = "selected"
      BY <2>1 DEF GetFolderState, serverVars, histVars
    <3> QED BY <3>1, <3>2, <3>3
  <2>2. CASE OpenFolder
    <3>1. UpsertFolder(state.uidvalidity).uidvalidity = state.uidvalidity
      BY DEF UpsertFolder, TypeOK
    <3>2. folder' = UpsertFolder(state.uidvalidity) /\ rows' = rows
      BY <2>2, <3>1 DEF OpenFolder
    <3>3. folder'.uidnextSeen = folder.uidnextSeen
      BY <3>2 DEF UpsertFolder, TypeOK
    <3> QED BY <2>2, <3>2, <3>3 DEF OpenFolder, FolderInv, BelowUidnext, serverVars, histVars
  <2> QED BY <2>1, <2>2
<1>2. BelowUidnext' /\ WatermarkCovered'
  BY <1>1 DEF FolderInv, BelowUidnext, WatermarkCovered, Live, Stored, Accounted, Opened
<1> QED
  BY <1>1, <1>2 DEF FolderInv, CandidateCovered, StreamComplete, SyncSound, DoneCovered

LEMMA SyncKeeps ==
  TypeOK /\ SeenInOrder /\ FolderInv /\ (ListLiveUids \/ ListLiveUidsFails \/ PruneStale)
    => FolderInv'
<1> SUFFICES ASSUME TypeOK, SeenInOrder, FolderInv, ListLiveUids \/ ListLiveUidsFails \/ PruneStale
             PROVE FolderInv'
  OBVIOUS
<1>1. /\ UNCHANGED <<mail, uidnext, folder, state, uidnextSeen, highestUid, batch, stream, gone,
                      passedOver>>
      /\ pc \in {"syncing", "pruning"}
      /\ pc' \in {"pruning", "loop", "done"}
      /\ pc' = "done" => UpToDate
      /\ pc' = "pruning" => liveUids' = SearchAll(refused')
  BY DEF ListLiveUids, ListLiveUidsFails, PruneStale, AfterSync, serverVars, dbVars, histVars
<1>2. \A u \in Uid : Stored(u)' => Stored(u)
  BY DEF ListLiveUids, ListLiveUidsFails, PruneStale, DeleteMessagesByUids, Stored, dbVars,
         TypeOK
<1>3. \A u \in Uid : Accounted(u) /\ Live(u) => Accounted(u)'
  <2>1. CASE ListLiveUids \/ ListLiveUidsFails
    BY <2>1 DEF ListLiveUids, ListLiveUidsFails, Accounted, Stored, dbVars, histVars
  <2>2. CASE PruneStale
    <3>1. \A u \in Uid : Stored(u) /\ ~ Stored(u)' => u \in Stale /\ (refused => u \in misjudged')
      BY <2>2 DEF PruneStale, DeleteMessagesByUids, Stored, TypeOK
    <3>2. \A u \in Stale : Live(u) => refused
      BY <2>2 DEF PruneStale, Stale, FolderInv, SyncSound
    <3>3. misjudged \subseteq misjudged'
      BY <2>2 DEF PruneStale
    <3> QED BY <1>1, <3>1, <3>2, <3>3 DEF Accounted
  <2> QED BY <2>1, <2>2
<1>4. highestUid = uidnextSeen /\ pc \in Opened
  BY <1>1 DEF SeenInOrder, Opened
<1>5. BelowUidnext' /\ WatermarkCovered'
  BY <1>1, <1>2, <1>3, <1>4 DEF FolderInv, BelowUidnext, WatermarkCovered, Live
<1>6. CandidateCovered' /\ StreamComplete'
  BY <1>1, <1>3, <1>4 DEF FolderInv, WatermarkCovered, CandidateCovered, StreamComplete, Live,
        Handled
<1>7. SyncSound'
  BY <1>1 DEF SyncSound, SearchAll, Live
<1>8. DoneCovered'
  BY <1>1, <1>3, <1>4 DEF FolderInv, WatermarkCovered, DoneCovered, UpToDate, Live, TypeOK, Uid
<1> QED BY <1>5, <1>6, <1>7, <1>8 DEF FolderInv

LEMMA LoopKeeps ==
  TypeOK /\ SeenInOrder /\ FolderInv
    /\ (SyncCancelled \/ LeaveLoop \/ StartFetch \/ Reconnect \/ Abort)
    => FolderInv'
<1> SUFFICES ASSUME TypeOK, SeenInOrder, FolderInv,
                    SyncCancelled \/ LeaveLoop \/ StartFetch \/ Reconnect \/ Abort
             PROVE FolderInv'
  OBVIOUS
<1>1. UNCHANGED <<mail, uidnext, rows, folder, state, uidnextSeen, highestUid, batch, gone,
                  passedOver, misjudged>>
  BY DEF SyncCancelled, LeaveLoop, StartFetch, Reconnect, Abort, serverVars, dbVars, histVars
<1>2. \A u \in Uid : stream'[u] # "absent" => stream[u] # "absent" \/ Live(u)
  BY DEF SyncCancelled, LeaveLoop, StartFetch, Reconnect, Abort, FetchStream, Selected, Live
<1>3. pc' \in Opened => pc \in Opened
  BY DEF SyncCancelled, LeaveLoop, StartFetch, Reconnect, Abort, Opened
<1>4. BelowUidnext'
  BY <1>1, <1>2, <1>3 DEF FolderInv, BelowUidnext, Live, Stored
<1>5. WatermarkCovered' /\ CandidateCovered'
  BY <1>1, <1>3 DEF FolderInv, WatermarkCovered, CandidateCovered, Live, Stored, Accounted,
        Handled, AtHead, SyncCancelled, LeaveLoop, StartFetch, Reconnect, Abort
<1>5a. SyncSound'
  BY <1>1 DEF FolderInv, SyncSound, Live, Stored, SyncCancelled, LeaveLoop, StartFetch,
        Reconnect, Abort
<1>6. StreamComplete'
  <2>1. CASE StartFetch
    <3>1. uidnextSeen <= highestUid
      BY <2>1 DEF StartFetch, SeenInOrder, Opened
    <3>2. \A v \in Uid : highestUid < v /\ Live(v) => v \in Selected(uidnextSeen + 1)
      BY <3>1 DEF Selected, Live, TypeOK, Uid
    <3> QED BY <1>1, <2>1, <3>2 DEF StartFetch, StreamComplete, FetchStream, Live
  <2>2. CASE SyncCancelled \/ LeaveLoop \/ Reconnect
    BY <2>2 DEF SyncCancelled, LeaveLoop, Reconnect, StreamComplete
  <2>3. CASE Abort
    BY <1>1, <2>3 DEF Abort, FolderInv, StreamComplete, Live
  <2> QED BY <2>1, <2>2, <2>3
<1>7. DoneCovered'
  <2>1. CASE LeaveLoop
    <3>1. (pc' = "done" => UpToDate) /\ pc \in Opened
      BY <2>1 DEF LeaveLoop, Opened
    <3>2. UpToDate => \A v \in Uid : v < state.uidnext => v <= uidnextSeen
      BY DEF UpToDate, TypeOK, Uid
    <3> QED BY <1>1, <3>1, <3>2 DEF FolderInv, WatermarkCovered, DoneCovered, Live, Stored, Accounted
  <2>2. CASE SyncCancelled \/ StartFetch \/ Reconnect
    BY <2>2 DEF SyncCancelled, StartFetch, Reconnect, DoneCovered
  <2>3. CASE Abort
    BY <1>1, <2>3 DEF Abort, FolderInv, DoneCovered, Live, Stored, Accounted
  <2> QED BY <2>1, <2>2, <2>3
<1> QED BY <1>4, <1>5, <1>5a, <1>6, <1>7 DEF FolderInv

LEMMA ForgetKeeps == TypeOK /\ FolderInv /\ (Forget \/ ResetCache) => FolderInv'
<1> SUFFICES ASSUME TypeOK, FolderInv, Forget \/ ResetCache PROVE FolderInv'
  OBVIOUS
<1>1. CASE Forget
  BY <1>1 DEF Forget, FolderInv, BelowUidnext, WatermarkCovered, CandidateCovered,
        StreamComplete, SyncSound, DoneCovered, NoState, NoRows, NoMail, Live, Stored,
        Accounted, Opened, serverVars, dbVars, histVars, TypeOK
<1>2. CASE ResetCache
  <2>1. /\ UNCHANGED <<mail, uidnext, pc, state, highestUid, batch, stream, refused, liveUids>>
        /\ folder'.uidnextSeen = 0 /\ \A u \in Uid : ~ Stored(u)'
        /\ pc \notin {"idle", "selected"} => gone'
    BY <1>2 DEF ResetCache, NoFolder, NoRows, Stored, serverVars
  <2>2. BelowUidnext'
    BY <2>1 DEF FolderInv, BelowUidnext, Live, TypeOK
  <2>3. WatermarkCovered' /\ CandidateCovered' /\ DoneCovered'
    BY <2>1 DEF WatermarkCovered, CandidateCovered, DoneCovered, Opened, Uid
  <2>4. StreamComplete' /\ SyncSound'
    BY <2>1 DEF FolderInv, StreamComplete, SyncSound, Live
  <2> QED BY <2>2, <2>3, <2>4 DEF FolderInv
<1> QED BY <1>1, <1>2

(* What a neighbour does falls under nobody's claim: it adds rows, or takes   *)
(* those of messages that have gone or that it misjudged.                    *)
LEMMA NeighbourKeeps ==
  /\ TypeOK /\ SeenInOrder /\ Neighbour => TypeOK' /\ SeenInOrder'
  /\ TypeOK /\ FirstNumbering /\ FolderInv /\ Neighbour => FolderInv'
<1> SUFFICES ASSUME TypeOK, Neighbour
             PROVE  /\ SeenInOrder => TypeOK' /\ SeenInOrder'
                    /\ FirstNumbering /\ FolderInv => FolderInv'
  OBVIOUS
<1>1. UNCHANGED <<serverVars, runVars>>
  BY DEF Neighbour
<1>2. TypeOK'
  BY <1>1 DEF Neighbour, TypeOK, serverVars, runVars
<1>3. SeenInOrder => SeenInOrder'
  BY <1>1 DEF SeenInOrder, AtHead, runVars
<1>4. ASSUME FirstNumbering, FolderInv PROVE FolderInv'
  <2> USE <1>4 DEF serverVars, runVars, Live
  <2>1. /\ \A u \in Uid : Live(u)' <=> Live(u)
        /\ \A u \in Uid : Accounted(u) /\ Live(u) => Accounted(u)'
        /\ \A u \in Uid : Stored(u)' => u < uidnext
    BY <1>1 DEF Neighbour, KeepsTheFolder, Accounted
  <2>2. BelowUidnext'
    BY <1>1, <2>1 DEF Neighbour, KeepsTheFolder, FolderInv, BelowUidnext, Opened
  <2>3. WatermarkCovered'
    BY <1>1, <2>1 DEF Neighbour, KeepsTheFolder, FolderInv, WatermarkCovered, Opened
  <2>4. CandidateCovered' /\ StreamComplete' /\ DoneCovered'
    BY <1>1, <2>1 DEF FolderInv, CandidateCovered, StreamComplete, DoneCovered, Handled, AtHead
  <2>5. SyncSound'
    BY <1>1, <2>1 DEF Neighbour, FolderInv, SyncSound
  <2> QED BY <2>2, <2>3, <2>4, <2>5 DEF FolderInv
<1> QED BY <1>2, <1>3, <1>4

(* Every step, a neighbour's too, keeps SharedInv, and a step of the run's    *)
(* own keeps it in step.                                                    *)
LEMMA SharedInvStep == SharedInv /\ [Next \/ Neighbour]_vars => SharedInv'
<1> SUFFICES ASSUME SharedInv, [Next \/ Neighbour]_vars PROVE SharedInv'
  OBVIOUS
<1>0. TypeOK /\ SeenInOrder
  BY DEF SharedInv
<1>1. TypeOK' /\ SeenInOrder'
  BY <1>0, TypeStep, OrderStep, NeighbourKeeps
<1>2. ASSUME FirstNumbering' PROVE FolderInv'
  <2>1. FirstNumbering /\ FolderInv
    <3>1. uidvalidity <= uidvalidity'
      BY <1>0 DEF Next, ServerStep, RunStep, Arrive, Expunge, FlagDeleted, Renumber,
            GetFolderState,
            OpenFolder, ListLiveUids, ListLiveUidsFails, SyncCancelled, PruneStale, LeaveLoop,
            StartFetch, Receive, ParseSettles, EndFetch, FetchCancelled, FetchBreaks, Reconnect,
            Abort, Forget, ResetCache, Neighbour, vars, serverVars, TypeOK, Epoch
    <3>2. uidvalidity = 1
      BY <1>0, <1>1, <1>2, <3>1 DEF FirstNumbering, TypeOK, Epoch
    <3> QED BY <3>2 DEF FirstNumbering, SharedInv
  <2>2. CASE Forget \/ ResetCache
    BY <1>0, <2>1, <2>2, ForgetKeeps
  <2>3. CASE Neighbour
    BY <1>0, <2>1, <2>3, NeighbourKeeps
  <2>4. CASE UNCHANGED vars
    BY <2>1, <2>4 DEF vars, serverVars, dbVars, runVars, histVars, FolderInv, BelowUidnext,
          WatermarkCovered, CandidateCovered, StreamComplete, SyncSound, DoneCovered, Live,
          Stored, Accounted, Handled, AtHead, Opened
  <2>5. CASE ServerStep
    BY <1>0, <1>2, <2>1, <2>5, ServerStepKeeps
  <2>6. CASE GetFolderState \/ RunStep \/ Abort
    BY <1>0, <2>1, <2>6, ReceiveKeeps, ParseKeeps, EndFetchKeeps, FetchBreaksKeeps, OpenFolderKeeps,
       SyncKeeps, LoopKeeps DEF RunStep
  <2> QED BY <2>2, <2>3, <2>4, <2>5, <2>6 DEF Next
<1> QED BY <1>1, <1>2 DEF SharedInv

LEMMA InitIInv == Init => IInv
<1> SUFFICES ASSUME Init PROVE IInv
  OBVIOUS
<1>1. SeenInOrder /\ InStep /\ FolderInv
  BY DEF Init, SeenInOrder, InStep, FolderInv, BelowUidnext, WatermarkCovered, CandidateCovered,
         StreamComplete, SyncSound, DoneCovered, NoMail, NoRows, NoFolder, NoState,
         Live, Stored, Opened, Uid
<1> QED BY <1>1, InitType DEF IInv, SharedInv

LEMMA SharedInvariance == SharedSpec => []SharedInv
<1>1. Init => SharedInv
  BY InitIInv DEF IInv
<1> QED BY <1>1, SharedInvStep, PTL DEF SharedSpec

LEMMA Invariance == Spec => []IInv
<1>1. IInv /\ [Next]_vars => IInv'
  BY SharedInvStep, OrderStep DEF IInv, SharedInv
<1> QED BY <1>1, InitIInv, PTL DEF Spec

(* A run on its own is one whose neighbour does nothing.                    *)
LEMMA AloneIsShared == Spec => SharedSpec
<1>1. [Next]_vars => [Next \/ Neighbour]_vars
  OBVIOUS
<1> QED BY <1>1, PTL DEF Spec, SharedSpec

-----------------------------------------------------------------------------
(* Theorems.                                                                *)

(* Nothing at or below the watermark is missing: a message that is there,     *)
(* not flagged \Deleted and not passed over has its row, also with other      *)
(* runs over the folder, or had one until a SEARCH failed.                   *)
THEOREM NothingLostBeside == SharedSpec => []NoMessageLost
<1>1. SharedInv => NoMessageLost
  BY DEF SharedInv, FolderInv, WatermarkCovered, NoMessageLost, Live
<1> QED BY <1>1, SharedInvariance, PTL

(* So for a run that is alone, where it says that crashes, cancels, resets and *)
(* failed commits leave no hole below the watermark: a failed SEARCH alone     *)
(* does.                                                                     *)
THEOREM NothingLost == Spec => []NoMessageLost
  BY NothingLostBeside, AloneIsShared

(* A run that reports success left no message of the folder behind, but for   *)
(* what a failed SEARCH had it delete.                                       *)
THEOREM DoneIsCompleteBeside == SharedSpec => []CompleteWhenDone
<1>1. SharedInv => CompleteWhenDone
  BY DEF SharedInv, FolderInv, DoneCovered, CompleteWhenDone, Live
<1> QED BY <1>1, SharedInvariance, PTL

(* So for a run that is alone.                                              *)
THEOREM DoneIsComplete == Spec => []CompleteWhenDone
  BY DoneIsCompleteBeside, AloneIsShared

(* While the numbering stands, no step but a reset of the cache drops a row   *)
(* whose message is still on the server, unless on the word of a failed SEARCH.*)
LEMMA DropsOnlyGone ==
  ASSUME SharedInv, ServerStep \/ StepA, FirstNumbering,
         NEW u \in Uid, Stored(u), rows'[u] = 0
  PROVE  mail[u] = "absent" \/ u \in misjudged'
<1>1. TypeOK /\ FolderInv
  BY DEF SharedInv
<1>2. rows'[u] # rows[u]
  BY DEF Stored
<1>3. CASE PruneStale
  BY <1>1, <1>2, <1>3 DEF PruneStale, DeleteMessagesByUids, Stale, FolderInv, SyncSound, Live,
        TypeOK
<1>4. CASE OpenFolder
  <2>1. UpsertFolder(state.uidvalidity).uidvalidity = state.uidvalidity
    BY <1>1 DEF UpsertFolder, TypeOK
  <2> QED BY <1>2, <1>4, <2>1 DEF OpenFolder
<1>5. ASSUME NEW b, NEW h, FlushAnyway(b, h) PROVE FALSE
  BY <1>1, <1>2, <1>5 DEF FlushAnyway, Checkpoint, RolledBack, InsertMessages, dbVars, TypeOK,
        Stored
<1>6. CASE ParseSettles
  BY <1>1, <1>2, <1>5, <1>6, ParseEffect DEF Turn, dbVars
<1>7. CASE EndFetch \/ FetchCancelled
  BY <1>5, <1>7 DEF EndFetch, FetchCancelled, FlushAnyway
<1>8. ASSUME NEW transient \in BOOLEAN, FetchBreaks(transient) PROVE FALSE
  BY <1>5, <1>8 DEF FetchBreaks
<1>9. CASE ServerStep \/ GetFolderState \/ Abort \/ Forget
  BY <1>2, <1>9 DEF ServerStep, Arrive, Expunge, FlagDeleted, Renumber, GetFolderState,
        Abort, Forget, dbVars
<1>10. CASE \/ ListLiveUids \/ ListLiveUidsFails \/ SyncCancelled
            \/ LeaveLoop \/ StartFetch \/ Receive \/ Reconnect
  BY <1>2, <1>10 DEF ListLiveUids, ListLiveUidsFails, SyncCancelled, LeaveLoop, StartFetch,
        Receive, Reconnect, dbVars
<1> QED BY <1>3, <1>4, <1>6, <1>7, <1>8, <1>9, <1>10 DEF StepA, RunStep

(* The sync drops no row whose message is still on the server, unless its      *)
(* SEARCH failed: neither this run's nor, if the rest is as Neighbour has it,  *)
(* another's.                                                                *)
THEOREM SyncDropsOnlyGoneBeside == SharedSpec => OnlyGoneRowsDropped
<1> DEFINE Drops == FirstNumbering /\ folder' # NoFolder =>
                      \A u \in Uid : Stored(u) /\ rows'[u] = 0
                                        => mail[u] = "absent" \/ u \in misjudged'
<1>1. SharedInv /\ [Next \/ Neighbour]_vars => [Drops]_vars
  <2>1. Neighbour => Drops
    BY DEF Neighbour, KeepsTheFolder, Stored
  <2>2. SharedInv /\ Next => Drops
    <3>1. Next /\ folder' # NoFolder => ServerStep \/ StepA
      BY DEF Next, StepA, ResetCache
    <3> QED BY <3>1, DropsOnlyGone
  <2> QED BY <2>1, <2>2
<1> QED BY <1>1, SharedInvariance, PTL DEF SharedSpec, OnlyGoneRowsDropped

(* A run that is alone drops what the server no longer has, and nothing else   *)
(* while its SEARCHes are answered.                                          *)
THEOREM SyncDropsOnlyGone == Spec => OnlyGoneRowsDropped
  BY SyncDropsOnlyGoneBeside, AloneIsShared

(* What a run expects of a neighbour it does itself.                        *)
THEOREM RunsAreGoodNeighbours ==
  SharedSpec => [][StepA /\ FirstNumbering => KeepsTheFolder]_vars
<1> DEFINE Keeps == StepA /\ FirstNumbering => KeepsTheFolder
<1>1. SharedInv /\ SharedInv' /\ [Next \/ Neighbour]_vars => [Keeps]_vars
  <2> SUFFICES ASSUME SharedInv, SharedInv', StepA, FirstNumbering PROVE KeepsTheFolder
    OBVIOUS
  <2>1. UNCHANGED serverVars /\ Next
    BY DEF StepA, Next, GetFolderState, Abort, Forget, RunStep, OpenFolder, ListLiveUids,
           ListLiveUidsFails, SyncCancelled, PruneStale, LeaveLoop, StartFetch, Receive,
           ParseSettles, EndFetch, FetchCancelled, FetchBreaks, Reconnect
  <2>2. FolderInv /\ FolderInv' /\ TypeOK /\ TypeOK'
    BY <2>1 DEF SharedInv, FirstNumbering, serverVars
  <2>3. passedOver \subseteq passedOver' /\ misjudged \subseteq misjudged'
    <3>1. CASE ParseSettles
      BY <2>2, <3>1, ParseEffect DEF Turn
    <3> QED
      BY <3>1 DEF StepA, GetFolderState, Abort, Forget, RunStep, OpenFolder,
         ListLiveUids, ListLiveUidsFails, SyncCancelled, PruneStale, LeaveLoop, StartFetch,
         Receive, PassOver, EndFetch, FetchCancelled, FetchBreaks, Reconnect, histVars
  <2>4. ASSUME NEW u \in Uid, Stored(u), mail[u] # "absent" PROVE Stored(u)' \/ u \in misjudged'
    BY <2>4, DropsOnlyGone DEF Stored
  <2>5. /\ \A u \in Uid : Stored(u)' => u < uidnext
        /\ folder'.uidnextSeen < uidnext
    BY <2>1, <2>2 DEF FolderInv, BelowUidnext, serverVars
  <2>6. \A u \in Uid : u <= folder'.uidnextSeen /\ mail[u] # "absent" => Accounted(u)'
    BY <2>1, <2>2 DEF FolderInv, WatermarkCovered, Live, serverVars
  <2> QED BY <2>3, <2>4, <2>5, <2>6 DEF KeepsTheFolder
<1> QED BY <1>1, SharedInvariance, PTL DEF SharedSpec

(* Two runs at once lose no message while SEARCHes are answered, if B, as a    *)
(* good neighbour, stores nothing between the answer with the live UIDs and    *)
(* the deletes: with RunsAreGoodNeighbours for each of the two, that gap is    *)
(* the only other way to it.                                                 *)
THEOREM TwoRunsLoseNothing ==
  BothSpec /\ [][StepB => Neighbour]_bothVars
    => []NoMessageLost /\ []CompleteWhenDone /\ OnlyGoneRowsDropped
<1>1. [BothNext]_bothVars /\ [StepB => Neighbour]_bothVars => [Next \/ Neighbour]_vars
  <2>1. StepA => Next
    BY DEF StepA, Next
  <2> QED BY <2>1 DEF BothNext, bothVars, Next
<1>2. BothSpec /\ [][StepB => Neighbour]_bothVars => SharedSpec
  BY <1>1, PTL DEF BothSpec, BothInit, SharedSpec
<1> QED BY <1>2, NothingLostBeside, DoneIsCompleteBeside, SyncDropsOnlyGoneBeside

(* upsertFolder takes the new numbering over and keeps the watermark.        *)
LEMMA UpsertKeepsWatermark ==
  ASSUME TypeOK
  PROVE  /\ \A uv \in 0 .. MaxEpoch : /\ UpsertFolder(uv).uidvalidity = uv
                                    /\ UpsertFolder(uv).uidnextSeen = folder.uidnextSeen
         /\ uidvalidity \in 0 .. MaxEpoch /\ state.uidvalidity \in 0 .. MaxEpoch
BY DEF UpsertFolder, TypeOK, Epoch

(* The watermark of a folder falls only when its rows are dropped with it.    *)
THEOREM WatermarkAndRowsFallTogether == Spec => WatermarkFallsOnlyWithItsRows
<1> DEFINE Falls == folder'.uidnextSeen < folder.uidnextSeen => rows' = NoRows
<1>1. IInv /\ [Next]_vars => [Falls]_vars
  <2> SUFFICES ASSUME IInv, Next PROVE Falls
    OBVIOUS
  <2>1. TypeOK /\ InStep /\ SeenInOrder
    BY DEF IInv, SharedInv
  <2>2. folder.uidnextSeen \in 0 .. MaxUid
    BY <2>1 DEF TypeOK
  <2> DEFINE Grows == folder.uidnextSeen <= folder'.uidnextSeen
  <2>3. CASE UNCHANGED folder
    BY <2>2, <2>3
  <2>4. CASE GetFolderState \/ OpenFolder
    <3>2. folder'.uidnextSeen = folder.uidnextSeen
      BY <2>1, <2>4, UpsertKeepsWatermark DEF GetFolderState, OpenFolder
    <3> QED BY <2>2, <3>2
  <2>5. ASSUME pc \in Opened, NEW b \in [Uid -> 0 .. MaxEpoch], FlushAnyway(b, highestUid),
               \A u \in Uid : b[u] # 0 => u <= highestUid
        PROVE  Grows
    <3>1. uidnextSeen <= highestUid /\ highestUid \in 0 .. MaxUid
      BY <2>1, <2>5 DEF SeenInOrder, TypeOK
    <3> QED BY <2>1, <2>5, <3>1, CommitInStep
  <2>6. CASE ParseSettles
    <3>1. PICK u \in Uid, b \in [Uid -> 0 .. MaxEpoch] : Turn(u, b)
      BY <2>1, <2>6, ParseEffect
    <3>2. /\ pc \in Opened
          /\ FlushAnyway(b, highestUid) \/ UNCHANGED folder
          /\ \A v \in Uid : b[v] # 0 => v <= highestUid
      BY <2>1, <3>1 DEF Turn, InStep, SeenInOrder, Opened, dbVars
    <3>3. folder'.uidnextSeen \in 0 .. MaxUid
      BY <2>1, TypeStep DEF TypeOK
    <3> QED BY <2>2, <2>3, <2>5, <3>2, <3>3
  <2>7. CASE EndFetch \/ FetchCancelled \/ \E transient \in BOOLEAN : FetchBreaks(transient)
    <3>1. pc \in Opened /\ FlushAnyway(batch, highestUid)
      BY <2>7 DEF EndFetch, FetchCancelled, FetchBreaks, FlushAnyway, Opened
    <3>2. /\ batch \in [Uid -> 0 .. MaxEpoch]
          /\ \A u \in Uid : batch[u] # 0 => u <= highestUid
      BY <2>1 DEF TypeOK, InStep
    <3> QED BY <2>1, <2>2, <2>5, <3>1, <3>2, TypeStep DEF TypeOK
  <2>8. CASE ResetCache
    BY <2>8 DEF ResetCache
  <2>9. CASE \/ ServerStep \/ Abort \/ Forget
             \/ ListLiveUids \/ ListLiveUidsFails \/ SyncCancelled \/ PruneStale
             \/ LeaveLoop \/ StartFetch \/ Receive \/ Reconnect
    BY <2>3, <2>9 DEF ServerStep, Arrive, Expunge, FlagDeleted, Renumber, Abort, Forget,
          ListLiveUids, ListLiveUidsFails, SyncCancelled, PruneStale, LeaveLoop, StartFetch,
          Receive, Reconnect, dbVars
  <2> QED BY <2>4, <2>6, <2>7, <2>8, <2>9 DEF Next, RunStep
<1> QED BY <1>1, Invariance, PTL DEF Spec, WatermarkFallsOnlyWithItsRows

(* A run that committed after its abort has ended, or is back at the stream    *)
(* with nothing left to commit.                                              *)
LateInv ==
  /\ lateCommits \in {0, 1}
  /\ ~ aborted => lateCommits = 0
  /\ lateCommits = 1 => \/ pc \in Outcome
                        \/ pc = "fetching" /\ ~ Unwritten(batch, highestUid)

(* What a commit adds.                                                       *)
LEMMA LateCommit ==
  ASSUME TypeOK, NEW b \in [Uid -> 0 .. MaxEpoch], NEW h \in 0 .. MaxUid, uidnextSeen <= h,
         lateCommits \in {0, 1}, FlushAnyway(b, h), ~ aborted => lateCommits = 0
  PROVE  /\ ~ aborted => lateCommits' = 0
         /\ lateCommits = 0 \/ ~ Unwritten(b, h) => lateCommits' \in {0, 1}
         /\ Checkpoint(b, h) => ~ Unwritten(batch, highestUid)'
<1>1. CASE Checkpoint(b, h)
  BY <1>1 DEF Checkpoint, Unwritten, TypeOK
<1>2. CASE RolledBack(b, h) /\ ~ Checkpoint(b, h)
  BY <1>2 DEF RolledBack
<1> QED BY <1>1, <1>2 DEF FlushAnyway

LEMMA LateStep == TypeOK /\ SeenInOrder /\ LateInv /\ [Next]_vars => LateInv'
<1> SUFFICES ASSUME TypeOK, SeenInOrder, LateInv, [Next]_vars PROVE LateInv'
  OBVIOUS
<1> USE DEF LateInv
<1>1. CASE ServerStep \/ ResetCache \/ UNCHANGED vars
  BY <1>1 DEF ServerStep, Arrive, Expunge, FlagDeleted, Renumber, ResetCache, vars, runVars,
        Unwritten, NoRows
<1>2. CASE Abort \/ Forget
  BY <1>2 DEF Abort, Forget, Running, Outcome, Unwritten, NoRows
<1>3. CASE \/ GetFolderState \/ OpenFolder \/ ListLiveUids \/ ListLiveUidsFails
           \/ SyncCancelled \/ PruneStale \/ LeaveLoop \/ StartFetch \/ Receive \/ Reconnect
  BY <1>3 DEF GetFolderState, OpenFolder, ListLiveUids, ListLiveUidsFails, SyncCancelled,
        PruneStale, LeaveLoop, StartFetch, Receive, MayReceive, Reconnect, Outcome
<1>4. CASE ParseSettles
  <2> DEFINE Grown(u) == IF batch[u] = 0 THEN [batch EXCEPT ![u] = uidvalidity] ELSE batch
  <2>1. PICK u \in Uid :
          \/ lateCommits' = lateCommits
          \/ Checkpoint(Grown(u), highestUid) /\ pc' = "fetching"
          \/ FlushAnyway(Grown(u), highestUid) /\ pc' \in {"cancelled", "failed"}
    BY <1>4 DEF ParseSettles
  <2>2. /\ lateCommits = 0 /\ uidnextSeen <= highestUid /\ highestUid \in 0 .. MaxUid
        /\ aborted' = aborted
    BY <1>4 DEF ParseSettles, Outcome, SeenInOrder, Opened, TypeOK
  <2>3. Grown(u) \in [Uid -> 0 .. MaxEpoch]
    BY DEF TypeOK, Epoch
  <2> HIDE DEF Grown
  <2>4. CASE lateCommits' = lateCommits
    BY <2>2, <2>4
  <2>5. CASE Checkpoint(Grown(u), highestUid) /\ pc' = "fetching"
    BY <2>2, <2>3, <2>5, LateCommit DEF FlushAnyway
  <2>6. CASE FlushAnyway(Grown(u), highestUid) /\ pc' \in {"cancelled", "failed"}
    BY <2>2, <2>3, <2>6, LateCommit DEF Outcome
  <2> QED BY <2>1, <2>4, <2>5, <2>6
<1>5. CASE EndFetch \/ FetchCancelled \/ \E transient \in BOOLEAN : FetchBreaks(transient)
  <2>1. /\ FlushAnyway(batch, highestUid) /\ pc \in Opened /\ pc \notin Outcome
        /\ aborted' = aborted
        /\ aborted => pc' \in Outcome
    BY <1>5 DEF EndFetch, FetchCancelled, FetchBreaks, FlushAnyway, Opened, Outcome
  <2>2. batch \in [Uid -> 0 .. MaxEpoch] /\ highestUid \in 0 .. MaxUid /\ uidnextSeen <= highestUid
    BY <2>1 DEF TypeOK, SeenInOrder
  <2>3. lateCommits = 0 \/ ~ Unwritten(batch, highestUid)
    BY <2>1
  <2> QED BY <2>1, <2>2, <2>3, LateCommit
<1> QED BY <1>1, <1>2, <1>3, <1>4, <1>5 DEF Next, RunStep

(* After an abort a run commits once more at most, although a message may be   *)
(* with the parser when it comes.                                            *)
THEOREM CancelCommitsOnce == Spec => []CancelledRunCommitsOnce
<1>1. Init => LateInv
  BY DEF Init, LateInv
<1>2. IInv /\ LateInv /\ [Next]_vars => LateInv'
  BY LateStep DEF IInv, SharedInv
<1>3. LateInv => CancelledRunCommitsOnce
  BY DEF LateInv, CancelledRunCommitsOnce
<1> QED BY <1>1, <1>2, <1>3, Invariance, PTL DEF Spec

(* Every run is one of the mirror: commits extend it, the sync prunes it or,   *)
(* after a failed SEARCH, loses it, and what else a run does shows nothing.    *)
THEOREM ImplementsMirror == Spec => MirrorsMailbox
<1> USE DEF Mirror!Uid, Uid
<1>1. Init => Mirror!Init
  BY DEF Init, Mirror!Init, NoMail, NoRows, NoFolder, Stored
<1>2. IInv /\ IInv' /\ [Next]_vars => [Mirror!Next]_(Mirror!vars)
  <2> SUFFICES ASSUME IInv, IInv', [Next]_vars PROVE [Mirror!Next]_(Mirror!vars)
    OBVIOUS
  <2>1. /\ TypeOK /\ InStep /\ SeenInOrder /\ TypeOK'
        /\ (FirstNumbering => FolderInv) /\ (FirstNumbering' => FolderInv')
    BY DEF IInv, SharedInv
  <2> DEFINE Kept == UNCHANGED <<mail, uidnext, uidvalidity>>
             Shown == {u \in Uid : Stored(u)}
  <2>2. CASE ServerStep
    <3>1. CASE ~ FirstNumbering'
      BY <3>1 DEF Mirror!Next, Mirror!Void, FirstNumbering
    <3>2. CASE FirstNumbering'
      <4>1. FolderInv
        BY <2>1, <2>2, <3>2 DEF ServerStep, Arrive, Expunge, FlagDeleted, Renumber,
              FirstNumbering, TypeOK, Epoch
      <4>2. Mirror!MailboxChanges
        <5>1. /\ uidnext <= uidnext' /\ uidvalidity' = uidvalidity
              /\ \A u \in Uid : u < uidnext /\ Live(u)' => Live(u)
              /\ \A u \in Uid : Live(u)' => u < uidnext'
              /\ UNCHANGED <<dbVars, histVars>>
          BY <2>1, <2>2, <3>2, <4>1, ServerStepEffect DEF FolderInv
        <5>2. /\ \A u \in Uid : u < uidnext /\ mail[u] = "absent" => mail'[u] = "absent"
              /\ \A u \in Uid : u >= uidnext' => mail'[u] = "absent"
          BY <2>1, <5>1 DEF Live, TypeOK
        <5>3. UNCHANGED <<rows, folder, passedOver, misjudged, uidvalidity>> /\ uidnext' >= uidnext
          BY <2>1, <5>1 DEF dbVars, histVars, TypeOK
        <5> QED BY <5>2, <5>3 DEF Mirror!MailboxChanges, Stored
      <4> QED BY <4>2 DEF Mirror!Next
    <3> QED BY <3>1, <3>2
  <2>3. CASE Kept /\ UNCHANGED <<rows, histVars>> /\ folder'.uidnextSeen = folder.uidnextSeen
    BY <2>3 DEF Mirror!vars, Stored, histVars
  <2>4. CASE Kept /\ ~ FirstNumbering
    BY <2>4 DEF Mirror!Next, Mirror!Void, FirstNumbering
  <2>5. CASE GetFolderState \/ OpenFolder
    <3> QED BY <2>1, <2>3, <2>5, UpsertKeepsWatermark DEF GetFolderState, OpenFolder, serverVars,
             histVars
  <2>6. ASSUME Kept, FirstNumbering, pc \in Opened,
               NEW b \in [Uid -> 0 .. MaxEpoch], FlushAnyway(b, highestUid),
               \A u \in Uid : b[u] # 0 => u <= highestUid, UNCHANGED <<histVars, gone>>
        PROVE  Mirror!Extend
    <3>1. uidnextSeen <= highestUid /\ highestUid \in 0 .. MaxUid
      BY <2>1, <2>6 DEF SeenInOrder, TypeOK
    <3>2. folder.uidnextSeen <= folder'.uidnextSeen /\ \A u \in Uid : Stored(u) => Stored(u)'
      BY <2>1, <2>6, <3>1, CommitCovers, CommitInStep
    <3>3. BelowUidnext' /\ WatermarkCovered'
      BY <2>1, <2>6 DEF FirstNumbering, FolderInv
    <3>4. folder'.uidnextSeen \in folder.uidnextSeen .. uidnext - 1
      <4>1. folder.uidnextSeen \in Nat /\ folder'.uidnextSeen \in Nat /\ uidnext \in Nat
        BY <2>1 DEF TypeOK
      <4>2. folder'.uidnextSeen < uidnext
        BY <2>6, <3>3 DEF BelowUidnext
      <4> QED BY <3>2, <4>1, <4>2
    <3>5. \A u \in Uid : folder.uidnextSeen < u /\ u <= folder'.uidnextSeen /\ mail[u] = "plain"
                          => Stored(u)' \/ u \in passedOver
      <4> SUFFICES ASSUME NEW u \in Uid, folder.uidnextSeen < u, u <= folder'.uidnextSeen,
                          mail[u] = "plain"
                   PROVE  Stored(u)' \/ u \in passedOver
        OBVIOUS
      <4>1. Accounted(u)'
        <5>1. Live(u)'
          BY <2>6 DEF Live
        <5> QED BY <3>3, <5>1 DEF WatermarkCovered
      <4>2. u \notin misjudged
        <5>1. folder.uidnextSeen \in Nat /\ u \in Nat
          BY <2>1 DEF TypeOK, Uid
        <5>2. u \in misjudged => u <= folder.uidnextSeen
          BY <2>1 DEF InStep
        <5> QED BY <5>1, <5>2
      <4> QED BY <2>6, <4>1, <4>2 DEF Accounted, histVars
    <3>6. \A u \in Uid : Stored(u)' => u < uidnext
      BY <2>6, <3>3 DEF BelowUidnext
    <3> QED BY <2>6, <3>2, <3>4, <3>5, <3>6 DEF Mirror!Extend, histVars
  <2>7. CASE FirstNumbering /\ ParseSettles
    <3>1. PICK u \in Uid, b \in [Uid -> 0 .. MaxEpoch] : Turn(u, b)
      BY <2>1, <2>7, ParseEffect
    <3>2. /\ Kept /\ pc \in Opened /\ UNCHANGED <<misjudged, gone>>
          /\ \A v \in Uid : b[v] # 0 => v <= highestUid
      BY <2>1, <3>1 DEF Turn, InStep, SeenInOrder, Opened, serverVars
    <3>3. CASE FlushAnyway(b, highestUid) /\ passedOver' = passedOver
      BY <2>6, <2>7, <3>2, <3>3 DEF Mirror!Next, histVars
    <3>4. CASE UNCHANGED dbVars
      <4>1. CASE passedOver' = passedOver
        BY <2>3, <3>2, <3>4, <4>1 DEF dbVars, histVars
      <4>2. CASE passedOver' = passedOver \cup {u}
        <5>1. u < uidnext
          BY <2>1, <2>7, <3>1 DEF FolderInv, BelowUidnext, Turn, AtHead
        <5>2. Mirror!PassOver
          BY <3>2, <3>4, <4>2, <5>1 DEF Mirror!PassOver, dbVars, Stored
        <5> QED BY <5>2 DEF Mirror!Next
      <4> QED BY <3>1, <4>1, <4>2 DEF Turn
    <3> QED BY <3>1, <3>3, <3>4 DEF Turn
  <2>7a. CASE FirstNumbering /\ Receive
    <3>1. PICK u \in Uid : AtHead(u) /\ (passedOver' = passedOver \/ passedOver' = passedOver \cup {u})
      BY <2>7a DEF Receive, PassOver
    <3>2. Kept /\ UNCHANGED <<rows, folder, misjudged>>
      BY <2>7a DEF Receive, serverVars, dbVars
    <3>3. CASE passedOver' = passedOver
      BY <2>3, <3>2, <3>3 DEF histVars
    <3>4. CASE passedOver' = passedOver \cup {u}
      <4>1. u < uidnext
        BY <2>1, <2>7a, <3>1 DEF FolderInv, BelowUidnext, AtHead
      <4>2. Mirror!PassOver
        BY <3>2, <3>4, <4>1 DEF Mirror!PassOver, Stored
      <4> QED BY <4>2 DEF Mirror!Next
    <3> QED BY <3>1, <3>3, <3>4
  <2>8. CASE FirstNumbering /\ (EndFetch \/ FetchCancelled \/ \E transient \in BOOLEAN : FetchBreaks(transient))
    <3>1. Kept /\ pc \in Opened /\ FlushAnyway(batch, highestUid) /\ UNCHANGED <<histVars, gone>>
      BY <2>8 DEF EndFetch, FetchCancelled, FetchBreaks, FlushAnyway, Opened, serverVars
    <3>2. /\ batch \in [Uid -> 0 .. MaxEpoch]
          /\ \A u \in Uid : batch[u] # 0 => u <= highestUid
      BY <2>1 DEF TypeOK, InStep
    <3> QED BY <2>6, <2>8, <3>1, <3>2 DEF Mirror!Next
  <2>9. CASE FirstNumbering /\ PruneStale
    <3>1. /\ Kept /\ UNCHANGED <<folder, passedOver>> /\ pc = "pruning"
          /\ \/ /\ rows' = DeleteMessagesByUids(Stale)
                /\ misjudged' = IF refused THEN misjudged \cup Stale ELSE misjudged
             \/ UNCHANGED <<rows, misjudged>>
      BY <2>9 DEF PruneStale, serverVars
    <3>2. CASE UNCHANGED <<rows, misjudged>>
      BY <2>3, <3>1, <3>2 DEF histVars
    <3>3. CASE rows' = DeleteMessagesByUids(Stale) /\ ~ refused /\ UNCHANGED misjudged
      <4>1. \A u \in Uid : Stored(u)' <=> Stored(u) /\ u \notin Stale
        BY <2>1, <3>3 DEF DeleteMessagesByUids, Stored, TypeOK
      <4>2. \A u \in Stale : mail[u] = "absent"
        BY <2>1, <2>9, <3>1, <3>3 DEF Stale, FolderInv, SyncSound, Live
      <4>3. Mirror!Prune
        BY <3>1, <3>3, <4>1, <4>2 DEF Mirror!Prune, Stale
      <4> QED BY <4>3 DEF Mirror!Next
    <3>4. CASE /\ rows' = DeleteMessagesByUids(Stale) /\ refused /\ ~ gone
               /\ misjudged' = misjudged \cup Stale
      <4>1. Stale = Shown
        BY <2>1, <3>4 DEF SeenInOrder, Stale
      <4>2. \A u \in Uid : ~ Stored(u)'
        BY <2>1, <3>4, <4>1 DEF DeleteMessagesByUids, Stored, TypeOK
      <4>3. Mirror!Blind
        BY <3>1, <3>4, <4>1, <4>2 DEF Mirror!Blind
      <4> QED BY <4>3 DEF Mirror!Next
    <3>5. CASE /\ rows' = DeleteMessagesByUids(Stale) /\ gone
               /\ misjudged' = misjudged \cup Stale
      <4>1. Stale = {}
        BY <3>5 DEF Stale
      <4>2. rows' = rows /\ misjudged' = misjudged
        BY <2>1, <3>5, <4>1 DEF DeleteMessagesByUids, TypeOK
      <4> QED BY <3>2, <4>2
    <3> QED BY <3>1, <3>2, <3>3, <3>4, <3>5
  <2>10. CASE ResetCache
    <3>1. Mirror!Reset
      BY <2>10 DEF Mirror!Reset, ResetCache, NoFolder, NoRows, Stored, serverVars
    <3> QED BY <3>1 DEF Mirror!Next
  <2>11. CASE \/ Abort \/ Forget
              \/ ListLiveUids \/ ListLiveUidsFails \/ SyncCancelled
              \/ LeaveLoop \/ StartFetch \/ Reconnect \/ UNCHANGED vars
    BY <2>3, <2>11 DEF Abort, Forget, ListLiveUids, ListLiveUidsFails, SyncCancelled,
          LeaveLoop, StartFetch, Reconnect, vars, serverVars, dbVars
  <2>12. Receive \/ ParseSettles \/ EndFetch \/ FetchCancelled \/ PruneStale
           \/ (\E transient \in BOOLEAN : FetchBreaks(transient)) => Kept
    BY DEF Receive, ParseSettles, EndFetch, FetchCancelled, PruneStale, FetchBreaks, serverVars
  <2> QED
    BY <2>2, <2>4, <2>5, <2>7, <2>7a, <2>8, <2>9, <2>10, <2>11, <2>12 DEF Next, RunStep
<1>3. Spec => [][Mirror!Next]_(Mirror!vars)
  BY <1>2, Invariance, PTL DEF Spec
<1> QED BY <1>1, <1>3, PTL DEF Spec, MirrorsMailbox, Mirror!Spec

-----------------------------------------------------------------------------
(* Runs in turn are one run.                                                *)

(* The one run is the first, or B.                                          *)
SameA ==
  /\ thePc = pc /\ theState = state /\ theSeen = uidnextSeen /\ theLive = liveUids
  /\ theHigh = highestUid /\ theBatch = batch /\ theStream = stream
  /\ theAttempt = attempt /\ theConnected = connected /\ theAborted = aborted
  /\ theRefused = refused /\ theGone = gone /\ theLate = lateCommits

SameB ==
  /\ thePc = pcB /\ theState = stateB /\ theSeen = seenB /\ theLive = liveB
  /\ theHigh = highB /\ theBatch = batchB /\ theStream = streamB
  /\ theAttempt = attemptB /\ theConnected = connectedB /\ theAborted = abortedB
  /\ theRefused = refusedB /\ theGone = goneB /\ theLate = lateB

(* A run that is idle has nothing left of the one before.                   *)
Blank ==
  pc = "idle" =>
    /\ state = NoState /\ uidnextSeen = 0 /\ liveUids = {} /\ highestUid = 0
    /\ batch = NoRows /\ stream = NoMail /\ attempt = 0 /\ connected = FALSE /\ aborted = FALSE
    /\ refused = FALSE /\ gone = FALSE /\ lateCommits = 0

BlankB ==
  pcB = "idle" =>
    /\ stateB = NoState /\ seenB = 0 /\ liveB = {} /\ highB = 0
    /\ batchB = NoRows /\ streamB = NoMail /\ attemptB = 0 /\ connectedB = FALSE /\ abortedB = FALSE
    /\ refusedB = FALSE /\ goneB = FALSE /\ lateB = 0

LEMMA CommitsAlikeA ==
  ASSUME SameA, SameA', NEW b, NEW h
  PROVE  /\ Checkpoint(b, h) => One!Checkpoint(b, h)
         /\ FlushAnyway(b, h) => One!FlushAnyway(b, h)
         /\ Full(b) <=> One!Full(b)
         /\ MayBeFull(b) <=> One!MayBeFull(b)
<1>1. /\ Checkpoint(b, h) => One!Checkpoint(b, h)
      /\ FlushAnyway(b, h) => One!FlushAnyway(b, h)
  BY DEF SameA, FlushAnyway, One!FlushAnyway, Checkpoint, One!Checkpoint, RolledBack,
         One!RolledBack, Unwritten, One!Unwritten, Stored, One!Stored, InsertMessages, One!InsertMessages, dbVars, One!dbVars, Uid, One!Uid,
         NoRows, One!NoRows
<1>2. Uid = One!Uid
  BY DEF Uid, One!Uid
<1>3. {u \in Uid : b[u] # 0} = {u \in One!Uid : b[u] # 0}
  BY <1>2
<1>4. Full(b) <=> One!Full(b)
  BY <1>3 DEF Full, One!Full, Cardinality, One!Cardinality
<1> QED BY <1>1, <1>4 DEF SameA, MayBeFull, One!MayBeFull

LEMMA StepsAlikeA ==
  ASSUME SameA, SameA', StepA
  PROVE  One!Next
<1> USE DEF serverVars, One!serverVars, dbVars, One!dbVars, histVars, One!histVars,
            Stored, One!Stored, AtHead, One!AtHead, PassOver, One!PassOver, NoRows, One!NoRows, NoMail,
            One!NoMail, Uid, One!Uid
<1>1. UpToDate <=> One!UpToDate
  BY DEF SameA, UpToDate, One!UpToDate
<1>2. CASE GetFolderState \/ OpenFolder
  BY <1>2 DEF SameA, GetFolderState, One!GetFolderState, OpenFolder, One!OpenFolder,
        UpsertFolder, One!UpsertFolder, One!Next, One!RunStep
<1>3. CASE ListLiveUids \/ ListLiveUidsFails \/ SyncCancelled \/ PruneStale
  BY <1>1, <1>3 DEF SameA, ListLiveUids, One!ListLiveUids, ListLiveUidsFails,
        One!ListLiveUidsFails, SyncCancelled, One!SyncCancelled, PruneStale, One!PruneStale,
        SearchAll, One!SearchAll, AfterSync, One!AfterSync, DeleteMessagesByUids,
        One!DeleteMessagesByUids, Stale, One!Stale, One!Next, One!RunStep
<1>4. CASE LeaveLoop \/ StartFetch \/ Reconnect
  BY <1>1, <1>4 DEF SameA, LeaveLoop, One!LeaveLoop, StartFetch, One!StartFetch, Reconnect,
        One!Reconnect, FetchStream, One!FetchStream, Selected, One!Selected, One!Next,
        One!RunStep
<1>5. CASE Receive
  BY <1>5, CommitsAlikeA DEF SameA, Receive, One!Receive, MayReceive, One!MayReceive, One!Next,
        One!RunStep
<1>6. CASE EndFetch \/ FetchCancelled
  BY <1>6, CommitsAlikeA DEF SameA, EndFetch, One!EndFetch, FetchCancelled, One!FetchCancelled,
        One!Next, One!RunStep
<1>5a. CASE ParseSettles
  BY <1>5a, CommitsAlikeA DEF SameA, ParseSettles, One!ParseSettles, One!Next, One!RunStep
<1>7. ASSUME NEW transient \in BOOLEAN, FetchBreaks(transient) PROVE One!Next
  <2>1. One!FetchBreaks(transient)
    BY <1>1, <1>7, CommitsAlikeA DEF SameA, FetchBreaks, One!FetchBreaks, RetryLeft,
          One!RetryLeft, NextAttempt, One!NextAttempt
  <2> QED BY <2>1 DEF One!Next, One!RunStep
<1>8. CASE Abort \/ Forget
  BY <1>8 DEF SameA, Abort, One!Abort, Forget, One!Forget, Running, One!Running, NoState,
        One!NoState, One!Next
<1> QED BY <1>2, <1>3, <1>4, <1>5, <1>5a, <1>6, <1>7, <1>8 DEF StepA, RunStep

LEMMA ServerAlikeA ==
  ASSUME SameA, SameA', ServerStep
  PROVE  One!Next
  BY DEF SameA, ServerStep, One!ServerStep, Arrive, One!Arrive, Expunge, One!Expunge,
         FlagDeleted, One!FlagDeleted, Renumber, One!Renumber, dbVars, One!dbVars, runVars,
         One!runVars, histVars, One!histVars, Uid, One!Uid, Kind, One!Kind, One!Next

LEMMA CommitsAlikeB ==
  ASSUME SameB, SameB', NEW b, NEW h
  PROVE  /\ B!Checkpoint(b, h) => One!Checkpoint(b, h)
         /\ B!FlushAnyway(b, h) => One!FlushAnyway(b, h)
         /\ B!Full(b) <=> One!Full(b)
         /\ B!MayBeFull(b) <=> One!MayBeFull(b)
<1>1. /\ B!Checkpoint(b, h) => One!Checkpoint(b, h)
      /\ B!FlushAnyway(b, h) => One!FlushAnyway(b, h)
  BY DEF SameB, B!FlushAnyway, One!FlushAnyway, B!Checkpoint, One!Checkpoint, B!RolledBack,
         One!RolledBack, B!Unwritten, One!Unwritten, B!Stored, One!Stored, B!InsertMessages, One!InsertMessages, B!dbVars, One!dbVars, B!Uid,
         One!Uid, B!NoRows, One!NoRows
<1>2. B!Uid = One!Uid
  BY DEF B!Uid, One!Uid
<1>3. {u \in B!Uid : b[u] # 0} = {u \in One!Uid : b[u] # 0}
  BY <1>2
<1>4. B!Full(b) <=> One!Full(b)
  BY <1>3 DEF B!Full, One!Full, B!Cardinality, One!Cardinality
<1> QED BY <1>1, <1>4 DEF SameB, B!MayBeFull, One!MayBeFull

LEMMA StepsAlikeB ==
  ASSUME SameB, SameB', StepB
  PROVE  One!Next
<1> USE DEF B!serverVars, One!serverVars, B!dbVars, One!dbVars, B!histVars, One!histVars,
            B!Stored, One!Stored, B!AtHead, One!AtHead, B!PassOver, One!PassOver, B!NoRows, One!NoRows, B!NoMail,
            One!NoMail, B!Uid, One!Uid
<1>1. B!UpToDate <=> One!UpToDate
  BY DEF SameB, B!UpToDate, One!UpToDate
<1>2. CASE B!GetFolderState \/ B!OpenFolder
  BY <1>2 DEF SameB, B!GetFolderState, One!GetFolderState, B!OpenFolder, One!OpenFolder,
        B!UpsertFolder, One!UpsertFolder, One!Next, One!RunStep
<1>3. CASE B!ListLiveUids \/ B!ListLiveUidsFails \/ B!SyncCancelled \/ B!PruneStale
  BY <1>1, <1>3 DEF SameB, B!ListLiveUids, One!ListLiveUids, B!ListLiveUidsFails,
        One!ListLiveUidsFails, B!SyncCancelled, One!SyncCancelled, B!PruneStale, One!PruneStale,
        B!SearchAll, One!SearchAll, B!AfterSync, One!AfterSync, B!DeleteMessagesByUids,
        One!DeleteMessagesByUids, B!Stale, One!Stale, One!Next, One!RunStep
<1>4. CASE B!LeaveLoop \/ B!StartFetch \/ B!Reconnect
  BY <1>1, <1>4 DEF SameB, B!LeaveLoop, One!LeaveLoop, B!StartFetch, One!StartFetch,
        B!Reconnect, One!Reconnect, B!FetchStream, One!FetchStream, B!Selected, One!Selected,
        One!Next, One!RunStep
<1>5. CASE B!Receive
  BY <1>5, CommitsAlikeB DEF SameB, B!Receive, One!Receive, B!MayReceive, One!MayReceive,
        One!Next, One!RunStep
<1>6. CASE B!EndFetch \/ B!FetchCancelled
  BY <1>6, CommitsAlikeB DEF SameB, B!EndFetch, One!EndFetch, B!FetchCancelled,
        One!FetchCancelled, One!Next, One!RunStep
<1>5a. CASE B!ParseSettles
  BY <1>5a, CommitsAlikeB DEF SameB, B!ParseSettles, One!ParseSettles, One!Next, One!RunStep
<1>7. ASSUME NEW transient \in BOOLEAN, B!FetchBreaks(transient) PROVE One!Next
  <2>1. One!FetchBreaks(transient)
    BY <1>1, <1>7, CommitsAlikeB DEF SameB, B!FetchBreaks, One!FetchBreaks, B!RetryLeft,
          One!RetryLeft, B!NextAttempt, One!NextAttempt
  <2> QED BY <2>1 DEF One!Next, One!RunStep
<1>8. CASE B!Abort \/ B!Forget
  BY <1>8 DEF SameB, B!Abort, One!Abort, B!Forget, One!Forget, B!Running, One!Running,
        B!NoState, One!NoState, One!Next
<1> QED BY <1>2, <1>3, <1>4, <1>5, <1>5a, <1>6, <1>7, <1>8 DEF StepB, B!RunStep

LEMMA ServerAlikeB ==
  ASSUME SameB, SameB', B!ServerStep
  PROVE  One!Next
  BY DEF SameB, B!ServerStep, One!ServerStep, B!Arrive, One!Arrive, B!Expunge, One!Expunge,
         B!FlagDeleted, One!FlagDeleted, B!Renumber, One!Renumber, B!dbVars, One!dbVars,
         B!runVars, One!runVars, B!histVars, One!histVars, B!Uid, One!Uid, B!Kind, One!Kind, One!Next

(* A reset of the cache, as either run meets it.                            *)
LEMMA ResetAlike ==
  /\ SameA /\ SameA' /\ ResetCache => One!Next
  /\ SameB /\ SameB' /\ B!ResetCache => One!Next
  BY DEF SameA, SameB, ResetCache, B!ResetCache, One!ResetCache, NoFolder, B!NoFolder,
         One!NoFolder, NoRows, B!NoRows, One!NoRows, Uid, B!Uid, One!Uid, serverVars,
         B!serverVars, One!serverVars, One!Next

LEMMA BlankStays ==
  ASSUME Blank, BlankB, [BothNext]_bothVars
  PROVE  Blank' /\ BlankB'
<1> USE DEF NoState, NoRows, NoMail, Uid, B!NoState, B!NoRows, B!NoMail, B!Uid
<1>1. ASSUME UNCHANGED runVars PROVE Blank'
  BY <1>1 DEF runVars, Blank
<1>2. ASSUME UNCHANGED runB PROVE BlankB'
  BY <1>2 DEF runB, BlankB
<1>3. ASSUME StepA PROVE Blank'
  BY <1>3 DEF StepA, GetFolderState, Abort, Forget, RunStep, Running, Blank, OpenFolder,
        ListLiveUids, ListLiveUidsFails, SyncCancelled, PruneStale, AfterSync, LeaveLoop,
        StartFetch, Receive, ParseSettles, EndFetch, FetchCancelled, FetchBreaks, Reconnect
<1>4. ASSUME StepB PROVE BlankB'
  BY <1>4 DEF StepB, B!GetFolderState, B!Abort, B!Forget, B!RunStep, B!Running, BlankB,
        B!OpenFolder, B!ListLiveUids, B!ListLiveUidsFails, B!SyncCancelled, B!PruneStale,
        B!AfterSync, B!LeaveLoop, B!StartFetch, B!Receive, B!ParseSettles, B!EndFetch,
        B!FetchCancelled, B!FetchBreaks, B!Reconnect
<1>5. ServerStep => UNCHANGED runVars
  BY DEF ServerStep, Arrive, Expunge, FlagDeleted, Renumber
<1>6. B!ServerStep => UNCHANGED runB
  BY DEF B!ServerStep, B!Arrive, B!Expunge, B!FlagDeleted, B!Renumber, B!runVars, runB
<1>7. ResetCache => Blank'
  BY DEF ResetCache, Blank
<1>8. B!ResetCache => BlankB'
  BY DEF B!ResetCache, BlankB
<1> QED BY <1>1, <1>2, <1>3, <1>4, <1>5, <1>6, <1>7, <1>8 DEF BothNext, bothVars, vars

(* Two runs of which one starts only when the other is over are one run that  *)
(* is forgotten and started again, so that all the above holds of them.      *)
THEOREM TurnsAreOneRun == BothSpec /\ []InTurn => One!Spec
<1> USE DEF NoState, NoRows, NoMail, Uid, B!NoState, B!NoRows, B!NoMail, B!Uid,
            One!NoState, One!NoRows, One!NoMail, One!Uid
<1>1. BothInit => One!Init /\ Blank /\ BlankB
  BY DEF BothInit, Init, B!Init, One!Init, NoFolder, B!NoFolder, One!NoFolder, Blank, BlankB,
         Of,
        thePc, theState, theSeen, theLive, theHigh, theBatch, theStream, theAttempt,
        theConnected, theAborted, theRefused, theGone, theLate
<1> USE DEF Of, thePc, theState, theSeen, theLive, theHigh, theBatch, theStream, theAttempt,
            theConnected, theAborted, theRefused, theGone, theLate
<1>2. (pc # "idle" => SameA) /\ (pc = "idle" => SameB)
  BY DEF SameA, SameB
<1>3. (pc # "idle" => SameA)' /\ (pc = "idle" => SameB)'
  BY DEF SameA, SameB
<1>4. Blank /\ BlankB /\ pcB = "idle" => SameA
  BY DEF SameA, Blank, BlankB
<1>5. (Blank /\ BlankB /\ pcB = "idle" => SameA)'
  BY DEF SameA, Blank, BlankB
<1> HIDE DEF Of, thePc, theState, theSeen, theLive, theHigh, theBatch, theStream, theAttempt,
             theConnected, theAborted, theRefused, theGone, theLate
<1>6. Blank /\ BlankB /\ Blank' /\ BlankB' /\ InTurn /\ InTurn' /\ [BothNext]_bothVars
        => [One!Next]_(One!vars)
  <2> SUFFICES ASSUME Blank, BlankB, Blank', BlankB', InTurn, InTurn', [BothNext]_bothVars
               PROVE  One!Next \/ UNCHANGED One!vars
    OBVIOUS
  <2>1. CASE StepA /\ UNCHANGED runB
    <3>1. pc = "idle" => GetFolderState
      BY <2>1 DEF StepA, RunStep, Running, OpenFolder, ListLiveUids, ListLiveUidsFails,
            SyncCancelled,
            PruneStale, LeaveLoop, StartFetch, Receive, ParseSettles, EndFetch,
            FetchCancelled, FetchBreaks, Reconnect, Abort, Forget
    <3>2. pcB = "idle" /\ pcB' = "idle"
      BY <2>1, <3>1 DEF InTurn, runB, GetFolderState
    <3> QED BY <1>4, <1>5, <2>1, <3>2, StepsAlikeA
  <2>2. CASE StepB /\ UNCHANGED runVars
    <3>1. pcB = "idle" => B!GetFolderState
      BY <2>2 DEF StepB, B!RunStep, B!Running, B!OpenFolder, B!ListLiveUids,
            B!ListLiveUidsFails,
            B!SyncCancelled, B!PruneStale, B!LeaveLoop, B!StartFetch, B!Receive,
            B!ParseSettles, B!EndFetch, B!FetchCancelled, B!FetchBreaks, B!Reconnect, B!Abort, B!Forget
    <3>2. pc = "idle" /\ pc' = "idle"
      BY <2>2, <3>1 DEF InTurn, runVars, B!GetFolderState
    <3> QED BY <1>2, <1>3, <2>2, <3>2, StepsAlikeB
  <2>3. CASE ServerStep /\ B!ServerStep
    <3>1. UNCHANGED runVars
      BY <2>3 DEF ServerStep, Arrive, Expunge, FlagDeleted, Renumber
    <3>2. pc' = pc
      BY <3>1 DEF runVars
    <3> QED BY <1>2, <1>3, <2>3, <3>2, ServerAlikeA, ServerAlikeB
  <2>4. CASE UNCHANGED bothVars
    BY <2>4 DEF bothVars, vars, serverVars, dbVars, runVars, histVars, runB, One!vars,
          One!serverVars, One!dbVars, One!runVars, One!histVars, Of, thePc, theState, theSeen, theLive, theHigh, theBatch, theStream,
          theAttempt, theConnected, theAborted, theRefused, theGone, theLate
  <2>5. CASE ResetCache /\ B!ResetCache
    <3>1. pc' = pc
      BY <2>5 DEF ResetCache
    <3> QED BY <1>2, <1>3, <2>5, <3>1, ResetAlike
  <2> QED BY <2>1, <2>2, <2>3, <2>4, <2>5 DEF BothNext
<1>7. BothSpec => [](Blank /\ BlankB)
  BY <1>1, BlankStays, PTL DEF BothSpec
<1> QED BY <1>1, <1>6, <1>7, PTL DEF BothSpec, One!Spec

=============================================================================
