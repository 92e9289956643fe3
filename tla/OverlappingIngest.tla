-------------------------- MODULE OverlappingIngest --------------------------
(***************************************************************************)
(* Two runs of FolderIngest over the same folder at once: they share the   *)
(* server, the folder's rows and the history.  The first is FolderIngest's *)
(* own, the second, B, has a run of its own.                               *)
(*                                                                         *)
(* scan.start (src/main/ipc/handlers.ts) keeps no second scan out, and a   *)
(* scan that was cancelled is forgotten before it has unwound; the screen  *)
(* offers "Start scan" again as soon as its own status is not 'running'.   *)
(* OnlyGoneRowsDropped, FolderIngest's property, is then false.            *)
(***************************************************************************)
EXTENDS FolderIngest

VARIABLES pcB, stateB, seenB, liveB, highB, batchB, streamB, attemptB, connectedB, abortedB,
          refusedB, goneB, lateB

B == INSTANCE FolderIngest
       WITH pc <- pcB, state <- stateB, uidnextSeen <- seenB, liveUids <- liveB,
            highestUid <- highB, batch <- batchB, stream <- streamB,
            attempt <- attemptB, connected <- connectedB, aborted <- abortedB,
            refused <- refusedB, gone <- goneB, lateCommits <- lateB

runB == <<pcB, stateB, seenB, liveB, highB, batchB, streamB, attemptB, connectedB, abortedB,
          refusedB, goneB, lateB>>
bothVars == <<vars, runB>>

BothInit == Init /\ B!Init

(* What a run does, alone.                                                  *)
StepA == GetFolderState \/ RunStep \/ Abort \/ Forget
StepB == B!GetFolderState \/ B!RunStep \/ B!Abort \/ B!Forget

BothNext ==
  \/ ServerStep /\ B!ServerStep   \* the server's step, as either run may meet it
  \/ ResetCache /\ B!ResetCache
  \/ StepA /\ UNCHANGED runB
  \/ StepB /\ UNCHANGED runVars

BothSpec == BothInit /\ [][BothNext]_bothVars

-----------------------------------------------------------------------------
(* Runs in turn: one starts only when the other has been forgotten, as the   *)
(* screen has it for a user who cancels nothing.                             *)
InTurn == pc = "idle" \/ pcB = "idle"

(* The run that is under way, of the two.                                   *)
Of(a, b) == IF pc # "idle" THEN a ELSE b

thePc        == Of(pc, pcB)
theState     == Of(state, stateB)
theSeen      == Of(uidnextSeen, seenB)
theLive      == Of(liveUids, liveB)
theHigh      == Of(highestUid, highB)
theBatch     == Of(batch, batchB)
theStream    == Of(stream, streamB)
theAttempt   == Of(attempt, attemptB)
theConnected == Of(connected, connectedB)
theAborted   == Of(aborted, abortedB)
theRefused   == Of(refused, refusedB)
theGone      == Of(gone, goneB)
theLate      == Of(lateCommits, lateB)

One == INSTANCE FolderIngest
         WITH pc <- thePc, state <- theState, uidnextSeen <- theSeen, liveUids <- theLive,
              highestUid <- theHigh, batch <- theBatch, stream <- theStream,
              attempt <- theAttempt, connected <- theConnected, aborted <- theAborted,
              refused <- theRefused, gone <- theGone, lateCommits <- theLate

-----------------------------------------------------------------------------
(* A run with a neighbour, of which only this is known: it stores what is in *)
(* the folder, moves the watermark to where it has dealt with everything, and *)
(* drops what has gone or, after a failed SEARCH, what it takes to have gone. *)
KeepsTheFolder ==
  /\ passedOver \subseteq passedOver'
  /\ misjudged \subseteq misjudged'
  /\ \A u \in Uid : Stored(u) /\ mail[u] # "absent" => Stored(u)' \/ u \in misjudged'
  /\ \A u \in Uid : Stored(u)' => u < uidnext
  /\ folder'.uidnextSeen < uidnext
  /\ \A u \in Uid : u <= folder'.uidnextSeen /\ mail[u] # "absent" => Accounted(u)'

(* It stores nothing while the run has a list of live UIDs in hand.         *)
Neighbour ==
  /\ folder' \in [uidvalidity : 0 .. MaxEpoch, uidnextSeen : 0 .. MaxUid]
  /\ rows' \in [Uid -> 0 .. MaxEpoch]
  /\ passedOver' \in SUBSET Uid
  /\ misjudged' \in SUBSET Uid
  /\ FirstNumbering => KeepsTheFolder
  /\ pc = "pruning" => \A u \in Uid : Stored(u)' => Stored(u)
  /\ UNCHANGED <<serverVars, runVars>>

SharedSpec == Init /\ [][Next \/ Neighbour]_vars

=============================================================================
