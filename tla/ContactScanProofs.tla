------------------------- MODULE ContactScanProofs -------------------------
(* What ContactScan promises the renderer, for all mailboxes, settings and  *)
(* folders.                                                                 *)
EXTENDS ContactScan, FiniteSetTheorems, FunctionTheorems, TLAPS

USE MailAssumption DEF MailAssumption

(* What a scan keeps that reads the headers alone.                          *)
KeptByHeaders == Kept(Classified(Rebuilt(FALSE)))

(* The table depends on the rows, the settings and the folders alone.       *)
LEMMA SameTable ==
  ASSUME UNCHANGED <<rows, opts, scope>>, NEW b \in BOOLEAN
  PROVE  Rebuilt(b)' = Rebuilt(b)
  BY DEF Rebuilt, Inbound, Outbound, Mentions, Counted, InScope, Msg, HasWord, PassesWords

(* So do the verdicts.                                                      *)
LEMMA SameKept ==
  ASSUME UNCHANGED <<rows, opts, scope>>
  PROVE  KeptByHeaders' = KeptByHeaders
  <1>1. Rebuilt(FALSE)' = Rebuilt(FALSE)
    BY SameTable
  <1>2. ASSUME NEW c, NEW counts
        PROVE  Keep(c, counts)' = Keep(c, counts)
    BY DEF Keep, Bidirectional, Samples, Automated, Newer, InScope, Msg
  <1> QED
    BY <1>1, <1>2 DEF KeptByHeaders, Kept, Classified

(* Settings are settings, and the folders of the run are folders.           *)
SettingsKnown == opts \in Options

(* A deep scan shows nothing before it is over.                             *)
DeepHeldBack == pc # "idle" /\ opts.deep => \A c \in Contact : shown[c] = 0

(* Snapshots are of header scans, pass 2 is of deep ones.                   *)
PassesApart ==
  /\ pc = "snapshot" => ~opts.deep
  /\ pc \in {"prepass", "bodies"} => opts.deep

(* What the last snapshot kept has been shown.                              *)
PriorShown ==
  pc # "idle" /\ ~opts.deep => \A c \in prior \cap Contact : shown[c] > 0

(* No row comes after the last snapshot.                                    *)
LastSnapshotStands ==
  pc \in {"final", "classify"} /\ ~opts.deep /\ scope # {} => prior = KeptByHeaders

(* The verdicts are given on the table of this run.                         *)
TableIsFresh == pc = "classify" => contacts = Rebuilt(ReadsBodies(opts))

RunInv ==
  /\ shown \in [Contact -> Nat]
  /\ SettingsKnown
  /\ DeepHeldBack
  /\ PassesApart
  /\ PriorShown
  /\ LastSnapshotStands
  /\ TableIsFresh

LEMMA SettingsTyped ==
  ASSUME SettingsKnown
  PROVE  /\ opts.deep \in BOOLEAN
         /\ opts.cipher \in BOOLEAN
         /\ opts.domains \in SUBSET Contact
  <1>1. opts \in OptionsType
    BY DEF SettingsKnown
  <1> QED
    BY <1>1 DEF OptionsType

(* Only contacts are kept.                                                  *)
LEMMA KeptAreContacts ==
  ASSUME SettingsKnown, NEW b \in BOOLEAN
  PROVE  /\ DOMAIN Rebuilt(b) \subseteq Contact
         /\ Kept(Classified(Rebuilt(b))) \subseteq Contact
  <1>1. DOMAIN Rebuilt(b) \subseteq opts.domains
    BY DEF Rebuilt
  <1>2. DOMAIN Classified(Rebuilt(b)) = DOMAIN Rebuilt(b)
    BY DEF Classified
  <1>3. Kept(Classified(Rebuilt(b))) \subseteq DOMAIN Classified(Rebuilt(b))
    BY DEF Kept
  <1> QED
    BY <1>1, <1>2, <1>3, SettingsTyped

(* Each contact that is classified has a verdict.                           *)
LEMMA ClassifiedHaveVerdicts ==
  ASSUME NEW b \in BOOLEAN, NEW c \in DOMAIN Rebuilt(b)
  PROVE  Classified(Rebuilt(b))[c].tag \in {"kept", "filtered"}
  <1>1. PICK in, out : Rebuilt(b)[c] = [in |-> in, out |-> out, tag |-> "none"]
    BY DEF Rebuilt
  <1>2. Classified(Rebuilt(b))[c] =
          [Rebuilt(b)[c] EXCEPT !.tag = IF Keep(c, Rebuilt(b)[c]) THEN "kept" ELSE "filtered"]
    BY DEF Classified
  <1>3. ASSUME NEW v
        PROVE  [[in |-> in, out |-> out, tag |-> "none"] EXCEPT !.tag = v].tag = v
    OBVIOUS
  <1> QED
    BY <1>1, <1>2, <1>3

-----------------------------------------------------------------------------
(* A step that ends the run, or shows what it shows, keeps RunInv.          *)

LEMMA InitRunInv == Init => RunInv
  BY DEF Init, RunInv, SettingsKnown, DeepHeldBack, PassesApart, PriorShown,
         LastSnapshotStands, TableIsFresh

LEMMA EndRunInv ==
  ASSUME RunInv, NEW how, EndRun(how), shown' \in [Contact -> Nat]
  PROVE  RunInv'
  BY DEF EndRun, RunInv, SettingsKnown, DeepHeldBack, PassesApart, PriorShown,
         LastSnapshotStands, TableIsFresh

(* Steps on the way to the final pass that show nothing.                    *)
LEMMA QuietStepInv ==
  ASSUME RunInv, UNCHANGED <<opts, scope, shown, prior>>, pc # "idle",
         pc' \in {"ingest", "snapshot", "prepass", "bodies", "final"},
         pc' = "snapshot" => ~opts.deep,
         pc' \in {"prepass", "bodies", "final"} => opts.deep
  PROVE  RunInv'
  BY DEF RunInv, SettingsKnown, DeepHeldBack, PassesApart, PriorShown,
         LastSnapshotStands, TableIsFresh

LEMMA StartInv == ASSUME RunInv, Start PROVE RunInv'
  <1>1. shown' = [c \in Contact |-> 0] /\ opts' \in Options /\ prior' = {}
    BY DEF Start
  <1>2. pc' \in {"ingest", "prepass", "final"}
    BY DEF Start, AfterFolders
  <1>3. pc' \in {"prepass", "bodies"} => opts'.deep
    BY DEF Start, AfterFolders, ReadsBodies
  <1>4. pc' = "final" => scope' = {}
    BY DEF Start
  <1> QED
    BY <1>1, <1>2, <1>3, <1>4
       DEF RunInv, SettingsKnown, DeepHeldBack, PassesApart, PriorShown,
           LastSnapshotStands, TableIsFresh

LEMMA LeaveFolderInv ==
  ASSUME RunInv, pc = "ingest", NEW f, LeaveFolder(f),
         UNCHANGED <<opts, scope, shown, prior>>
  PROVE  RunInv'
  <1>1. pc' \in {"ingest", "snapshot", "prepass", "final"}
    BY DEF LeaveFolder, AfterFolders
  <1>2. pc' = "snapshot" => ~opts.deep
    BY DEF LeaveFolder, AfterFolders
  <1>3. pc' \in {"prepass", "final"} => opts.deep
    BY DEF LeaveFolder
  <1> QED
    BY <1>1, <1>2, <1>3, QuietStepInv

LEMMA StoreMessageInv ==
  ASSUME RunInv, NEW f, NEW m, StoreMessage(f, m)
  PROVE  RunInv'
  <1>1. CASE LeaveFolder(f)
    BY <1>1, LeaveFolderInv DEF StoreMessage
  <1>2. CASE pc' = pc
    BY <1>2, QuietStepInv DEF StoreMessage
  <1> QED
    BY <1>1, <1>2 DEF StoreMessage

LEMMA SnapshotInv == ASSUME RunInv, Snapshot PROVE RunInv'
  <1>1. /\ ~opts.deep
        /\ opts' = opts /\ scope' = scope /\ rows' = rows
        /\ pc' \in {"ingest", "final"}
    BY DEF Snapshot, RunInv, PassesApart
  <1>2. prior' = KeptByHeaders
    <2>1. contacts' = Classified(Rebuilt(FALSE))
      BY DEF Snapshot
    <2>2. prior' = Kept(Classified(Rebuilt(FALSE)))
      BY <2>1 DEF Snapshot, Kept
    <2> QED
      BY <2>2 DEF KeptByHeaders
  <1>3. prior' = KeptByHeaders'
    BY <1>1, <1>2, SameKept
  <1>4. /\ shown' \in [Contact -> Nat]
        /\ \A c \in prior' \cap Contact : shown'[c] > 0
    <2>1. shown' = [c \in Contact |-> shown[c] + IF c \in prior' \ prior THEN 1 ELSE 0]
      BY DEF Snapshot, Show
    <2>2. /\ shown \in [Contact -> Nat]
          /\ \A c \in prior \cap Contact : shown[c] > 0
      BY <1>1 DEF RunInv, PriorShown, Snapshot
    <2> QED
      BY <2>1, <2>2
  <1> QED
    BY <1>1, <1>3, <1>4
       DEF RunInv, SettingsKnown, DeepHeldBack, PassesApart, PriorShown,
           LastSnapshotStands, TableIsFresh

LEMMA RebuildInv == ASSUME RunInv, Rebuild PROVE RunInv'
  <1>1. /\ UNCHANGED <<rows, opts, scope, shown, prior>>
        /\ pc = "final" /\ pc' = "classify"
        /\ contacts' = Rebuilt(ReadsBodies(opts))
    BY DEF Rebuild
  <1>2. KeptByHeaders' = KeptByHeaders
    BY <1>1, SameKept
  <1>3. ReadsBodies(opts) \in BOOLEAN
    BY SettingsTyped DEF RunInv, ReadsBodies
  <1>4. contacts' = Rebuilt(ReadsBodies(opts))'
    <2>1. Rebuilt(FALSE)' = Rebuilt(FALSE) /\ Rebuilt(TRUE)' = Rebuilt(TRUE)
      BY <1>1, SameTable
    <2>2. CASE ReadsBodies(opts)
      <3>1. ReadsBodies(opts) = TRUE /\ ReadsBodies(opts)' = TRUE
        BY <1>1, <1>3, <2>2 DEF ReadsBodies
      <3> QED
        BY <1>1, <2>1, <3>1
    <2>3. CASE ~ReadsBodies(opts)
      <3>1. ReadsBodies(opts) = FALSE /\ ReadsBodies(opts)' = FALSE
        BY <1>1, <1>3, <2>3 DEF ReadsBodies
      <3> QED
        BY <1>1, <2>1, <3>1
    <2> QED
      BY <2>2, <2>3
  <1> QED
    BY <1>1, <1>2, <1>4
       DEF RunInv, SettingsKnown, DeepHeldBack, PassesApart, PriorShown,
           LastSnapshotStands, TableIsFresh

LEMMA ClassifyInv == ASSUME RunInv, Classify PROVE RunInv'
  <1>1. shown' \in [Contact -> Nat]
    BY DEF Classify, Show, RunInv
  <1> QED
    BY <1>1, EndRunInv DEF Classify

LEMMA PrepassInv == ASSUME RunInv, Prepass PROVE RunInv'
  <1>1. CASE EndRun("stopped")
    BY <1>1, EndRunInv DEF Prepass, RunInv
  <1>2. CASE UNCHANGED <<opts, scope, prior>> /\ pc' \in {"bodies", "final"}
    BY <1>2, QuietStepInv DEF Prepass, RunInv, PassesApart
  <1> QED
    BY <1>1, <1>2 DEF Prepass

LEMMA LeaveBodyInv ==
  ASSUME RunInv, pc = "bodies", NEW p, LeaveBody(p)
  PROVE  RunInv'
  BY QuietStepInv DEF LeaveBody, RunInv, PassesApart

(* RunInv is inductive: one step for each action.                           *)
LEMMA NextRunInv == RunInv /\ [Next]_vars => RunInv'
  <1> SUFFICES ASSUME RunInv, [Next]_vars
               PROVE  RunInv'
    OBVIOUS
  <1>1. ASSUME NEW p \in Place, StoreBody(p)
        PROVE  RunInv'
    BY <1>1, LeaveBodyInv DEF StoreBody
  <1>2. ASSUME NEW p \in Place, NoBody(p)
        PROVE  RunInv'
    BY <1>2, LeaveBodyInv DEF NoBody
  <1>3. ASSUME NEW f \in Folder, NEW live, BeginFolder(f, live)
        PROVE  RunInv'
    BY <1>3, QuietStepInv DEF BeginFolder
  <1>4. ASSUME NEW f \in Folder, UpToDate(f)
        PROVE  RunInv'
    BY <1>4, LeaveFolderInv DEF UpToDate
  <1>5. ASSUME NEW f \in Folder, NEW m \in Message, StoreMessage(f, m)
        PROVE  RunInv'
    BY <1>5, StoreMessageInv
  <1>6. ASSUME NEW S, ClassifyPartly(S)
        PROVE  RunInv'
    BY <1>6, EndRunInv DEF ClassifyPartly, RunInv
  <1>7. CASE Start
    BY <1>7, StartInv
  <1>8. CASE Cancel
    BY <1>8, QuietStepInv DEF Cancel, RunInv, PassesApart
  <1>9. CASE Stop \/ Fail \/ ClassifyAborted
    BY <1>9, EndRunInv DEF Stop, Fail, ClassifyAborted, RunInv
  <1>10. CASE Crash
    BY <1>10, EndRunInv DEF Crash
  <1>11. CASE Snapshot
    BY <1>11, SnapshotInv
  <1>12. CASE Prepass
    BY <1>12, PrepassInv
  <1>13. CASE Rebuild
    BY <1>13, RebuildInv
  <1>14. CASE Classify
    BY <1>14, ClassifyInv
  <1>15. CASE UNCHANGED vars
    <2>1. UNCHANGED <<rows, contacts, pc, opts, scope, prior, shown>>
      BY <1>15 DEF vars, runVars
    <2>2. KeptByHeaders' = KeptByHeaders /\ Rebuilt(FALSE)' = Rebuilt(FALSE)
          /\ Rebuilt(TRUE)' = Rebuilt(TRUE)
      BY <2>1, SameKept, SameTable
    <2>3. ReadsBodies(opts) \in BOOLEAN /\ ReadsBodies(opts)' = ReadsBodies(opts)
      BY <2>1, SettingsTyped DEF RunInv, ReadsBodies
    <2>4. Rebuilt(ReadsBodies(opts))' = Rebuilt(ReadsBodies(opts))
      <3>1. CASE ReadsBodies(opts) = TRUE
        BY <2>2, <2>3, <3>1
      <3>2. CASE ReadsBodies(opts) = FALSE
        BY <2>2, <2>3, <3>2
      <3> QED
        BY <2>3, <3>1, <3>2
    <2> QED
      BY <2>1, <2>2, <2>4
         DEF RunInv, SettingsKnown, DeepHeldBack, PassesApart, PriorShown,
             LastSnapshotStands, TableIsFresh
  <1> QED
    BY <1>1, <1>2, <1>3, <1>4, <1>5, <1>6, <1>7, <1>8, <1>9, <1>10, <1>11, <1>12,
       <1>13, <1>14, <1>15 DEF Next

-----------------------------------------------------------------------------
(* How a run comes to be done.                                              *)

(* Only the final classification ends a run well.                           *)
LEMMA DoneByClassify ==
  ASSUME [Next]_vars, pc' = "idle", outcome' # "stopped"
  PROVE  Classify \/ UNCHANGED <<rows, contacts, pc, opts, scope, outcome, shown, unread>>
  <1>1. ASSUME NEW p \in Place, StoreBody(p) \/ NoBody(p)
        PROVE  FALSE
    BY <1>1 DEF StoreBody, NoBody, LeaveBody
  <1>2. ASSUME NEW f \in Folder, NEW live, BeginFolder(f, live)
        PROVE  FALSE
    BY <1>2 DEF BeginFolder
  <1>3. ASSUME NEW f \in Folder, UpToDate(f)
        PROVE  FALSE
    BY <1>3 DEF UpToDate, LeaveFolder, AfterFolders
  <1>4. ASSUME NEW f \in Folder, NEW m \in Message, StoreMessage(f, m)
        PROVE  FALSE
    BY <1>4 DEF StoreMessage, LeaveFolder, AfterFolders
  <1>5. ASSUME NEW S, ClassifyPartly(S)
        PROVE  FALSE
    BY <1>5 DEF ClassifyPartly, EndRun
  <1>6. CASE Start \/ Cancel \/ Snapshot \/ Rebuild
    BY <1>6 DEF Start, AfterFolders, Cancel, Snapshot, Rebuild
  <1>7. CASE Stop \/ Fail \/ Crash \/ ClassifyAborted
    BY <1>7 DEF Stop, Fail, Crash, ClassifyAborted, EndRun
  <1>8. CASE Prepass
    BY <1>8 DEF Prepass, EndRun
  <1>9. CASE UNCHANGED vars
    BY <1>9 DEF vars, runVars
  <1> QED
    BY <1>1, <1>2, <1>3, <1>4, <1>5, <1>6, <1>7, <1>8, <1>9 DEF Next

(* What the final classification leaves behind.                             *)
LEMMA ClassifyGivesResult ==
  ASSUME RunInv, Classify
  PROVE  StreamHasResult' /\ UntaggedOnlyAfterInterruption'
  <1> DEFINE b == ReadsBodies(opts)
  <1>1. /\ contacts = Rebuilt(b)
        /\ contacts' = Classified(contacts)
        /\ pc' = "idle" /\ outcome' = "done"
        /\ opts' = opts /\ scope' = scope
    BY DEF Classify, EndRun, RunInv, TableIsFresh
  <1>2. /\ opts.deep \in BOOLEAN
        /\ b \in BOOLEAN
    BY SettingsTyped DEF RunInv, ReadsBodies
  <1> HIDE DEF b
  <1>3. contacts' = Classified(Rebuilt(b)) /\ Kept(contacts)' = Kept(Classified(Rebuilt(b)))
    BY <1>1 DEF Kept
  <1>4. Kept(contacts)' \subseteq Contact
    BY <1>2, <1>3, KeptAreContacts DEF RunInv
  <1>5. shown \in [Contact -> Nat]
    BY DEF RunInv
  <1>6. ASSUME opts.deep
        PROVE  StreamHasResult'
    <2>1. shown' = [c \in Contact |-> shown[c] + IF c \in Kept(contacts)' THEN 1 ELSE 0]
      BY <1>6 DEF Classify, Show, Kept
    <2>2. \A c \in Contact : shown[c] = 0
      BY <1>6 DEF RunInv, DeepHeldBack, Classify
    <2>3. \A c \in Contact : shown'[c] = IF c \in Kept(contacts)' THEN 1 ELSE 0
      BY <2>1, <2>2
    <2>4. \A c \in Kept(contacts)' : shown'[c] > 0
      BY <1>4, <2>3
    <2> QED
      BY <1>1, <1>6, <2>3, <2>4 DEF StreamHasResult
  <1>7. ASSUME ~opts.deep
        PROVE  StreamHasResult'
    <2>1. shown' = shown
      BY <1>7 DEF Classify
    <2>2. ASSUME scope # {}
          PROVE  \A c \in Kept(contacts)' : shown'[c] > 0
      <3>1. b = FALSE
        BY <1>2, <1>7 DEF b, ReadsBodies
      <3>2. prior = KeptByHeaders
        BY <1>7, <2>2 DEF RunInv, LastSnapshotStands, Classify
      <3>3. Kept(contacts)' = prior
        BY <1>3, <3>1, <3>2 DEF KeptByHeaders
      <3>4. \A c \in prior \cap Contact : shown[c] > 0
        BY <1>7 DEF RunInv, PriorShown, Classify
      <3> QED
        BY <1>4, <2>1, <3>3, <3>4
    <2> QED
      BY <1>1, <1>7, <2>2 DEF StreamHasResult
  <1>8. StreamHasResult'
    BY <1>6, <1>7
  <1>9. UntaggedOnlyAfterInterruption'
    <2>1. DOMAIN contacts' = DOMAIN Rebuilt(b)
      BY <1>3 DEF Classified
    <2>2. \A c \in DOMAIN contacts' : contacts'[c].tag # "none"
      BY <1>2, <1>3, <2>1, ClassifiedHaveVerdicts
    <2> QED
      BY <2>2 DEF UntaggedOnlyAfterInterruption
  <1> QED
    BY <1>8, <1>9

-----------------------------------------------------------------------------
(* What the renderer gets.                                                  *)

(* When a scan is done the renderer has been sent each contact it keeps; a  *)
(* deep scan has sent those alone, and each once (the snapshots of runScan).*)
THEOREM ResultIsShown == Spec => []StreamHasResult
  <1>1. Init => RunInv /\ StreamHasResult
    BY InitRunInv DEF Init, StreamHasResult, Done
  <1>2. RunInv /\ StreamHasResult /\ [Next]_vars => RunInv' /\ StreamHasResult'
    <2> SUFFICES ASSUME RunInv, StreamHasResult, [Next]_vars, Done'
                 PROVE  StreamHasResult'
      BY NextRunInv DEF StreamHasResult
    <2>1. CASE Classify
      BY <2>1, ClassifyGivesResult
    <2>2. CASE UNCHANGED <<rows, contacts, pc, opts, scope, outcome, shown, unread>>
      BY <2>2 DEF StreamHasResult, Done, Kept
    <2> QED
      BY <2>1, <2>2, DoneByClassify DEF Done
  <1> QED
    BY <1>1, <1>2, PTL DEF Spec

(* A scan that is done leaves no contact without a verdict: contacts that   *)
(* have none are left behind by a run that was cut short (the two           *)
(* transactions at the end of runScan).                                     *)
THEOREM VerdictForEach == Spec => []UntaggedOnlyAfterInterruption
  <1>1. Init => RunInv /\ UntaggedOnlyAfterInterruption
    BY InitRunInv DEF Init, UntaggedOnlyAfterInterruption
  <1>2. RunInv /\ UntaggedOnlyAfterInterruption /\ [Next]_vars
          => RunInv' /\ UntaggedOnlyAfterInterruption'
    <2> SUFFICES ASSUME RunInv, UntaggedOnlyAfterInterruption, [Next]_vars
                 PROVE  UntaggedOnlyAfterInterruption'
      BY NextRunInv
    <2>1. CASE pc' # "idle" \/ outcome' = "stopped"
      BY <2>1 DEF UntaggedOnlyAfterInterruption
    <2>2. CASE Classify
      BY <2>2, ClassifyGivesResult
    <2>3. CASE UNCHANGED <<rows, contacts, pc, opts, scope, outcome, shown, unread>>
      BY <2>3 DEF UntaggedOnlyAfterInterruption
    <2> QED
      BY <2>1, <2>2, <2>3, DoneByClassify
  <1> QED
    BY <1>1, <1>2, PTL DEF Spec

(* Once a scan is cancelled the renderer is sent no more contacts: checkAbort *)
(* stands before every snapshot.                                            *)
THEOREM SilentOnceCancelled == Spec => CancelledScanShowsNothing
  <1>1. RunInv /\ [Next]_vars =>
          [aborted => \A c \in Contact : shown'[c] <= shown[c]]_vars
    <2> SUFFICES ASSUME RunInv, Next, aborted
                 PROVE  \A c \in Contact : shown'[c] <= shown[c]
      OBVIOUS
    <2>1. shown \in [Contact -> Nat]
      BY DEF RunInv
    <2>2. CASE UNCHANGED shown
      BY <2>1, <2>2
    <2>3. CASE Start \/ Crash
      BY <2>1, <2>3 DEF Start, Crash
    <2>4. CASE Classify
      <3>1. contacts = Rebuilt(ReadsBodies(opts)) /\ DOMAIN contacts = {}
        BY <2>4 DEF Classify, RunInv, TableIsFresh
      <3>2. Kept(contacts') = {}
        BY <2>4, <3>1 DEF Classify, Classified, Kept
      <3>3. shown' = shown \/ shown' = [c \in Contact |-> shown[c] + IF c \in {} THEN 1 ELSE 0]
        BY <2>4, <3>2 DEF Classify, Show
      <3> QED
        BY <2>1, <3>3
    <2>5. UNCHANGED shown \/ Start \/ Crash \/ Classify
      BY DEF Next, StoreBody, NoBody, LeaveBody, BeginFolder, UpToDate, StoreMessage,
             ClassifyPartly, Cancel, Stop, Fail, Snapshot, Prepass, Rebuild, ClassifyAborted
    <2> QED
      BY <2>2, <2>3, <2>4, <2>5
  <1> QED
    BY <1>1, InitRunInv, NextRunInv, PTL DEF Spec, CancelledScanShowsNothing

-----------------------------------------------------------------------------
(* The rows, what is to be stored next to them, and the types.               *)

(* A copy is stored once.                                                   *)
RowsOnce == \A i, j \in DOMAIN rows : rows[i].copy = rows[j].copy => i = j

(* What a folder has still to store can be there and is not stored yet.     *)
TodoNew ==
  \A f \in DOMAIN todo : \A m \in todo[f] : <<m, f>> \in Place /\ m \notin Stored(f)

(* Folders are only being ingested in pass 1, and one by one unless the     *)
(* scan is deep.                                                            *)
FoldersApart ==
  /\ pc # "ingest" => DOMAIN todo = {}
  /\ ~opts.deep => \A f, g \in DOMAIN todo : f = g

(* Bodies are only waited for in pass 2.                                    *)
TargetsWaiting == pc # "bodies" => targets = {}

StoreInv == TypeOK /\ RowsOnce /\ TodoNew /\ FoldersApart /\ TargetsWaiting

LEMMA RowsTyped ==
  ASSUME rows \in Seq(Row)
  PROVE  /\ Len(rows) \in Nat
         /\ DOMAIN rows = 1 .. Len(rows)
         /\ IsFiniteSet(DOMAIN rows)
         /\ \A i \in DOMAIN rows :
              /\ rows[i] \in Row
              /\ rows[i].copy \in Place
              /\ rows[i].copy[1] \in Message
              /\ rows[i].copy = <<rows[i].copy[1], rows[i].copy[2]>>
              /\ Msg(i) \in MailType
  <1>1. Len(rows) \in Nat /\ DOMAIN rows = 1 .. Len(rows)
    OBVIOUS
  <1>2. IsFiniteSet(1 .. Len(rows))
    BY <1>1, FS_Interval
  <1>3. ASSUME NEW i \in DOMAIN rows
        PROVE  /\ rows[i] \in Row
               /\ rows[i].copy \in Place
               /\ rows[i].copy[1] \in Message
               /\ rows[i].copy = <<rows[i].copy[1], rows[i].copy[2]>>
               /\ Msg(i) \in MailType
    <2>1. rows[i] \in Row
      BY <1>1
    <2>2. rows[i].copy \in Place
      BY <2>1 DEF Row
    <2>3. rows[i].copy \in Message \X Folder
      BY <2>2
    <2> QED
      BY <2>1, <2>2, <2>3 DEF Msg
  <1> QED
    BY <1>1, <1>2, <1>3

(* What is left of the rows: some of them, each once.                       *)
LEMMA LeftRows ==
  ASSUME rows \in Seq(Row), NEW K \in SUBSET DOMAIN rows, OnlyLeft(K)
  PROVE  /\ rows' \in Seq(Row)
         /\ \A j \in DOMAIN rows' : \E i \in K : rows'[j] = rows[i]
         /\ RowsOnce => RowsOnce'
         /\ \A f : Stored(f)' \subseteq Stored(f)
  <1> DEFINE n == Cardinality(K)
  <1>1. n \in Nat
    BY RowsTyped, FS_Subset, FS_CardinalityType
  <1> HIDE DEF n
  <1>2. PICK id \in [1 .. n -> K] :
          /\ \A j, k \in DOMAIN id : j < k => id[j] < id[k]
          /\ rows' = [k \in DOMAIN id |-> rows[id[k]]]
    BY DEF OnlyLeft, n
  <1>3. /\ DOMAIN id = 1 .. n
        /\ DOMAIN rows' = 1 .. n
        /\ \A k \in 1 .. n : id[k] \in K /\ id[k] \in DOMAIN rows /\ rows'[k] = rows[id[k]]
    BY <1>2
  <1>4. \A k \in 1 .. n : rows'[k] \in Row
    BY <1>3, RowsTyped
  <1>5. rows' \in Seq(Row)
    <2>1. rows' \in [1 .. n -> Row]
      BY <1>2, <1>3, <1>4
    <2> QED
      BY <1>1, <2>1
  <1>6. \A j \in DOMAIN rows' : \E i \in K : rows'[j] = rows[i]
    BY <1>3
  <1>7. ASSUME RowsOnce PROVE RowsOnce'
    <2>1. ASSUME NEW j \in 1 .. n, NEW k \in 1 .. n, rows'[j].copy = rows'[k].copy
          PROVE  j = k
      <3>1. id[j] = id[k]
        BY <1>3, <1>7, <2>1 DEF RowsOnce
      <3>2. id[j] \in Nat
        BY <1>3, RowsTyped
      <3>3. j < k => id[j] < id[k]
        BY <1>2, <1>3
      <3>4. k < j => id[k] < id[j]
        BY <1>2, <1>3
      <3>5. ~(j < k) /\ ~(k < j)
        BY <3>1, <3>2, <3>3, <3>4
      <3> QED
        BY <1>1, <3>5
    <2> QED
      BY <1>3, <2>1 DEF RowsOnce
  <1>8. \A f : Stored(f)' \subseteq Stored(f)
    BY <1>6 DEF Stored
  <1> QED
    BY <1>5, <1>6, <1>7, <1>8

(* How many rows count for a contact is a number.                           *)
LEMMA CountsAreNumbers ==
  ASSUME rows \in Seq(Row), NEW c
  PROVE  /\ IsFiniteSet(Inbound(c)) /\ Cardinality(Inbound(c)) \in Nat
         /\ IsFiniteSet(Mentions(c)) /\ Cardinality(Mentions(c)) \in Nat
  <1>1. Inbound(c) \subseteq DOMAIN rows /\ Outbound(c) \subseteq DOMAIN rows
    BY DEF Inbound, Outbound, Counted
  <1>2. IsFiniteSet(Inbound(c)) /\ IsFiniteSet(Outbound(c))
    BY <1>1, RowsTyped, FS_Subset
  <1> DEFINE M(i) == {i} \X {k \in DOMAIN Msg(i).to : Msg(i).to[k] = c}
             g == [i \in Outbound(c) |-> M(i)]
             T == {M(i) : i \in Outbound(c)}
  <1>3. g \in Surjection(Outbound(c), T)
    BY DEF Surjection
  <1>4. IsFiniteSet(T)
    BY <1>2, <1>3, FS_Surjection
  <1>5. ASSUME NEW i \in Outbound(c)
        PROVE  IsFiniteSet(M(i))
    <2>1. Msg(i).to \in Seq(Address)
      BY <1>1, RowsTyped DEF MailType
    <2>2. IsFiniteSet(DOMAIN Msg(i).to)
      <3>1. Len(Msg(i).to) \in Nat /\ DOMAIN Msg(i).to = 1 .. Len(Msg(i).to)
        BY <2>1
      <3> QED
        BY <3>1, FS_Interval
    <2>3. IsFiniteSet({k \in DOMAIN Msg(i).to : Msg(i).to[k] = c})
      BY <2>2, FS_Subset
    <2> QED
      BY <2>3, FS_Singleton, FS_Product
  <1>6. \A S \in T : IsFiniteSet(S)
    BY <1>5
  <1>7. Mentions(c) = UNION T
    BY DEF Mentions
  <1> HIDE DEF T
  <1>8. IsFiniteSet(UNION T)
    BY <1>4, <1>6, FS_UNION
  <1> QED
    BY <1>2, <1>7, <1>8, FS_CardinalityType

(* What is written to the table is a table.                                 *)
TableType(t) ==
  DOMAIN t \subseteq Contact /\ \A c \in DOMAIN t : t[c] \in [in : Nat, out : Nat, tag : Tag]

LEMMA RebuiltTyped ==
  ASSUME SettingsKnown, rows \in Seq(Row), NEW b \in BOOLEAN
  PROVE  TableType(Rebuilt(b))
  <1>1. DOMAIN Rebuilt(b) \subseteq Contact
    BY KeptAreContacts
  <1>2. ASSUME NEW c \in DOMAIN Rebuilt(b)
        PROVE  Rebuilt(b)[c] \in [in : Nat, out : Nat, tag : Tag]
    <2>1. Rebuilt(b)[c] =
            [in |-> Cardinality(Inbound(c)), out |-> Cardinality(Mentions(c)), tag |-> "none"]
      BY DEF Rebuilt
    <2> QED
      BY <2>1, CountsAreNumbers DEF Tag
  <1> QED
    BY <1>1, <1>2 DEF TableType

LEMMA ClassifiedTyped ==
  ASSUME NEW t, TableType(t)
  PROVE  TableType(Classified(t))
  <1>1. DOMAIN Classified(t) = DOMAIN t
    BY DEF Classified
  <1>2. ASSUME NEW c \in DOMAIN t
        PROVE  Classified(t)[c] \in [in : Nat, out : Nat, tag : Tag]
    <2>1. t[c] \in [in : Nat, out : Nat, tag : Tag]
      BY DEF TableType
    <2>2. PICK v \in Tag : Classified(t)[c] = [t[c] EXCEPT !.tag = v]
      BY DEF Classified, Tag
    <2> QED
      BY <2>1, <2>2
  <1> QED
    BY <1>1, <1>2 DEF TableType

LEMMA KeptOfTable ==
  ASSUME NEW t, TableType(t)
  PROVE  Kept(t) \subseteq Contact
  BY DEF Kept, TableType

-----------------------------------------------------------------------------
(* One lemma for each action, on the way to StoreInv.                       *)

LEMMA InitStoreInv == Init => StoreInv
  <1> SUFFICES ASSUME Init PROVE StoreInv
    OBVIOUS
  <1>1. rows = <<>> /\ DOMAIN contacts = {} /\ DOMAIN todo = {}
    BY DEF Init, NoTodo
  <1>2. shown \in [Contact -> Nat]
    BY DEF Init
  <1>3. rows \in Seq(Row)
    BY <1>1
  <1>4. TypeOK
    BY <1>1, <1>2, <1>3 DEF Init, TypeOK
  <1> QED
    BY <1>1, <1>4 DEF Init, StoreInv, RowsOnce, TodoNew, FoldersApart, TargetsWaiting

(* The run ends and the rows stay.                                          *)
LEMMA EndRunStoreInv ==
  ASSUME StoreInv, NEW how \in {"done", "stopped"}, EndRun(how), UNCHANGED rows,
         TableType(contacts)', shown' \in [Contact -> Nat]
  PROVE  StoreInv'
  <1>1. /\ pc' = "idle" /\ outcome' = how /\ left' = {} /\ DOMAIN todo' = {}
        /\ targets' = {} /\ prior' = {} /\ aborted' = FALSE /\ opts' = opts
    BY DEF EndRun, NoTodo
  <1>2. scope' \subseteq Folder /\ unread' \subseteq Place
    BY DEF EndRun, StoreInv, TypeOK
  <1>3. TypeOK'
    BY <1>1, <1>2 DEF StoreInv, TypeOK, TableType
  <1>4. RowsOnce'
    BY DEF StoreInv, RowsOnce
  <1> QED
    BY <1>1, <1>3, <1>4 DEF StoreInv, TodoNew, FoldersApart, TargetsWaiting

(* The rows and what is to be stored stay as they are.                      *)
LEMMA SettledStoreInv ==
  ASSUME StoreInv, UNCHANGED <<rows, opts, scope, left, todo>>,
         pc' \in {"idle", "ingest", "snapshot", "prepass", "bodies", "final", "classify"},
         pc' = pc \/ pc # "ingest",
         targets' \subseteq Place, pc' # "bodies" => targets' = {},
         TableType(contacts)', prior' \subseteq Contact, aborted' \in BOOLEAN,
         outcome' = outcome, shown' \in [Contact -> Nat], unread' \subseteq Place
  PROVE  StoreInv'
  <1>1. TypeOK'
    BY DEF StoreInv, TypeOK, TableType
  <1>2. RowsOnce' /\ TodoNew' /\ TargetsWaiting'
    BY DEF StoreInv, RowsOnce, TodoNew, TargetsWaiting, Stored
  <1>3. FoldersApart'
    BY DEF StoreInv, FoldersApart
  <1> QED
    BY <1>1, <1>2, <1>3 DEF StoreInv

LEMMA StartStoreInv == ASSUME StoreInv, Start PROVE StoreInv'
  <1>1. /\ pc' \in {"ingest", "prepass", "final"} /\ opts' \in Options
        /\ scope' \subseteq Folder /\ left' = scope' /\ prior' = {} /\ aborted' = FALSE
        /\ unread' = {}
        /\ UNCHANGED <<rows, contacts, todo, targets, outcome>>
    BY DEF Start, AfterFolders
  <1>2. shown' \in [Contact -> Nat]
    BY DEF Start
  <1>3. DOMAIN todo = {} /\ targets = {}
    BY DEF Start, StoreInv, FoldersApart, TargetsWaiting
  <1>4. TypeOK'
    BY <1>1, <1>2, <1>3 DEF StoreInv, TypeOK
  <1>5. RowsOnce'
    BY <1>1 DEF StoreInv, RowsOnce
  <1> QED
    BY <1>1, <1>3, <1>4, <1>5 DEF StoreInv, TodoNew, FoldersApart, TargetsWaiting

LEMMA BeginFolderStoreInv ==
  ASSUME StoreInv, NEW f \in Folder,
         NEW live \in SUBSET {p[1] : p \in {q \in Place : q[2] = f}}, BeginFolder(f, live)
  PROVE  StoreInv'
  <1>1. /\ pc = "ingest" /\ f \in left
        /\ opts.deep \/ DOMAIN todo = {}
        /\ left' = left \ {f}
        /\ DropVanished(f, live) \/ rows' = rows
        /\ UNCHANGED <<contacts, pc, opts, scope, targets, prior, aborted, outcome, shown,
                       unread>>
    BY DEF BeginFolder
  <1>2. /\ DOMAIN todo' = DOMAIN todo \cup {f}
        /\ todo'[f] = live \ Stored(f)
        /\ \A g \in DOMAIN todo \ {f} : todo'[g] = todo[g]
    BY DEF BeginFolder
  <1>3. rows \in Seq(Row) /\ RowsOnce
    BY DEF StoreInv, TypeOK
  <1>4. /\ rows' \in Seq(Row)
        /\ RowsOnce'
        /\ \A g : Stored(g)' \subseteq Stored(g)
    <2>1. CASE rows' = rows
      BY <1>3, <2>1 DEF RowsOnce, Stored
    <2>2. CASE DropVanished(f, live)
      <3> DEFINE K == {i \in DOMAIN rows : rows[i].copy[2] = f => rows[i].copy[1] \in live}
      <3>1. OnlyLeft(K)
        BY <2>2 DEF DropVanished
      <3>2. K \in SUBSET DOMAIN rows
        OBVIOUS
      <3> HIDE DEF K
      <3> QED
        BY <1>3, <3>1, <3>2, LeftRows
    <2> QED
      BY <1>1, <2>1, <2>2
  <1>5. \A m \in live : <<m, f>> \in Place /\ m \in Message
    <2> TAKE m \in live
    <2>1. PICK p \in Place : p[2] = f /\ m = p[1]
      OBVIOUS
    <2>2. p \in Message \X Folder
      OBVIOUS
    <2> QED
      BY <2>1, <2>2
  <1>6. TypeOK'
    <2>1. /\ scope \subseteq Folder /\ left \subseteq scope /\ DOMAIN todo \subseteq scope \ left
          /\ \A g \in DOMAIN todo : todo[g] \subseteq Message
      BY DEF StoreInv, TypeOK
    <2>2. /\ left' \subseteq scope' /\ DOMAIN todo' \subseteq scope' \ left'
          /\ \A g \in DOMAIN todo' : todo'[g] \subseteq Message
      BY <1>1, <1>2, <1>5, <2>1
    <2> QED
      BY <1>1, <1>4, <2>2 DEF StoreInv, TypeOK
  <1>7. TodoNew'
    BY <1>2, <1>4, <1>5 DEF StoreInv, TodoNew
  <1>8. FoldersApart'
    BY <1>1, <1>2 DEF StoreInv, FoldersApart
  <1> QED
    BY <1>1, <1>4, <1>6, <1>7, <1>8 DEF StoreInv, TargetsWaiting

(* A folder is done with.                                                   *)
LEMMA LeaveFolderStoreInv ==
  ASSUME StoreInv, pc = "ingest", NEW f \in DOMAIN todo, LeaveFolder(f),
         UNCHANGED <<contacts, opts, scope, left, targets, prior, aborted, outcome, shown,
                     unread>>,
         rows' \in Seq(Row), RowsOnce',
         \A g \in DOMAIN todo \ {f} : Stored(g)' = Stored(g)
  PROVE  StoreInv'
  <1>1. /\ DOMAIN todo' = DOMAIN todo \ {f}
        /\ \A g \in DOMAIN todo' : todo'[g] = todo[g]
    BY DEF LeaveFolder
  <1>2. /\ pc' \in {"ingest", "snapshot", "prepass", "final"}
        /\ pc' # "ingest" => ~opts.deep \/ DOMAIN todo = {f}
    BY DEF LeaveFolder, AfterFolders
  <1>3. TypeOK'
    BY <1>1, <1>2 DEF StoreInv, TypeOK
  <1>4. TodoNew'
    <2> SUFFICES ASSUME NEW g \in DOMAIN todo', NEW m \in todo'[g]
                 PROVE  <<m, g>> \in Place /\ m \notin Stored(g)'
      BY DEF TodoNew
    <2>1. g \in DOMAIN todo \ {f} /\ m \in todo[g]
      BY <1>1
    <2>2. <<m, g>> \in Place /\ m \notin Stored(g)
      BY <2>1 DEF StoreInv, TodoNew
    <2> QED
      BY <2>1, <2>2
  <1>5. FoldersApart'
    BY <1>1, <1>2 DEF StoreInv, FoldersApart
  <1> QED
    BY <1>2, <1>3, <1>4, <1>5 DEF StoreInv, TargetsWaiting

LEMMA StoreMessageStoreInv ==
  ASSUME StoreInv, NEW f \in Folder, NEW m \in Message, StoreMessage(f, m)
  PROVE  StoreInv'
  <1>1. /\ pc = "ingest" /\ f \in DOMAIN todo /\ m \in todo[f]
        /\ rows' = Append(rows, [copy |-> <<m, f>>, body |-> FALSE])
        /\ UNCHANGED <<contacts, opts, scope, left, targets, prior, aborted, outcome, shown,
                       unread>>
    BY DEF StoreMessage
  <1>2. rows \in Seq(Row) /\ RowsOnce
    BY DEF StoreInv, TypeOK
  <1>3. <<m, f>> \in Place /\ m \notin Stored(f)
    BY <1>1 DEF StoreInv, TodoNew
  <1>4. /\ rows' \in Seq(Row)
        /\ DOMAIN rows' = 1 .. Len(rows) + 1
        /\ \A i \in DOMAIN rows : i \in DOMAIN rows' /\ i # Len(rows) + 1 /\ rows'[i] = rows[i]
        /\ \A i \in DOMAIN rows' : i \in DOMAIN rows \/ i = Len(rows) + 1
        /\ rows'[Len(rows) + 1].copy = <<m, f>>
        /\ Len(rows) + 1 \in DOMAIN rows'
    <2>1. [copy |-> <<m, f>>, body |-> FALSE] \in Row
      BY <1>3 DEF Row
    <2> QED
      BY <1>1, <1>2, <2>1
  <1>5. RowsOnce'
    <2>1. \A i \in DOMAIN rows : rows[i].copy # <<m, f>>
      BY <1>3 DEF Stored
    <2> QED
      BY <1>2, <1>4, <2>1 DEF RowsOnce
  <1>6. \A g : Stored(g)' = Stored(g) \cup (IF g = f THEN {m} ELSE {})
    BY <1>4 DEF Stored
  <1>7. CASE LeaveFolder(f)
    BY <1>1, <1>4, <1>5, <1>6, <1>7, LeaveFolderStoreInv
  <1>8. CASE todo' = [todo EXCEPT ![f] = @ \ {m}] /\ UNCHANGED pc
    <2>1. /\ DOMAIN todo' = DOMAIN todo
          /\ \A g \in DOMAIN todo : todo'[g] = IF g = f THEN todo[g] \ {m} ELSE todo[g]
      BY <1>8
    <2>2. TypeOK'
      BY <1>1, <1>4, <1>8, <2>1 DEF StoreInv, TypeOK
    <2>3. TodoNew'
      BY <1>6, <2>1 DEF StoreInv, TodoNew
    <2>4. FoldersApart'
      BY <1>1, <1>8, <2>1 DEF StoreInv, FoldersApart
    <2> QED
      BY <1>1, <1>5, <1>8, <2>2, <2>3, <2>4 DEF StoreInv, TargetsWaiting
  <1> QED
    BY <1>7, <1>8 DEF StoreMessage

LEMMA UpToDateStoreInv ==
  ASSUME StoreInv, NEW f \in Folder, UpToDate(f)
  PROVE  StoreInv'
  <1>1. rows' = rows /\ pc = "ingest" /\ f \in DOMAIN todo /\ LeaveFolder(f)
    BY DEF UpToDate
  <1>2. rows' \in Seq(Row) /\ RowsOnce' /\ \A g : Stored(g)' = Stored(g)
    BY <1>1 DEF StoreInv, TypeOK, RowsOnce, Stored
  <1> QED
    BY <1>1, <1>2, LeaveFolderStoreInv DEF UpToDate

(* The fetch list of pass 2 is made of stored copies.                       *)
LEMMA TargetsAreStored ==
  ASSUME rows \in Seq(Row), NEW kept, NEW T \in TargetChoices(kept)
  PROVE  T \subseteq Copies(kept) /\ T \subseteq Place
  BY RowsTyped DEF TargetChoices, Copies

LEMMA SettingsOfStore ==
  ASSUME StoreInv
  PROVE  /\ SettingsKnown /\ rows \in Seq(Row) /\ TableType(contacts)
         /\ shown \in [Contact -> Nat] /\ prior \subseteq Contact
  BY DEF StoreInv, TypeOK, SettingsKnown, TableType

LEMMA SnapshotStoreInv == ASSUME StoreInv, Snapshot PROVE StoreInv'
  <1>1. TableType(contacts)'
    <2>1. contacts' = Classified(Rebuilt(FALSE))
      BY DEF Snapshot
    <2>2. TableType(Classified(Rebuilt(FALSE)))
      BY SettingsOfStore, RebuiltTyped, ClassifiedTyped
    <2> QED
      BY <2>1, <2>2 DEF TableType
  <1>2. prior' \subseteq Contact
    <2>1. prior' = Kept(contacts)'
      BY DEF Snapshot, Kept
    <2> QED
      BY <1>1, <2>1 DEF Kept, TableType
  <1>3. shown' \in [Contact -> Nat]
    <2>1. shown' = [c \in Contact |-> shown[c] + IF c \in prior' \ prior THEN 1 ELSE 0]
      BY DEF Snapshot, Show
    <2>2. shown \in [Contact -> Nat]
      BY SettingsOfStore
    <2> QED
      BY <2>1, <2>2
  <1>4. /\ pc = "snapshot" /\ pc' \in {"ingest", "final"}
        /\ UNCHANGED <<rows, opts, scope, left, todo, targets, aborted, outcome, unread>>
    BY DEF Snapshot
  <1>5. targets = {} /\ aborted \in BOOLEAN /\ unread \subseteq Place
    BY <1>4 DEF StoreInv, TargetsWaiting, TypeOK
  <1> QED
    BY <1>1, <1>2, <1>3, <1>4, <1>5, SettledStoreInv

LEMMA PrepassStoreInv == ASSUME StoreInv, Prepass PROVE StoreInv'
  <1>1. pc = "prepass" /\ UNCHANGED <<rows, shown>>
    BY DEF Prepass
  <1>2. TableType(Rebuilt(FALSE)) /\ TableType(Classified(Rebuilt(FALSE)))
    BY SettingsOfStore, RebuiltTyped, ClassifiedTyped
  <1>3. TableType(contacts)'
    <2>1. contacts' = Rebuilt(FALSE) \/ contacts' = Classified(Rebuilt(FALSE))
      BY DEF Prepass
    <2> QED
      BY <1>2, <2>1 DEF TableType
  <1>4. CASE EndRun("stopped")
    BY <1>1, <1>3, <1>4, EndRunStoreInv, SettingsOfStore
  <1>5. ASSUME NEW T \in TargetChoices(Kept(contacts')),
               targets' = T \ Cached,
               pc' = IF T \subseteq Cached THEN "final" ELSE "bodies",
               UNCHANGED <<opts, scope, left, todo, prior, aborted, outcome, unread>>
        PROVE  StoreInv'
    <2>1. targets' \subseteq Place
      BY <1>5, TargetsAreStored, SettingsOfStore
    <2>2. pc' \in {"final", "bodies"} /\ (pc' # "bodies" => targets' = {})
      BY <1>5
    <2>3. aborted \in BOOLEAN /\ unread \subseteq Place
      BY DEF StoreInv, TypeOK
    <2> QED
      BY <1>1, <1>3, <1>5, <2>1, <2>2, <2>3, SettledStoreInv, SettingsOfStore
  <1> QED
    BY <1>4, <1>5 DEF Prepass

LEMMA StoreBodyStoreInv ==
  ASSUME StoreInv, NEW p \in Place, StoreBody(p)
  PROVE  StoreInv'
  <1>1. /\ pc = "bodies"
        /\ rows' = [i \in DOMAIN rows |->
                      IF rows[i].copy = p THEN [rows[i] EXCEPT !.body = TRUE] ELSE rows[i]]
        /\ targets' = targets \ {p}
        /\ pc' = IF targets = {p} THEN "final" ELSE "bodies"
        /\ UNCHANGED <<contacts, opts, scope, left, todo, prior, aborted, outcome, shown, unread>>
    BY DEF StoreBody, LeaveBody
  <1>2. rows \in Seq(Row) /\ RowsOnce
    BY DEF StoreInv, TypeOK
  <1>3. DOMAIN rows' = DOMAIN rows
        /\ \A i \in DOMAIN rows : rows'[i] \in Row /\ rows'[i].copy = rows[i].copy
    <2> SUFFICES ASSUME NEW i \in DOMAIN rows
                 PROVE  rows'[i] \in Row /\ rows'[i].copy = rows[i].copy
      BY <1>1
    <2>1. rows[i] \in Row
      BY <1>2, RowsTyped
    <2>2. [rows[i] EXCEPT !.body = TRUE] \in Row /\ [rows[i] EXCEPT !.body = TRUE].copy = rows[i].copy
      BY <2>1 DEF Row
    <2> QED
      BY <1>1, <2>1, <2>2
  <1>4. rows' \in Seq(Row)
    <2>1. DOMAIN rows = 1 .. Len(rows) /\ Len(rows) \in Nat
      BY <1>2
    <2>2. rows' \in [1 .. Len(rows) -> Row]
      BY <1>1, <1>3, <2>1
    <2> QED
      BY <2>1, <2>2
  <1>5. RowsOnce'
    BY <1>2, <1>3 DEF RowsOnce
  <1>6. DOMAIN todo = {}
    BY <1>1 DEF StoreInv, FoldersApart
  <1>7. pc' \in {"final", "bodies"} /\ (pc' # "bodies" => targets' = {})
    BY <1>1
  <1>8. TypeOK'
    BY <1>1, <1>4, <1>7 DEF StoreInv, TypeOK
  <1> QED
    BY <1>1, <1>5, <1>6, <1>7, <1>8 DEF StoreInv, TodoNew, FoldersApart, TargetsWaiting

LEMMA NoBodyStoreInv ==
  ASSUME StoreInv, NEW p \in Place, NoBody(p)
  PROVE  StoreInv'
  <1>1. /\ pc = "bodies"
        /\ targets' = targets \ {p}
        /\ unread' = unread \cup {p}
        /\ pc' = IF targets = {p} THEN "final" ELSE "bodies"
        /\ UNCHANGED <<rows, contacts, opts, scope, left, todo, prior, aborted, outcome, shown>>
    BY DEF NoBody, LeaveBody
  <1>2. targets \subseteq Place /\ unread \subseteq Place /\ aborted \in BOOLEAN
    BY DEF StoreInv, TypeOK
  <1>3. pc' \in {"final", "bodies"} /\ (pc' # "bodies" => targets' = {})
    BY <1>1
  <1>4. TableType(contacts)'
    BY <1>1, SettingsOfStore DEF TableType
  <1> QED
    BY <1>1, <1>2, <1>3, <1>4, SettledStoreInv, SettingsOfStore

LEMMA ClassifyPartlyStoreInv ==
  ASSUME StoreInv, NEW S, ClassifyPartly(S)
  PROVE  StoreInv'
  <1> DEFINE table == IF pc = "classify" THEN contacts ELSE Rebuilt(FALSE)
  <1>1. /\ contacts' = [c \in DOMAIN table |->
                          IF c \in S THEN Classified(table)[c] ELSE table[c]]
        /\ EndRun("stopped")
        /\ UNCHANGED <<rows, shown>>
    BY DEF ClassifyPartly
  <1>2. TableType(table)
    BY SettingsOfStore, RebuiltTyped
  <1> HIDE DEF table
  <1>3. TableType(Classified(table)) /\ DOMAIN Classified(table) = DOMAIN table
    BY <1>2, ClassifiedTyped DEF Classified
  <1>4. TableType(contacts)'
    BY <1>1, <1>2, <1>3 DEF TableType
  <1> QED
    BY <1>1, <1>4, EndRunStoreInv, SettingsOfStore

LEMMA RebuildStoreInv == ASSUME StoreInv, Rebuild PROVE StoreInv'
  <1>1. /\ pc = "final" /\ pc' = "classify"
        /\ contacts' = Rebuilt(ReadsBodies(opts))
        /\ UNCHANGED <<rows, opts, scope, left, todo, targets, prior, aborted, outcome, shown,
                       unread>>
    BY DEF Rebuild
  <1>2. ReadsBodies(opts) \in BOOLEAN
    BY SettingsOfStore, SettingsTyped DEF ReadsBodies
  <1>3. TableType(Rebuilt(ReadsBodies(opts)))
    BY <1>2, SettingsOfStore, RebuiltTyped
  <1>4. TableType(contacts)'
    BY <1>1, <1>3 DEF TableType
  <1>5. targets = {} /\ aborted \in BOOLEAN /\ unread \subseteq Place
    BY <1>1 DEF StoreInv, TargetsWaiting, TypeOK
  <1> QED
    BY <1>1, <1>4, <1>5, SettledStoreInv, SettingsOfStore

LEMMA ClassifyStoreInv == ASSUME StoreInv, Classify PROVE StoreInv'
  <1>1. contacts' = Classified(contacts) /\ EndRun("done") /\ UNCHANGED rows
    BY DEF Classify
  <1>2. TableType(contacts)'
    BY <1>1, SettingsOfStore, ClassifiedTyped DEF TableType
  <1>3. shown' \in [Contact -> Nat]
    BY SettingsOfStore DEF Classify, Show
  <1> QED
    BY <1>1, <1>2, <1>3, EndRunStoreInv

(* StoreInv is inductive: one step for each action.                         *)
LEMMA NextStoreInv == StoreInv /\ [Next]_vars => StoreInv'
  <1> SUFFICES ASSUME StoreInv, [Next]_vars
               PROVE  StoreInv'
    OBVIOUS
  <1>1. ASSUME NEW p \in Place, StoreBody(p) \/ NoBody(p)
        PROVE  StoreInv'
    BY <1>1, StoreBodyStoreInv, NoBodyStoreInv
  <1>2. ASSUME NEW f \in Folder,
               NEW live \in SUBSET {p[1] : p \in {q \in Place : q[2] = f}},
               BeginFolder(f, live)
        PROVE  StoreInv'
    BY <1>2, BeginFolderStoreInv
  <1>3. ASSUME NEW f \in Folder, UpToDate(f)
        PROVE  StoreInv'
    BY <1>3, UpToDateStoreInv
  <1>4. ASSUME NEW f \in Folder, NEW m \in Message, StoreMessage(f, m)
        PROVE  StoreInv'
    BY <1>4, StoreMessageStoreInv
  <1>5. ASSUME NEW S, ClassifyPartly(S)
        PROVE  StoreInv'
    BY <1>5, ClassifyPartlyStoreInv
  <1>6. CASE Start
    BY <1>6, StartStoreInv
  <1>7. CASE Cancel
    <2>1. /\ aborted' = TRUE
          /\ UNCHANGED <<rows, contacts, pc, opts, scope, left, todo, targets, prior, outcome,
                         shown, unread>>
      BY <1>7 DEF Cancel
    <2>2. /\ pc \in {"idle", "ingest", "snapshot", "prepass", "bodies", "final", "classify"}
          /\ targets \subseteq Place /\ (pc # "bodies" => targets = {})
          /\ unread \subseteq Place
      BY DEF StoreInv, TypeOK, TargetsWaiting
    <2>3. TableType(contacts)'
      BY <2>1, SettingsOfStore DEF TableType
    <2> QED
      BY <2>1, <2>2, <2>3, SettledStoreInv, SettingsOfStore
  <1>8. CASE Stop \/ Fail \/ ClassifyAborted
    <2>1. EndRun("stopped") /\ UNCHANGED <<rows, contacts, shown>>
      BY <1>8 DEF Stop, Fail, ClassifyAborted
    <2>2. TableType(contacts)'
      BY <2>1, SettingsOfStore DEF TableType
    <2> QED
      BY <2>1, <2>2, EndRunStoreInv, SettingsOfStore
  <1>9. CASE Crash
    <2>1. EndRun("stopped") /\ UNCHANGED <<rows, contacts>> /\ shown' \in [Contact -> Nat]
      BY <1>9 DEF Crash
    <2>2. TableType(contacts)'
      BY <2>1, SettingsOfStore DEF TableType
    <2> QED
      BY <2>1, <2>2, EndRunStoreInv
  <1>10. CASE Snapshot
    BY <1>10, SnapshotStoreInv
  <1>11. CASE Prepass
    BY <1>11, PrepassStoreInv
  <1>12. CASE Rebuild
    BY <1>12, RebuildStoreInv
  <1>13. CASE Classify
    BY <1>13, ClassifyStoreInv
  <1>14. CASE UNCHANGED vars
    BY <1>14 DEF vars, runVars, StoreInv, TypeOK, RowsOnce, TodoNew, Stored, FoldersApart,
                 TargetsWaiting
  <1> QED
    BY <1>1, <1>2, <1>3, <1>4, <1>5, <1>6, <1>7, <1>8, <1>9, <1>10, <1>11, <1>12, <1>13,
       <1>14 DEF Next

(* A scan keeps its tables and lists well formed: among others the copies   *)
(* it stores, the counts it writes and the folders it has still to do.      *)
THEOREM ContactScanTypeCorrect == Spec => []TypeOK
  <1>1. StoreInv => TypeOK
    BY DEF StoreInv
  <1> QED
    BY <1>1, InitStoreInv, NextStoreInv, PTL DEF Spec

-----------------------------------------------------------------------------
(* Pass 2 gets every body that decides.                                     *)

(* Each stored letter with a contact that the pre-pass keeps has its body,  *)
(* waits for it, or could not be read.  A body can only take a contact out  *)
(* of those the headers keep.                                               *)
BodiesAccounted ==
  pc \in {"bodies", "final", "classify"} /\ ReadsBodies(opts) =>
    \A c \in KeptByHeaders :
      SingleCopies(c) => StoredCopies(c) \subseteq Cached \cup targets \cup unread

(* What a contact's mail says depends on the rows, settings and folders.    *)
LEMMA SameMail ==
  ASSUME UNCHANGED <<rows, opts, scope>>, NEW c
  PROVE  /\ StoredCopies(c)' = StoredCopies(c)
         /\ SingleCopies(c)' <=> SingleCopies(c)
         /\ PassesWords(c, FALSE)' <=> PassesWords(c, FALSE)
         /\ Samples(c)' = Samples(c)
         /\ \A i : Msg(i)' = Msg(i)
         /\ Cached' = Cached
  <1>1. StoredCopies(c)' = StoredCopies(c)
    BY DEF StoredCopies, InScope
  <1>2. SingleCopies(c)' <=> SingleCopies(c)
    BY <1>1 DEF SingleCopies
  <1>3. PassesWords(c, FALSE)' <=> PassesWords(c, FALSE)
    BY DEF PassesWords, Inbound, Outbound, Counted, InScope, Msg, HasWord
  <1>4. Samples(c)' = Samples(c)
    BY DEF Samples, InScope, Newer, Msg
  <1>5. (\A i : Msg(i)' = Msg(i)) /\ Cached' = Cached
    BY DEF Msg, Cached
  <1> QED
    BY <1>1, <1>2, <1>3, <1>4, <1>5

(* Bodies that are stored leave the letters as they are, and only take      *)
(* contacts away.                                                           *)
LEMMA BodiesOnlyFilter ==
  ASSUME rows \in Seq(Row), DOMAIN rows' = DOMAIN rows,
         \A i \in DOMAIN rows :
           rows'[i].copy = rows[i].copy /\ (rows[i].body => rows'[i].body),
         UNCHANGED <<opts, scope>>
  PROVE  /\ KeptByHeaders' \subseteq KeptByHeaders
         /\ \A c : StoredCopies(c)' = StoredCopies(c)
  <1>1. /\ \A i \in DOMAIN rows : Msg(i)' = Msg(i)
        /\ \A i \in DOMAIN rows : InScope(i)' <=> InScope(i)
    BY DEF Msg, InScope
  <1>2. Counted' = Counted
    <2>1. \A i \in DOMAIN rows : \A j \in 1 .. i - 1 : j \in DOMAIN rows
      BY RowsTyped
    <2> QED
      BY <1>1, <2>1 DEF Counted
  <1>3. Counted \subseteq DOMAIN rows
    BY DEF Counted
  <1>4. \A c : Inbound(c)' = Inbound(c) /\ Outbound(c)' = Outbound(c)
    BY <1>1, <1>2, <1>3 DEF Inbound, Outbound
  <1>5. \A c : Outbound(c) \subseteq DOMAIN rows /\ Inbound(c) \subseteq DOMAIN rows
    BY <1>3 DEF Inbound, Outbound
  <1>6. \A c : Mentions(c)' = Mentions(c)
    BY <1>1, <1>4, <1>5 DEF Mentions
  <1>7. \A c : PassesWords(c, FALSE)' <=> PassesWords(c, FALSE)
    BY <1>1, <1>4, <1>5 DEF PassesWords, HasWord
  <1>8. Rebuilt(FALSE)' = Rebuilt(FALSE)
    BY <1>4, <1>6, <1>7 DEF Rebuilt
  <1>9. \A c : Samples(c)' = Samples(c) /\ Samples(c) \subseteq DOMAIN rows
    <2> TAKE c
    <2> DEFINE from == {i \in DOMAIN rows : InScope(i) /\ Msg(i).from = c}
               newer(i) == {j \in from : Newer(j, i)}
    <2>1. \A i, j \in DOMAIN rows : Newer(j, i)' <=> Newer(j, i)
      BY <1>1 DEF Newer
    <2>2. from' = from /\ from \subseteq DOMAIN rows
      BY <1>1
    <2>3. \A i \in from : newer(i)' = newer(i)
      BY <2>1, <2>2
    <2>4. Samples(c) = {i \in from : Cardinality(newer(i)) < SamplesCap}
      BY DEF Samples
    <2>5. Samples(c)' = {i \in from' : Cardinality(newer(i)') < SamplesCap}
      BY DEF Samples
    <2> HIDE DEF from, newer
    <2> QED
      BY <2>2, <2>3, <2>4, <2>5
  <1>10. \A i \in DOMAIN rows : Automated(i) => Automated(i)'
    BY <1>1 DEF Automated
  <1>11. \A c, counts : Keep(c, counts)' => Keep(c, counts)
    BY <1>9, <1>10 DEF Keep, Bidirectional
  <1>12. KeptByHeaders' \subseteq KeptByHeaders
    BY <1>8, <1>11 DEF KeptByHeaders, Kept, Classified
  <1>13. \A c : StoredCopies(c)' = StoredCopies(c)
    BY <1>1 DEF StoredCopies
  <1> QED
    BY <1>12, <1>13

(* The fetch list has each letter that has only one copy.                   *)
LEMMA TargetsHaveSingles ==
  ASSUME NEW kept, NEW T \in TargetChoices(kept), NEW c \in kept, SingleCopies(c)
  PROVE  StoredCopies(c) \subseteq T
  <1> SUFFICES ASSUME NEW p \in StoredCopies(c)
               PROVE  p \in T
    OBVIOUS
  <1>1. p \in Copies(kept)
    BY DEF StoredCopies, Copies
  <1>2. T \subseteq Copies(kept)
    BY DEF TargetChoices
  <1>3. CASE Mail[p[1]].known
    <2>1. Cardinality({q \in T : q[1] = p[1]}) = 1
      BY <1>1, <1>3 DEF TargetChoices
    <2>2. {q \in T : q[1] = p[1]} # {}
      <3> DEFINE same == {q \in T : q[1] = p[1]}
      <3>1. Cardinality(same) = 1
        BY <2>1
      <3> HIDE DEF same
      <3>2. same # {}
        BY <3>1, FS_EmptySet
      <3> QED
        BY <3>2 DEF same
    <2>3. PICK q \in T : q[1] = p[1]
      BY <2>2
    <2>4. Involves(q, c)
      BY <2>3 DEF Involves, StoredCopies
    <2>5. q \in StoredCopies(c)
      BY <1>2, <2>3, <2>4 DEF Copies, StoredCopies
    <2> QED
      BY <2>3, <2>5 DEF SingleCopies
  <1>4. CASE ~Mail[p[1]].known
    BY <1>1, <1>4 DEF TargetChoices
  <1> QED
    BY <1>3, <1>4

LEMMA PrepassAccounts ==
  ASSUME Prepass, pc' \in {"bodies", "final"}
  PROVE  BodiesAccounted'
  <1>1. /\ UNCHANGED <<rows, opts, scope>>
        /\ \E T \in TargetChoices(Kept(contacts')) : targets' = T \ Cached
        /\ contacts' = Classified(Rebuilt(FALSE))
    BY DEF Prepass, EndRun
  <1>2. PICK T \in TargetChoices(KeptByHeaders) : targets' = T \ Cached
    BY <1>1 DEF KeptByHeaders
  <1>3. ASSUME NEW c \in KeptByHeaders, SingleCopies(c)
        PROVE  StoredCopies(c) \subseteq Cached \cup targets' \cup unread'
    BY <1>2, <1>3, TargetsHaveSingles
  <1>4. KeptByHeaders' = KeptByHeaders
    BY <1>1, SameKept
  <1> QED
    BY <1>1, <1>3, <1>4, SameMail DEF BodiesAccounted

LEMMA StoreBodyAccounts ==
  ASSUME BodiesAccounted, rows \in Seq(Row), NEW p, StoreBody(p)
  PROVE  BodiesAccounted'
  <1>1. /\ pc = "bodies" /\ UNCHANGED <<opts, scope, unread>>
        /\ rows' = [i \in DOMAIN rows |->
                      IF rows[i].copy = p THEN [rows[i] EXCEPT !.body = TRUE] ELSE rows[i]]
        /\ targets' = targets \ {p}
    BY DEF StoreBody, LeaveBody
  <1>2. /\ DOMAIN rows' = DOMAIN rows
        /\ \A i \in DOMAIN rows : rows'[i].copy = rows[i].copy
                                    /\ (rows[i].body => rows'[i].body)
                                    /\ (rows[i].copy = p => rows'[i].body)
    <2> SUFFICES ASSUME NEW i \in DOMAIN rows
                 PROVE  rows'[i].copy = rows[i].copy /\ (rows[i].body => rows'[i].body)
                          /\ (rows[i].copy = p => rows'[i].body)
      BY <1>1
    <2>1. rows[i] \in Row
      BY RowsTyped
    <2>2. [rows[i] EXCEPT !.body = TRUE].copy = rows[i].copy
            /\ [rows[i] EXCEPT !.body = TRUE].body = TRUE
      BY <2>1 DEF Row
    <2> QED
      BY <1>1, <2>2
  <1>3. KeptByHeaders' \subseteq KeptByHeaders /\ \A c : StoredCopies(c)' = StoredCopies(c)
    BY <1>1, <1>2, BodiesOnlyFilter
  <1>4. \A c : SingleCopies(c)' <=> SingleCopies(c)
    BY <1>3 DEF SingleCopies
  <1>5. Cached \subseteq Cached'
    BY <1>2 DEF Cached
  <1>6. \A c : p \in StoredCopies(c) => p \in Cached'
    BY <1>2 DEF StoredCopies, Cached
  <1>7. ReadsBodies(opts)' <=> ReadsBodies(opts)
    BY <1>1 DEF ReadsBodies
  <1> QED
    BY <1>1, <1>3, <1>4, <1>5, <1>6, <1>7 DEF BodiesAccounted

(* The mail stays, and nothing drops out of the list unaccounted for.       *)
LEMMA QuietAccounts ==
  ASSUME UNCHANGED <<rows, opts, scope>>,
         pc' \in {"bodies", "final", "classify"} /\ ReadsBodies(opts) =>
           pc \in {"bodies", "final", "classify"} /\ BodiesAccounted,
         targets \subseteq targets' \cup unread', unread \subseteq unread'
  PROVE  BodiesAccounted'
  <1>1. KeptByHeaders' = KeptByHeaders
    BY SameKept
  <1>2. ReadsBodies(opts)' <=> ReadsBodies(opts)
    BY DEF ReadsBodies
  <1> QED
    BY <1>1, <1>2, SameMail DEF BodiesAccounted

LEMMA NextBodiesAccounted ==
  StoreInv /\ RunInv /\ BodiesAccounted /\ [Next]_vars => BodiesAccounted'
  <1> SUFFICES ASSUME StoreInv, RunInv, BodiesAccounted, [Next]_vars,
                      pc' \in {"bodies", "final", "classify"}, ReadsBodies(opts)'
               PROVE  BodiesAccounted'
    BY DEF BodiesAccounted
  <1>1. ASSUME NEW p \in Place, StoreBody(p)
        PROVE  BodiesAccounted'
    BY <1>1, StoreBodyAccounts, SettingsOfStore
  <1>2. ASSUME NEW p \in Place, NoBody(p)
        PROVE  BodiesAccounted'
    BY <1>2, QuietAccounts DEF NoBody, LeaveBody
  <1>3. ASSUME NEW f \in Folder, NEW live, BeginFolder(f, live)
        PROVE  FALSE
    BY <1>3 DEF BeginFolder
  <1>4. ASSUME NEW f \in Folder, NEW m, UpToDate(f) \/ StoreMessage(f, m)
        PROVE  FALSE
    BY <1>4 DEF UpToDate, StoreMessage, LeaveFolder, AfterFolders, ReadsBodies
  <1>5. ASSUME NEW S, ClassifyPartly(S)
        PROVE  FALSE
    BY <1>5 DEF ClassifyPartly, EndRun
  <1>6. CASE Start
    BY <1>6 DEF Start, AfterFolders
  <1>7. CASE Cancel
    BY <1>7, QuietAccounts DEF Cancel
  <1>8. CASE Stop \/ Fail \/ Crash \/ Classify \/ ClassifyAborted
    BY <1>8 DEF Stop, Fail, Crash, Classify, ClassifyAborted, EndRun
  <1>9. CASE Snapshot
    BY <1>9 DEF Snapshot, RunInv, PassesApart, ReadsBodies
  <1>10. CASE Prepass
    BY <1>10, PrepassAccounts DEF Prepass, EndRun
  <1>11. CASE Rebuild
    BY <1>11, QuietAccounts DEF Rebuild
  <1>12. CASE UNCHANGED vars
    BY <1>12, QuietAccounts DEF vars, runVars
  <1> QED
    BY <1>1, <1>2, <1>3, <1>4, <1>5, <1>6, <1>7, <1>8, <1>9, <1>10, <1>11, <1>12 DEF Next

(* With one copy of each letter, the row of a letter is counted.            *)
LEMMA SinglesAreCounted ==
  ASSUME rows \in Seq(Row), RowsOnce, NEW c, SingleCopies(c), NEW i \in DOMAIN rows,
         InScope(i), Involves(rows[i].copy, c)
  PROVE  /\ Direction(Msg(i)) = "in" => i \in Inbound(c)
         /\ Direction(Msg(i)) = "out" => i \in Outbound(c)
         /\ Direction(Msg(i)) # "self"
  <1>1. rows[i].copy \in StoredCopies(c)
    BY RowsTyped DEF StoredCopies
  <1>2. ASSUME NEW j \in 1 .. i - 1, InScope(j), rows[j].copy[1] = rows[i].copy[1]
        PROVE  FALSE
    <2>1. j \in DOMAIN rows /\ j # i
      BY RowsTyped
    <2>2. Involves(rows[j].copy, c)
      BY <1>2 DEF Involves
    <2>3. rows[j].copy \in StoredCopies(c)
      BY <1>2, <2>1, <2>2, RowsTyped DEF StoredCopies
    <2>4. rows[j].copy = rows[i].copy
      BY <1>1, <1>2, <2>3 DEF SingleCopies
    <2> QED
      BY <2>1, <2>4 DEF RowsOnce
  <1>3. Direction(Msg(i)) # "self"
    BY DEF Involves, Msg
  <1>4. i \in Counted
    BY <1>2, <1>3 DEF Counted
  <1> QED
    BY <1>3, <1>4 DEF Inbound, Outbound, Involves, Msg

(* What the final classification of a deep scan leaves behind.              *)
LEMMA ClassifyByBodies ==
  ASSUME StoreInv, RunInv, BodiesAccounted, Classify, ReadsBodies(opts),
         NEW c \in Kept(contacts'), PassesWords(c, FALSE), SingleCopies(c),
         unread \cap StoredCopies(c) = {}
  PROVE  /\ \A p \in StoredCopies(c) :
              <<"exclude", Direction(Mail[p[1]])>> \in opts.words
                => Mail[p[1]].word = "nowhere"
         /\ Samples(c) # {} => \E i \in Samples(c) : ~Msg(i).robot /\ ~Msg(i).unsubscribe
  <1>1. pc = "classify" /\ contacts' = Classified(contacts) /\ targets = {}
    BY DEF Classify, StoreInv, TargetsWaiting
  <1>2. contacts = Rebuilt(TRUE)
    <2>1. ReadsBodies(opts) = TRUE
      BY SettingsOfStore, SettingsTyped DEF ReadsBodies
    <2> QED
      BY <1>1, <2>1 DEF RunInv, TableIsFresh
  <1>3. c \in DOMAIN Rebuilt(TRUE) /\ Classified(Rebuilt(TRUE))[c].tag = "kept"
    BY <1>1, <1>2 DEF Kept, Classified
  <1>4. /\ c \in opts.domains /\ Inbound(c) \cup Outbound(c) # {} /\ PassesWords(c, TRUE)
    BY <1>3 DEF Rebuilt
  <1>5. c \in DOMAIN Rebuilt(FALSE) /\ Rebuilt(FALSE)[c] = Rebuilt(TRUE)[c]
    BY <1>3, <1>4 DEF Rebuilt
  <1>6. Keep(c, Rebuilt(TRUE)[c])
    <2>1. Rebuilt(TRUE)[c] \in [in : Nat, out : Nat, tag : Tag]
      BY <1>3, RebuiltTyped, SettingsOfStore DEF TableType
    <2>2. Classified(Rebuilt(TRUE))[c] =
            [Rebuilt(TRUE)[c] EXCEPT
               !.tag = IF Keep(c, Rebuilt(TRUE)[c]) THEN "kept" ELSE "filtered"]
      BY <1>3 DEF Classified
    <2>3. Classified(Rebuilt(TRUE))[c].tag =
            IF Keep(c, Rebuilt(TRUE)[c]) THEN "kept" ELSE "filtered"
      BY <2>1, <2>2
    <2> QED
      BY <1>3, <2>3
  <1>7. c \in KeptByHeaders
    <2>1. Rebuilt(FALSE)[c] \in [in : Nat, out : Nat, tag : Tag]
      BY <1>5, RebuiltTyped, SettingsOfStore DEF TableType
    <2>2. Classified(Rebuilt(FALSE))[c].tag = "kept" /\ c \in DOMAIN Classified(Rebuilt(FALSE))
      BY <1>5, <1>6, <2>1 DEF Classified
    <2> QED
      BY <2>2 DEF KeptByHeaders, Kept
  <1>8. StoredCopies(c) \subseteq Cached
    BY <1>1, <1>7 DEF BodiesAccounted
  <1>9. rows \in Seq(Row) /\ RowsOnce
    BY DEF StoreInv, TypeOK
  <1>10. ASSUME NEW i \in DOMAIN rows, InScope(i), Involves(rows[i].copy, c)
         PROVE  rows[i].body
    <2>1. rows[i].copy \in Cached
      BY <1>8, <1>9, <1>10, RowsTyped DEF StoredCopies
    <2> QED
      BY <1>9, <2>1 DEF Cached, RowsOnce
  <1>11. ASSUME NEW p \in StoredCopies(c),
                <<"exclude", Direction(Mail[p[1]])>> \in opts.words
         PROVE  Mail[p[1]].word = "nowhere"
    <2>1. PICK i \in DOMAIN rows : InScope(i) /\ rows[i].copy = p /\ Involves(p, c)
      BY DEF StoredCopies
    <2>2. Msg(i) = Mail[p[1]] /\ Msg(i).word \in {"nowhere", "subject", "body"}
      <3>1. Msg(i) \in MailType
        BY <1>9, RowsTyped
      <3> QED
        BY <2>1, <3>1 DEF Msg, MailType
    <2>3. rows[i].body
      BY <1>10, <2>1
    <2>4. ~HasWord(i, TRUE)
      BY <1>4, <1>9, <1>11, <2>1, <2>2, SinglesAreCounted DEF PassesWords, Direction
    <2> QED
      BY <2>2, <2>3, <2>4 DEF HasWord
  <1>12. ASSUME NEW i \in Samples(c)
         PROVE  rows[i].body
    <2>1. i \in DOMAIN rows /\ InScope(i) /\ Msg(i).from = c
      BY DEF Samples
    <2>2. c \in Contact
      BY <1>3, KeptAreContacts, SettingsOfStore
    <2>3. Involves(rows[i].copy, c)
      BY <2>1, <2>2 DEF Involves, Direction, Msg
    <2> QED
      BY <1>10, <2>1, <2>3
  <1>13. ASSUME Samples(c) # {}
         PROVE  \E i \in Samples(c) : ~Msg(i).robot /\ ~Msg(i).unsubscribe
    <2>1. PICK i \in Samples(c) : ~Automated(i)
      BY <1>6, <1>13 DEF Keep
    <2> QED
      BY <1>12, <2>1 DEF Automated
  <1> QED
    BY <1>11, <1>13

(* A deep scan that could read the bodies lets them decide: it keeps no     *)
(* contact with an excluded word in a letter, nor one whose newest letters  *)
(* are automated (the pre-pass, runBodyScan and the final pass of runScan). *)
THEOREM BodiesHaveTheirSay == Spec => []BodiesDecide
  <1>1. Init => StoreInv /\ RunInv /\ BodiesAccounted /\ BodiesDecide
    BY InitStoreInv, InitRunInv DEF Init, BodiesAccounted, BodiesDecide, Done
  <1>2. StoreInv /\ RunInv /\ BodiesAccounted /\ BodiesDecide /\ [Next]_vars
          => StoreInv' /\ RunInv' /\ BodiesAccounted' /\ BodiesDecide'
    <2> SUFFICES ASSUME StoreInv, RunInv, BodiesAccounted, BodiesDecide, [Next]_vars,
                        Done', ReadsBodies(opts)'
                 PROVE  BodiesDecide'
      BY NextStoreInv, NextRunInv, NextBodiesAccounted DEF BodiesDecide
    <2>1. Classify \/ UNCHANGED <<rows, contacts, pc, opts, scope, outcome, shown, unread>>
      BY DoneByClassify DEF Done
    <2>2. UNCHANGED <<rows, opts, scope, unread>>
      BY <2>1 DEF Classify, EndRun
    <2>3. ReadsBodies(opts)
      BY <2>2 DEF ReadsBodies
    <2> SUFFICES ASSUME NEW c \in Kept(contacts)',
                        PassesWords(c, FALSE)', SingleCopies(c)',
                        unread' \cap StoredCopies(c)' = {}
                 PROVE  /\ \A p \in StoredCopies(c)' :
                             <<"exclude", Direction(Mail[p[1]])>> \in opts'.words
                               => Mail[p[1]].word = "nowhere"
                        /\ Samples(c)' # {} =>
                             \E i \in Samples(c)' : ~Msg(i)'.robot /\ ~Msg(i)'.unsubscribe
      BY DEF BodiesDecide
    <2>4. /\ StoredCopies(c)' = StoredCopies(c) /\ Samples(c)' = Samples(c)
          /\ \A i : Msg(i)' = Msg(i)
          /\ PassesWords(c, FALSE) /\ SingleCopies(c)
      BY <2>2, SameMail
    <2>5. unread \cap StoredCopies(c) = {}
      BY <2>2, <2>4
    <2>6. /\ \A p \in StoredCopies(c) :
               <<"exclude", Direction(Mail[p[1]])>> \in opts.words
                 => Mail[p[1]].word = "nowhere"
          /\ Samples(c) # {} => \E i \in Samples(c) : ~Msg(i).robot /\ ~Msg(i).unsubscribe
      <3>1. CASE Classify
        <4>1. c \in Kept(contacts')
          BY DEF Kept
        <4> QED
          BY <2>3, <2>4, <2>5, <3>1, <4>1, ClassifyByBodies
      <3>2. CASE UNCHANGED <<rows, contacts, pc, opts, scope, outcome, shown, unread>>
        <4>1. c \in Kept(contacts) /\ Done
          BY <3>2 DEF Kept, Done
        <4> QED
          BY <2>3, <2>4, <2>5, <4>1 DEF BodiesDecide
      <3> QED
        BY <2>1, <3>1, <3>2
    <2> QED
      BY <2>2, <2>4, <2>6
  <1> QED
    BY <1>1, <1>2, PTL DEF Spec

-----------------------------------------------------------------------------
(* The table counts each letter once.                                       *)

(* A set of numbers has a first one.                                        *)
LEMMA FirstOfNumbers ==
  ASSUME NEW S \in SUBSET Nat, S # {}
  PROVE  \E i \in S : \A j \in S : i <= j
  <1> DEFINE R == OpToRel(<, Nat)
  <1>1. IsWellFoundedOn(R, Nat)
    BY NatLessThanWellFounded
  <1>2. \A x, y \in Nat : <<y, x>> \in R <=> y < x
    BY DEF OpToRel
  <1> HIDE DEF R
  <1>3. PICK i \in S : \A j \in S : <<j, i>> \notin R
    BY <1>1, WFMin
  <1>4. ASSUME NEW j \in S
        PROVE  i <= j
    <2>1. i \in Nat /\ j \in Nat /\ ~(j < i)
      BY <1>2, <1>3
    <2> QED
      BY <2>1
  <1> QED
    BY <1>4

(* The letter a row is a copy of.                                           *)
LetterOf(i) == IF Msg(i).known THEN <<rows[i].copy[1]>> ELSE rows[i].copy

SideOf(c, d) == {i \in Counted : Direction(Msg(i)) = d /\ Involves(rows[i].copy, c)}

LettersOf(c, d) == Letters({p \in StoredCopies(c) : Direction(Mail[p[1]]) = d})

(* Of each letter there is one row that counts.                             *)
LEMMA OneRowPerLetter ==
  ASSUME rows \in Seq(Row), RowsOnce, NEW c, NEW d \in {"in", "out"}
  PROVE  /\ \A i \in SideOf(c, d) :
              /\ i \in DOMAIN rows
              /\ LetterOf(i) \in LettersOf(c, d)
              /\ LetterOf(i)[1] = rows[i].copy[1]
         /\ \A i, j \in SideOf(c, d) : LetterOf(i) = LetterOf(j) => i = j
         /\ \A l \in LettersOf(c, d) : \E i \in SideOf(c, d) : LetterOf(i) = l
  <1>1. ASSUME NEW i \in SideOf(c, d)
        PROVE  /\ i \in DOMAIN rows
               /\ LetterOf(i) \in LettersOf(c, d)
               /\ LetterOf(i)[1] = rows[i].copy[1]
    <2>1. /\ i \in DOMAIN rows /\ InScope(i)
          /\ Direction(Msg(i)) = d /\ Involves(rows[i].copy, c)
      BY DEF SideOf, Counted
    <2>2. rows[i].copy \in StoredCopies(c) /\ Msg(i) = Mail[rows[i].copy[1]]
      BY <2>1, RowsTyped DEF StoredCopies, Msg
    <2>3. LetterOf(i) \in LettersOf(c, d)
      BY <2>1, <2>2 DEF LetterOf, LettersOf, Letters
    <2>4. LetterOf(i)[1] = rows[i].copy[1]
      BY DEF LetterOf
    <2> QED
      BY <2>1, <2>3, <2>4
  <1>2. ASSUME NEW i \in SideOf(c, d), NEW j \in SideOf(c, d), LetterOf(i) = LetterOf(j)
        PROVE  i = j
    <2>1. i \in DOMAIN rows /\ j \in DOMAIN rows /\ rows[i].copy[1] = rows[j].copy[1]
      BY <1>1, <1>2
    <2>2. Msg(i) = Msg(j)
      BY <2>1 DEF Msg
    <2>3. CASE Msg(i).known
      <3>1. /\ i \in Counted /\ j \in Counted
            /\ InScope(i) /\ InScope(j)
        BY DEF SideOf, Counted
      <3>2. i \notin 1 .. j - 1 /\ j \notin 1 .. i - 1
        BY <2>1, <2>2, <2>3, <3>1 DEF Counted
      <3> QED
        BY <2>1, <3>2, RowsTyped
    <2>4. CASE ~Msg(i).known
      <3>1. rows[i].copy = rows[j].copy
        BY <1>2, <2>2, <2>4 DEF LetterOf
      <3> QED
        BY <2>1, <3>1 DEF RowsOnce
    <2> QED
      BY <2>3, <2>4
  <1>3. ASSUME NEW l \in LettersOf(c, d)
        PROVE  \E i \in SideOf(c, d) : LetterOf(i) = l
    <2>1. PICK p \in StoredCopies(c) :
            /\ Direction(Mail[p[1]]) = d
            /\ l = IF Mail[p[1]].known THEN <<p[1]>> ELSE p
      BY DEF LettersOf, Letters
    <2>2. PICK k \in DOMAIN rows : InScope(k) /\ rows[k].copy = p /\ Involves(p, c)
      BY DEF StoredCopies
    <2> DEFINE S == {i \in DOMAIN rows : InScope(i) /\ rows[i].copy[1] = p[1]}
    <2>3. PICK i \in S : \A j \in S : i <= j
      <3>1. S \subseteq Nat /\ S # {}
        BY <2>2, RowsTyped
      <3> HIDE DEF S
      <3> QED
        BY <3>1, FirstOfNumbers
    <2>4. CASE Mail[p[1]].known
      <3>1. /\ i \in DOMAIN rows /\ InScope(i) /\ rows[i].copy[1] = p[1]
            /\ Msg(i) = Mail[p[1]] /\ Involves(rows[i].copy, c)
        BY <2>2, <2>3 DEF Msg, Involves
      <3>2. \A j \in 1 .. i - 1 : InScope(j) => rows[j].copy[1] # rows[i].copy[1]
        <4> SUFFICES ASSUME NEW j \in 1 .. i - 1, InScope(j), rows[j].copy[1] = rows[i].copy[1]
                     PROVE  FALSE
          OBVIOUS
        <4>1. j \in DOMAIN rows /\ i \in Nat /\ j < i
          BY <3>1, RowsTyped
        <4>2. j \in S
          BY <3>1, <4>1
        <4> QED
          BY <2>3, <4>1, <4>2
      <3>3. i \in SideOf(c, d)
        BY <2>1, <3>1, <3>2 DEF SideOf, Counted
      <3>4. LetterOf(i) = l
        BY <2>1, <2>4, <3>1 DEF LetterOf
      <3> QED
        BY <3>3, <3>4
    <2>5. CASE ~Mail[p[1]].known
      <3>1. Msg(k) = Mail[p[1]]
        BY <2>2 DEF Msg
      <3>2. k \in SideOf(c, d)
        BY <2>1, <2>2, <2>5, <3>1 DEF SideOf, Counted
      <3>3. LetterOf(k) = l
        BY <2>1, <2>2, <2>5, <3>1 DEF LetterOf
      <3> QED
        BY <3>2, <3>3
    <2> QED
      BY <2>4, <2>5
  <1> QED
    BY <1>1, <1>2, <1>3

LEMMA SidesAreCounted ==
  \A c : Inbound(c) = SideOf(c, "in") /\ Outbound(c) = SideOf(c, "out")
  BY DEF Inbound, Outbound, SideOf, Involves, Msg

LEMMA InboundCountsLetters ==
  ASSUME rows \in Seq(Row), RowsOnce, NEW c
  PROVE  Cardinality(Inbound(c)) = Cardinality(LettersOf(c, "in"))
  <1> DEFINE g == [i \in Inbound(c) |-> LetterOf(i)]
  <1>1. /\ \A i \in Inbound(c) : LetterOf(i) \in LettersOf(c, "in")
        /\ \A i, j \in Inbound(c) : LetterOf(i) = LetterOf(j) => i = j
        /\ \A l \in LettersOf(c, "in") : \E i \in Inbound(c) : LetterOf(i) = l
    BY OneRowPerLetter, SidesAreCounted
  <1>2. g \in Bijection(Inbound(c), LettersOf(c, "in"))
    <2>1. g \in [Inbound(c) -> LettersOf(c, "in")]
      BY <1>1
    <2>2. \A i, j \in Inbound(c) : g[i] = g[j] => i = j
      BY <1>1
    <2>3. \A l \in LettersOf(c, "in") : \E i \in Inbound(c) : g[i] = l
      BY <1>1
    <2> HIDE DEF g
    <2> QED
      BY <2>1, <2>2, <2>3, Fun_IsBij
  <1>3. ExistsBijection(Inbound(c), LettersOf(c, "in"))
    BY <1>2 DEF ExistsBijection
  <1> QED
    BY <1>3, CountsAreNumbers, FS_Bijection

LEMMA MentionsCountLetters ==
  ASSUME rows \in Seq(Row), RowsOnce, NEW c
  PROVE  Cardinality(Mentions(c)) =
           Cardinality(UNION {{l} \X {k \in DOMAIN Mail[l[1]].to : Mail[l[1]].to[k] = c}
                                : l \in LettersOf(c, "out")})
  <1> DEFINE ks(m) == {k \in DOMAIN Mail[m].to : Mail[m].to[k] = c}
             U == UNION {{l} \X ks(l[1]) : l \in LettersOf(c, "out")}
             g == [x \in Mentions(c) |-> <<LetterOf(x[1]), x[2]>>]
  <1>1. /\ \A i \in Outbound(c) : /\ LetterOf(i) \in LettersOf(c, "out")
                                  /\ LetterOf(i)[1] = rows[i].copy[1]
        /\ \A i, j \in Outbound(c) : LetterOf(i) = LetterOf(j) => i = j
        /\ \A l \in LettersOf(c, "out") : \E i \in Outbound(c) : LetterOf(i) = l
    BY OneRowPerLetter, SidesAreCounted
  <1>2. \A x : x \in Mentions(c) <=>
          \E i \in Outbound(c) : \E k \in ks(rows[i].copy[1]) : x = <<i, k>>
    BY DEF Mentions, Msg
  <1>3. \A y : y \in U <=> \E l \in LettersOf(c, "out") : \E k \in ks(l[1]) : y = <<l, k>>
    OBVIOUS
  <1> HIDE DEF ks, U
  <1>4. g \in [Mentions(c) -> U]
    <2> SUFFICES ASSUME NEW x \in Mentions(c)
                 PROVE  <<LetterOf(x[1]), x[2]>> \in U
      OBVIOUS
    <2>1. PICK i \in Outbound(c) : \E k \in ks(rows[i].copy[1]) : x = <<i, k>>
      BY <1>2
    <2>2. x[1] = i /\ x[2] \in ks(rows[i].copy[1])
      BY <2>1
    <2>3. LetterOf(i) \in LettersOf(c, "out") /\ x[2] \in ks(LetterOf(i)[1])
      BY <1>1, <2>2
    <2> QED
      BY <1>3, <2>2, <2>3
  <1>5. \A x, y \in Mentions(c) : g[x] = g[y] => x = y
    <2> SUFFICES ASSUME NEW x \in Mentions(c), NEW y \in Mentions(c),
                        <<LetterOf(x[1]), x[2]>> = <<LetterOf(y[1]), y[2]>>
                 PROVE  x = y
      OBVIOUS
    <2>1. PICK i \in Outbound(c) : x = <<i, x[2]>>
      BY <1>2
    <2>2. PICK j \in Outbound(c) : y = <<j, y[2]>>
      BY <1>2
    <2>3. LetterOf(i) = LetterOf(j) /\ x[2] = y[2]
      BY <2>1, <2>2
    <2> QED
      BY <1>1, <2>1, <2>2, <2>3
  <1>6. \A y \in U : \E x \in Mentions(c) : g[x] = y
    <2> SUFFICES ASSUME NEW y \in U
                 PROVE  \E x \in Mentions(c) : <<LetterOf(x[1]), x[2]>> = y
      OBVIOUS
    <2>1. PICK l \in LettersOf(c, "out") : \E k \in ks(l[1]) : y = <<l, k>>
      BY <1>3
    <2> PICK k \in ks(l[1]) : y = <<l, k>>
      BY <2>1
    <2>2. PICK i \in Outbound(c) : LetterOf(i) = l
      BY <1>1
    <2>3. k \in ks(rows[i].copy[1])
      BY <1>1, <2>1, <2>2
    <2>4. <<i, k>> \in Mentions(c)
      BY <1>2, <2>3
    <2>5. <<LetterOf(<<i, k>>[1]), <<i, k>>[2]>> = y
      BY <2>1, <2>2
    <2> QED
      BY <2>4, <2>5
  <1> HIDE DEF g
  <1>7. ExistsBijection(Mentions(c), U)
    BY <1>4, <1>5, <1>6, Fun_IsBij DEF ExistsBijection
  <1>8. Cardinality(Mentions(c)) = Cardinality(U)
    BY <1>7, CountsAreNumbers, FS_Bijection
  <1> QED
    BY <1>8 DEF U, ks

(* The table that is classified counts every letter that is stored in the   *)
(* folders of the scan, and none twice (the dedup by Message-ID and the     *)
(* strict scope of rebuildAddressesAggregate).                              *)
THEOREM TableCountsLetters == Spec => []CountsLetters
  <1>1. StoreInv /\ RunInv => CountsLetters
    <2> SUFFICES ASSUME StoreInv, RunInv, pc = "classify", NEW c \in DOMAIN contacts
                 PROVE  /\ contacts[c].in = Cardinality(LettersOf(c, "in"))
                        /\ contacts[c].out =
                             Cardinality(UNION {{l} \X {k \in DOMAIN Mail[l[1]].to :
                                                           Mail[l[1]].to[k] = c}
                                                  : l \in LettersOf(c, "out")})
      BY DEF CountsLetters, LettersOf
    <2>1. contacts = Rebuilt(ReadsBodies(opts))
      BY DEF RunInv, TableIsFresh
    <2>2. contacts[c] =
            [in |-> Cardinality(Inbound(c)), out |-> Cardinality(Mentions(c)), tag |-> "none"]
      BY <2>1 DEF Rebuilt
    <2>3. contacts[c].in = Cardinality(Inbound(c)) /\ contacts[c].out = Cardinality(Mentions(c))
      BY <2>2
    <2>4. rows \in Seq(Row) /\ RowsOnce
      BY DEF StoreInv, TypeOK
    <2> QED
      BY <2>3, <2>4, InboundCountsLetters, MentionsCountLetters
  <1> QED
    BY <1>1, InitStoreInv, InitRunInv, NextStoreInv, NextRunInv, PTL DEF Spec

=============================================================================
