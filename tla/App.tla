--------------------------------- MODULE App ---------------------------------
(***************************************************************************)
(* The window and the main process together: Session, and on top of it the *)
(* renderer's store (src/renderer/src/store) with the screens that act on  *)
(* it (src/renderer/src/routes, AppHeader, BootstrapGate).                 *)
(*                                                                         *)
(* A click or an effect of a screen dispatches actions, and the epics call *)
(* the main process through the preload bridge.  The call is handled when  *)
(* it is made: nothing the main process does depends on the store but      *)
(* through these calls, which stay in order, so what it does before it     *)
(* hears of one can as well be done before the one is made.  What it sends *)
(* back, answers and pushed snapshots alike, waits in `inbox` and reaches  *)
(* the store in the order it was sent.                                     *)
(*                                                                         *)
(* Left out: the rows of contacts.list.  The Results screen fetches them   *)
(* only while the scan slice is idle, and every way to that screen starts  *)
(* a scan.  What a run's snapshots hold is ContactScan; here it is the     *)
(* account they are of.                                                    *)
(***************************************************************************)
EXTENDS Session, Sequences

CONSTANTS
  Hasty,     \* whether the user clicks on before the last click is through
  MaxInbox   \* bound: messages on their way when a snapshot is sent

ASSUME AppAssumption == Hasty \in BOOLEAN /\ MaxInbox \in Nat

VARIABLES
  route,      \* the screen, or the splash of BootstrapGate
  active,     \* session.active
  form,       \* connection.form: whose host and user name it holds
  testing,    \* connection.testing
  tested,     \* whether connection.testStatus is 'success'
  goScan,     \* accounts.navigateToScan
  busy,       \* accounts.busyIds
  folders,    \* scan.folders: whose they are
  loading,    \* scan.foldersLoading
  failed,     \* whether there is a scan.foldersError
  status,     \* scan.status
  runKnown,   \* whether there is a scan.runId: it comes when the run is over
  rows,       \* scan.snapshotContacts: the accounts whose rows are in it
  resetting,  \* cache.resetting
  inbox       \* what the main process has sent

sliceVars == <<folders, loading, failed, status, runKnown, rows>>
connVars  == <<form, testing, tested>>
storeVars == <<active, connVars, goScan, busy, sliceVars, resetting>>
vars      == <<sessionVars, route, storeVars, inbox>>

(* What the main process sends: answers to logins, to folders.list and to   *)
(* scan.start, pushed snapshots, and answers that say nothing else.         *)
Sendable ==
  [kind : {"booted", "tested", "used"}, ok : BOOLEAN, acct : Account]
    \cup [kind : {"folders"}, ok : BOOLEAN, acct : Whose]
    \cup [kind : {"started"}, ok : BOOLEAN]
    \cup [kind : {"removed", "snapshot"}, acct : Account]
    \cup [kind : {"reset", "cancelled"}]

AppTypeOK ==
  /\ TypeOK
  /\ route \in {"splash", "connect", "scan", "results", "leaving"}
  /\ active \in Whose
  /\ form \in Whose
  /\ testing \in BOOLEAN
  /\ tested \in BOOLEAN
  /\ goScan \in BOOLEAN
  /\ busy \subseteq Account
  /\ folders \in Whose
  /\ loading \in BOOLEAN
  /\ failed \in BOOLEAN
  /\ status \in {"idle", "running", "done", "cancelled", "error"}
  /\ runKnown \in BOOLEAN
  /\ rows \subseteq Account
  /\ resetting \in BOOLEAN
  /\ inbox \in Seq(Sendable)

Init ==
  /\ SessionInit
  /\ route = "splash"
  /\ active = Nobody
  /\ form = Nobody /\ testing = FALSE /\ tested = FALSE
  /\ goScan = FALSE
  /\ busy = {}
  /\ folders = Nobody /\ loading = FALSE /\ failed = FALSE
  /\ status = "idle" /\ runKnown = FALSE /\ rows = {}
  /\ resetting = FALSE
  /\ inbox = <<>>

(* What goes with every answer of the main process. *)
Sends(m) == inbox' = Append(inbox, m)
Quietly  == UNCHANGED <<route, storeVars, inbox>>

-----------------------------------------------------------------------------
(* The reducers.                                                            *)

(* scan/reducer.ts: the scan slice starts anew. *)
SliceReset ==
  /\ folders' = Nobody /\ loading' = FALSE /\ failed' = FALSE
  /\ status' = "idle" /\ runKnown' = FALSE /\ rows' = {}

(* What the form holds matters while a test is under way and while its      *)
(* success stands; else the user may type anything, and it is left open.    *)
TestUnderWay ==
  \/ \E g \in Login : login[g].at = "testing"
  \/ \E i \in DOMAIN inbox : inbox[i].kind = "tested"

Typed(a) == form' = IF TestUnderWay THEN a ELSE Nobody

(* connection.prefillFromAccount with an error. *)
Prefilled(a) == Typed(a) /\ testing' = FALSE /\ tested' = FALSE

-----------------------------------------------------------------------------
(* Starting: the last account that has a password is connected, if there is *)
(* one.                                                                     *)

LoginPending == \E g \in Login : login[g].at # "idle"

BootConnects(g, a) ==
  /\ route = "splash" /\ ~LoginPending /\ inbox = <<>>
  /\ ConnectSaved(g, a)
  /\ Quietly

BootHasNoAccount ==
  /\ route = "splash" /\ ~LoginPending /\ inbox = <<>>
  /\ saved = {}
  /\ route' = "connect"
  /\ UNCHANGED <<sessionVars, storeVars, inbox>>

-----------------------------------------------------------------------------
(* The connect screen.                                                      *)

(* A patient user waits for the answer to the last click, and is slower     *)
(* than what is still under way of the session before, but for its scan.    *)
(* Nobody is faster than the screen's own effects.                          *)
Settled ==
  /\ ~goScan
  /\ \/ Hasty
     \/ /\ ~testing /\ busy = {} /\ inbox = <<>>
        /\ leaving = {}
        /\ \A l \in Lister : lister[l].at = "idle"

ClickTest(g, a) ==
  /\ route = "connect" /\ Settled
  /\ ~testing
  /\ TestConnection(g, a)
  /\ form' = a /\ testing' = TRUE /\ tested' = FALSE
  /\ UNCHANGED <<route, active, goScan, busy, sliceVars, resetting, inbox>>

(* The form can be edited while it is tested, and after. *)
UpdateForm(a) ==
  /\ route = "connect" /\ Settled
  /\ TestUnderWay \/ tested
  /\ Typed(a)
  /\ tested' = FALSE
  /\ UNCHANGED <<sessionVars, route, active, testing, goScan, busy, sliceVars, resetting, inbox>>

ClickContinue ==
  /\ route = "connect" /\ Settled
  /\ tested
  /\ active' = form
  /\ SliceReset
  /\ route' = "scan"
  /\ UNCHANGED <<sessionVars, connVars, goScan, busy, resetting, inbox>>

ClickUse(g, a) ==
  /\ route = "connect" /\ Settled
  /\ a \notin busy
  /\ ConnectSaved(g, a)
  /\ busy' = busy \cup {a}
  /\ UNCHANGED <<route, active, connVars, goScan, sliceVars, resetting, inbox>>

ClickForget(a) ==
  /\ route = "connect" /\ Settled
  /\ a \notin busy
  /\ AccountsDelete(a)
  /\ busy' = busy \cup {a}
  /\ Sends([kind |-> "removed", acct |-> a])
  /\ UNCHANGED <<route, active, connVars, goScan, sliceVars, resetting>>

(* The effect of ConnectScreen. *)
HandOff ==
  /\ route = "connect" /\ goScan
  /\ route' = "scan" /\ goScan' = FALSE
  /\ UNCHANGED <<sessionVars, active, connVars, busy, sliceVars, resetting, inbox>>

-----------------------------------------------------------------------------
(* The header of the other screens.                                         *)

(* Mutated form: the header's account stays. *)
ClickSwitchKeepsActive ==
  /\ route \in {"scan", "results"}
  /\ Disconnect
  /\ SliceReset
  /\ route' = IF route = "scan" THEN "leaving" ELSE "connect"
  /\ UNCHANGED <<active, connVars, goScan, busy, resetting, inbox>>

(* Switch account. The scan screen is still there while its slice is blank, *)
(* and may ask for the folders once more before the route changes.          *)
ClickSwitch ==
  /\ route \in {"scan", "results"}
  /\ Disconnect
  /\ active' = Nobody
  /\ SliceReset
  /\ route' = IF route = "scan" THEN "leaving" ELSE "connect"
  /\ UNCHANGED <<connVars, goScan, busy, resetting, inbox>>

RouteChanges ==
  /\ route = "leaving"
  /\ route' = "connect"
  /\ UNCHANGED <<sessionVars, storeVars, inbox>>

(* Reset cache. It touches nothing of the session, and that the wipe failed   *)
(* only a toast tells.                                                       *)
ClickReset ==
  /\ route \in {"scan", "results"}
  /\ status # "running" /\ ~resetting
  /\ status' = "idle" /\ runKnown' = FALSE /\ rows' = {}
  /\ resetting' = TRUE
  /\ route' = "scan"
  /\ Sends([kind |-> "reset"])
  /\ UNCHANGED <<sessionVars, active, connVars, goScan, busy, folders, loading, failed>>

-----------------------------------------------------------------------------
(* The scan screen and the results screen.                                  *)

(* The effect that fetches the folders. Without credentials the call fails  *)
(* at once.                                                                 *)
FetchFolders(l) ==
  /\ route \in {"scan", "leaving"}
  /\ folders = Nobody /\ ~loading /\ ~failed
  /\ FoldersList(l)
  /\ loading' = TRUE
  /\ IF lister' = lister
       THEN Sends([kind |-> "folders", ok |-> FALSE, acct |-> Nobody])
       ELSE UNCHANGED inbox
  /\ UNCHANGED <<route, active, connVars, goScan, busy, folders, failed, status, runKnown, rows,
                 resetting>>

(* Start scan. What the last run's id was stays. *)
ClickStart(r) ==
  /\ route = "scan"
  /\ status # "running" /\ folders # Nobody /\ ~resetting
  /\ Len(inbox) < MaxInbox
  /\ IF creds # Nobody
       THEN ScanStart(r) /\ UNCHANGED inbox
       ELSE UNCHANGED sessionVars /\ Sends([kind |-> "started", ok |-> FALSE])
  /\ status' = "running" /\ rows' = {}
  /\ route' = "results"
  /\ UNCHANGED <<active, connVars, goScan, busy, folders, loading, failed, runKnown, resetting>>

(* The epic only knows an id that an answer of scan.start has brought:      *)
(* without one it calls nobody, and one of a run that is over finds nothing *)
(* in the registry.                                                         *)
ClickCancel ==
  /\ route = "scan" /\ status = "running"
  /\ IF runKnown THEN Len(inbox) < MaxInbox /\ Sends([kind |-> "cancelled"]) /\ UNCHANGED status
                 ELSE status' = "cancelled" /\ UNCHANGED inbox
  /\ UNCHANGED <<sessionVars, route, active, connVars, goScan, busy, folders, loading, failed,
                 runKnown, rows, resetting>>

GoBack ==
  /\ route = "results"
  /\ route' = "scan"
  /\ UNCHANGED <<sessionVars, storeVars, inbox>>

-----------------------------------------------------------------------------
(* What the main process does of itself, and what it sends.                 *)

LoginAnswer(g, ok) ==
  /\ IF ok THEN LoginSucceeds(g) ELSE LoginFails(g)
  /\ Sends([kind |-> IF login[g].at = "testing" THEN "tested"
                     ELSE IF route = "splash" THEN "booted" ELSE "used",
            ok |-> ok, acct |-> login[g].acct])
  /\ UNCHANGED <<route, storeVars>>

ListAnswer(l, ok) ==
  /\ IF ok THEN Listed(l) ELSE ListFails(l)
  /\ Sends([kind |-> "folders", ok |-> ok, acct |-> lister[l].acct])
  /\ UNCHANGED <<route, storeVars>>

(* Mutated form: a first snapshot before the account is known. *)
RunSnapshotAtOnce(r) ==
  /\ run[r].at \in {"pooling", "storing"} /\ r \notin aborted
  /\ Len(inbox) < MaxInbox
  /\ Sends([kind |-> "snapshot", acct |-> run[r].acct])
  /\ UNCHANGED <<sessionVars, route, storeVars>>

(* What the run has kept so far, pushed to the window. *)
RunSnapshot(r) ==
  /\ run[r].at = "storing" /\ r \notin aborted
  /\ Len(inbox) < MaxInbox
  /\ Sends([kind |-> "snapshot", acct |-> run[r].acct])
  /\ UNCHANGED <<sessionVars, route, storeVars>>

(* A run that ends answers scan.start. *)
Answers(r, ok) ==
  /\ IF run'[r] = NoRun THEN Sends([kind |-> "started", ok |-> ok])
                        ELSE UNCHANGED inbox
  /\ UNCHANGED <<route, storeVars>>

RunGoesOn(r) == PoolSettles(r) /\ Answers(r, FALSE)
RunJoins(r)  == RunConnected(r) /\ Answers(r, FALSE)
RunEnds(r, ok) == (IF ok THEN RunDone(r) ELSE RunFails(r)) /\ Answers(r, ok)

(* Nobody but a hasty user sees a run open a connection of its own: it      *)
(* takes a login before the session has logged out.                         *)
RunListens(r) == IF run[r].at = "attaching" THEN RunAttached(r) ELSE RunListed(r)

MainStep ==
  \/ \E o \in Object : ConnectionLost(o) \/ LoggedOut(o)
  \/ \E l \in Lister : ListerConnected(l)
  \/ \E r \in Run : RunDials(r) \/ RunReconnects(r) \/ RunListens(r)

-----------------------------------------------------------------------------
(* What the store does with what it is sent.                                *)

Receive(kind) ==
  /\ inbox # <<>> /\ Head(inbox).kind = kind
  /\ inbox' = Tail(inbox)
  /\ UNCHANGED sessionVars

(* bootstrap.done *)
Booted ==
  /\ Receive("booted")
  /\ IF Head(inbox).ok
       THEN active' = Head(inbox).acct /\ route' = "scan" /\ UNCHANGED connVars
       ELSE Prefilled(Head(inbox).acct) /\ route' = "connect" /\ UNCHANGED active
  /\ UNCHANGED <<goScan, busy, sliceVars, resetting>>

(* connection.test.success and .failure *)
Tested ==
  /\ Receive("tested")
  /\ testing' = FALSE
  /\ tested' = Head(inbox).ok
  /\ form' = IF Head(inbox).ok THEN form ELSE Nobody
  /\ UNCHANGED <<route, active, goScan, busy, sliceVars, resetting>>

(* accounts.useSaved.success and .failure *)
Used ==
  /\ Receive("used")
  /\ busy' = busy \ {Head(inbox).acct}
  /\ IF Head(inbox).ok
       THEN active' = Head(inbox).acct /\ goScan' = TRUE /\ SliceReset /\ UNCHANGED connVars
       ELSE Prefilled(Head(inbox).acct) /\ UNCHANGED <<active, goScan, sliceVars>>
  /\ UNCHANGED <<route, resetting>>

(* accounts.remove.success *)
Removed ==
  /\ Receive("removed")
  /\ busy' = busy \ {Head(inbox).acct}
  /\ SliceReset
  /\ UNCHANGED <<route, active, connVars, goScan, resetting>>

(* scan.fetchFolders.success and .failure *)
FoldersFetched ==
  /\ Receive("folders")
  /\ loading' = FALSE
  /\ IF Head(inbox).ok THEN folders' = Head(inbox).acct /\ UNCHANGED failed
                       ELSE failed' = TRUE /\ UNCHANGED folders
  /\ UNCHANGED <<route, active, connVars, goScan, busy, status, runKnown, rows, resetting>>

(* Mutated form: nothing is made of a failure. *)
StartedWell ==
  /\ Receive("started")
  /\ IF Head(inbox).ok THEN status' = "done" /\ runKnown' = TRUE ELSE UNCHANGED <<status, runKnown>>
  /\ UNCHANGED <<route, active, connVars, goScan, busy, folders, loading, failed, rows,
                 resetting>>

(* scan.start.success and .failure, of whichever run *)
Started ==
  /\ Receive("started")
  /\ IF Head(inbox).ok THEN status' = "done" /\ runKnown' = TRUE
                       ELSE status' = "error" /\ UNCHANGED runKnown
  /\ UNCHANGED <<route, active, connVars, goScan, busy, folders, loading, failed, rows,
                 resetting>>

(* scan.snapshotAppended, of whichever run *)
SnapshotAppended ==
  /\ Receive("snapshot")
  /\ rows' = rows \cup {Head(inbox).acct}
  /\ UNCHANGED <<route, active, connVars, goScan, busy, folders, loading, failed, status, runKnown,
                 resetting>>

(* scan.cancelDone *)
CancelDone ==
  /\ Receive("cancelled")
  /\ status' = "cancelled"
  /\ UNCHANGED <<route, active, connVars, goScan, busy, folders, loading, failed, runKnown, rows,
                 resetting>>

(* cache.reset.success and .failure *)
ResetDone ==
  /\ Receive("reset")
  /\ resetting' = FALSE
  /\ UNCHANGED <<route, active, connVars, goScan, busy, sliceVars>>

Deliver ==
  \/ Booted \/ Tested \/ Used \/ Removed \/ FoldersFetched
  \/ Started \/ SnapshotAppended \/ CancelDone \/ ResetDone

-----------------------------------------------------------------------------
Click ==
  \/ \E g \in Login, a \in Account : ClickTest(g, a) \/ ClickUse(g, a)
  \/ \E a \in Account : UpdateForm(a) \/ ClickForget(a)
  \/ ClickContinue
  \/ ClickSwitch
  \/ ClickReset
  \/ \E r \in Run : ClickStart(r)
  \/ ClickCancel
  \/ GoBack

Effect ==
  \/ \E g \in Login, a \in Account : BootConnects(g, a)
  \/ BootHasNoAccount
  \/ HandOff
  \/ RouteChanges
  \/ \E l \in Lister : FetchFolders(l)

Answer ==
  \/ \E ok \in BOOLEAN :
       \/ \E g \in Login : LoginAnswer(g, ok)
       \/ \E l \in Lister : ListAnswer(l, ok)
  \/ \E r \in Run :
       \/ RunSnapshot(r)
       \/ RunGoesOn(r)
       \/ RunJoins(r)
       \/ \E ok \in BOOLEAN : RunEnds(r, ok)

Next ==
  \/ Click
  \/ Effect
  \/ Answer
  \/ MainStep /\ Quietly
  \/ Deliver

Spec == Init /\ [][Next]_vars

(* Every call of a run to the server ends, by an answer, an error or a      *)
(* time-out, so it comes to its end; and what is sent arrives.              *)
Fairness ==
  /\ WF_vars(Deliver)
  /\ \A r \in Run : WF_vars(RunGoesOn(r) \/ RunJoins(r) \/ \E ok \in BOOLEAN : RunEnds(r, ok))

FairSpec == Spec /\ Fairness

-----------------------------------------------------------------------------
(* Properties.                                                              *)

(* Two sources of truth for who is logged in, the header's session.active   *)
(* ("Single source of truth", session/reducer.ts:18) and the main process's *)
(* credentials, never name two accounts: what is scanned and stored is the  *)
(* mailbox of the one the header shows.                                     *)
HeaderNamesTheSession ==
  active # Nobody /\ creds # Nobody => active = creds

(* Under an account's name only rows of its own scans are shown, though a   *)
(* snapshot, an answer or an aborted run of the session before may still be *)
(* on its way (scan/reducer.ts:262-276).                                    *)
RowsAreActives ==
  active # Nobody => rows \subseteq {active}

(* A scan stores the folders of the mailbox its account names: the client   *)
(* it lists them with (scan-runner.ts:230) was opened for the credentials   *)
(* it took its account from (AppHeader.tsx:137-139).                        *)
StoresWhatItsAccountHas ==
  \A r \in Run : run[r].at = "storing" => sock[run[r].obj] \in {Nobody, run[r].acct}

(* A scan the screen shows as running is over at some point (time and again   *)
(* none is shown as running, which says the same), also when                 *)
(* Cancel found no id to cancel (scan/epic.ts:74-86), and also when the     *)
(* server went away.                                                        *)
RunningEnds == []<>(status # "running")

=============================================================================
