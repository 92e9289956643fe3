------------------------------ MODULE ScanSlice ------------------------------
(***************************************************************************)
(* What the scan and results screens show and what they keep: the filters  *)
(* and folders of the scan slice (src/renderer/src/store/features/scan),   *)
(* the filter preferences that main keeps per account (the handlers of     *)
(* scan.filterPreferences.*, settings.repo.ts), the rows that snapshots    *)
(* bring, and the dialog with a contact's messages                         *)
(* (ContactMessagesDialog.tsx).                                            *)
(*                                                                         *)
(* Calls are handled when they are made and answers arrive in the order    *)
(* they were sent, as in App, which has the logins, the cancelled runs and *)
(* the failures in detail; here a login has succeeded and is one step, and *)
(* a list of folders that fails is one that does not come.                 *)
(*                                                                         *)
(* Of the ten settings two are kept: the direction, which the choice of    *)
(* folders depends on, and `words`, which stands for each of the others    *)
(* and is the account it was typed under, or Nobody for the default.       *)
(***************************************************************************)
EXTENDS Naturals, Sequences

CONSTANTS
  Account,
  Nobody,
  Folder,
  Inbox,
  Sent,       \* what findSentFolder finds
  Contact,
  NoContact,
  MaxInbox    \* bound: messages on their way when another is sent

ASSUME ScanSliceAssumption ==
  /\ Nobody \notin Account
  /\ {Inbox, Sent} \subseteq Folder
  /\ NoContact \notin Contact
  /\ MaxInbox \in Nat

VARIABLES
  creds,      \* the main process's credentials
  prefs,      \* settings: the filters stored for each account, if any
  listing,    \* whether folders.list is under way
  run,        \* whether a scan is under way
  route,
  active,     \* session.active
  folders,    \* scan.folders
  loading,    \* scan.foldersLoading
  selected,   \* scan.selectedFolders
  filters,    \* scan's filter settings
  status,     \* scan.status
  rows,       \* whether scan.snapshotContacts has rows
  dialog,     \* the contact whose dialog is open, and whose messages it shows
  inbox       \* what the main process has sent

mainVars  == <<creds, prefs, listing, run>>
sliceVars == <<folders, loading, selected, filters, status, rows>>
vars      == <<mainVars, route, active, sliceVars, dialog, inbox>>

Mode    == {"bi", "one", "off"}
Filters == [dir : Mode, words : Account \cup {Nobody}]

Sendable ==
  [kind : {"prefs"}, filters : Filters] \cup [kind : {"folders", "snapshot", "started"}]
    \cup [kind : {"messages"}, of : Contact]

DefaultFilters == [dir |-> "bi", words |-> Nobody]
NoDialog       == [of |-> NoContact, shown |-> NoContact]

TypeOK ==
  /\ creds \in Account \cup {Nobody}
  /\ prefs \in [Account -> {{}} \cup {{f} : f \in Filters}]
  /\ listing \in BOOLEAN
  /\ run \in BOOLEAN
  /\ route \in {"connect", "scan", "results"}
  /\ active \in Account \cup {Nobody}
  /\ folders \in {{}, Folder}
  /\ loading \in BOOLEAN
  /\ selected \subseteq Folder
  /\ filters \in Filters
  /\ status \in {"idle", "running", "over"}
  /\ rows \in BOOLEAN
  /\ dialog \in [of : Contact \cup {NoContact}, shown : Contact \cup {NoContact}]
  /\ inbox \in Seq(Sendable)

InitSlice ==
  /\ folders = {} /\ loading = FALSE /\ selected = {}
  /\ filters = DefaultFilters
  /\ status = "idle" /\ rows = FALSE

Init ==
  /\ creds = Nobody
  /\ prefs = [a \in Account |-> {}]
  /\ listing = FALSE
  /\ run = FALSE
  /\ route = "connect"
  /\ active = Nobody
  /\ InitSlice
  /\ dialog = NoDialog
  /\ inbox = <<>>

Sends(m) == inbox' = Append(inbox, m)
Coming(kind) == \E i \in DOMAIN inbox : inbox[i].kind = kind

-----------------------------------------------------------------------------
(* The settings table.                                                      *)

(* Mutated form: one row for all accounts of a host. *)
HostKey(a) == Account

(* scanFilterPreferencesSettingKey, as the accounts whose key it is. *)
Key(a) == {a}

(* Mutated form: the row is added to the one there is. *)
StoreBeside(a, value) ==
  prefs' = [b \in Account |-> IF a # Nobody /\ b \in Key(a) THEN prefs[b] \cup value ELSE prefs[b]]

(* setSetting and deleteSetting; without a session there is no key.         *)
Store(a, value) ==
  prefs' = [b \in Account |-> IF a # Nobody /\ b \in Key(a) THEN value ELSE prefs[b]]

Stored(a) == IF prefs[a] = {} THEN DefaultFilters ELSE CHOOSE f \in Filters : f \in prefs[a]

-----------------------------------------------------------------------------
(* Login and Switch account.                                                *)

SliceReset ==
  /\ folders' = {} /\ loading' = FALSE /\ selected' = {}
  /\ filters' = DefaultFilters
  /\ status' = "idle" /\ rows' = FALSE

(* The account's preferences are asked for as soon as it is the active one. *)
(* What is left of the session before has come by now.                      *)
Login(a) ==
  /\ route = "connect"
  /\ ~listing /\ inbox = <<>>
  /\ creds' = a
  /\ active' = a
  /\ route' = "scan"
  /\ SliceReset
  /\ Sends([kind |-> "prefs", filters |-> Stored(a)])
  /\ UNCHANGED <<prefs, listing, run, dialog>>

(* The scan under way is aborted, and says so. *)
SwitchAccount ==
  /\ route # "connect" /\ dialog.of = NoContact
  /\ creds' = Nobody
  /\ active' = Nobody
  /\ run' = FALSE
  /\ route' = "connect"
  /\ SliceReset
  /\ dialog' = NoDialog
  /\ IF run THEN Sends([kind |-> "started"]) ELSE UNCHANGED inbox
  /\ UNCHANGED <<prefs, listing>>

(* The program ends; only the settings are left. *)
Quit ==
  /\ creds' = Nobody /\ listing' = FALSE /\ run' = FALSE
  /\ route' = "connect" /\ active' = Nobody
  /\ SliceReset
  /\ dialog' = NoDialog
  /\ inbox' = <<>>
  /\ UNCHANGED prefs

-----------------------------------------------------------------------------
(* The scan screen: folders.                                                *)

EnsureSent(S, all, dir) ==
  IF dir # "off" /\ Sent \in all THEN S \cup {Sent} ELSE S

FetchFolders ==
  /\ route = "scan"
  /\ folders = {} /\ ~loading
  /\ loading' = TRUE
  /\ listing' = TRUE
  /\ UNCHANGED <<creds, prefs, run, route, active, folders, selected, filters, status,
                 rows, dialog, inbox>>

ListFolders ==
  /\ listing
  /\ listing' = FALSE
  /\ Sends([kind |-> "folders"])
  /\ UNCHANGED <<creds, prefs, run, route, active, sliceVars, dialog>>

(* setSelectedFolders *)
Selects(S) ==
  /\ route = "scan" /\ folders # {}
  /\ selected' = EnsureSent(S, folders, filters.dir)
  /\ UNCHANGED <<mainVars, route, active, folders, loading, filters, status, rows,
                 dialog, inbox>>

(* A box is locked only while it is Sent's and a direction is on. *)
ToggleFolder(f) ==
  /\ f = Sent => filters.dir = "off"
  /\ Selects(IF f \in selected THEN selected \ {f} ELSE selected \cup {f})

SelectAll   == selected # folders /\ Selects(folders)
SelectNone  == selected = folders /\ Selects({})
SelectInbox == selected # {Inbox} /\ Selects({Inbox})

-----------------------------------------------------------------------------
(* The scan screen: filters.  A user touches them only when the stored ones *)
(* have come: main answers that call without awaiting anything.             *)

AtFilters == route = "scan" /\ ~Coming("prefs")

(* The reducer's new filters are saved, those of all fields at once. *)
Edits(f) ==
  /\ AtFilters
  /\ filters' = f
  /\ Store(creds, {f})
  /\ UNCHANGED <<creds, listing, run, route, active, folders, loading, status, rows,
                 dialog, inbox>>

(* A click on the direction that is on takes it off. *)
SetDirection(m) ==
  LET dir == IF filters.dir = m THEN "off" ELSE m IN
  /\ Edits([filters EXCEPT !.dir = dir])
  /\ selected' = EnsureSent(selected, folders, dir)

SetWords(w) ==
  /\ w # filters.words
  /\ Edits([filters EXCEPT !.words = w])
  /\ UNCHANGED selected

(* Mutated form: the stored filters stay. *)
ResetFiltersShown ==
  /\ AtFilters
  /\ filters' = DefaultFilters
  /\ UNCHANGED <<creds, prefs, listing, run, route, active, folders, loading, selected, status,
                 rows, dialog, inbox>>

(* Reset Filters: the defaults, and the row is deleted.                     *)
ResetFilters ==
  /\ AtFilters
  /\ filters' = DefaultFilters
  /\ Store(creds, {})
  /\ UNCHANGED <<creds, listing, run, route, active, folders, loading, selected, status,
                 rows, dialog, inbox>>

-----------------------------------------------------------------------------
(* Scans.                                                                   *)

(* One call of scan.start at a time; a second one is App's and              *)
(* OverlappingIngest's.                                                     *)
StartScan ==
  /\ route = "scan" /\ status # "running" /\ selected # {}
  /\ ~run /\ Len(inbox) <= MaxInbox
  /\ run' = TRUE
  /\ status' = "running"
  /\ rows' = FALSE
  /\ route' = "results"
  /\ UNCHANGED <<creds, prefs, listing, active, folders, loading, selected, filters, dialog, inbox>>

(* Cancel only reaches the screen: the run's id is not known yet. *)
CancelScan ==
  /\ route = "scan" /\ status = "running"
  /\ status' = "over"
  /\ UNCHANGED <<mainVars, route, active, folders, loading, selected, filters, rows,
                 dialog, inbox>>

SendSnapshot ==
  /\ run
  /\ Len(inbox) < MaxInbox
  /\ Sends([kind |-> "snapshot"])
  /\ UNCHANGED <<mainVars, route, active, sliceVars, dialog>>

EndScan ==
  /\ run
  /\ run' = FALSE
  /\ Sends([kind |-> "started"])
  /\ UNCHANGED <<creds, prefs, listing, route, active, sliceVars, dialog>>

(* Reset cache. "Your filter settings remain intact" (AppHeader.tsx:207). *)
ResetCache ==
  /\ route # "connect" /\ status # "running" /\ dialog.of = NoContact
  /\ status' = "idle" /\ rows' = FALSE
  /\ route' = "scan"
  /\ dialog' = NoDialog
  /\ UNCHANGED <<mainVars, active, folders, loading, selected, filters, inbox>>

-----------------------------------------------------------------------------
(* The results screen.                                                      *)

(* A click on a row: the dialog opens empty and asks for the messages. *)
OpenDialog(c) ==
  /\ route = "results" /\ rows /\ dialog.of = NoContact
  /\ Len(inbox) < MaxInbox
  /\ dialog' = [of |-> c, shown |-> NoContact]
  /\ Sends([kind |-> "messages", of |-> c])
  /\ UNCHANGED <<mainVars, route, active, sliceVars>>

CloseDialog ==
  /\ dialog.of # NoContact
  /\ dialog' = [dialog EXCEPT !.of = NoContact]
  /\ UNCHANGED <<mainVars, route, active, sliceVars, inbox>>

BackToScan ==
  /\ route = "results" /\ dialog.of = NoContact
  /\ route' = "scan"
  /\ dialog' = NoDialog
  /\ UNCHANGED <<mainVars, active, sliceVars, inbox>>

Click ==
  \/ \E a \in Account : Login(a)
  \/ SwitchAccount
  \/ \E f \in Folder : ToggleFolder(f)
  \/ SelectAll \/ SelectNone \/ SelectInbox
  \/ \E m \in {"bi", "one"} : SetDirection(m)
  \/ \E w \in {active, Nobody} : SetWords(w)
  \/ ResetFilters
  \/ StartScan \/ CancelScan \/ ResetCache
  \/ \E c \in Contact : OpenDialog(c)
  \/ CloseDialog \/ BackToScan

-----------------------------------------------------------------------------
(* What the screens do with what they are sent.                             *)

Receive(kind) ==
  /\ inbox # <<>> /\ Head(inbox).kind = kind
  /\ inbox' = Tail(inbox)
  /\ UNCHANGED <<mainVars, route, active>>

(* hydrateFilters *)
HydrateFilters ==
  /\ Receive("prefs")
  /\ filters' = Head(inbox).filters
  /\ UNCHANGED <<folders, loading, selected, status, rows, dialog>>

(* fetchFolders.success: all folders, unless some were picked already. *)
FoldersFetched ==
  /\ Receive("folders")
  /\ loading' = FALSE
  /\ folders' = Folder
  /\ selected' = EnsureSent(IF selected = {} THEN Folder ELSE selected, Folder, filters.dir)
  /\ UNCHANGED <<filters, status, rows, dialog>>

(* snapshotAppended, of whichever run *)
SnapshotAppended ==
  /\ Receive("snapshot")
  /\ rows' = TRUE
  /\ UNCHANGED <<folders, loading, selected, filters, status, dialog>>

(* start.success and .failure, of whichever run *)
Started ==
  /\ Receive("started")
  /\ status' = "over"
  /\ UNCHANGED <<folders, loading, selected, filters, rows, dialog>>

(* Mutated form: an answer is taken whatever was asked since. *)
MessagesTaken ==
  /\ Receive("messages")
  /\ dialog' = [dialog EXCEPT !.shown = Head(inbox).of]
  /\ UNCHANGED sliceVars

(* The effect whose call is answered has been cleaned up when the dialog    *)
(* was closed since.  A later call's answer comes later.                    *)
StillWanted ==
  /\ dialog.of # NoContact
  /\ \A i \in DOMAIN inbox \ {1} : inbox[i].kind # "messages"

MessagesListed ==
  /\ Receive("messages")
  /\ dialog' = IF StillWanted THEN [dialog EXCEPT !.shown = Head(inbox).of] ELSE dialog
  /\ UNCHANGED sliceVars

Deliver ==
  HydrateFilters \/ FoldersFetched \/ SnapshotAppended \/ Started \/ MessagesListed

Next ==
  \/ Click
  \/ Quit
  \/ FetchFolders \/ ListFolders
  \/ SendSnapshot \/ EndScan
  \/ Deliver

Spec == Init /\ [][Next]_vars

-----------------------------------------------------------------------------
(* Properties.                                                              *)

(* What a user set up under one account neither shows nor is stored under   *)
(* another, whatever was typed, saved, reset and fetched in between         *)
(* (handlers.ts:300-301).                                                   *)
FiltersAreOwn ==
  /\ active # Nobody => filters.words \in {active, Nobody}
  /\ \A a \in Account : \A f \in prefs[a] : f.words \in {a, Nobody}

(* The filters on the screen are those the next start will find, with       *)
(* nothing stored for the defaults after Reset Filters; a Switch, a reset   *)
(* of the cache or the end of the program at any moment loses none of them  *)
(* (scan/epic.ts:120-206).                                                  *)
ShownIsStored ==
  active # Nobody /\ ~Coming("prefs") => filters = Stored(active)

(* The dialog shows the messages of the contact it names, or none yet: the  *)
(* answer to a call made for another contact, or before the dialog was      *)
(* closed, is not taken for its own (ContactMessagesDialog.tsx:77-102).     *)
DialogShowsItsContact ==
  dialog.of # NoContact => dialog.shown \in {NoContact, dialog.of}

=============================================================================
