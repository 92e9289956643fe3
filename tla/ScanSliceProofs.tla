---------------------------- MODULE ScanSliceProofs ----------------------------
(***************************************************************************)
(* What the screens show, for all accounts, folders and contacts, and for  *)
(* any number of messages on their way.                                    *)
(***************************************************************************)
EXTENDS ScanSlice, TLAPS

USE ScanSliceAssumption DEF ScanSliceAssumption

(* The screens and the main process agree on who is logged in, and a screen *)
(* behind the login has someone.                                            *)
SessionAgrees == creds = active /\ (route = "connect" <=> active = Nobody)

(* The preferences that are on their way are those of the active account,   *)
(* as they are stored now: a user changes them only when they have come.    *)
PrefsComing ==
  active # Nobody =>
    \A i \in DOMAIN inbox : inbox[i].kind = "prefs" => inbox[i].filters = Stored(active)

(* The last answer on its way is for the dialog that is open.               *)
LastOf(kind, i) == inbox[i].kind = kind /\ \A j \in DOMAIN inbox : j > i => inbox[j].kind # kind

LastAnswerIsItsOwn ==
  dialog.of # NoContact =>
    \A i \in DOMAIN inbox : LastOf("messages", i) => inbox[i].of = dialog.of

-----------------------------------------------------------------------------
(* The inbox.                                                               *)

LEMMA InboxTyped ==
  ASSUME TypeOK
  PROVE  inbox \in Seq(Sendable) /\ Len(inbox) \in Nat /\ DOMAIN inbox = 1 .. Len(inbox)
  BY DEF TypeOK

LEMMA Appended ==
  ASSUME TypeOK, NEW m \in Sendable, Sends(m)
  PROVE  /\ inbox' \in Seq(Sendable)
         /\ DOMAIN inbox' = DOMAIN inbox \cup {Len(inbox) + 1}
         /\ inbox'[Len(inbox) + 1] = m
         /\ \A i \in DOMAIN inbox : inbox'[i] = inbox[i] /\ i < Len(inbox) + 1
  BY InboxTyped DEF Sends

LEMMA Taken ==
  ASSUME TypeOK, inbox # <<>>, inbox' = Tail(inbox)
  PROVE  /\ inbox' \in Seq(Sendable)
         /\ 1 \in DOMAIN inbox /\ Head(inbox) = inbox[1] /\ Head(inbox) \in Sendable
         /\ \A i \in DOMAIN inbox' : i + 1 \in DOMAIN inbox /\ inbox'[i] = inbox[i + 1]
         /\ \A i \in DOMAIN inbox \ {1} : i - 1 \in DOMAIN inbox' /\ inbox'[i - 1] = inbox[i]
         /\ DOMAIN inbox' \subseteq Nat /\ DOMAIN inbox \subseteq Nat
  <1>1. Len(inbox) \in Nat \ {0}
    BY InboxTyped
  <1>2. inbox' \in Seq(Sendable) /\ Len(inbox') = Len(inbox) - 1
    BY <1>1, InboxTyped
  <1>3. \A i \in 1 .. Len(inbox) - 1 : inbox'[i] = inbox[i + 1]
    BY <1>1, InboxTyped
  <1>4. DOMAIN inbox' = 1 .. Len(inbox) - 1
    BY <1>2
  <1>5. Head(inbox) = inbox[1] /\ inbox[1] \in Sendable
    BY <1>1, InboxTyped
  <1> QED
    BY <1>1, <1>2, <1>3, <1>4, <1>5, InboxTyped

(* A message that is sent leaves what is on its way as it is.               *)
LEMMA SendKeeps ==
  ASSUME TypeOK, NEW m \in Sendable, Sends(m)
  PROVE  /\ \A kind : Coming(kind)' <=> Coming(kind) \/ m.kind = kind
         /\ PrefsComing /\ m.kind # "prefs" /\ UNCHANGED <<active, prefs>> => PrefsComing'
         /\ LastAnswerIsItsOwn /\ m.kind # "messages" /\ UNCHANGED dialog
              => LastAnswerIsItsOwn'
  <1>1. \A kind : Coming(kind)' <=> Coming(kind) \/ m.kind = kind
    BY Appended DEF Coming
  <1>2. ASSUME PrefsComing, m.kind # "prefs", UNCHANGED <<active, prefs>>
        PROVE  PrefsComing'
    BY <1>2, Appended DEF PrefsComing, Stored
  <1>3. ASSUME LastAnswerIsItsOwn, m.kind # "messages", UNCHANGED dialog
        PROVE  LastAnswerIsItsOwn'
    <2> SUFFICES ASSUME dialog.of # NoContact, NEW i \in DOMAIN inbox', LastOf("messages", i)'
                 PROVE  inbox'[i].of = dialog.of
      BY <1>3 DEF LastAnswerIsItsOwn
    <2>1. i \in DOMAIN inbox /\ inbox'[i] = inbox[i]
      BY <1>3, Appended DEF LastOf
    <2>2. LastOf("messages", i)
      BY <2>1, Appended DEF LastOf
    <2> QED
      BY <1>3, <2>1, <2>2 DEF LastAnswerIsItsOwn
  <1> QED
    BY <1>1, <1>2, <1>3

(* So does one that is taken.                                               *)
LEMMA ReceiveKeeps ==
  ASSUME TypeOK, NEW kind, Receive(kind), UNCHANGED prefs
  PROVE  /\ \A k : k # kind => (Coming(k)' <=> Coming(k))
         /\ PrefsComing => PrefsComing'
         /\ LastAnswerIsItsOwn /\ dialog'.of = dialog.of => LastAnswerIsItsOwn'
  <1>1. inbox # <<>> /\ inbox' = Tail(inbox) /\ Head(inbox).kind = kind /\ active' = active
    BY DEF Receive
  <1>2. ASSUME NEW k, k # kind
        PROVE  Coming(k)' <=> Coming(k)
    <2>1. ASSUME NEW i \in DOMAIN inbox', inbox'[i].kind = k
          PROVE  Coming(k)
      BY <1>1, <2>1, Taken DEF Coming
    <2>2. ASSUME NEW i \in DOMAIN inbox, inbox[i].kind = k
          PROVE  Coming(k)'
      <3>1. i # 1
        BY <1>1, <1>2, <2>2, Taken
      <3>2. i - 1 \in DOMAIN inbox' /\ inbox'[i - 1].kind = k
        BY <1>1, <2>2, <3>1, Taken
      <3> QED
        BY <3>2 DEF Coming
    <2> QED
      BY <2>1, <2>2 DEF Coming
  <1>3. ASSUME PrefsComing
        PROVE  PrefsComing'
    <2> SUFFICES ASSUME active # Nobody, NEW i \in DOMAIN inbox', inbox'[i].kind = "prefs"
                 PROVE  inbox'[i].filters = Stored(active)'
      BY <1>1 DEF PrefsComing
    <2>1. i + 1 \in DOMAIN inbox /\ inbox'[i] = inbox[i + 1]
      BY <1>1, Taken
    <2>2. inbox[i + 1].filters = Stored(active)
      BY <1>3, <2>1 DEF PrefsComing
    <2> QED
      BY <1>1, <2>1, <2>2 DEF Stored
  <1>4. ASSUME LastAnswerIsItsOwn, dialog'.of = dialog.of
        PROVE  LastAnswerIsItsOwn'
    <2> SUFFICES ASSUME dialog.of # NoContact, NEW i \in DOMAIN inbox', LastOf("messages", i)'
                 PROVE  inbox'[i].of = dialog.of
      BY <1>4 DEF LastAnswerIsItsOwn
    <2>1. i + 1 \in DOMAIN inbox /\ inbox'[i] = inbox[i + 1]
      BY <1>1, Taken
    <2>2. LastOf("messages", i + 1)
      <3> SUFFICES ASSUME NEW j \in DOMAIN inbox, j > i + 1
                   PROVE  inbox[j].kind # "messages"
        BY <2>1 DEF LastOf
      <3>1. i \in Nat /\ j \in Nat /\ j # 1 /\ j - 1 > i
        BY <1>1, Taken
      <3>2. j - 1 \in DOMAIN inbox' /\ inbox'[j - 1] = inbox[j]
        BY <1>1, <3>1, Taken
      <3> QED
        BY <3>1, <3>2 DEF LastOf
    <2> QED
      BY <1>4, <2>1, <2>2 DEF LastAnswerIsItsOwn
  <1> QED
    BY <1>2, <1>3, <1>4

-----------------------------------------------------------------------------
(* Types.                                                                   *)

LEMMA StoredTyped ==
  ASSUME TypeOK, NEW a \in Account
  PROVE  /\ Stored(a) \in Filters
         /\ prefs[a] # {} => Stored(a) \in prefs[a]
  <1>1. DefaultFilters \in Filters
    BY DEF DefaultFilters, Filters, Mode
  <1>2. ASSUME prefs[a] # {}
        PROVE  Stored(a) \in Filters /\ Stored(a) \in prefs[a]
    <2>1. PICK f \in Filters : prefs[a] = {f}
      BY <1>2 DEF TypeOK
    <2>2. Stored(a) = CHOOSE g \in Filters : g \in prefs[a]
      BY <1>2 DEF Stored
    <2> QED
      BY <2>1, <2>2
  <1> QED
    BY <1>1, <1>2 DEF Stored

(* What is stored for the active account is what it finds at its next start.*)
LEMMA StoreIsFound ==
  ASSUME TypeOK, SessionAgrees, active # Nobody, NEW f \in Filters
  PROVE  /\ Store(creds, {f}) => /\ prefs' \in [Account -> {{}} \cup {{g} : g \in Filters}]
                                 /\ prefs' = [prefs EXCEPT ![active] = {f}]
                                 /\ active' = active => Stored(active)' = f
         /\ Store(creds, {}) => /\ prefs' \in [Account -> {{}} \cup {{g} : g \in Filters}]
                                /\ prefs' = [prefs EXCEPT ![active] = {}]
                                /\ active' = active => Stored(active)' = DefaultFilters
  <1>1. /\ active \in Account /\ creds = active
        /\ prefs \in [Account -> {{}} \cup {{g} : g \in Filters}]
    BY DEF TypeOK, SessionAgrees
  <1>2. ASSUME NEW value \in {{}} \cup {{g} : g \in Filters}, Store(creds, value)
        PROVE  /\ prefs' \in [Account -> {{}} \cup {{g} : g \in Filters}]
               /\ prefs' = [prefs EXCEPT ![active] = value]
               /\ prefs'[active] = value
    BY <1>1, <1>2 DEF Store, Key
  <1>3. ASSUME prefs'[active] = {f}, active' = active
        PROVE  Stored(active)' = f
    BY <1>3 DEF Stored
  <1>4. ASSUME prefs'[active] = {}, active' = active
        PROVE  Stored(active)' = DefaultFilters
    BY <1>4 DEF Stored, DefaultFilters
  <1> QED
    BY <1>2, <1>3, <1>4

LEMMA SelectionTyped ==
  ASSUME NEW S \in SUBSET Folder, NEW all \in SUBSET Folder, NEW dir
  PROVE  EnsureSent(S, all, dir) \subseteq Folder
  BY DEF EnsureSent

LEMMA InitInv ==
  Init => TypeOK /\ SessionAgrees /\ PrefsComing /\ LastAnswerIsItsOwn
  <1> SUFFICES ASSUME Init
               PROVE  TypeOK /\ SessionAgrees /\ PrefsComing /\ LastAnswerIsItsOwn
    OBVIOUS
  <1>1. inbox = <<>> /\ DOMAIN inbox = {} /\ inbox \in Seq(Sendable)
    BY DEF Init
  <1>2. TypeOK
    BY <1>1 DEF Init, InitSlice, TypeOK, DefaultFilters, NoDialog, Filters, Mode
  <1> QED
    BY <1>1, <1>2 DEF Init, SessionAgrees, PrefsComing, LastAnswerIsItsOwn

(* The clicks on the filters: one lemma for the three.                      *)
LEMMA EditsTyped ==
  ASSUME TypeOK, SessionAgrees, NEW f \in Filters, Edits(f), selected' \subseteq Folder
  PROVE  TypeOK' /\ active # Nobody
  <1>1. /\ active # Nobody /\ filters' = f /\ Store(creds, {f})
        /\ UNCHANGED <<creds, listing, run, route, active, folders, loading, status, rows,
                       dialog, inbox>>
    BY DEF Edits, AtFilters, SessionAgrees
  <1>2. prefs' \in [Account -> {{}} \cup {{g} : g \in Filters}]
    BY <1>1, StoreIsFound
  <1> QED
    BY <1>1, <1>2 DEF TypeOK

LEMMA SliceResetTyped ==
  ASSUME SliceReset
  PROVE  /\ folders' = {} /\ loading' = FALSE /\ selected' = {} /\ filters' \in Filters
         /\ status' = "idle" /\ rows' = FALSE /\ filters' = DefaultFilters
  BY DEF SliceReset, DefaultFilters, Filters, Mode

LEMMA ClickTyped ==
  ASSUME TypeOK, SessionAgrees, Click
  PROVE  TypeOK'
  <1>1. ASSUME NEW a \in Account, Login(a)
        PROVE  TypeOK'
    <2>1. [kind |-> "prefs", filters |-> Stored(a)] \in Sendable
      BY StoredTyped DEF Sendable
    <2>2. inbox' \in Seq(Sendable)
      BY <1>1, <2>1, Appended DEF Login
    <2>3. /\ creds' = a /\ active' = a /\ route' = "scan" /\ SliceReset
          /\ UNCHANGED <<prefs, listing, run, dialog>>
      BY <1>1 DEF Login
    <2> QED
      BY <2>2, <2>3, SliceResetTyped DEF TypeOK
  <1>2. CASE SwitchAccount
    <2>1. [kind |-> "started"] \in Sendable
      BY DEF Sendable
    <2>2. inbox' \in Seq(Sendable)
      BY <1>2, <2>1, Appended, InboxTyped DEF SwitchAccount
    <2>3. /\ creds' = Nobody /\ active' = Nobody /\ route' = "connect" /\ SliceReset
          /\ run' = FALSE /\ dialog' = NoDialog /\ UNCHANGED <<prefs, listing>>
      BY <1>2 DEF SwitchAccount
    <2> QED
      BY <2>2, <2>3, SliceResetTyped DEF TypeOK, NoDialog
  <1>3. ASSUME NEW S \in SUBSET Folder, Selects(S)
        PROVE  TypeOK'
    <2>1. selected' \subseteq Folder
      BY <1>3, SelectionTyped DEF Selects, TypeOK
    <2> QED
      BY <1>3, <2>1 DEF Selects, TypeOK, mainVars
  <1>4. ASSUME NEW f \in Folder, ToggleFolder(f)
        PROVE  TypeOK'
    <2>1. (IF f \in selected THEN selected \ {f} ELSE selected \cup {f}) \in SUBSET Folder
      BY DEF TypeOK
    <2> QED
      BY <1>3, <1>4, <2>1 DEF ToggleFolder
  <1>5. CASE SelectAll \/ SelectNone \/ SelectInbox
    <2>1. folders \in SUBSET Folder /\ {} \in SUBSET Folder /\ {Inbox} \in SUBSET Folder
      BY DEF TypeOK
    <2> QED
      BY <1>3, <1>5, <2>1 DEF SelectAll, SelectNone, SelectInbox
  <1>6. ASSUME NEW m \in {"bi", "one"}, SetDirection(m)
        PROVE  TypeOK'
    <2> DEFINE dir == IF filters.dir = m THEN "off" ELSE m
    <2>1. /\ Edits([filters EXCEPT !.dir = dir])
          /\ selected' = EnsureSent(selected, folders, dir)
      BY <1>6 DEF SetDirection
    <2>2. [filters EXCEPT !.dir = dir] \in Filters
      BY DEF TypeOK, Filters, Mode
    <2>3. selected' \subseteq Folder
      BY <2>1, SelectionTyped DEF TypeOK
    <2> QED
      BY <2>1, <2>2, <2>3, EditsTyped
  <1>7. ASSUME NEW w \in {active, Nobody}, SetWords(w)
        PROVE  TypeOK'
    <2>1. Edits([filters EXCEPT !.words = w]) /\ selected' \subseteq Folder
      BY <1>7 DEF SetWords, TypeOK
    <2>2. [filters EXCEPT !.words = w] \in Filters
      BY DEF TypeOK, Filters
    <2> QED
      BY <2>1, <2>2, EditsTyped
  <1>8. CASE ResetFilters
    <2>1. /\ active # Nobody /\ filters' = DefaultFilters /\ Store(creds, {})
          /\ UNCHANGED <<creds, listing, run, route, active, folders, loading, selected, status,
                         rows, dialog, inbox>>
      BY <1>8 DEF ResetFilters, AtFilters, SessionAgrees
    <2>2. DefaultFilters \in Filters
      BY DEF DefaultFilters, Filters, Mode
    <2>3. prefs' \in [Account -> {{}} \cup {{g} : g \in Filters}]
      BY <2>1, <2>2, StoreIsFound
    <2> QED
      BY <2>1, <2>2, <2>3 DEF TypeOK
  <1>9. CASE StartScan \/ CancelScan
    BY <1>9 DEF StartScan, CancelScan, TypeOK, mainVars
  <1>10. CASE ResetCache \/ BackToScan
    <2>1. dialog' \in [of : Contact \cup {NoContact}, shown : Contact \cup {NoContact}]
      BY <1>10 DEF ResetCache, BackToScan, NoDialog
    <2>2. CASE ResetCache
      BY <2>1, <2>2 DEF ResetCache, TypeOK, mainVars
    <2>3. CASE BackToScan
      BY <2>1, <2>3 DEF BackToScan, TypeOK, mainVars, sliceVars
    <2> QED
      BY <1>10, <2>2, <2>3
  <1>11. CASE CloseDialog
    <2>1. dialog' \in [of : Contact \cup {NoContact}, shown : Contact \cup {NoContact}]
      BY <1>11 DEF CloseDialog, TypeOK
    <2> QED
      BY <1>11, <2>1 DEF CloseDialog, TypeOK, mainVars, sliceVars
  <1>12. ASSUME NEW c \in Contact, OpenDialog(c)
         PROVE  TypeOK'
    <2>1. [kind |-> "messages", of |-> c] \in Sendable
      BY DEF Sendable
    <2>2. inbox' \in Seq(Sendable)
      BY <1>12, <2>1, Appended DEF OpenDialog
    <2> QED
      BY <1>12, <2>2 DEF OpenDialog, TypeOK, mainVars, sliceVars
  <1> QED
    BY <1>1, <1>2, <1>4, <1>5, <1>6, <1>7, <1>8, <1>9, <1>10, <1>11, <1>12 DEF Click

LEMMA NextTyped ==
  TypeOK /\ SessionAgrees /\ [Next]_vars => TypeOK'
  <1> SUFFICES ASSUME TypeOK, SessionAgrees, [Next]_vars
               PROVE  TypeOK'
    OBVIOUS
  <1>1. CASE Quit
    <2>1. inbox' = <<>> /\ inbox' \in Seq(Sendable)
      BY <1>1 DEF Quit
    <2> QED
      BY <1>1, <2>1, SliceResetTyped DEF Quit, TypeOK, NoDialog
  <1>2. CASE FetchFolders
    BY <1>2 DEF FetchFolders, TypeOK
  <1>3. ASSUME NEW kind \in {"folders", "snapshot", "started"}, Sends([kind |-> kind])
        PROVE  inbox' \in Seq(Sendable)
    <2>1. [kind |-> kind] \in Sendable
      BY DEF Sendable
    <2> QED
      BY <1>3, <2>1, Appended
  <1>4. CASE ListFolders \/ SendSnapshot \/ EndScan
    <2>1. inbox' \in Seq(Sendable)
      BY <1>3, <1>4 DEF ListFolders, SendSnapshot, EndScan
    <2>2. listing' \in BOOLEAN /\ run' \in BOOLEAN
      BY <1>4 DEF ListFolders, SendSnapshot, EndScan, TypeOK, mainVars
    <2>3. UNCHANGED <<creds, prefs, route, active, sliceVars, dialog>>
      BY <1>4 DEF ListFolders, SendSnapshot, EndScan, mainVars
    <2> QED
      BY <2>1, <2>2, <2>3 DEF TypeOK, sliceVars
  <1>5. ASSUME NEW kind, Receive(kind)
        PROVE  /\ inbox' \in Seq(Sendable) /\ Head(inbox) \in Sendable
               /\ Head(inbox).kind = kind
               /\ UNCHANGED <<mainVars, route, active>>
    BY <1>5, Taken DEF Receive
  <1>6. CASE HydrateFilters
    <2>1. Head(inbox).filters \in Filters
      BY <1>5, <1>6 DEF HydrateFilters, Sendable
    <2> QED
      BY <1>5, <1>6, <2>1 DEF HydrateFilters, TypeOK, mainVars
  <1>7. CASE FoldersFetched
    <2>1. (IF selected = {} THEN Folder ELSE selected) \in SUBSET Folder
      BY DEF TypeOK
    <2>2. selected' \subseteq Folder
      BY <1>7, <2>1, SelectionTyped DEF FoldersFetched
    <2>3. /\ inbox' \in Seq(Sendable) /\ loading' = FALSE /\ folders' = Folder
          /\ UNCHANGED <<mainVars, route, active, filters, status, rows, dialog>>
      BY <1>5, <1>7 DEF FoldersFetched
    <2> QED
      BY <2>2, <2>3 DEF TypeOK, mainVars
  <1>8. CASE SnapshotAppended \/ Started
    BY <1>5, <1>8 DEF SnapshotAppended, Started, TypeOK, mainVars
  <1>9. CASE MessagesListed
    <2>1. Head(inbox).of \in Contact
      BY <1>5, <1>9 DEF MessagesListed, Sendable
    <2>2. dialog' \in [of : Contact \cup {NoContact}, shown : Contact \cup {NoContact}]
      BY <1>9, <2>1 DEF MessagesListed, TypeOK
    <2> QED
      BY <1>5, <1>9, <2>2 DEF MessagesListed, TypeOK, mainVars, sliceVars
  <1>10. CASE UNCHANGED vars
    BY <1>10 DEF vars, mainVars, sliceVars, TypeOK
  <1> QED
    BY <1>1, <1>2, <1>4, <1>6, <1>7, <1>8, <1>9, <1>10, ClickTyped DEF Next, Deliver

-----------------------------------------------------------------------------
(* What is on its way, and the theorems.                                    *)

LEMMA NextAgrees ==
  TypeOK /\ SessionAgrees /\ [Next]_vars => SessionAgrees'
  <1> SUFFICES ASSUME TypeOK, SessionAgrees, [Next]_vars
               PROVE  SessionAgrees'
    OBVIOUS
  <1>1. ASSUME NEW a \in Account, Login(a)
        PROVE  SessionAgrees'
    BY <1>1 DEF Login, SessionAgrees
  <1>2. CASE SwitchAccount \/ Quit
    BY <1>2 DEF SwitchAccount, Quit, SessionAgrees
  <1>3. CASE StartScan \/ ResetCache \/ BackToScan
    BY <1>3 DEF StartScan, ResetCache, BackToScan, SessionAgrees, mainVars
  <1>4. CASE UNCHANGED <<creds, active, route>>
    BY <1>4 DEF SessionAgrees
  <1>5. ASSUME NEW f \in Folder, ToggleFolder(f)
        PROVE  UNCHANGED <<creds, active, route>>
    BY <1>5 DEF ToggleFolder, Selects, mainVars
  <1>6. ASSUME NEW m, SetDirection(m) \/ SetWords(m)
        PROVE  UNCHANGED <<creds, active, route>>
    BY <1>6 DEF SetDirection, SetWords, Edits
  <1>7. ASSUME NEW c, OpenDialog(c)
        PROVE  UNCHANGED <<creds, active, route>>
    BY <1>7 DEF OpenDialog, mainVars
  <1>8. CASE SelectAll \/ SelectNone \/ SelectInbox \/ ResetFilters \/ CancelScan \/ CloseDialog
    BY <1>4, <1>8 DEF SelectAll, SelectNone, SelectInbox, Selects, ResetFilters, CancelScan,
                      CloseDialog, mainVars
  <1>9. CASE FetchFolders \/ ListFolders \/ SendSnapshot \/ EndScan
    BY <1>4, <1>9 DEF FetchFolders, ListFolders, SendSnapshot, EndScan, mainVars
  <1>10. CASE Deliver
    BY <1>4, <1>10 DEF Deliver, HydrateFilters, FoldersFetched, SnapshotAppended, Started,
                       MessagesListed, Receive, mainVars
  <1>11. CASE UNCHANGED vars
    BY <1>4, <1>11 DEF vars, mainVars
  <1> QED
    BY <1>1, <1>2, <1>3, <1>4, <1>5, <1>6, <1>7, <1>8, <1>9, <1>10, <1>11 DEF Next, Click

(* Each step of the screens and of the main process, by what it does to the *)
(* filters, to what is on its way and to the dialog.                        *)
EditStep ==
  /\ active # Nobody /\ ~Coming("prefs")
  /\ filters'.words \in {active, Nobody, filters.words}
  /\ \/ filters' \in Filters /\ Store(creds, {filters'})
     \/ filters' = DefaultFilters /\ Store(creds, {})
  /\ UNCHANGED <<active, dialog, inbox>>

ResetStep ==
  /\ filters' = DefaultFilters /\ prefs' = prefs
  /\ \/ active' = Nobody /\ dialog' = NoDialog
     \/ \E a \in Account : /\ active' = a /\ inbox = <<>>
                           /\ Sends([kind |-> "prefs", filters |-> Stored(a)])
                           /\ dialog' = dialog

SendStep ==
  /\ UNCHANGED <<active, prefs, filters>>
  /\ \/ dialog' = dialog /\ \E kind \in {"folders", "snapshot", "started"} :
                              Sends([kind |-> kind])
     \/ \E c \in Contact : /\ dialog' = [of |-> c, shown |-> NoContact]
                           /\ Sends([kind |-> "messages", of |-> c])

TakeStep ==
  /\ UNCHANGED prefs
  /\ \/ HydrateFilters
     \/ MessagesListed /\ UNCHANGED filters
     \/ \E kind : kind \notin {"prefs", "messages"} /\ Receive(kind) /\ UNCHANGED <<filters, dialog>>

QuietStep ==
  /\ UNCHANGED <<active, prefs, filters, inbox>>
  /\ dialog' = dialog \/ dialog'.of = NoContact

LEMMA StepKinds ==
  TypeOK /\ SessionAgrees /\ [Next]_vars =>
    EditStep \/ ResetStep \/ SendStep \/ TakeStep \/ QuietStep
  <1> SUFFICES ASSUME TypeOK, SessionAgrees, [Next]_vars
               PROVE  EditStep \/ ResetStep \/ SendStep \/ TakeStep \/ QuietStep
    OBVIOUS
  <1>1. ASSUME NEW a \in Account, Login(a)
        PROVE  ResetStep
    BY <1>1, SliceResetTyped DEF Login, ResetStep
  <1>2. CASE SwitchAccount \/ Quit
    BY <1>2, SliceResetTyped DEF SwitchAccount, Quit, ResetStep
  <1>3. ASSUME NEW f, Edits(f), f \in Filters, f.words \in {active, Nobody, filters.words}
        PROVE  EditStep
    BY <1>3 DEF Edits, AtFilters, SessionAgrees, EditStep
  <1>4. ASSUME NEW m \in {"bi", "one"}, SetDirection(m)
        PROVE  EditStep
    <2> DEFINE dir == IF filters.dir = m THEN "off" ELSE m
    <2>1. Edits([filters EXCEPT !.dir = dir])
      BY <1>4 DEF SetDirection
    <2>2. [filters EXCEPT !.dir = dir] \in Filters
          /\ [filters EXCEPT !.dir = dir].words = filters.words
      BY DEF TypeOK, Filters, Mode
    <2> QED
      BY <1>3, <2>1, <2>2
  <1>5. ASSUME NEW w \in {active, Nobody}, SetWords(w)
        PROVE  EditStep
    <2>1. Edits([filters EXCEPT !.words = w])
      BY <1>5 DEF SetWords
    <2>2. [filters EXCEPT !.words = w] \in Filters /\ [filters EXCEPT !.words = w].words = w
      BY DEF TypeOK, Filters
    <2> QED
      BY <1>3, <2>1, <2>2
  <1>6. CASE ResetFilters
    <2>1. DefaultFilters.words = Nobody
      BY DEF DefaultFilters
    <2> QED
      BY <1>6, <2>1 DEF ResetFilters, AtFilters, SessionAgrees, EditStep
  <1>7. ASSUME NEW f \in Folder, ToggleFolder(f)
        PROVE  QuietStep
    BY <1>7 DEF ToggleFolder, Selects, mainVars, QuietStep
  <1>8. CASE SelectAll \/ SelectNone \/ SelectInbox
    BY <1>8 DEF SelectAll, SelectNone, SelectInbox, Selects, mainVars, QuietStep
  <1>9. CASE StartScan \/ CancelScan \/ ResetCache \/ BackToScan
    BY <1>9 DEF StartScan, CancelScan, ResetCache, BackToScan, NoDialog, mainVars, sliceVars,
                QuietStep
  <1>10. CASE CloseDialog
    <2>1. dialog'.of = NoContact
      BY <1>10 DEF CloseDialog, TypeOK
    <2> QED
      BY <1>10, <2>1 DEF CloseDialog, mainVars, sliceVars, QuietStep
  <1>11. ASSUME NEW c \in Contact, OpenDialog(c)
         PROVE  SendStep
    BY <1>11 DEF OpenDialog, mainVars, sliceVars, SendStep
  <1>12. CASE FetchFolders
    BY <1>12 DEF FetchFolders, QuietStep
  <1>13. CASE ListFolders \/ SendSnapshot \/ EndScan
    BY <1>13 DEF ListFolders, SendSnapshot, EndScan, mainVars, sliceVars, SendStep
  <1>14. CASE HydrateFilters
    BY <1>14 DEF HydrateFilters, Receive, mainVars, TakeStep
  <1>15. CASE MessagesListed
    BY <1>15 DEF MessagesListed, Receive, mainVars, sliceVars, TakeStep
  <1>16. CASE FoldersFetched \/ SnapshotAppended \/ Started
    BY <1>16 DEF FoldersFetched, SnapshotAppended, Started, Receive, mainVars, TakeStep
  <1>17. CASE UNCHANGED vars
    BY <1>17 DEF vars, mainVars, sliceVars, QuietStep
  <1> QED
    BY <1>1, <1>2, <1>4, <1>5, <1>6, <1>7, <1>8, <1>9, <1>10, <1>11, <1>12, <1>13, <1>14,
       <1>15, <1>16, <1>17 DEF Next, Click, Deliver

SliceInv ==
  /\ TypeOK /\ SessionAgrees
  /\ PrefsComing /\ LastAnswerIsItsOwn
  /\ FiltersAreOwn /\ ShownIsStored /\ DialogShowsItsContact

LEMMA EditKeeps ==
  ASSUME SliceInv, EditStep, TypeOK', SessionAgrees'
  PROVE  SliceInv'
  <1>1. /\ active \in Account /\ active # Nobody /\ ~Coming("prefs")
        /\ UNCHANGED <<active, dialog, inbox>>
        /\ TypeOK /\ SessionAgrees
    BY DEF EditStep, SliceInv, TypeOK
  <1>2. filters' \in Filters /\ filters'.words \in {active, Nobody}
    <2>1. filters.words \in {active, Nobody}
      BY <1>1 DEF SliceInv, FiltersAreOwn
    <2> QED
      BY <2>1 DEF EditStep, TypeOK
  <1>3. /\ Stored(active)' = filters'
        /\ prefs' = [prefs EXCEPT ![active] = {filters'}] \/ prefs' = [prefs EXCEPT ![active] = {}]
    BY <1>1, <1>2, StoreIsFound DEF EditStep
  <1>4. FiltersAreOwn'
    <2>1. \A a \in Account : \A f \in prefs'[a] : (f = filters' /\ a = active) \/ f \in prefs[a]
      BY <1>1, <1>3 DEF TypeOK
    <2>2. \A a \in Account : \A f \in prefs[a] : f.words \in {a, Nobody}
      BY DEF SliceInv, FiltersAreOwn
    <2> QED
      BY <1>1, <1>2, <2>1, <2>2 DEF FiltersAreOwn
  <1>5. PrefsComing'
    BY <1>1 DEF PrefsComing, Coming
  <1>6. LastAnswerIsItsOwn' /\ DialogShowsItsContact'
    BY <1>1 DEF SliceInv, LastAnswerIsItsOwn, LastOf, DialogShowsItsContact
  <1> QED
    BY <1>3, <1>4, <1>5, <1>6 DEF SliceInv, ShownIsStored

LEMMA ResetKeeps ==
  ASSUME SliceInv, ResetStep, TypeOK', SessionAgrees'
  PROVE  SliceInv'
  <1>1. /\ filters' = DefaultFilters /\ filters'.words = Nobody /\ prefs' = prefs
        /\ TypeOK
    BY DEF ResetStep, DefaultFilters, SliceInv
  <1>2. FiltersAreOwn'
    BY <1>1 DEF SliceInv, FiltersAreOwn
  <1>3. CASE active' = Nobody /\ dialog' = NoDialog
    BY <1>2, <1>3 DEF SliceInv, PrefsComing, ShownIsStored, LastAnswerIsItsOwn,
                      DialogShowsItsContact, NoDialog
  <1>4. ASSUME NEW a \in Account, active' = a, inbox = <<>>,
               Sends([kind |-> "prefs", filters |-> Stored(a)]), dialog' = dialog
        PROVE  SliceInv'
    <2>1. inbox' = <<[kind |-> "prefs", filters |-> Stored(a)]>>
      BY <1>4 DEF Sends
    <2>2. DOMAIN inbox' = {1} /\ inbox'[1] = [kind |-> "prefs", filters |-> Stored(a)]
      BY <2>1
    <2>3. Stored(active)' = Stored(a)
      BY <1>1, <1>4 DEF Stored
    <2>4. PrefsComing'
      BY <2>2, <2>3 DEF PrefsComing
    <2>5. Coming("prefs")'
      BY <2>2 DEF Coming
    <2>6. LastAnswerIsItsOwn' /\ DialogShowsItsContact'
      BY <1>4, <2>2 DEF SliceInv, LastAnswerIsItsOwn, LastOf, DialogShowsItsContact
    <2> QED
      BY <1>2, <2>4, <2>5, <2>6 DEF SliceInv, ShownIsStored
  <1> QED
    BY <1>3, <1>4 DEF ResetStep

LEMMA SendKeepsInv ==
  ASSUME SliceInv, SendStep, TypeOK', SessionAgrees'
  PROVE  SliceInv'
  <1>1. /\ UNCHANGED <<active, prefs, filters>> /\ TypeOK
        /\ Stored(active)' = Stored(active)
    BY DEF SendStep, SliceInv, Stored
  <1>2. FiltersAreOwn'
    BY <1>1 DEF SliceInv, FiltersAreOwn
  <1>3. ASSUME NEW m \in Sendable, Sends(m), m.kind # "prefs"
        PROVE  PrefsComing' /\ ShownIsStored'
    BY <1>1, <1>3, SendKeeps DEF SliceInv, ShownIsStored
  <1>4. ASSUME NEW kind \in {"folders", "snapshot", "started"}, Sends([kind |-> kind]),
               dialog' = dialog
        PROVE  SliceInv'
    <2>1. [kind |-> kind] \in Sendable
      BY DEF Sendable
    <2>2. LastAnswerIsItsOwn' /\ DialogShowsItsContact'
      BY <1>1, <1>4, <2>1, SendKeeps DEF SliceInv, DialogShowsItsContact
    <2> QED
      BY <1>2, <1>3, <1>4, <2>1, <2>2 DEF SliceInv
  <1>5. ASSUME NEW c \in Contact, dialog' = [of |-> c, shown |-> NoContact],
               Sends([kind |-> "messages", of |-> c])
        PROVE  SliceInv'
    <2>1. [kind |-> "messages", of |-> c] \in Sendable
      BY DEF Sendable
    <2>2. LastAnswerIsItsOwn'
      <3> SUFFICES ASSUME NEW i \in DOMAIN inbox', LastOf("messages", i)'
                   PROVE  inbox'[i].of = c
        BY <1>5 DEF LastAnswerIsItsOwn
      <3>1. i = Len(inbox) + 1
        BY <1>1, <1>5, <2>1, Appended DEF LastOf
      <3> QED
        BY <1>1, <1>5, <2>1, <3>1, Appended
    <2>3. DialogShowsItsContact'
      BY <1>5 DEF DialogShowsItsContact
    <2> QED
      BY <1>2, <1>3, <1>5, <2>1, <2>2, <2>3 DEF SliceInv
  <1> QED
    BY <1>4, <1>5 DEF SendStep

LEMMA TakeKeepsInv ==
  ASSUME SliceInv, TakeStep, TypeOK', SessionAgrees'
  PROVE  SliceInv'
  <1>1. TypeOK /\ UNCHANGED prefs
    BY DEF TakeStep, SliceInv
  <1>2. ASSUME NEW kind, Receive(kind)
        PROVE  /\ active' = active /\ Stored(active)' = Stored(active)
               /\ PrefsComing'
               /\ dialog'.of = dialog.of => LastAnswerIsItsOwn'
               /\ filters' = filters => FiltersAreOwn'
               /\ filters' = filters /\ kind # "prefs" => ShownIsStored'
               /\ Head(inbox) = inbox[1] /\ 1 \in DOMAIN inbox /\ inbox[1].kind = kind
    <2>1. active' = active /\ Stored(active)' = Stored(active)
      BY <1>1, <1>2 DEF Receive, Stored
    <2>2. PrefsComing' /\ (dialog'.of = dialog.of => LastAnswerIsItsOwn')
      BY <1>1, <1>2, ReceiveKeeps DEF SliceInv
    <2>3. filters' = filters => FiltersAreOwn'
      BY <1>1, <2>1 DEF SliceInv, FiltersAreOwn
    <2>4. filters' = filters /\ kind # "prefs" => ShownIsStored'
      <3>1. kind # "prefs" => (Coming("prefs")' <=> Coming("prefs"))
        BY <1>1, <1>2, ReceiveKeeps
      <3> QED
        BY <2>1, <3>1 DEF SliceInv, ShownIsStored
    <2>5. Head(inbox) = inbox[1] /\ 1 \in DOMAIN inbox /\ inbox[1].kind = kind
      BY <1>1, <1>2, Taken DEF Receive
    <2> QED
      BY <2>1, <2>2, <2>3, <2>4, <2>5
  <1>3. CASE HydrateFilters
    <2>1. /\ Receive("prefs") /\ dialog' = dialog /\ filters' = Head(inbox).filters
      BY <1>3 DEF HydrateFilters
    <2>2. active # Nobody => filters' = Stored(active)
      BY <1>2, <2>1 DEF SliceInv, PrefsComing
    <2>3. active # Nobody => Stored(active).words \in {active, Nobody}
      <3> SUFFICES ASSUME active # Nobody
                   PROVE  Stored(active).words \in {active, Nobody}
        OBVIOUS
      <3>1. active \in Account
        BY <1>1 DEF TypeOK
      <3>2. CASE prefs[active] = {}
        BY <3>2 DEF Stored, DefaultFilters
      <3>3. CASE prefs[active] # {}
        BY <1>1, <3>1, <3>3, StoredTyped DEF SliceInv, FiltersAreOwn
      <3> QED
        BY <3>2, <3>3
    <2>4. FiltersAreOwn'
      BY <1>1, <1>2, <2>1, <2>2, <2>3 DEF SliceInv, FiltersAreOwn
    <2>5. ShownIsStored'
      BY <1>2, <2>1, <2>2 DEF ShownIsStored
    <2>6. DialogShowsItsContact'
      BY <2>1 DEF SliceInv, DialogShowsItsContact
    <2> QED
      BY <1>2, <2>1, <2>4, <2>5, <2>6 DEF SliceInv
  <1>4. CASE MessagesListed /\ UNCHANGED filters
    <2>1. /\ Receive("messages")
          /\ dialog' = IF StillWanted THEN [dialog EXCEPT !.shown = Head(inbox).of] ELSE dialog
      BY <1>4 DEF MessagesListed
    <2>2. dialog'.of = dialog.of
      BY <1>1, <2>1 DEF TypeOK
    <2>3. DialogShowsItsContact'
      <3>1. CASE ~StillWanted
        BY <2>1, <3>1 DEF SliceInv, DialogShowsItsContact
      <3>2. CASE StillWanted
        <4>1. LastOf("messages", 1)
          BY <1>2, <2>1, <3>2 DEF StillWanted, LastOf
        <4>2. Head(inbox).of = dialog.of
          BY <1>2, <2>1, <3>2, <4>1 DEF SliceInv, LastAnswerIsItsOwn, StillWanted
        <4>3. dialog'.shown = dialog.of
          BY <1>1, <2>1, <3>2, <4>2 DEF TypeOK
        <4> QED
          BY <2>2, <4>3 DEF DialogShowsItsContact
      <3> QED
        BY <3>1, <3>2
    <2> QED
      BY <1>2, <1>4, <2>1, <2>2, <2>3 DEF SliceInv
  <1>5. ASSUME NEW kind, kind \notin {"prefs", "messages"}, Receive(kind),
               UNCHANGED <<filters, dialog>>
        PROVE  SliceInv'
    <2>1. DialogShowsItsContact'
      BY <1>5 DEF SliceInv, DialogShowsItsContact
    <2> QED
      BY <1>2, <1>5, <2>1 DEF SliceInv
  <1> QED
    BY <1>3, <1>4, <1>5 DEF TakeStep

LEMMA QuietKeeps ==
  ASSUME SliceInv, QuietStep, TypeOK', SessionAgrees'
  PROVE  SliceInv'
  <1>1. UNCHANGED <<active, prefs, filters, inbox>> /\ (dialog' = dialog \/ dialog'.of = NoContact)
    BY DEF QuietStep
  <1>2. Stored(active)' = Stored(active) /\ Coming("prefs")' = Coming("prefs")
    BY <1>1 DEF Stored, Coming
  <1>3. FiltersAreOwn' /\ ShownIsStored' /\ PrefsComing'
    BY <1>1, <1>2 DEF SliceInv, FiltersAreOwn, ShownIsStored, PrefsComing
  <1>4. LastAnswerIsItsOwn' /\ DialogShowsItsContact'
    BY <1>1 DEF SliceInv, LastAnswerIsItsOwn, LastOf, DialogShowsItsContact
  <1> QED
    BY <1>3, <1>4 DEF SliceInv

LEMMA SpecInv == Spec => []SliceInv
  <1>1. Init => SliceInv
    <2> SUFFICES ASSUME Init PROVE SliceInv
      OBVIOUS
    <2>1. active = Nobody /\ dialog = NoDialog /\ \A a \in Account : prefs[a] = {}
      BY DEF Init
    <2> QED
      BY <2>1, InitInv DEF SliceInv, FiltersAreOwn, ShownIsStored, DialogShowsItsContact,
                           NoDialog
  <1>2. SliceInv /\ [Next]_vars => SliceInv'
    <2> SUFFICES ASSUME SliceInv, [Next]_vars PROVE SliceInv'
      OBVIOUS
    <2>1. TypeOK' /\ SessionAgrees'
      BY NextTyped, NextAgrees DEF SliceInv
    <2> QED
      BY <2>1, StepKinds, EditKeeps, ResetKeeps, SendKeepsInv, TakeKeepsInv, QuietKeeps
         DEF SliceInv
  <1> QED
    BY <1>1, <1>2, PTL DEF Spec

(* The screens keep their slices well formed, and a filter is one of the    *)
(* settings the schema knows, wherever it is kept or on its way.            *)
THEOREM ScanSliceTypeCorrect == Spec => []TypeOK
  BY SpecInv, PTL DEF SliceInv

(* What a user set up under one account neither shows nor is stored under   *)
(* another (handlers.ts:300-301).                                           *)
THEOREM FiltersStayWithAccount == Spec => []FiltersAreOwn
  BY SpecInv, PTL DEF SliceInv

(* The filters on the screen are those the next start will find, for every  *)
(* order of edits, resets, logins and answers (scan/epic.ts:120-206).       *)
THEOREM FiltersSurvive == Spec => []ShownIsStored
  BY SpecInv, PTL DEF SliceInv

(* The dialog never shows the messages of another contact than the one it   *)
(* names, however long the answers are under way                            *)
(* (ContactMessagesDialog.tsx:77-102).                                      *)
THEOREM DialogIsOfItsContact == Spec => []DialogShowsItsContact
  BY SpecInv, PTL DEF SliceInv

=============================================================================
