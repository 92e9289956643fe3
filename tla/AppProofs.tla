------------------------------ MODULE AppProofs ------------------------------
(***************************************************************************)
(* What holds of Session for every number of accounts, calls, scans and    *)
(* connections, and then of App: whatever the screens do, the main process *)
(* makes none but Session's steps, so what holds of Session for every      *)
(* order of calls holds of the program, patient user or hasty.             *)
(***************************************************************************)
EXTENDS App, Integers, TLAPS

(* A login that is under way is for an account.                             *)
LoginsHaveAccount == \A g \in Login : login[g].at # "idle" => login[g].acct \in Account

(* Only a run under way is aborted.                                         *)
AbortedIsLive == \A r \in aborted : run[r].at \in Live

(* While a call refers to the session's client, or it is open, the session  *)
(* has credentials: they are only forgotten together with the client.       *)
ReferredTo(o) ==
  \/ sock[o] # Nobody
  \/ \E l \in Lister : lister[l].obj = o
  \/ \E r \in Run : run[r].obj = o

ClientInUseHasCreds == client # None /\ ReferredTo(client) => creds # Nobody

Types == TypeOK /\ LoginsHaveAccount

USE SessionAssumption DEF SessionAssumption, None, Object

-----------------------------------------------------------------------------
(* The operators the actions are built from.                                *)

(* TheClient is the session's client, or else an object nobody refers to.   *)
LEMMA TheClientIsFree ==
  ASSUME TypeOK, CanMakeOne
  PROVE  /\ TheClient \in Object
         /\ client # None => TheClient = client
         /\ client = None => /\ \A l \in Lister : lister[l].obj # TheClient
                             /\ \A r \in Run : run[r].obj # TheClient
  <1>1. CASE client # None
    BY <1>1 DEF TheClient, TypeOK
  <1>2. CASE client = None
    <2>1. \E o \in Object : o \notin InUse
      BY <1>2 DEF CanMakeOne
    <2>2. TheClient \in Object /\ TheClient \notin InUse
      BY <1>2, <2>1 DEF TheClient
    <2> QED BY <1>2, <2>2 DEF InUse
  <1> QED BY <1>1, <1>2

LEMMA OpenedTypes ==
  ASSUME TypeOK, NEW o \in Object, NEW a \in Whose
  PROVE  Opened(o, a) \in [Object -> Whose]
  BY DEF Opened, TypeOK

(* Opening an object opens no other. *)
LEMMA OpenedOnlyThat ==
  ASSUME TypeOK, NEW o \in Object, NEW a \in Whose, NEW p \in Object, p # o
  PROVE  Opened(o, a)[p] = sock[p]
  BY DEF Opened, TypeOK

LEMMA CutOffKeeps ==
  ASSUME TypeOK, NEW o, NEW at
  PROVE  /\ CutOff(o, at) \in [Lister -> [at : ListerAt, obj : Object \cup {None}, acct : Whose]]
         /\ \A l \in Lister : CutOff(o, at)[l].obj = lister[l].obj
  BY DEF CutOff, TypeOK, ListerAt

LEMMA NothingsTypes ==
  /\ Nobody \in Whose
  /\ NoLogin \in [at : LoginAt, acct : Whose]
  /\ NoLister \in [at : ListerAt, obj : Object \cup {None}, acct : Whose]
  /\ NoRun \in [at : RunAt, obj : Object \cup {None}, acct : Whose, owns : BOOLEAN,
                redial : BOOLEAN]
  BY DEF Whose, NoLogin, NoLister, NoRun, LoginAt, ListerAt, RunAt, Live

(* A call stays of its type when it goes from one await to the next. *)
LEMMA StagesTypes ==
  ASSUME TypeOK
  PROVE  /\ \A r \in Run, at \in RunAt, owns \in BOOLEAN :
               [run[r] EXCEPT !.at = at, !.owns = owns]
                 \in [at : RunAt, obj : Object \cup {None}, acct : Whose, owns : BOOLEAN,
                      redial : BOOLEAN]
         /\ \A r \in Run, at \in RunAt :
               [run[r] EXCEPT !.at = at]
                 \in [at : RunAt, obj : Object \cup {None}, acct : Whose, owns : BOOLEAN,
                      redial : BOOLEAN]
         /\ \A l \in Lister, at \in ListerAt :
               [lister[l] EXCEPT !.at = at] \in [at : ListerAt, obj : Object \cup {None}, acct : Whose]
  <1>1. /\ \A r \in Run : run[r] \in [at : RunAt, obj : Object \cup {None}, acct : Whose,
                                     owns : BOOLEAN, redial : BOOLEAN]
        /\ \A l \in Lister : lister[l] \in [at : ListerAt, obj : Object \cup {None}, acct : Whose]
    BY DEF TypeOK
  <1> QED BY <1>1

(* Dialling again, a run stays what it is otherwise.                         *)
LEMMA RedialsTypes ==
  ASSUME TypeOK, NEW r \in Run, RunDials(r) \/ RunReconnects(r)
  PROVE  /\ run' \in [Run -> [at : RunAt, obj : Object \cup {None}, acct : Whose, owns : BOOLEAN,
                              redial : BOOLEAN]]
         /\ \A q \in Run : /\ run'[q].at = run[q].at
                          /\ run'[q].obj = run[q].obj
                          /\ run'[q].acct = run[q].acct
  <1>1. \A q \in Run : run[q] \in [at : RunAt, obj : Object \cup {None}, acct : Whose,
                                  owns : BOOLEAN, redial : BOOLEAN]
    BY DEF TypeOK
  <1>2. PICK d \in BOOLEAN : run' = [run EXCEPT ![r] = [run[r] EXCEPT !.redial = d]]
    <2>1. CASE RunDials(r)
      BY <2>1 DEF RunDials, TypeOK
    <2>2. CASE RunReconnects(r)
      BY <2>2 DEF RunReconnects, TypeOK
    <2> QED BY <2>1, <2>2
  <1>3. /\ [run[r] EXCEPT !.redial = d] \in [at : RunAt, obj : Object \cup {None}, acct : Whose,
                                              owns : BOOLEAN, redial : BOOLEAN]
        /\ [run[r] EXCEPT !.redial = d].at = run[r].at
        /\ [run[r] EXCEPT !.redial = d].obj = run[r].obj
        /\ [run[r] EXCEPT !.redial = d].acct = run[r].acct
    BY <1>1
  <1> QED BY <1>2, <1>3 DEF TypeOK

(* A run's end: it is neither registered nor aborted, and refers to nothing. *)
LEMMA EndsTypes ==
  ASSUME TypeOK, NEW r \in Run, Ends(r)
  PROVE  /\ run' \in [Run -> [at : RunAt, obj : Object \cup {None}, acct : Whose, owns : BOOLEAN,
                              redial : BOOLEAN]]
         /\ scans' \subseteq Run
         /\ aborted' \subseteq Run
  BY NothingsTypes DEF Ends, TypeOK

LEMMA EndsRegistry ==
  ASSUME TypeOK, AbortedIsLive, NoScanEscapes, NEW r \in Run, Ends(r)
  PROVE  (AbortedIsLive /\ NoScanEscapes)'
  <1>1. run'[r].at = "idle" /\ \A q \in Run \ {r} : run'[q] = run[q]
    BY DEF Ends, TypeOK, NoRun
  <1>2. AbortedIsLive'
    BY <1>1 DEF Ends, AbortedIsLive, TypeOK
  <1>3. "idle" \notin Live
    BY DEF Live
  <1>4. \A q \in Run : q \in scans' <=> run'[q].at \in Live /\ q \notin aborted'
    BY <1>1, <1>3 DEF Ends, NoScanEscapes
  <1> QED BY <1>2, <1>4, EndsTypes DEF NoScanEscapes

-----------------------------------------------------------------------------
(* Types.                                                                   *)

LEMMA InitTypes == SessionInit => Types
  <1> SUFFICES ASSUME SessionInit PROVE Types
    OBVIOUS
  <1>1. TypeOK
    BY NothingsTypes DEF SessionInit, TypeOK
  <1>2. LoginsHaveAccount
    BY DEF SessionInit, LoginsHaveAccount, NoLogin
  <1> QED BY <1>1, <1>2 DEF Types

LEMMA LoginTypes ==
  ASSUME Types, LoginStep
  PROVE  Types'
  <1> USE DEF Types
  <1>1. PICK g \in Login :
          \/ \E a \in Account : ConnectSaved(g, a) \/ TestConnection(g, a)
          \/ LoginSucceeds(g)
          \/ LoginFails(g)
    BY DEF LoginStep
  <1>2. ASSUME NEW a \in Account, ConnectSaved(g, a) \/ TestConnection(g, a) PROVE Types'
    <2>1. login' \in [Login -> [at : LoginAt, acct : Whose]]
      BY <1>2 DEF ConnectSaved, TestConnection, TypeOK, LoginAt, Whose
    <2>2. LoginsHaveAccount'
      <3>1. login'[g].acct = a /\ \A h \in Login \ {g} : login'[h] = login[h]
        BY <1>2 DEF ConnectSaved, TestConnection, TypeOK
      <3> QED BY <3>1 DEF LoginsHaveAccount
    <2> QED BY <1>2, <2>1, <2>2 DEF ConnectSaved, TestConnection, TypeOK, netVars
  <1>3. CASE LoginSucceeds(g)
    <2>1. login' \in [Login -> [at : LoginAt, acct : Whose]] /\ creds' \in Whose
      BY <1>3, NothingsTypes DEF LoginSucceeds, TypeOK
    <2>2. login[g].acct \in Account /\ LoginsHaveAccount'
      BY <1>3 DEF LoginSucceeds, TypeOK, LoginsHaveAccount, NoLogin
    <2>3. saved' \subseteq Account
      BY <1>3, <2>2 DEF LoginSucceeds, TypeOK, Persisted
    <2> QED BY <1>3, <2>1, <2>2, <2>3 DEF LoginSucceeds, TypeOK, netVars
  <1>4. CASE LoginFails(g)
    <2>1. login' \in [Login -> [at : LoginAt, acct : Whose]] /\ LoginsHaveAccount'
      BY <1>4, NothingsTypes DEF LoginFails, TypeOK, LoginsHaveAccount, NoLogin
    <2> QED BY <1>4, <2>1 DEF LoginFails, TypeOK, netVars
  <1> QED BY <1>1, <1>2, <1>3, <1>4

LEMMA ListerTypes ==
  ASSUME Types, ListerStep
  PROVE  Types'
  <1> USE DEF Types
  <1> DEFINE ListerType == [at : ListerAt, obj : Object \cup {None}, acct : Whose]
  <1>1. PICK l \in Lister :
          FoldersList(l) \/ ListerConnected(l) \/ Listed(l) \/ ListFails(l)
    BY DEF ListerStep
  <1>2. CASE FoldersList(l)
    <2>1. TheClient \in Object
      BY <1>2, TheClientIsFree DEF FoldersList
    <2>2. \A at \in ListerAt, o \in Object, a \in Whose :
            [at |-> at, obj |-> o, acct |-> a] \in ListerType
      OBVIOUS
    <2>3. lister' \in [Lister -> ListerType]
      <3>1. CASE Connected
        <4>1. client \in Object /\ sock[client] \in Whose /\ "listing" \in ListerAt
          BY <3>1 DEF Connected, TypeOK, ListerAt
        <4> QED BY <1>2, <2>2, <3>1, <4>1 DEF FoldersList, TypeOK
      <3>2. CASE ~Connected
        <4>1. creds \in Whose /\ "connecting" \in ListerAt
          BY DEF TypeOK, ListerAt
        <4> QED BY <1>2, <2>1, <2>2, <3>2, <4>1 DEF FoldersList, TypeOK
      <3> QED BY <3>1, <3>2
    <2>4. client' \in Object \cup {None} /\ sock' \in [Object -> Whose] /\ leaving' = leaving
      <3>1. CASE Connected
        BY <1>2, <3>1 DEF FoldersList, TypeOK, netVars
      <3>2. CASE ~Connected
        BY <1>2, <2>1, <3>2, NothingsTypes DEF FoldersList, TypeOK
      <3> QED BY <3>1, <3>2
    <2> QED BY <1>2, <2>3, <2>4 DEF FoldersList, TypeOK, LoginsHaveAccount
  <1>3. CASE ListerConnected(l)
    <2>1. sock' \in [Object -> Whose]
      <3>1. CASE lister[l].obj \in Object
        BY <1>3, <3>1, OpenedTypes DEF ListerConnected, TypeOK
      <3>2. CASE lister[l].obj = None
        BY <1>3, <3>2 DEF ListerConnected, TypeOK, Opened
      <3> QED BY <3>1, <3>2 DEF TypeOK
    <2>2. lister' \in [Lister -> ListerType]
      <3>1. CASE client # None /\ sock'[client] # Nobody
        <4>1. client \in Object /\ sock'[client] \in Whose /\ "listing" \in ListerAt
          BY <2>1, <3>1 DEF TypeOK, ListerAt
        <4> QED BY <1>3, <3>1, <4>1 DEF ListerConnected, TypeOK
      <3>2. CASE ~(client # None /\ sock'[client] # Nobody)
        <4>1. "cut" \in ListerAt
          BY DEF ListerAt
        <4>2. lister' = [lister EXCEPT ![l] = [lister[l] EXCEPT !.at = "cut"]]
          BY <1>3, <3>2 DEF ListerConnected
        <4> QED BY <4>1, <4>2, StagesTypes DEF TypeOK
      <3> QED BY <3>1, <3>2
    <2>3. UNCHANGED <<creds, client, leaving, login, run, scans, aborted, saved>>
      BY <1>3 DEF ListerConnected
    <2> QED BY <2>1, <2>2, <2>3 DEF TypeOK, LoginsHaveAccount
  <1>4. CASE Listed(l) \/ ListFails(l)
    <2>1. lister' \in [Lister -> ListerType]
      BY <1>4, NothingsTypes DEF Listed, ListFails, TypeOK
    <2> QED BY <1>4, <2>1 DEF Listed, ListFails, TypeOK, LoginsHaveAccount, netVars
  <1> QED BY <1>1, <1>2, <1>3, <1>4

LEMMA RunScanTypes ==
  ASSUME TypeOK, NEW r \in Run, NEW o \in Object \cup {None}, NEW open \in BOOLEAN,
         RunScan(r, o, open)
  PROVE  /\ run' \in [Run -> [at : RunAt, obj : Object \cup {None}, acct : Whose, owns : BOOLEAN,
                              redial : BOOLEAN]]
         /\ scans' \subseteq Run
         /\ aborted' \subseteq Run
  <1>1. CASE Ends(r)
    BY <1>1, EndsTypes
  <1>2. CASE ~Ends(r)
    <2> DEFINE at == IF open THEN "running" ELSE "attaching"
    <2>1. /\ run' = [run EXCEPT ![r] = [NoRun EXCEPT !.at = at, !.obj = o, !.acct = creds]]
          /\ UNCHANGED <<scans, aborted>>
      BY <1>2 DEF RunScan
    <2>2. at \in RunAt /\ creds \in Whose
      BY DEF RunAt, Live, TypeOK
    <2> HIDE DEF at
    <2>3. [NoRun EXCEPT !.at = at, !.obj = o, !.acct = creds]
            \in [at : RunAt, obj : Object \cup {None}, acct : Whose, owns : BOOLEAN,
                 redial : BOOLEAN]
      BY <2>2, NothingsTypes
    <2> QED BY <2>1, <2>3 DEF TypeOK
  <1> QED BY <1>1, <1>2

LEMMA RunTypes ==
  ASSUME Types, RunStep
  PROVE  Types'
  <1> USE DEF Types
  <1> DEFINE RunType == [at : RunAt, obj : Object \cup {None}, acct : Whose, owns : BOOLEAN,
                         redial : BOOLEAN]
             ListerType == [at : ListerAt, obj : Object \cup {None}, acct : Whose]
  <1>1. PICK r \in Run :
          \/ ScanStart(r)
          \/ PoolSettles(r) \/ RunConnected(r) \/ RunAttached(r) \/ RunListed(r)
          \/ RunDials(r) \/ RunReconnects(r) \/ RunDone(r) \/ RunFails(r) \/ ScanCancel(r)
    BY DEF RunStep
  <1>2. CASE ScanStart(r)
    <2>1. run' \in [Run -> RunType]
      BY <1>2, NothingsTypes DEF ScanStart, TypeOK, RunAt, Live
    <2> QED BY <1>2, <2>1 DEF ScanStart, TypeOK, LoginsHaveAccount, netVars
  <1>3. CASE PoolSettles(r)
    <2>1. TheClient \in Object
      BY <1>3, TheClientIsFree DEF PoolSettles
    <2>2. run' \in [Run -> RunType] /\ scans' \subseteq Run /\ aborted' \subseteq Run
      <3>1. CASE Connected
        BY <1>3, <3>1, RunScanTypes DEF PoolSettles, TypeOK
      <3>2. CASE ~Connected /\ creds = Nobody
        BY <1>3, <3>2, EndsTypes DEF PoolSettles
      <3>3. CASE ~Connected /\ creds # Nobody
        <4>1. "connecting" \in RunAt /\ creds \in Whose
          BY DEF RunAt, Live, TypeOK
        <4>2. [NoRun EXCEPT !.at = "connecting", !.obj = TheClient, !.acct = creds] \in RunType
          BY <2>1, <4>1, NothingsTypes
        <4>3. /\ run' = [run EXCEPT ![r] = [NoRun EXCEPT !.at = "connecting", !.obj = TheClient,
                                                         !.acct = creds]]
              /\ UNCHANGED <<scans, aborted>>
          BY <1>3, <3>3 DEF PoolSettles
        <4> QED BY <4>2, <4>3 DEF TypeOK
      <3> QED BY <3>1, <3>2, <3>3
    <2>3. client' \in Object \cup {None} /\ sock' \in [Object -> Whose]
      <3>1. CASE Connected
        BY <1>3, <3>1 DEF PoolSettles, TypeOK
      <3>2. CASE ~Connected
        <4>1. client' = TheClient /\ sock' = [sock EXCEPT ![TheClient] = Nobody]
          BY <1>3, <3>2 DEF PoolSettles
        <4> QED BY <2>1, <4>1, NothingsTypes DEF TypeOK
      <3> QED BY <3>1, <3>2
    <2> QED BY <1>3, <2>2, <2>3 DEF PoolSettles, TypeOK, LoginsHaveAccount
  <1>4. CASE RunConnected(r)
    <2>1. sock' \in [Object -> Whose]
      <3>1. CASE run[r].obj \in Object
        BY <1>4, <3>1, OpenedTypes DEF RunConnected, TypeOK
      <3>2. CASE run[r].obj = None
        BY <1>4, <3>2 DEF RunConnected, TypeOK, Opened
      <3> QED BY <3>1, <3>2 DEF TypeOK
    <2>2. run' \in [Run -> RunType] /\ scans' \subseteq Run /\ aborted' \subseteq Run
      BY <1>4, RunScanTypes DEF RunConnected, TypeOK
    <2>3. UNCHANGED <<creds, client, leaving, login, lister, saved>>
      BY <1>4 DEF RunConnected
    <2> QED BY <2>1, <2>2, <2>3 DEF TypeOK, LoginsHaveAccount
  <1>5. CASE RunAttached(r) \/ RunListed(r) \/ RunDials(r) \/ RunReconnects(r)
    <2>1. run' \in [Run -> RunType]
      <3>1. CASE RunAttached(r)
        <4>1. run' = [run EXCEPT ![r] = [run[r] EXCEPT !.at = "running", !.owns = TRUE]]
          BY <3>1 DEF RunAttached, TypeOK
        <4>2. "running" \in RunAt
          BY DEF RunAt, Live
        <4> QED BY <4>1, <4>2, StagesTypes DEF TypeOK
      <3>2. CASE RunListed(r)
        BY <3>2 DEF RunListed, TypeOK, RunAt, Live
      <3>3. CASE RunDials(r) \/ RunReconnects(r)
        BY <3>3, RedialsTypes
      <3> QED BY <1>5, <3>1, <3>2, <3>3
    <2>2. sock' \in [Object -> Whose]
      BY <1>5 DEF RunAttached, RunListed, RunDials, RunReconnects, TypeOK, netVars
    <2> QED BY <1>5, <2>1, <2>2
          DEF RunAttached, RunListed, RunDials, RunReconnects, TypeOK, LoginsHaveAccount, netVars
  <1>6. CASE RunDone(r) \/ RunFails(r)
    <2>1. Ends(r) /\ HangsUp(r) /\ UNCHANGED <<creds, client, leaving, login, saved>>
      BY <1>6 DEF RunDone, RunFails
    <2>2. lister' \in [Lister -> ListerType]
      BY <2>1, CutOffKeeps DEF HangsUp, TypeOK
    <2>3. sock' \in [Object -> Whose]
      BY <2>1, NothingsTypes DEF HangsUp, TypeOK
    <2> QED BY <2>1, <2>2, <2>3, EndsTypes DEF TypeOK, LoginsHaveAccount
  <1>7. CASE ScanCancel(r)
    BY <1>7 DEF ScanCancel, TypeOK, LoginsHaveAccount, netVars
  <1> QED BY <1>1, <1>2, <1>3, <1>4, <1>5, <1>6, <1>7

LEMMA OtherTypes ==
  ASSUME Types,
         \/ Disconnect
         \/ \E a \in Account : AccountsDelete(a)
         \/ \E o \in Object : ConnectionLost(o) \/ LoggedOut(o)
  PROVE  Types'
  <1> USE DEF Types
  <1>1. CASE Disconnect
    <2>1. CASE Connected
      <3>1. client \in Object
        BY <2>1 DEF Connected, TypeOK
      <3>2. lister' \in [Lister -> [at : ListerAt, obj : Object \cup {None}, acct : Whose]]
        <4>1. \A l \in Lister : lister[l] \in [at : ListerAt, obj : Object \cup {None}, acct : Whose]
          BY DEF TypeOK
        <4>2. \A l \in Lister : [lister[l] EXCEPT !.at = "parting"]
                                 \in [at : ListerAt, obj : Object \cup {None}, acct : Whose]
          BY <4>1 DEF ListerAt
        <4>3. lister' = [l \in Lister |->
                           IF lister[l].at = "listing" /\ lister[l].obj = client
                           THEN [lister[l] EXCEPT !.at = "parting"] ELSE lister[l]]
          BY <1>1, <2>1 DEF Disconnect
        <4> QED BY <4>1, <4>2, <4>3
      <3>3. sock' \in [Object -> Whose] /\ leaving' \subseteq Object /\ aborted' \subseteq Run
        BY <1>1, <2>1, <3>1, NothingsTypes DEF Disconnect, TypeOK
      <3> QED BY <1>1, <2>1, <3>2, <3>3 DEF Disconnect, TypeOK, LoginsHaveAccount
    <2>2. CASE ~Connected
      BY <1>1, <2>2, NothingsTypes DEF Disconnect, TypeOK, LoginsHaveAccount
    <2> QED BY <2>1, <2>2
  <1>2. ASSUME NEW R, run' = Wiped(R) PROVE
          run' \in [Run -> [at : RunAt, obj : Object \cup {None}, acct : Whose, owns : BOOLEAN,
                            redial : BOOLEAN]]
    <2>1. "wiped" \in RunAt
      BY DEF RunAt, Live
    <2>2. \A r \in Run : run[r] \in [at : RunAt, obj : Object \cup {None}, acct : Whose,
                                   owns : BOOLEAN, redial : BOOLEAN]
      BY DEF TypeOK
    <2> QED BY <1>2, <2>1, <2>2, StagesTypes DEF Wiped
  <1>3. ASSUME NEW a \in Account, AccountsDelete(a) PROVE Types'
    BY <1>2, <1>3 DEF AccountsDelete, TypeOK, LoginsHaveAccount, netVars
  <1>4. ASSUME NEW o \in Object, ConnectionLost(o) PROVE Types'
    <2>1. /\ lister' = CutOff(o, "listing")
          /\ sock' = [sock EXCEPT ![o] = Nobody]
          /\ UNCHANGED <<creds, client, leaving, login, run, scans, aborted, saved>>
      BY <1>4 DEF ConnectionLost
    <2>2. lister' \in [Lister -> [at : ListerAt, obj : Object \cup {None}, acct : Whose]]
      BY <2>1, CutOffKeeps
    <2> QED BY <2>1, <2>2, NothingsTypes DEF TypeOK, LoginsHaveAccount
  <1>5. ASSUME NEW o \in Object, LoggedOut(o) PROVE Types'
    <2>1. /\ lister' = CutOff(o, "parting")
          /\ leaving' = leaving \ {o} /\ client' = None /\ creds' = Nobody
          /\ UNCHANGED <<sock, login, run, scans, aborted, saved>>
      BY <1>5 DEF LoggedOut
    <2>2. lister' \in [Lister -> [at : ListerAt, obj : Object \cup {None}, acct : Whose]]
      BY <2>1, CutOffKeeps
    <2> QED BY <2>1, <2>2, NothingsTypes DEF TypeOK, LoginsHaveAccount
  <1> QED BY <1>1, <1>3, <1>4, <1>5

LEMMA StepTypes == Types /\ [SessionNext]_sessionVars => Types'
  <1> SUFFICES ASSUME Types, [SessionNext]_sessionVars PROVE Types'
    OBVIOUS
  <1>1. CASE UNCHANGED sessionVars
    BY <1>1 DEF sessionVars, Types, TypeOK, LoginsHaveAccount
  <1>2. CASE SessionNext
    BY <1>2, LoginTypes, ListerTypes, RunTypes, OtherTypes DEF SessionNext
  <1> QED BY <1>1, <1>2

(* Session's state has its types, whatever is called when. *)
THEOREM SessionTypesAreRight == SessionSpec => []TypeOK
  <1>1. SessionSpec => []Types
    BY InitTypes, StepTypes, PTL DEF SessionSpec
  <1>2. Types => TypeOK
    BY DEF Types
  <1> QED BY <1>1, <1>2, PTL

-----------------------------------------------------------------------------
(* The registry of scans.                                                   *)

Registry == AbortedIsLive /\ NoScanEscapes

(* Nothing but the runs that are under way, the registered ones and the     *)
(* aborted ones matters to the registry.                                    *)
LEMMA SameRegistry ==
  ASSUME Registry, UNCHANGED <<scans, aborted>>,
         \A r \in Run : run'[r].at \in Live <=> run[r].at \in Live,
         aborted \subseteq Run
  PROVE  Registry'
  BY DEF Registry, AbortedIsLive, NoScanEscapes

LEMMA RunScanRegistry ==
  ASSUME TypeOK, Registry, NEW r \in Run, run[r].at \in Live, NEW o, NEW open, RunScan(r, o, open)
  PROVE  Registry'
  <1>1. CASE Ends(r)
    BY <1>1, EndsRegistry DEF Registry
  <1>2. CASE ~Ends(r)
    <2> DEFINE at == IF open THEN "running" ELSE "attaching"
    <2>1. /\ run' = [run EXCEPT ![r] = [NoRun EXCEPT !.at = at, !.obj = o, !.acct = creds]]
          /\ UNCHANGED <<scans, aborted>>
      BY <1>2 DEF RunScan
    <2>2. at \in Live
      BY DEF Live
    <2>3. run'[r].at = at /\ \A q \in Run \ {r} : run'[q] = run[q]
      BY <2>1 DEF TypeOK, NoRun
    <2> HIDE DEF at
    <2> QED BY <2>1, <2>2, <2>3, SameRegistry DEF TypeOK
  <1> QED BY <1>1, <1>2

LEMMA RunRegistry ==
  ASSUME TypeOK, Registry, RunStep
  PROVE  Registry'
  <1>1. PICK r \in Run :
          \/ ScanStart(r)
          \/ PoolSettles(r) \/ RunConnected(r) \/ RunAttached(r) \/ RunListed(r)
          \/ RunDials(r) \/ RunReconnects(r) \/ RunDone(r) \/ RunFails(r) \/ ScanCancel(r)
    BY DEF RunStep
  <1>2. CASE ScanStart(r)
    <2>1. /\ run'[r].at = "pooling" /\ \A q \in Run \ {r} : run'[q] = run[q]
          /\ scans' = scans \cup {r} /\ aborted' = aborted
      BY <1>2 DEF ScanStart, TypeOK, NoRun
    <2>2. r \notin aborted
      BY <1>2 DEF ScanStart, Registry, AbortedIsLive, Live
    <2>3. "pooling" \in Live
      BY DEF Live
    <2>4. AbortedIsLive'
      BY <2>1, <2>2 DEF Registry, AbortedIsLive, TypeOK
    <2>5. \A q \in Run : q \in scans' <=> run'[q].at \in Live /\ q \notin aborted'
      BY <2>1, <2>2, <2>3 DEF Registry, NoScanEscapes
    <2> QED BY <2>1, <2>4, <2>5 DEF Registry, NoScanEscapes, TypeOK
  <1>3. CASE PoolSettles(r)
    <2>1. run[r].at \in Live
      BY <1>3 DEF PoolSettles, Live
    <2>2. CASE Connected
      BY <1>3, <2>1, <2>2, RunScanRegistry DEF PoolSettles
    <2>3. CASE ~Connected /\ creds = Nobody
      <3>1. Ends(r)
        BY <1>3, <2>3 DEF PoolSettles
      <3> QED BY <3>1, EndsRegistry DEF Registry
    <2>4. CASE ~Connected /\ creds # Nobody
      <3>1. /\ run' = [run EXCEPT ![r] = [NoRun EXCEPT !.at = "connecting", !.obj = TheClient,
                                                      !.acct = creds]]
            /\ UNCHANGED <<scans, aborted>>
        BY <1>3, <2>4 DEF PoolSettles
      <3>2. run'[r].at = "connecting" /\ \A q \in Run \ {r} : run'[q] = run[q]
        BY <3>1 DEF TypeOK, NoRun
      <3>3. "connecting" \in Live
        BY DEF Live
      <3> QED BY <2>1, <3>1, <3>2, <3>3, SameRegistry DEF TypeOK
    <2> QED BY <2>2, <2>3, <2>4
  <1>4. CASE RunConnected(r)
    <2>1. run[r].at \in Live
      BY <1>4 DEF RunConnected, Live
    <2> QED BY <1>4, <2>1, RunScanRegistry DEF RunConnected
  <1>5. CASE RunAttached(r)
    <2>1. run[r].at \in Live /\ run'[r].at \in Live /\ \A q \in Run \ {r} : run'[q] = run[q]
      BY <1>5 DEF RunAttached, TypeOK, Live
    <2> QED BY <1>5, <2>1, SameRegistry DEF RunAttached, TypeOK
  <1>6. CASE RunListed(r)
    <2>1. run[r].at \in Live /\ run'[r].at \in Live /\ \A q \in Run \ {r} : run'[q] = run[q]
      BY <1>6 DEF RunListed, TypeOK, Live
    <2> QED BY <1>6, <2>1, SameRegistry DEF RunListed, TypeOK
  <1>7. CASE RunDials(r) \/ RunReconnects(r)
    <2>1. \A q \in Run : run'[q].at = run[q].at
      BY <1>7, RedialsTypes
    <2> QED BY <1>7, <2>1, SameRegistry DEF RunDials, RunReconnects, TypeOK
  <1>8. CASE RunDone(r) \/ RunFails(r)
    BY <1>8, EndsRegistry DEF RunDone, RunFails, Registry
  <1>9. CASE ScanCancel(r)
    <2>1. r \in Run /\ run[r].at \in Live
      BY <1>9 DEF ScanCancel, Registry, NoScanEscapes
    <2> QED BY <1>9, <2>1 DEF ScanCancel, Registry, NoScanEscapes, AbortedIsLive
  <1> QED BY <1>1, <1>2, <1>3, <1>4, <1>5, <1>6, <1>7, <1>8, <1>9

LEMMA StepRegistry ==
  TypeOK /\ Registry /\ [SessionNext]_sessionVars => Registry'
  <1> SUFFICES ASSUME TypeOK, Registry, [SessionNext]_sessionVars PROVE Registry'
    OBVIOUS
  <1>1. ASSUME UNCHANGED <<run, scans, aborted>> PROVE Registry'
    BY <1>1, SameRegistry DEF TypeOK
  <1>2. CASE UNCHANGED sessionVars
    BY <1>1, <1>2 DEF sessionVars
  <1>3. CASE LoginStep
    BY <1>1, <1>3 DEF LoginStep, ConnectSaved, TestConnection, LoginSucceeds, LoginFails
  <1>4. CASE ListerStep
    BY <1>1, <1>4 DEF ListerStep, FoldersList, ListerConnected, Listed, ListFails
  <1>5. CASE RunStep
    BY <1>5, RunRegistry
  <1>6. CASE Disconnect
    BY <1>6 DEF Disconnect, Registry, NoScanEscapes, AbortedIsLive, TypeOK
  <1>7. ASSUME NEW R, run' = Wiped(R), UNCHANGED <<scans, aborted>> PROVE Registry'
    <2>1. \A r \in Run : run'[r].at \in Live <=> run[r].at \in Live
      BY <1>7 DEF Wiped, TypeOK, Live
    <2> QED BY <1>7, <2>1, SameRegistry DEF TypeOK
  <1>8. CASE \E a \in Account : AccountsDelete(a)
    BY <1>7, <1>8 DEF AccountsDelete
  <1>9. CASE \E o \in Object : ConnectionLost(o) \/ LoggedOut(o)
    BY <1>1, <1>9 DEF ConnectionLost, LoggedOut
  <1> QED BY <1>2, <1>3, <1>4, <1>5, <1>6, <1>8, <1>9 DEF SessionNext

(* However many scans, logins and listings are under way, session.disconnect *)
(* finds every scan that is not aborted yet in the registry.                *)
THEOREM NoScanEscapesEver == SessionSpec => []NoScanEscapes
  <1>1. SessionInit => Registry
    BY DEF SessionInit, Registry, AbortedIsLive, NoScanEscapes, NoRun, Live
  <1>2. SessionSpec => []TypeOK
    BY SessionTypesAreRight
  <1>3. SessionSpec => []Registry
    BY <1>1, <1>2, StepRegistry, PTL DEF SessionSpec
  <1>4. Registry => NoScanEscapes
    BY DEF Registry
  <1> QED BY <1>3, <1>4, PTL

-----------------------------------------------------------------------------
(* The session's client.                                                    *)

(* With client and credentials as they were, no new reference to the client *)
(* may come about while there are no credentials.                           *)
LEMMA SameClient ==
  ASSUME ClientInUseHasCreds, UNCHANGED client,
         creds' = Nobody => creds = Nobody,
         client # None /\ creds' = Nobody /\ ReferredTo(client)' => ReferredTo(client)
  PROVE  ClientInUseHasCreds'
  BY DEF ClientInUseHasCreds

(* A call that takes the client, or a new object, in use. *)
LEMMA TakesTheClient ==
  ASSUME TypeOK, ClientInUseHasCreds, CanMakeOne, ~Connected,
         client' = TheClient, creds' = creds,
         sock' = [sock EXCEPT ![TheClient] = Nobody],
         creds = Nobody => /\ \A l \in Lister : lister'[l].obj \in {lister[l].obj, None}
                           /\ \A r \in Run : run'[r].obj \in {run[r].obj, None}
  PROVE  ClientInUseHasCreds'
  <1> SUFFICES ASSUME creds = Nobody PROVE ~ReferredTo(client)'
    BY DEF ClientInUseHasCreds
  <1>1. TheClient \in Object /\ TheClient # None
    BY TheClientIsFree
  <1>2. sock'[TheClient] = Nobody
    BY <1>1 DEF TypeOK
  <1>3. /\ \A l \in Lister : lister[l].obj # TheClient
        /\ \A r \in Run : run[r].obj # TheClient
    <2>1. CASE client = None
      BY <2>1, TheClientIsFree
    <2>2. CASE client # None
      BY <2>2, TheClientIsFree DEF ClientInUseHasCreds, ReferredTo
    <2> QED BY <2>1, <2>2
  <1> QED BY <1>1, <1>2, <1>3 DEF ReferredTo

LEMMA ListerClient ==
  ASSUME TypeOK, ClientInUseHasCreds, ListerStep
  PROVE  ClientInUseHasCreds'
  <1>1. PICK l \in Lister :
          FoldersList(l) \/ ListerConnected(l) \/ Listed(l) \/ ListFails(l)
    BY DEF ListerStep
  <1>2. CASE FoldersList(l)
    <2>1. CASE Connected
      <3>1. creds # Nobody
        BY <2>1 DEF Connected, ClientInUseHasCreds, ReferredTo
      <3> QED BY <1>2, <3>1 DEF FoldersList, ClientInUseHasCreds
    <2>2. CASE ~Connected
      <3>1. creds = Nobody => lister' = lister /\ run' = run
        BY <1>2, <2>2 DEF FoldersList
      <3> QED BY <1>2, <2>2, <3>1, TakesTheClient DEF FoldersList
    <2> QED BY <2>1, <2>2
  <1>3. CASE ListerConnected(l)
    <2>1. client' = client /\ creds' = creds /\ run' = run
      BY <1>3 DEF ListerConnected
    <2>2. \A k \in Lister : lister'[k].obj \in {lister[k].obj, client}
      BY <1>3 DEF ListerConnected, TypeOK
    <2>3. CASE client = None \/ creds # Nobody
      BY <2>1, <2>3 DEF ClientInUseHasCreds
    <2>4. CASE client # None /\ creds = Nobody
      <3>1. ~ReferredTo(client) /\ client \in Object
        BY <2>4 DEF ClientInUseHasCreds, TypeOK
      <3>2. lister[l].obj # client
        BY <3>1 DEF ReferredTo
      <3>3. sock'[client] = sock[client]
        BY <1>3, <3>1, <3>2 DEF ListerConnected, Opened, TypeOK
      <3>4. \A k \in Lister : lister'[k].obj = lister[k].obj
        BY <1>3, <3>1, <3>3 DEF ListerConnected, TypeOK, ReferredTo
      <3>5. ReferredTo(client)' => ReferredTo(client)
        BY <2>1, <3>3, <3>4 DEF ReferredTo
      <3> QED BY <2>1, <3>5, SameClient
    <2> QED BY <2>3, <2>4
  <1>4. CASE Listed(l) \/ ListFails(l)
    <2>1. /\ \A k \in Lister : lister'[k].obj \in {lister[k].obj, None}
          /\ UNCHANGED <<creds, client, sock, run>>
      BY <1>4 DEF Listed, ListFails, TypeOK, NoLister, netVars
    <2>2. client # None /\ ReferredTo(client)' => ReferredTo(client)
      BY <2>1 DEF ReferredTo
    <2> QED BY <2>1, <2>2, SameClient
  <1> QED BY <1>1, <1>2, <1>3, <1>4

LEMMA RunScanClient ==
  ASSUME TypeOK, NEW r \in Run, NEW o, NEW open, RunScan(r, o, open), creds = Nobody
  PROVE  \A q \in Run : run'[q].obj \in {run[q].obj, None}
  BY DEF RunScan, Ends, NoRun, TypeOK

LEMMA RunClient ==
  ASSUME TypeOK, ClientInUseHasCreds, RunStep
  PROVE  ClientInUseHasCreds'
  <1>1. PICK r \in Run :
          \/ ScanStart(r)
          \/ PoolSettles(r) \/ RunConnected(r) \/ RunAttached(r) \/ RunListed(r)
          \/ RunDials(r) \/ RunReconnects(r) \/ RunDone(r) \/ RunFails(r) \/ ScanCancel(r)
    BY DEF RunStep
  <1>2. CASE PoolSettles(r)
    <2>1. CASE Connected
      <3>1. creds # Nobody
        BY <2>1 DEF Connected, ClientInUseHasCreds, ReferredTo
      <3> QED BY <1>2, <3>1 DEF PoolSettles, ClientInUseHasCreds
    <2>2. CASE ~Connected
      <3>1. creds = Nobody => \A q \in Run : run'[q].obj \in {run[q].obj, None}
        <4>1. CASE Ends(r)
          BY <4>1 DEF Ends, NoRun, TypeOK
        <4>2. CASE creds # Nobody
          BY <4>2
        <4> QED BY <1>2, <2>2, <4>1, <4>2 DEF PoolSettles
      <3>2. client' = TheClient /\ sock' = [sock EXCEPT ![TheClient] = Nobody] /\ CanMakeOne
            /\ creds' = creds /\ lister' = lister
        BY <1>2, <2>2 DEF PoolSettles
      <3> QED BY <2>2, <3>1, <3>2, TakesTheClient
    <2> QED BY <2>1, <2>2
  <1>3. CASE RunConnected(r)
    <2>1. UNCHANGED <<client, creds, lister>>
      BY <1>3 DEF RunConnected
    <2>2. CASE client = None \/ creds # Nobody
      BY <2>1, <2>2 DEF ClientInUseHasCreds
    <2>3. CASE client # None /\ creds = Nobody
      <3>1. ~ReferredTo(client) /\ client \in Object
        BY <2>3 DEF ClientInUseHasCreds, TypeOK
      <3>2. run[r].obj # client
        BY <3>1 DEF ReferredTo
      <3>3. sock'[client] = sock[client]
        BY <1>3, <3>1, <3>2 DEF RunConnected, Opened, TypeOK
      <3>4. \A q \in Run : run'[q].obj \in {run[q].obj, None}
        BY <1>3, <2>3, RunScanClient DEF RunConnected
      <3>5. ReferredTo(client)' => ReferredTo(client)
        BY <2>1, <2>3, <3>3, <3>4 DEF ReferredTo
      <3> QED BY <2>1, <3>5, SameClient
    <2> QED BY <2>2, <2>3
  <1>4. CASE RunAttached(r) \/ RunReconnects(r)
    <2>1. /\ UNCHANGED <<client, creds, lister>>
          /\ sock' \in {sock, [sock EXCEPT ![run[r].obj] = run[r].acct]}
      BY <1>4 DEF RunAttached, RunReconnects
    <2>2. \A q \in Run : run'[q].obj = run[q].obj
      <3>1. CASE RunAttached(r)
        BY <3>1 DEF RunAttached, TypeOK
      <3>2. CASE RunReconnects(r)
        BY <3>2 DEF RunReconnects, TypeOK
      <3> QED BY <1>4, <3>1, <3>2
    <2>3. client # None /\ ReferredTo(client)' => ReferredTo(client)
      <3>1. CASE run[r].obj = client
        BY <3>1 DEF ReferredTo
      <3>2. CASE run[r].obj # client
        BY <2>1, <2>2, <3>2 DEF ReferredTo, TypeOK
      <3> QED BY <3>1, <3>2
    <2> QED BY <2>1, <2>3, SameClient
  <1>5. CASE ScanStart(r) \/ RunListed(r) \/ RunDials(r) \/ ScanCancel(r)
    <2>1. UNCHANGED <<client, creds, lister, sock>>
      BY <1>5 DEF ScanStart, RunListed, RunDials, ScanCancel, netVars
    <2>2. \A q \in Run : run'[q].obj \in {run[q].obj, None}
      <3>1. CASE ScanStart(r)
        BY <3>1 DEF ScanStart, TypeOK, NoRun
      <3>2. CASE RunListed(r) \/ RunDials(r)
        BY <3>2 DEF RunListed, RunDials, TypeOK
      <3>3. CASE ScanCancel(r)
        BY <3>3 DEF ScanCancel
      <3> QED BY <1>5, <3>1, <3>2, <3>3
    <2>3. client # None /\ ReferredTo(client)' => ReferredTo(client)
      BY <2>1, <2>2 DEF ReferredTo
    <2> QED BY <2>1, <2>3, SameClient
  <1>6. CASE RunDone(r) \/ RunFails(r)
    <2>1. UNCHANGED <<client, creds>> /\ Ends(r) /\ HangsUp(r)
      BY <1>6 DEF RunDone, RunFails
    <2>2. \A q \in Run : run'[q].obj \in {run[q].obj, None}
      BY <2>1 DEF Ends, TypeOK, NoRun
    <2>3. \A k \in Lister : lister'[k].obj = lister[k].obj
      BY <2>1, CutOffKeeps DEF HangsUp
    <2>4. client # None => sock'[client] \in {sock[client], Nobody}
      BY <2>1 DEF HangsUp, TypeOK
    <2>5. client # None /\ ReferredTo(client)' => ReferredTo(client)
      BY <2>1, <2>2, <2>3, <2>4 DEF ReferredTo
    <2> QED BY <2>1, <2>5, SameClient
  <1> QED BY <1>1, <1>2, <1>3, <1>4, <1>5, <1>6

LEMMA StepClient ==
  Types /\ ClientInUseHasCreds /\ [SessionNext]_sessionVars => ClientInUseHasCreds'
  <1> SUFFICES ASSUME Types, ClientInUseHasCreds, [SessionNext]_sessionVars
               PROVE  ClientInUseHasCreds'
    OBVIOUS
  <1> USE DEF Types
  <1>1. ASSUME UNCHANGED <<client, sock>>, creds' = Nobody => creds = Nobody,
               \A l \in Lister : lister'[l].obj = lister[l].obj,
               \A r \in Run : run'[r].obj = run[r].obj
        PROVE  ClientInUseHasCreds'
    BY <1>1, SameClient DEF ReferredTo
  <1>2. CASE UNCHANGED sessionVars
    BY <1>1, <1>2 DEF sessionVars
  <1>3. CASE LoginStep
    <2>1. UNCHANGED <<client, sock, lister, run>>
      BY <1>3 DEF LoginStep, ConnectSaved, TestConnection, LoginSucceeds, LoginFails, netVars
    <2>2. creds' = Nobody => creds = Nobody
      BY <1>3 DEF LoginStep, ConnectSaved, TestConnection, LoginSucceeds, LoginFails,
                  LoginsHaveAccount, netVars
    <2> QED BY <1>1, <2>1, <2>2
  <1>4. CASE ListerStep
    BY <1>4, ListerClient
  <1>5. CASE RunStep
    BY <1>5, RunClient
  <1>6. CASE Disconnect
    <2>1. CASE Connected
      <3>1. creds # Nobody /\ creds' = creds
        BY <1>6, <2>1 DEF Disconnect, Connected, ClientInUseHasCreds, ReferredTo
      <3> QED BY <3>1 DEF ClientInUseHasCreds
    <2>2. CASE ~Connected
      BY <1>6, <2>2 DEF Disconnect, ClientInUseHasCreds
    <2> QED BY <2>1, <2>2
  <1>7. ASSUME NEW R, run' = Wiped(R), UNCHANGED <<client, sock, creds, lister>>
        PROVE  ClientInUseHasCreds'
    <2>1. \A r \in Run : run'[r].obj = run[r].obj
      BY <1>7 DEF Wiped, TypeOK
    <2> QED BY <1>1, <1>7, <2>1
  <1>8. CASE \E a \in Account : AccountsDelete(a)
    BY <1>7, <1>8 DEF AccountsDelete, netVars
  <1>9. ASSUME NEW o \in Object, ConnectionLost(o) PROVE ClientInUseHasCreds'
    <2>1. \A l \in Lister : lister'[l].obj = lister[l].obj
      BY <1>9, CutOffKeeps DEF ConnectionLost
    <2>2. client # None => sock'[client] \in {sock[client], Nobody}
      BY <1>9 DEF ConnectionLost, TypeOK
    <2>3. client # None /\ ReferredTo(client)' => ReferredTo(client)
      BY <1>9, <2>1, <2>2 DEF ConnectionLost, ReferredTo
    <2> QED BY <1>9, <2>3, SameClient DEF ConnectionLost
  <1>10. ASSUME NEW o \in Object, LoggedOut(o) PROVE ClientInUseHasCreds'
    BY <1>10 DEF LoggedOut, ClientInUseHasCreds
  <1> QED BY <1>2, <1>3, <1>4, <1>5, <1>6, <1>8, <1>9, <1>10 DEF SessionNext

(* Whatever connect was under way when the user left, the session never has *)
(* an open client without credentials.                                      *)
THEOREM OpenClientHasCredentials == SessionSpec => []ClientHasSession
  <1>1. SessionInit => ClientInUseHasCreds
    BY DEF SessionInit, ClientInUseHasCreds
  <1>2. SessionSpec => []Types
    BY InitTypes, StepTypes, PTL DEF SessionSpec
  <1>3. SessionSpec => []ClientInUseHasCreds
    BY <1>1, <1>2, StepClient, PTL DEF SessionSpec
  <1>4. ClientInUseHasCreds => ClientHasSession
    BY DEF ClientInUseHasCreds, ClientHasSession, Connected, ReferredTo
  <1> QED BY <1>3, <1>4, PTL

-----------------------------------------------------------------------------
(* App is a Session.                                                        *)

SessionStep == SessionNext \/ UNCHANGED sessionVars

LEMMA ClickIsSession == Click => SessionStep
  <1> SUFFICES ASSUME Click PROVE SessionStep
    OBVIOUS
  <1>1. ASSUME NEW g \in Login, NEW a \in Account, ClickTest(g, a) \/ ClickUse(g, a)
        PROVE  SessionStep
    <2>1. TestConnection(g, a) \/ ConnectSaved(g, a)
      BY <1>1 DEF ClickTest, ClickUse
    <2> QED BY <2>1 DEF SessionStep, SessionNext, LoginStep
  <1>2. ASSUME NEW a \in Account, UpdateForm(a) \/ ClickForget(a) PROVE SessionStep
    <2>1. AccountsDelete(a) \/ UNCHANGED sessionVars
      BY <1>2 DEF UpdateForm, ClickForget
    <2> QED BY <2>1 DEF SessionStep, SessionNext
  <1>3. CASE ClickContinue \/ ClickCancel \/ GoBack
    BY <1>3 DEF ClickContinue, ClickCancel, GoBack, SessionStep
  <1>4. CASE ClickSwitch
    BY <1>4 DEF ClickSwitch, SessionStep, SessionNext
  <1>5. CASE ClickReset
    BY <1>5 DEF ClickReset, SessionStep
  <1>6. ASSUME NEW r \in Run, ClickStart(r) PROVE SessionStep
    <2>1. ScanStart(r) \/ UNCHANGED sessionVars
      BY <1>6 DEF ClickStart
    <2> QED BY <2>1 DEF SessionStep, SessionNext, RunStep
  <1> QED BY <1>1, <1>2, <1>3, <1>4, <1>5, <1>6 DEF Click

LEMMA EffectIsSession == Effect => SessionStep
  <1> SUFFICES ASSUME Effect PROVE SessionStep
    OBVIOUS
  <1>1. ASSUME NEW g \in Login, NEW a \in Account, BootConnects(g, a) PROVE SessionStep
    <2>1. ConnectSaved(g, a)
      BY <1>1 DEF BootConnects
    <2> QED BY <2>1 DEF SessionStep, SessionNext, LoginStep
  <1>2. CASE BootHasNoAccount \/ HandOff \/ RouteChanges
    BY <1>2 DEF BootHasNoAccount, HandOff, RouteChanges, SessionStep
  <1>3. ASSUME NEW l \in Lister, FetchFolders(l) PROVE SessionStep
    <2>1. FoldersList(l)
      BY <1>3 DEF FetchFolders
    <2> QED BY <2>1 DEF SessionStep, SessionNext, ListerStep
  <1> QED BY <1>1, <1>2, <1>3 DEF Effect

LEMMA AnswerIsSession == Answer => SessionStep
  <1> SUFFICES ASSUME Answer PROVE SessionStep
    OBVIOUS
  <1>1. ASSUME NEW ok \in BOOLEAN, NEW g \in Login, LoginAnswer(g, ok) PROVE SessionStep
    <2>1. LoginSucceeds(g) \/ LoginFails(g)
      BY <1>1 DEF LoginAnswer
    <2> QED BY <2>1 DEF SessionStep, SessionNext, LoginStep
  <1>2. ASSUME NEW ok \in BOOLEAN, NEW l \in Lister, ListAnswer(l, ok) PROVE SessionStep
    <2>1. Listed(l) \/ ListFails(l)
      BY <1>2 DEF ListAnswer
    <2> QED BY <2>1 DEF SessionStep, SessionNext, ListerStep
  <1>3. ASSUME NEW r \in Run, RunSnapshot(r) PROVE SessionStep
    BY <1>3 DEF RunSnapshot, SessionStep
  <1>4. ASSUME NEW r \in Run, NEW ok \in BOOLEAN, RunGoesOn(r) \/ RunJoins(r) \/ RunEnds(r, ok)
        PROVE  SessionStep
    <2>1. PoolSettles(r) \/ RunConnected(r) \/ RunDone(r) \/ RunFails(r)
      BY <1>4 DEF RunGoesOn, RunJoins, RunEnds
    <2> QED BY <2>1 DEF SessionStep, SessionNext, RunStep
  <1> QED BY <1>1, <1>2, <1>3, <1>4 DEF Answer

LEMMA MainIsSession == MainStep => SessionStep
  <1> SUFFICES ASSUME MainStep PROVE SessionStep
    OBVIOUS
  <1>1. ASSUME NEW o \in Object, ConnectionLost(o) \/ LoggedOut(o) PROVE SessionStep
    BY <1>1 DEF SessionStep, SessionNext
  <1>2. ASSUME NEW l \in Lister, ListerConnected(l) PROVE SessionStep
    BY <1>2 DEF SessionStep, SessionNext, ListerStep
  <1>3. ASSUME NEW r \in Run, RunDials(r) \/ RunReconnects(r) \/ RunListens(r)
        PROVE  SessionStep
    <2>1. RunDials(r) \/ RunReconnects(r) \/ RunAttached(r) \/ RunListed(r)
      BY <1>3 DEF RunListens
    <2> QED BY <2>1 DEF SessionStep, SessionNext, RunStep
  <1> QED BY <1>1, <1>2, <1>3 DEF MainStep

LEMMA DeliverIsSession == Deliver => SessionStep
  BY DEF Deliver, Booted, Tested, Used, Removed, FoldersFetched, Started, SnapshotAppended,
         CancelDone, ResetDone, Receive, SessionStep

LEMMA NextIsSession == [Next]_vars => SessionStep
  <1> SUFFICES ASSUME [Next]_vars PROVE SessionStep
    OBVIOUS
  <1>1. CASE UNCHANGED vars
    BY <1>1 DEF vars, SessionStep
  <1>2. CASE Next
    BY <1>2, ClickIsSession, EffectIsSession, AnswerIsSession, MainIsSession, DeliverIsSession
       DEF Next
  <1> QED BY <1>1, <1>2

(* The window's store and the main process together implement Session.     *)
THEOREM AppImplementsSession == Spec => SessionSpec
  <1>1. Init => SessionInit
    BY DEF Init
  <1>2. [Next]_vars => [SessionNext]_sessionVars
    BY NextIsSession DEF SessionStep
  <1> QED BY <1>1, <1>2, PTL DEF Spec, SessionSpec

(* A click on Switch account aborts every scan that is under way. *)
THEOREM NoScanEscapesTheWindow == Spec => []NoScanEscapes
  BY AppImplementsSession, NoScanEscapesEver, PTL

(* Back on the connect screen, with the session's credentials forgotten, no *)
(* connection of it is open.                                                *)
THEOREM OpenClientHasSession == Spec => []ClientHasSession
  BY AppImplementsSession, OpenClientHasCredentials, PTL

-----------------------------------------------------------------------------
(* The window's own state.                                                  *)

(* A run that has got as far as the session's client is for an account.     *)
RunsHaveAccount == \A r \in Run : run[r].at \in Live \ {"pooling"} => run[r].acct \in Account

(* A run takes its account from the session when it leaves the pool behind, *)
(* or keeps the one it has; and it is registered before that.               *)
LEMMA RunScanMoves ==
  ASSUME TypeOK, NEW q \in Run, run[q].at \in Live, NEW o, NEW open, RunScan(q, o, open),
         NEW r \in Run
  PROVE  /\ run'[r].at \in Live \ {"pooling"} =>
              \/ run[r].at \in Live \ {"pooling"} /\ run'[r].acct = run[r].acct
              \/ run'[r].acct = creds /\ creds # Nobody
         /\ r \in scans' => r \in scans
  <1>1. CASE Ends(q)
    <2>1. run'[q].at = "idle" /\ \A p \in Run \ {q} : run'[p] = run[p]
      BY <1>1 DEF Ends, TypeOK, NoRun
    <2>2. "idle" \notin Live /\ scans' \subseteq scans
      BY <1>1 DEF Live, Ends
    <2> QED BY <2>1, <2>2
  <1>2. CASE ~Ends(q)
    <2>1. creds # Nobody /\ UNCHANGED scans
          /\ run' = [run EXCEPT ![q] = [NoRun EXCEPT !.at = IF open THEN "running" ELSE "attaching",
                                                   !.obj = o, !.acct = creds]]
      BY <1>2 DEF RunScan
    <2>2. run'[q].acct = creds /\ \A p \in Run \ {q} : run'[p] = run[p]
      BY <2>1 DEF TypeOK, NoRun
    <2> QED BY <2>1, <2>2
  <1> QED BY <1>1, <1>2

LEMMA RunsMove ==
  ASSUME TypeOK, SessionStep, NEW r \in Run
  PROVE  /\ run'[r].at \in Live \ {"pooling"} =>
              \/ run[r].at \in Live \ {"pooling"} /\ run'[r].acct = run[r].acct
              \/ run'[r].acct = creds /\ creds # Nobody
         /\ r \in scans' => r \in scans \/ run'[r].at = "pooling"
  <1> DEFINE Moves ==
        /\ run'[r].at \in Live \ {"pooling"} =>
              \/ run[r].at \in Live \ {"pooling"} /\ run'[r].acct = run[r].acct
              \/ run'[r].acct = creds /\ creds # Nobody
        /\ r \in scans' => r \in scans \/ run'[r].at = "pooling"
  <1>1. ASSUME UNCHANGED run, scans' \subseteq scans PROVE Moves
    BY <1>1
  <1>2. ASSUME NEW q \in Run, Ends(q) PROVE Moves
    <2>1. run'[q].at = "idle" /\ \A p \in Run \ {q} : run'[p] = run[p]
      BY <1>2 DEF Ends, TypeOK, NoRun
    <2>2. "idle" \notin Live /\ scans' \subseteq scans
      BY <1>2 DEF Live, Ends
    <2> QED BY <2>1, <2>2
  <1>3. ASSUME NEW q \in Run, PoolSettles(q) PROVE Moves
    <2>1. run[q].at \in Live
      BY <1>3 DEF PoolSettles, Live
    <2>2. CASE Connected
      BY <1>3, <2>1, <2>2, RunScanMoves DEF PoolSettles
    <2>3. CASE Ends(q)
      BY <1>2, <2>3
    <2>4. CASE ~Connected /\ ~Ends(q)
      <3>1. creds # Nobody /\ UNCHANGED scans
            /\ run' = [run EXCEPT ![q] = [NoRun EXCEPT !.at = "connecting", !.obj = TheClient,
                                                      !.acct = creds]]
        BY <1>3, <2>4 DEF PoolSettles
      <3>2. run'[q].acct = creds /\ \A p \in Run \ {q} : run'[p] = run[p]
        BY <3>1 DEF TypeOK, NoRun
      <3> QED BY <3>1, <3>2
    <2> QED BY <2>2, <2>3, <2>4
  <1>4. ASSUME NEW q \in Run, RunConnected(q) PROVE Moves
    <2>1. run[q].at \in Live
      BY <1>4 DEF RunConnected, Live
    <2> QED BY <1>4, <2>1, RunScanMoves DEF RunConnected
  <1>5. ASSUME NEW q \in Run, ScanStart(q) PROVE Moves
    <2>1. run'[q].at = "pooling" /\ \A p \in Run \ {q} : run'[p] = run[p]
      BY <1>5 DEF ScanStart, TypeOK, NoRun
    <2> QED BY <1>5, <2>1 DEF ScanStart
  <1>6. ASSUME NEW q \in Run, RunAttached(q) \/ RunListed(q) PROVE Moves
    <2>1. /\ run'[q].acct = run[q].acct /\ run[q].at \in Live \ {"pooling"}
          /\ \A p \in Run \ {q} : run'[p] = run[p]
          /\ UNCHANGED scans
      BY <1>6 DEF RunAttached, RunListed, TypeOK, Live
    <2> QED BY <2>1
  <1>7. CASE RunStep
    <2>1. PICK q \in Run :
            \/ ScanStart(q)
            \/ PoolSettles(q) \/ RunConnected(q) \/ RunAttached(q) \/ RunListed(q)
            \/ RunDials(q) \/ RunReconnects(q) \/ RunDone(q) \/ RunFails(q) \/ ScanCancel(q)
      BY <1>7 DEF RunStep
    <2>2. CASE RunDone(q) \/ RunFails(q)
      BY <1>2, <2>2 DEF RunDone, RunFails
    <2>3. CASE ScanCancel(q)
      BY <1>1, <2>3 DEF ScanCancel
    <2>4. CASE RunDials(q) \/ RunReconnects(q)
      <3>1. run'[r].at = run[r].at /\ run'[r].acct = run[r].acct /\ scans' = scans
        BY <2>4, RedialsTypes DEF RunDials, RunReconnects
      <3> QED BY <3>1
    <2> QED BY <1>3, <1>4, <1>5, <1>6, <2>1, <2>2, <2>3, <2>4
  <1>8. ASSUME NEW R, run' = Wiped(R), UNCHANGED scans PROVE Moves
    <2>1. /\ run'[r].acct = run[r].acct
          /\ run'[r].at = run[r].at \/ run[r].at = "storing"
      BY <1>8 DEF Wiped, TypeOK
    <2> QED BY <1>8, <2>1 DEF Live
  <1>9. CASE \E a \in Account : AccountsDelete(a)
    BY <1>8, <1>9 DEF AccountsDelete
  <1>10. CASE Disconnect \/ \E o \in Object : ConnectionLost(o) \/ LoggedOut(o)
    BY <1>1, <1>10 DEF Disconnect, ConnectionLost, LoggedOut
  <1>11. CASE LoginStep \/ ListerStep \/ UNCHANGED sessionVars
    BY <1>1, <1>11 DEF LoginStep, ConnectSaved, TestConnection, LoginSucceeds, LoginFails,
                       ListerStep, FoldersList, ListerConnected, Listed, ListFails, sessionVars
  <1> QED BY <1>7, <1>9, <1>10, <1>11 DEF SessionStep, SessionNext

(* What is on its way. *)
LEMMA MessagesTyped ==
  ASSUME NEW ok \in BOOLEAN
  PROVE  /\ \A kind \in {"booted", "tested", "used"}, a \in Account :
              [kind |-> kind, ok |-> ok, acct |-> a] \in Sendable
         /\ \A a \in Whose : [kind |-> "folders", ok |-> ok, acct |-> a] \in Sendable
         /\ [kind |-> "started", ok |-> ok] \in Sendable
         /\ \A kind \in {"removed", "snapshot"}, a \in Account :
              [kind |-> kind, acct |-> a] \in Sendable
         /\ \A kind \in {"reset", "cancelled"} : [kind |-> kind] \in Sendable
  BY DEF Sendable

LEMMA MessageFields ==
  ASSUME NEW m \in Sendable
  PROVE  /\ m.kind \in {"booted", "tested", "used", "removed", "snapshot"} => m.acct \in Account
         /\ m.kind \in {"booted", "tested", "used", "folders", "started"} => m.ok \in BOOLEAN
         /\ m.kind = "folders" => m.acct \in Whose
         /\ m.kind \in {"booted", "tested", "used", "removed", "snapshot", "folders", "started",
                        "reset", "cancelled"}
  BY DEF Sendable

LEMMA Appended ==
  ASSUME inbox \in Seq(Sendable), NEW m \in Sendable, Sends(m)
  PROVE  /\ inbox' \in Seq(Sendable)
         /\ DOMAIN inbox' = DOMAIN inbox \cup {Len(inbox) + 1}
         /\ inbox'[Len(inbox) + 1] = m
         /\ \A i \in DOMAIN inbox : inbox'[i] = inbox[i] /\ i < Len(inbox) + 1
         /\ DOMAIN inbox \subseteq Nat
  BY DEF Sends

LEMMA Taken ==
  ASSUME inbox \in Seq(Sendable), NEW kind, Receive(kind)
  PROVE  /\ inbox' \in Seq(Sendable)
         /\ 1 \in DOMAIN inbox /\ Head(inbox) = inbox[1] /\ Head(inbox) \in Sendable
         /\ Head(inbox).kind = kind
         /\ \A i \in DOMAIN inbox' : i + 1 \in DOMAIN inbox /\ inbox'[i] = inbox[i + 1]
         /\ \A i \in DOMAIN inbox \ {1} : i - 1 \in DOMAIN inbox' /\ inbox'[i - 1] = inbox[i]
         /\ DOMAIN inbox' \subseteq Nat \ {0} /\ DOMAIN inbox \subseteq Nat \ {0}
  <1>1. Len(inbox) \in Nat \ {0} /\ inbox' = Tail(inbox) /\ Head(inbox).kind = kind
    BY DEF Receive
  <1>2. inbox' \in Seq(Sendable) /\ Len(inbox') = Len(inbox) - 1
    BY <1>1
  <1>3. \A i \in 1 .. Len(inbox) - 1 : inbox'[i] = inbox[i + 1]
    BY <1>1
  <1>4. DOMAIN inbox' = 1 .. Len(inbox) - 1 /\ DOMAIN inbox = 1 .. Len(inbox)
    BY <1>2
  <1>5. Head(inbox) = inbox[1] /\ inbox[1] \in Sendable
    BY <1>1
  <1> QED BY <1>1, <1>2, <1>3, <1>4, <1>5

-----------------------------------------------------------------------------
(* The window's types.                                                      *)

Grounds == AppTypeOK /\ LoginsHaveAccount /\ RunsHaveAccount /\ Registry

LEMMA StepSessionGrounds ==
  ASSUME Grounds, SessionStep
  PROVE  TypeOK' /\ LoginsHaveAccount' /\ RunsHaveAccount' /\ Registry'
  <1>1. TypeOK /\ Types
    BY DEF Grounds, AppTypeOK, Types
  <1>2. Types' /\ Registry'
    BY <1>1, StepTypes, StepRegistry DEF Grounds, SessionStep
  <1>3. ASSUME NEW r \in Run, run'[r].at \in Live \ {"pooling"} PROVE run'[r].acct \in Account
    <2>1. creds # Nobody => creds \in Account
      BY <1>1 DEF TypeOK, Whose
    <2> QED BY <1>1, <1>3, <2>1, RunsMove DEF Grounds, RunsHaveAccount
  <1> QED BY <1>2, <1>3 DEF Types, RunsHaveAccount

LEMMA ClickTypes ==
  ASSUME Grounds, TypeOK', Click
  PROVE  AppTypeOK'
  <1> USE DEF Grounds
  <1>0. inbox \in Seq(Sendable) /\ Account \subseteq Whose /\ Nobody \in Whose
    BY DEF AppTypeOK, Whose
  <1>1. ASSUME NEW g \in Login, NEW a \in Account, ClickTest(g, a) \/ ClickUse(g, a)
        PROVE  AppTypeOK'
    <2>1. CASE ClickTest(g, a)
      BY <1>0, <2>1 DEF ClickTest, AppTypeOK, sliceVars
    <2>2. CASE ClickUse(g, a)
      BY <2>2 DEF ClickUse, AppTypeOK, sliceVars, connVars
    <2> QED BY <1>1, <2>1, <2>2
  <1>2. ASSUME NEW a \in Account, UpdateForm(a) PROVE AppTypeOK'
    <2>1. form' \in Whose
      BY <1>0, <1>2 DEF UpdateForm, Typed
    <2> QED BY <1>2, <2>1 DEF UpdateForm, AppTypeOK, sliceVars
  <1>3. ASSUME NEW a \in Account, ClickForget(a) PROVE AppTypeOK'
    <2>1. inbox' \in Seq(Sendable)
      BY <1>0, <1>3, Appended, MessagesTyped DEF ClickForget
    <2> QED BY <1>3, <2>1 DEF ClickForget, AppTypeOK, sliceVars, connVars
  <1>4. CASE ClickContinue
    BY <1>0, <1>4 DEF ClickContinue, SliceReset, AppTypeOK, connVars
  <1>5. CASE ClickSwitch
    BY <1>0, <1>5 DEF ClickSwitch, SliceReset, AppTypeOK, connVars
  <1>6. CASE ClickReset
    <2>1. inbox' \in Seq(Sendable)
      BY <1>0, <1>6, Appended, MessagesTyped DEF ClickReset
    <2> QED BY <1>6, <2>1 DEF ClickReset, AppTypeOK, connVars
  <1>7. ASSUME NEW r \in Run, ClickStart(r) PROVE AppTypeOK'
    <2>1. inbox' \in Seq(Sendable)
      BY <1>0, <1>7, Appended, MessagesTyped DEF ClickStart
    <2> QED BY <1>7, <2>1 DEF ClickStart, AppTypeOK, connVars
  <1>8. CASE ClickCancel
    <2>1. inbox' \in Seq(Sendable)
      BY <1>0, <1>8, Appended, MessagesTyped DEF ClickCancel
    <2> QED BY <1>8, <2>1 DEF ClickCancel, AppTypeOK, connVars
  <1>9. CASE GoBack
    BY <1>9 DEF GoBack, AppTypeOK, storeVars, connVars, sliceVars
  <1> QED BY <1>1, <1>2, <1>3, <1>4, <1>5, <1>6, <1>7, <1>8, <1>9 DEF Click

LEMMA EffectTypes ==
  ASSUME Grounds, TypeOK', Effect
  PROVE  AppTypeOK'
  <1> USE DEF Grounds
  <1>0. inbox \in Seq(Sendable) /\ Nobody \in Whose
    BY DEF AppTypeOK, Whose
  <1>1. ASSUME NEW g \in Login, NEW a \in Account, BootConnects(g, a) PROVE AppTypeOK'
    BY <1>1 DEF BootConnects, Quietly, AppTypeOK, storeVars, connVars, sliceVars
  <1>2. CASE BootHasNoAccount \/ HandOff \/ RouteChanges
    <2>1. CASE BootHasNoAccount
      BY <2>1 DEF BootHasNoAccount, AppTypeOK, storeVars, connVars, sliceVars
    <2>2. CASE HandOff
      BY <2>2 DEF HandOff, AppTypeOK, connVars, sliceVars
    <2>3. CASE RouteChanges
      BY <2>3 DEF RouteChanges, AppTypeOK, storeVars, connVars, sliceVars
    <2> QED BY <1>2, <2>1, <2>2, <2>3
  <1>3. ASSUME NEW l \in Lister, FetchFolders(l) PROVE AppTypeOK'
    <2>1. inbox' \in Seq(Sendable)
      BY <1>0, <1>3, Appended, MessagesTyped DEF FetchFolders
    <2> QED BY <1>3, <2>1 DEF FetchFolders, AppTypeOK, connVars
  <1> QED BY <1>1, <1>2, <1>3 DEF Effect

(* What the main process sends is of its type. *)
LEMMA AnswerTypes ==
  ASSUME Grounds, TypeOK', Answer
  PROVE  AppTypeOK'
  <1> USE DEF Grounds
  <1>0. inbox \in Seq(Sendable)
    BY DEF AppTypeOK
  <1>1. ASSUME inbox' \in Seq(Sendable), UNCHANGED <<route, storeVars>> PROVE AppTypeOK'
    BY <1>1 DEF AppTypeOK, storeVars, connVars, sliceVars
  <1>2. ASSUME NEW ok \in BOOLEAN, NEW g \in Login, LoginAnswer(g, ok) PROVE AppTypeOK'
    <2>1. login[g].acct \in Account
      BY <1>2 DEF LoginAnswer, LoginSucceeds, LoginFails, LoginsHaveAccount
    <2> QED BY <1>0, <1>1, <1>2, <2>1, Appended, MessagesTyped DEF LoginAnswer
  <1>3. ASSUME NEW ok \in BOOLEAN, NEW l \in Lister, ListAnswer(l, ok) PROVE AppTypeOK'
    <2>1. lister[l].acct \in Whose
      BY DEF AppTypeOK, TypeOK
    <2> QED BY <1>0, <1>1, <1>3, <2>1, Appended, MessagesTyped DEF ListAnswer
  <1>4. ASSUME NEW r \in Run, RunSnapshot(r) PROVE AppTypeOK'
    <2>1. run[r].acct \in Account
      BY <1>4 DEF RunSnapshot, RunsHaveAccount, Live
    <2> QED BY <1>0, <1>1, <1>4, <2>1, Appended, MessagesTyped DEF RunSnapshot
  <1>5. ASSUME NEW r \in Run, NEW ok \in BOOLEAN, Answers(r, ok) PROVE AppTypeOK'
    BY <1>0, <1>1, <1>5, Appended, MessagesTyped DEF Answers
  <1> QED BY <1>2, <1>3, <1>4, <1>5 DEF Answer, RunGoesOn, RunJoins, RunEnds

LEMMA DeliverTypes ==
  ASSUME Grounds, TypeOK', Deliver
  PROVE  AppTypeOK'
  <1> USE DEF Grounds
  <1>0. inbox \in Seq(Sendable) /\ Account \subseteq Whose /\ Nobody \in Whose
    BY DEF AppTypeOK, Whose
  <1>1. ASSUME NEW kind, Receive(kind)
        PROVE  /\ inbox' \in Seq(Sendable)
               /\ kind \in {"booted", "tested", "used", "removed", "snapshot"}
                    => Head(inbox).acct \in Account
               /\ kind \in {"booted", "tested", "used", "folders", "started"}
                    => Head(inbox).ok \in BOOLEAN
               /\ kind = "folders" => Head(inbox).acct \in Whose
    BY <1>0, <1>1, Taken, MessageFields
  <1>2. ASSUME NEW a \in Account, Prefilled(a) PROVE form' \in Whose /\ testing' \in BOOLEAN /\ tested' \in BOOLEAN
    BY <1>0, <1>2 DEF Prefilled, Typed
  <1>3. CASE Booted
    <2>1. inbox' \in Seq(Sendable) /\ Head(inbox).acct \in Account
      BY <1>1, <1>3 DEF Booted
    <2>2. form' \in Whose /\ testing' \in BOOLEAN /\ tested' \in BOOLEAN
      BY <1>2, <1>3, <2>1 DEF Booted, AppTypeOK, connVars
    <2> QED BY <1>0, <1>3, <2>1, <2>2 DEF Booted, AppTypeOK, sliceVars
  <1>4. CASE Tested
    <2>1. inbox' \in Seq(Sendable) /\ Head(inbox).ok \in BOOLEAN
      BY <1>1, <1>4 DEF Tested
    <2> QED BY <1>0, <1>4, <2>1 DEF Tested, AppTypeOK, sliceVars
  <1>5. CASE Used
    <2>1. inbox' \in Seq(Sendable) /\ Head(inbox).acct \in Account
      BY <1>1, <1>5 DEF Used
    <2>2. form' \in Whose /\ testing' \in BOOLEAN /\ tested' \in BOOLEAN
      BY <1>2, <1>5, <2>1 DEF Used, AppTypeOK, connVars
    <2>3. CASE Head(inbox).ok
      BY <1>0, <1>5, <2>1, <2>2, <2>3 DEF Used, SliceReset, AppTypeOK
    <2>4. CASE ~Head(inbox).ok
      BY <1>0, <1>5, <2>1, <2>2, <2>4 DEF Used, AppTypeOK, sliceVars
    <2> QED BY <2>3, <2>4
  <1>6. CASE Removed
    <2>1. inbox' \in Seq(Sendable)
      BY <1>1, <1>6 DEF Removed
    <2> QED BY <1>0, <1>6, <2>1 DEF Removed, SliceReset, AppTypeOK, connVars
  <1>7. CASE FoldersFetched
    <2>1. inbox' \in Seq(Sendable) /\ Head(inbox).acct \in Whose
      BY <1>1, <1>7 DEF FoldersFetched
    <2> QED BY <1>7, <2>1 DEF FoldersFetched, AppTypeOK, connVars
  <1>8. CASE Started
    <2>1. inbox' \in Seq(Sendable)
      BY <1>1, <1>8 DEF Started
    <2> QED BY <1>8, <2>1 DEF Started, AppTypeOK, connVars
  <1>9. CASE SnapshotAppended
    <2>1. inbox' \in Seq(Sendable) /\ Head(inbox).acct \in Account
      BY <1>1, <1>9 DEF SnapshotAppended
    <2> QED BY <1>9, <2>1 DEF SnapshotAppended, AppTypeOK, connVars
  <1>10. CASE CancelDone
    <2>1. inbox' \in Seq(Sendable)
      BY <1>1, <1>10 DEF CancelDone
    <2> QED BY <1>10, <2>1 DEF CancelDone, AppTypeOK, connVars
  <1>11. CASE ResetDone
    <2>1. inbox' \in Seq(Sendable)
      BY <1>1, <1>11 DEF ResetDone
    <2> QED BY <1>11, <2>1 DEF ResetDone, AppTypeOK, connVars, sliceVars
  <1> QED BY <1>3, <1>4, <1>5, <1>6, <1>7, <1>8, <1>9, <1>10, <1>11 DEF Deliver

LEMMA StepGrounds == Grounds /\ [Next]_vars => Grounds'
  <1> SUFFICES ASSUME Grounds, [Next]_vars PROVE Grounds'
    OBVIOUS
  <1>1. TypeOK' /\ LoginsHaveAccount' /\ RunsHaveAccount' /\ Registry'
    BY NextIsSession, StepSessionGrounds
  <1>2. ASSUME UNCHANGED <<route, storeVars, inbox>> PROVE AppTypeOK'
    BY <1>1, <1>2 DEF Grounds, AppTypeOK, storeVars, connVars, sliceVars
  <1>3. Click \/ Effect \/ Answer \/ Deliver \/ UNCHANGED <<route, storeVars, inbox>>
    BY DEF Next, Quietly, vars
  <1>4. AppTypeOK'
    BY <1>1, <1>2, <1>3, ClickTypes, EffectTypes, AnswerTypes, DeliverTypes
  <1> QED BY <1>1, <1>4 DEF Grounds

LEMMA InitGrounds == Init => Grounds
  <1> SUFFICES ASSUME Init PROVE Grounds
    OBVIOUS
  <1>1. TypeOK /\ LoginsHaveAccount
    BY InitTypes DEF Init, Types
  <1>2. AppTypeOK
    <2>1. inbox \in Seq(Sendable) /\ Nobody \in Whose
      BY DEF Init, Whose
    <2> QED BY <1>1, <2>1 DEF Init, AppTypeOK
  <1>3. RunsHaveAccount
    BY DEF Init, SessionInit, RunsHaveAccount, NoRun, Live
  <1>4. Registry
    BY DEF Init, SessionInit, Registry, AbortedIsLive, NoScanEscapes, NoRun, Live
  <1> QED BY <1>1, <1>2, <1>3, <1>4 DEF Grounds

(* The store and what is on its way have their types, whatever is clicked   *)
(* when, and every snapshot is of an account.                               *)
THEOREM AppTypesAreRight == Spec => []AppTypeOK
  <1>1. Grounds => AppTypeOK
    BY DEF Grounds
  <1> QED BY <1>1, InitGrounds, StepGrounds, PTL DEF Spec

-----------------------------------------------------------------------------
(* A patient user.  Between the call of a login and the arrival of its      *)
(* answer nothing else is asked of the session, so the answer still means   *)
(* what the credentials are.                                                *)

LoginKinds == {"booted", "tested", "used"}
Pending(g) == login[g].at # "idle"
LoginMsg(i) == inbox[i].kind \in LoginKinds
Outstanding == LoginPending \/ \E i \in DOMAIN inbox : LoginMsg(i)

OneLogin ==
  /\ \A g, h \in Login : Pending(g) /\ Pending(h) => g = h
  /\ \A i, j \in DOMAIN inbox : LoginMsg(i) /\ LoginMsg(j) => i = j
  /\ \A g \in Login, i \in DOMAIN inbox : ~(Pending(g) /\ LoginMsg(i))

NobodyMeanwhile ==
  Outstanding =>
    /\ active = Nobody /\ ~goScan /\ leaving = {} /\ route \in {"splash", "connect"}
    /\ \A i \in DOMAIN inbox : inbox[i].kind \notin {"snapshot", "removed"}

(* The screen knows of the login it has asked for, *)
CallShown ==
  \A g \in Login :
    /\ login[g].at = "testing"
         => route = "connect" /\ testing /\ ~tested /\ form = login[g].acct
    /\ login[g].at = "saved" /\ route = "connect" => login[g].acct \in busy

(* and its answer finds the screen as it was. *)
AnswerShown ==
  \A i \in DOMAIN inbox : LoginMsg(i) =>
    /\ inbox[i].kind = "tested"
         => route = "connect" /\ testing /\ ~tested /\ form = inbox[i].acct
    /\ inbox[i].ok => creds = inbox[i].acct
    /\ inbox[i].kind = "booted" => route = "splash"
    /\ inbox[i].kind = "used" => route = "connect"

LoginShown == OneLogin /\ NobodyMeanwhile /\ CallShown /\ AnswerShown

(* Who is logged in goes with the screen. *)
Screens ==
  /\ route \in {"splash", "leaving"} \/ (route = "connect" /\ ~goScan) => active = Nobody
  /\ goScan => route = "connect" /\ active # Nobody
  /\ route \in {"scan", "results"} => active # Nobody
  /\ tested => form \in Account
  /\ route = "splash" => /\ leaving = {} /\ ~tested /\ rows = {}
                         /\ \A i \in DOMAIN inbox : inbox[i].kind # "snapshot"

(* The credentials are the active account's, or those of the test that      *)
(* Continue would take over.                                                *)
SessionShown ==
  /\ active # Nobody => creds \in {Nobody, active}
  /\ tested /\ leaving = {} /\ route = "connect" /\ ~goScan /\ ~Outstanding
       => creds \in {Nobody, form}
  /\ route = "leaving" /\ leaving = {} => creds = Nobody

(* The scans that can still send rows are the active account's. *)
ScansShown ==
  /\ active = Nobody => scans = {}
  /\ \A r \in scans : run[r].at # "pooling" => run[r].acct = active

RowsShown ==
  active # Nobody =>
    /\ rows \subseteq {active}
    /\ \A i \in DOMAIN inbox : inbox[i].kind = "snapshot" => inbox[i].acct = active

Patient == LoginShown /\ Screens /\ SessionShown /\ ScansShown /\ RowsShown

(* A step leaves the messages of the kinds in K on their way, in order, and *)
(* adds none: the first message, of another kind, may be gone.              *)
KeepsMessages(K) ==
  \E k \in {0, 1} :
    /\ \A i \in DOMAIN inbox' : inbox'[i].kind \in K
         => i + k \in DOMAIN inbox /\ inbox'[i] = inbox[i + k]
    /\ \A j \in DOMAIN inbox : inbox[j].kind \in K
         => j - k \in DOMAIN inbox' /\ inbox'[j - k] = inbox[j]

Telling == LoginKinds \cup {"snapshot", "removed"}

LEMMA InboxKeeps ==
  ASSUME inbox \in Seq(Sendable), NEW K
  PROVE  /\ UNCHANGED inbox => KeepsMessages(K)
         /\ \A m \in Sendable : m.kind \notin K /\ Sends(m) => KeepsMessages(K)
         /\ \A kind : kind \notin K /\ Receive(kind) => KeepsMessages(K)
  <1>1. DOMAIN inbox \subseteq Int
    OBVIOUS
  <1>2. ASSUME UNCHANGED inbox PROVE KeepsMessages(K)
    <2>1. \A i \in DOMAIN inbox : i + 0 = i /\ i - 0 = i
      BY <1>1
    <2> QED BY <1>2, <2>1 DEF KeepsMessages
  <1>3. ASSUME NEW m \in Sendable, m.kind \notin K, Sends(m) PROVE KeepsMessages(K)
    <2>1. \A i \in DOMAIN inbox : i + 0 = i /\ i - 0 = i /\ i \in DOMAIN inbox' /\ inbox'[i] = inbox[i]
      BY <1>1, <1>3, Appended
    <2>2. \A i \in DOMAIN inbox' : i \in DOMAIN inbox \/ inbox'[i] = m
      BY <1>3, Appended
    <2> QED BY <1>3, <2>1, <2>2 DEF KeepsMessages
  <1>4. ASSUME NEW kind, kind \notin K, Receive(kind) PROVE KeepsMessages(K)
    <2>1. \A i \in DOMAIN inbox' : i + 1 \in DOMAIN inbox /\ inbox'[i] = inbox[i + 1]
      BY <1>4, Taken
    <2>2. \A j \in DOMAIN inbox : inbox[j].kind \in K
            => j - 1 \in DOMAIN inbox' /\ inbox'[j - 1] = inbox[j]
      BY <1>4, Taken
    <2> QED BY <2>1, <2>2 DEF KeepsMessages
  <1> QED BY <1>2, <1>3, <1>4

LEMMA KeepsFewer ==
  ASSUME NEW K, NEW J \in SUBSET K, KeepsMessages(K)
  PROVE  KeepsMessages(J)
  BY DEF KeepsMessages

LEMMA OutstandingKept ==
  ASSUME UNCHANGED login, KeepsMessages(LoginKinds)
  PROVE  Outstanding' <=> Outstanding
  <1>1. LoginPending' <=> LoginPending
    BY DEF LoginPending
  <1>2. PICK k \in {0, 1} :
          /\ \A i \in DOMAIN inbox' : inbox'[i].kind \in LoginKinds
               => i + k \in DOMAIN inbox /\ inbox'[i] = inbox[i + k]
          /\ \A j \in DOMAIN inbox : inbox[j].kind \in LoginKinds
               => j - k \in DOMAIN inbox' /\ inbox'[j - k] = inbox[j]
    BY DEF KeepsMessages
  <1>3. (\E i \in DOMAIN inbox' : LoginMsg(i)') <=> \E i \in DOMAIN inbox : LoginMsg(i)
    BY <1>2 DEF LoginMsg
  <1> QED BY <1>1, <1>3 DEF Outstanding

LEMMA OneLoginKept ==
  ASSUME UNCHANGED login, KeepsMessages(LoginKinds), OneLogin,
         inbox' \in Seq(Sendable)
  PROVE  OneLogin'
  <1>1. PICK k \in {0, 1} :
          \A i \in DOMAIN inbox' : inbox'[i].kind \in LoginKinds
            => i + k \in DOMAIN inbox /\ inbox'[i] = inbox[i + k]
    BY DEF KeepsMessages
  <1>2. \A i \in DOMAIN inbox' : i \in Int
    OBVIOUS
  <1>3. \A i \in DOMAIN inbox' : LoginMsg(i)' => i + k \in DOMAIN inbox /\ LoginMsg(i + k)
    BY <1>1 DEF LoginMsg
  <1>4. \A g \in Login : Pending(g)' <=> Pending(g)
    BY DEF Pending
  <1>5. \A i, j \in DOMAIN inbox' : LoginMsg(i)' /\ LoginMsg(j)' => i = j
    <2> SUFFICES ASSUME NEW i \in DOMAIN inbox', NEW j \in DOMAIN inbox', LoginMsg(i)', LoginMsg(j)'
                 PROVE  i = j
      OBVIOUS
    <2>1. i + k = j + k
      BY <1>3 DEF OneLogin
    <2> QED BY <1>2, <2>1
  <1>6. \A g \in Login, i \in DOMAIN inbox' : ~(Pending(g)' /\ LoginMsg(i)')
    BY <1>3, <1>4 DEF OneLogin
  <1>7. \A g, h \in Login : Pending(g)' /\ Pending(h)' => g = h
    BY <1>4 DEF OneLogin
  <1> QED BY <1>5, <1>6, <1>7 DEF OneLogin

LEMMA AnswersKept ==
  ASSUME AnswerShown, KeepsMessages(LoginKinds), UNCHANGED <<creds, route, connVars>>
  PROVE  AnswerShown'
  <1>1. PICK k \in {0, 1} :
          \A i \in DOMAIN inbox' : inbox'[i].kind \in LoginKinds
            => i + k \in DOMAIN inbox /\ inbox'[i] = inbox[i + k]
    BY DEF KeepsMessages
  <1> SUFFICES ASSUME NEW i \in DOMAIN inbox', LoginMsg(i)'
               PROVE  /\ inbox'[i].kind = "tested"
                           => route' = "connect" /\ testing' /\ ~tested' /\ form' = inbox'[i].acct
                      /\ inbox'[i].ok => creds' = inbox'[i].acct
                      /\ inbox'[i].kind = "booted" => route' = "splash"
                      /\ inbox'[i].kind = "used" => route' = "connect"
    BY DEF AnswerShown
  <1>2. i + k \in DOMAIN inbox /\ inbox'[i] = inbox[i + k] /\ LoginMsg(i + k)
    BY <1>1 DEF LoginMsg
  <1>3. creds' = creds /\ route' = route /\ testing' = testing /\ tested' = tested /\ form' = form
    BY DEF connVars
  <1>4. /\ inbox[i + k].kind = "tested"
             => route = "connect" /\ testing /\ ~tested /\ form = inbox[i + k].acct
        /\ inbox[i + k].ok => creds = inbox[i + k].acct
        /\ inbox[i + k].kind = "booted" => route = "splash"
        /\ inbox[i + k].kind = "used" => route = "connect"
    BY <1>2 DEF AnswerShown
  <1> QED BY <1>2, <1>3, <1>4

(* While no login is under way there is nothing to know of one. *)
LEMMA NoLoginToShow ==
  ~Outstanding' => LoginShown'
  <1> SUFFICES ASSUME ~Outstanding' PROVE LoginShown'
    OBVIOUS
  <1>1. /\ \A g \in Login : login'[g].at = "idle"
        /\ \A i \in DOMAIN inbox' : ~LoginMsg(i)'
    BY DEF Outstanding, LoginPending
  <1> QED BY <1>1 DEF LoginShown, OneLogin, NobodyMeanwhile, CallShown, AnswerShown, Outstanding,
                      LoginPending, Pending

LEMMA NoLoginComes ==
  ASSUME ~Outstanding, UNCHANGED login, KeepsMessages(LoginKinds)
  PROVE  ~Outstanding' /\ LoginShown'
  <1>1. ~Outstanding'
    BY OutstandingKept
  <1> QED BY <1>1, NoLoginToShow

(* A run that stays registered goes on for the active account. *)
LEMMA ScansKept ==
  ASSUME Grounds, Grounds', SessionStep, SessionShown, ScansShown,
         UNCHANGED active, scans' \subseteq scans
  PROVE  ScansShown'
  <1>1. active' = Nobody => scans' = {}
    BY DEF ScansShown
  <1>2. ASSUME NEW r \in scans', run'[r].at # "pooling" PROVE run'[r].acct = active'
    <2>1. r \in scans /\ r \in Run /\ run'[r].at \in Live \ {"pooling"}
      BY <1>2 DEF Grounds, Registry, NoScanEscapes
    <2>2. active # Nobody
      BY <2>1 DEF ScansShown
    <2>3. TypeOK
      BY DEF Grounds, AppTypeOK
    <2> QED BY <2>1, <2>2, <2>3, RunsMove DEF ScansShown, SessionShown
  <1> QED BY <1>1, <1>2 DEF ScansShown

LEMMA RowsKept ==
  ASSUME RowsShown, UNCHANGED active, rows' \subseteq rows, KeepsMessages({"snapshot"})
  PROVE  RowsShown'
  BY DEF RowsShown, KeepsMessages

(* Most steps touch neither the login nor what the screens say of it. *)
LEMMA CalmStep ==
  ASSUME Grounds, Grounds', SessionStep, Patient,
         UNCHANGED <<creds, leaving, login, route, active, connVars, goScan, busy, rows>>,
         scans' \subseteq scans, KeepsMessages(Telling)
  PROVE  Patient'
  <1>1. KeepsMessages(LoginKinds) /\ KeepsMessages({"snapshot"}) /\ KeepsMessages({"snapshot", "removed"})
    BY KeepsFewer DEF Telling
  <1>2. Outstanding' <=> Outstanding
    BY <1>1, OutstandingKept
  <1>3. inbox' \in Seq(Sendable)
    BY DEF Grounds, AppTypeOK
  <1>4. (\A i \in DOMAIN inbox : inbox[i].kind \notin {"snapshot", "removed"})
          => \A i \in DOMAIN inbox' : inbox'[i].kind \notin {"snapshot", "removed"}
    BY <1>1 DEF KeepsMessages
  <1>5. (\A i \in DOMAIN inbox : inbox[i].kind # "snapshot")
          => \A i \in DOMAIN inbox' : inbox'[i].kind # "snapshot"
    BY <1>1 DEF KeepsMessages
  <1>6. LoginShown'
    <2>1. OneLogin' /\ AnswerShown'
      BY <1>1, <1>3, OneLoginKept, AnswersKept DEF Patient, LoginShown
    <2>2. NobodyMeanwhile'
      BY <1>2, <1>4 DEF Patient, LoginShown, NobodyMeanwhile
    <2>3. CallShown'
      BY DEF Patient, LoginShown, CallShown, connVars
    <2> QED BY <2>1, <2>2, <2>3 DEF LoginShown
  <1>7. Screens'
    BY <1>5 DEF Patient, Screens, connVars
  <1>8. SessionShown'
    BY <1>2 DEF Patient, SessionShown, connVars
  <1>9. ScansShown' /\ RowsShown'
    BY <1>1, ScansKept, RowsKept DEF Patient
  <1> QED BY <1>6, <1>7, <1>8, <1>9 DEF Patient

(* On the connect screen a patient user clicks when all is quiet. *)
LEMMA PatientClicks ==
  ASSUME ~Hasty, Grounds, Patient, route = "connect", Settled
  PROVE  /\ ~Outstanding /\ ~testing /\ busy = {} /\ inbox = <<>> /\ leaving = {} /\ ~goScan
         /\ active = Nobody /\ scans = {}
         /\ ~TestUnderWay
  <1>1. ~testing /\ busy = {} /\ inbox = <<>> /\ leaving = {} /\ ~goScan
    BY DEF Settled
  <1>2. \A g \in Login : login[g].at = "idle"
    <2>1. \A g \in Login : login[g].at \in LoginAt
      BY DEF Grounds, AppTypeOK, TypeOK
    <2> QED BY <1>1, <2>1 DEF LoginAt, Patient, LoginShown, CallShown
  <1>3. DOMAIN inbox = {}
    BY <1>1
  <1>4. ~Outstanding /\ ~TestUnderWay
    BY <1>2, <1>3 DEF Outstanding, LoginPending, TestUnderWay
  <1>5. active = Nobody /\ scans = {}
    BY <1>1 DEF Patient, Screens, ScansShown
  <1> QED BY <1>1, <1>4, <1>5

LEMMA LoginBegins ==
  ASSUME Grounds, Grounds', Patient, ~Outstanding, NEW g \in Login,
         \A h \in Login \ {g} : login'[h] = login[h],
         active' = Nobody, ~goScan', leaving' = {}, route' \in {"splash", "connect"},
         inbox' = <<>>,
         login'[g].at = "testing"
           => route' = "connect" /\ testing' /\ ~tested' /\ form' = login'[g].acct,
         login'[g].at = "saved" /\ route' = "connect" => login'[g].acct \in busy'
  PROVE  LoginShown'
  <1>1. DOMAIN inbox' = {}
    OBVIOUS
  <1>2. \A h \in Login \ {g} : login'[h].at = "idle"
    BY DEF Outstanding, LoginPending
  <1>3. OneLogin'
    BY <1>1, <1>2 DEF OneLogin, Pending
  <1>4. NobodyMeanwhile'
    BY <1>1 DEF NobodyMeanwhile
  <1>5. CallShown'
    BY <1>2 DEF CallShown
  <1>6. AnswerShown'
    BY <1>1 DEF AnswerShown
  <1> QED BY <1>3, <1>4, <1>5, <1>6 DEF LoginShown

LEMMA TestOrUse ==
  ASSUME ~Hasty, Grounds, Grounds', SessionStep, Patient, NEW g \in Login, NEW a \in Account,
         ClickTest(g, a) \/ ClickUse(g, a)
  PROVE  Patient'
  <1>1. route = "connect" /\ Settled
    BY DEF ClickTest, ClickUse
  <1>2. /\ ~Outstanding /\ ~testing /\ busy = {} /\ inbox = <<>> /\ leaving = {} /\ ~goScan
        /\ active = Nobody /\ scans = {}
    BY <1>1, PatientClicks
  <1>3. /\ UNCHANGED <<route, active, goScan, rows, inbox, creds, leaving, scans, run>>
        /\ \A h \in Login \ {g} : login'[h] = login[h]
        /\ login'[g].acct = a
    BY DEF ClickTest, ClickUse, TestConnection, ConnectSaved, Grounds, AppTypeOK, TypeOK, netVars,
           sliceVars
  <1>4. \/ login'[g].at = "testing" /\ testing' /\ ~tested' /\ form' = a
        \/ login'[g].at = "saved" /\ a \in busy' /\ UNCHANGED <<tested, form>>
    BY DEF ClickTest, ClickUse, TestConnection, ConnectSaved, Grounds, AppTypeOK, TypeOK, connVars
  <1>5. LoginShown'
    BY <1>1, <1>2, <1>3, <1>4, LoginBegins
  <1>6. Outstanding'
    BY <1>4 DEF Outstanding, LoginPending
  <1>7. Screens'
    BY <1>1, <1>3, <1>4 DEF Patient, Screens
  <1>8. SessionShown'
    BY <1>1, <1>2, <1>3, <1>6 DEF SessionShown
  <1>9. ScansShown' /\ RowsShown'
    BY <1>2, <1>3 DEF ScansShown, RowsShown
  <1> QED BY <1>5, <1>7, <1>8, <1>9 DEF Patient

(* A step that no login is under way in, before or after. *)
LEMMA QuietStep ==
  ASSUME Patient, ~Outstanding, UNCHANGED login, KeepsMessages(LoginKinds),
         Screens', SessionShown', ScansShown', RowsShown'
  PROVE  Patient'
  BY NoLoginComes DEF Patient

LEMMA FormEdited ==
  ASSUME ~Hasty, Grounds, Grounds', SessionStep, Patient, NEW a \in Account, UpdateForm(a)
  PROVE  Patient'
  <1>1. route = "connect" /\ Settled
    BY DEF UpdateForm
  <1>2. ~Outstanding /\ active = Nobody /\ scans = {} /\ ~goScan
    BY <1>1, PatientClicks
  <1>3. /\ UNCHANGED <<route, active, goScan, rows, inbox, creds, leaving, login, scans, run>>
        /\ ~tested'
    BY DEF UpdateForm, sessionVars, netVars, sliceVars
  <1>4. KeepsMessages(LoginKinds)
    BY <1>3, InboxKeeps DEF Grounds, AppTypeOK
  <1>5. Screens' /\ SessionShown' /\ ScansShown' /\ RowsShown'
    BY <1>1, <1>2, <1>3 DEF Patient, Screens, SessionShown, ScansShown, RowsShown
  <1> QED BY <1>2, <1>3, <1>4, <1>5, QuietStep

(* Continue takes over the account that was tested: nothing has happened to *)
(* the credentials since.                                                   *)
LEMMA ContinueClicked ==
  ASSUME ~Hasty, Grounds, Grounds', SessionStep, Patient, ClickContinue
  PROVE  Patient'
  <1>1. route = "connect" /\ Settled /\ tested
    BY DEF ClickContinue
  <1>2. ~Outstanding /\ leaving = {} /\ ~goScan /\ inbox = <<>> /\ scans = {}
    BY <1>1, PatientClicks
  <1>3. /\ UNCHANGED <<goScan, inbox, creds, leaving, login, scans, run, form, tested>>
        /\ active' = form /\ route' = "scan" /\ rows' = {}
    BY DEF ClickContinue, sessionVars, netVars, connVars, SliceReset
  <1>4. form \in Account /\ creds \in {Nobody, form}
    BY <1>1, <1>2 DEF Patient, Screens, SessionShown
  <1>5. KeepsMessages(LoginKinds)
    BY <1>3, InboxKeeps DEF Grounds, AppTypeOK
  <1>6. Screens'
    BY <1>2, <1>3, <1>4 DEF Screens
  <1>7. SessionShown'
    BY <1>3, <1>4 DEF SessionShown
  <1>8. ScansShown' /\ RowsShown'
    BY <1>2, <1>3 DEF ScansShown, RowsShown
  <1> QED BY <1>2, <1>3, <1>5, <1>6, <1>7, <1>8, QuietStep

LEMMA WipedKeepsAccounts ==
  ASSUME TypeOK, NEW R, run' = Wiped(R)
  PROVE  \A r \in Run : run'[r].acct = run[r].acct
                        /\ (run'[r].at = "pooling" <=> run[r].at = "pooling")
  BY DEF Wiped, TypeOK

LEMMA ForgetClicked ==
  ASSUME ~Hasty, Grounds, Grounds', SessionStep, Patient, NEW a \in Account, ClickForget(a)
  PROVE  Patient'
  <1>1. route = "connect" /\ Settled
    BY DEF ClickForget
  <1>2. ~Outstanding /\ active = Nobody /\ scans = {} /\ ~goScan
    BY <1>1, PatientClicks
  <1>3. /\ UNCHANGED <<route, active, goScan, rows, creds, leaving, login, scans, tested, form>>
        /\ Sends([kind |-> "removed", acct |-> a])
    BY DEF ClickForget, AccountsDelete, netVars, sliceVars, connVars
  <1>4. KeepsMessages(LoginKinds)
    <2>1. [kind |-> "removed", acct |-> a] \in Sendable
      BY MessagesTyped
    <2> QED BY <1>3, <2>1, InboxKeeps DEF Grounds, AppTypeOK, LoginKinds
  <1>5. ~Outstanding'
    BY <1>2, <1>3, <1>4, OutstandingKept
  <1>6. Screens'
    BY <1>1, <1>2, <1>3 DEF Patient, Screens
  <1>7. SessionShown'
    BY <1>1, <1>2, <1>3, <1>5 DEF Patient, SessionShown
  <1>8. ScansShown' /\ RowsShown'
    BY <1>2, <1>3 DEF ScansShown, RowsShown
  <1> QED BY <1>2, <1>3, <1>4, <1>6, <1>7, <1>8, QuietStep

LEMMA HandedOff ==
  ASSUME Grounds, Grounds', SessionStep, Patient, HandOff
  PROVE  Patient'
  <1>1. /\ UNCHANGED <<active, rows, inbox, creds, leaving, login, scans, run, tested, form>>
        /\ goScan /\ ~goScan' /\ route' = "scan"
    BY DEF HandOff, sessionVars, netVars, connVars, sliceVars
  <1>2. ~Outstanding /\ active # Nobody
    BY <1>1 DEF Patient, LoginShown, NobodyMeanwhile, Screens
  <1>3. KeepsMessages(LoginKinds)
    BY <1>1, InboxKeeps DEF Grounds, AppTypeOK
  <1>4. Screens' /\ SessionShown'
    BY <1>1, <1>2 DEF Patient, Screens, SessionShown
  <1>5. ScansShown' /\ RowsShown'
    BY <1>1 DEF Patient, ScansShown, RowsShown
  <1> QED BY <1>1, <1>2, <1>3, <1>4, <1>5, QuietStep

(* At the start nobody is logged in, and nothing has been shown yet. *)
LEMMA BootSteps ==
  ASSUME Grounds, Grounds', SessionStep, Patient,
         BootHasNoAccount \/ \E g \in Login, a \in Account : BootConnects(g, a)
  PROVE  Patient'
  <1>1. route = "splash" /\ ~LoginPending /\ inbox = <<>>
    BY DEF BootHasNoAccount, BootConnects
  <1>2. ~Outstanding
    BY <1>1 DEF Outstanding
  <1>3. active = Nobody /\ ~goScan /\ leaving = {} /\ ~tested /\ rows = {} /\ scans = {}
    BY <1>1 DEF Patient, Screens, ScansShown
  <1>4. CASE BootHasNoAccount
    <2>1. /\ UNCHANGED <<active, goScan, rows, inbox, creds, leaving, login, scans, run, tested,
                         form>>
          /\ route' = "connect"
      BY <1>4 DEF BootHasNoAccount, sessionVars, netVars, storeVars, connVars, sliceVars
    <2>2. KeepsMessages(LoginKinds)
      BY <2>1, InboxKeeps DEF Grounds, AppTypeOK
    <2>3. Screens' /\ SessionShown' /\ ScansShown' /\ RowsShown'
      BY <1>3, <2>1 DEF Screens, SessionShown, ScansShown, RowsShown
    <2> QED BY <1>2, <2>1, <2>2, <2>3, QuietStep
  <1>5. ASSUME NEW g \in Login, NEW a \in Account, BootConnects(g, a) PROVE Patient'
    <2>1. /\ UNCHANGED <<route, active, goScan, rows, inbox, creds, leaving, scans, run, tested>>
          /\ \A h \in Login \ {g} : login'[h] = login[h]
          /\ login'[g].at = "saved"
      BY <1>5 DEF BootConnects, ConnectSaved, Quietly, netVars, storeVars, connVars, sliceVars,
                  Grounds, AppTypeOK, TypeOK
    <2>2. LoginShown'
      BY <1>1, <1>2, <1>3, <2>1, LoginBegins
    <2>3. DOMAIN inbox' = {}
      BY <1>1, <2>1
    <2>4. Screens' /\ SessionShown' /\ ScansShown' /\ RowsShown'
      BY <1>1, <1>3, <2>1, <2>3 DEF Screens, SessionShown, ScansShown, RowsShown
    <2> QED BY <2>2, <2>4 DEF Patient
  <1> QED BY <1>4, <1>5

(* Behind the login no login is under way. *)
LEMMA LoggedInIsQuiet ==
  ASSUME Patient, route \in {"scan", "results", "leaving"}
  PROVE  ~Outstanding /\ ~goScan
  BY DEF Patient, LoginShown, NobodyMeanwhile, Screens

(* Switch account leaves no scan registered; the credentials are forgotten  *)
(* with it, or when the logout is over.                                     *)
LEMMA SwitchClicked ==
  ASSUME Grounds, Grounds', SessionStep, Patient, ClickSwitch
  PROVE  Patient'
  <1>1. route \in {"scan", "results"}
    BY DEF ClickSwitch
  <1>2. ~Outstanding /\ ~goScan
    BY <1>1, LoggedInIsQuiet
  <1>3. /\ UNCHANGED <<goScan, inbox, login, tested, form>>
        /\ active' = Nobody /\ rows' = {} /\ scans' = {} /\ route' \in {"leaving", "connect"}
        /\ leaving' = {} => creds' = Nobody
    BY DEF ClickSwitch, Disconnect, SliceReset, connVars
  <1>4. KeepsMessages(LoginKinds)
    BY <1>3, InboxKeeps DEF Grounds, AppTypeOK
  <1>5. Screens'
    BY <1>2, <1>3 DEF Patient, Screens
  <1>6. SessionShown'
    BY <1>3 DEF SessionShown
  <1>7. ScansShown' /\ RowsShown'
    BY <1>3 DEF ScansShown, RowsShown
  <1> QED BY <1>2, <1>3, <1>4, <1>5, <1>6, <1>7, QuietStep

LEMMA RouteChanged ==
  ASSUME Grounds, Grounds', SessionStep, Patient, RouteChanges
  PROVE  Patient'
  <1>1. /\ UNCHANGED <<active, goScan, rows, inbox, creds, leaving, login, scans, run, tested, form>>
        /\ route = "leaving" /\ route' = "connect"
    BY DEF RouteChanges, sessionVars, netVars, storeVars, connVars, sliceVars
  <1>2. ~Outstanding /\ ~goScan
    BY <1>1, LoggedInIsQuiet
  <1>3. KeepsMessages(LoginKinds)
    BY <1>1, InboxKeeps DEF Grounds, AppTypeOK
  <1>4. Screens' /\ SessionShown'
    BY <1>1, <1>2 DEF Patient, Screens, SessionShown
  <1>5. ScansShown' /\ RowsShown'
    BY <1>1 DEF Patient, ScansShown, RowsShown
  <1> QED BY <1>1, <1>2, <1>3, <1>4, <1>5, QuietStep

(* From one screen behind the login to another. *)
LEMMA BehindTheLogin ==
  ASSUME Grounds, Grounds', SessionStep, Patient,
         route \in {"scan", "results"}, route' \in {"scan", "results"},
         UNCHANGED <<active, goScan, creds, login, tested, form>>, rows' \subseteq rows,
         KeepsMessages(Telling), ScansShown'
  PROVE  Patient'
  <1>1. ~Outstanding /\ ~goScan
    BY LoggedInIsQuiet
  <1>2. KeepsMessages(LoginKinds) /\ KeepsMessages({"snapshot"})
    BY KeepsFewer DEF Telling
  <1>3. Screens' /\ SessionShown'
    BY <1>1 DEF Patient, Screens, SessionShown
  <1>4. RowsShown'
    BY <1>2, RowsKept DEF Patient
  <1> QED BY <1>1, <1>2, <1>3, <1>4, QuietStep

LEMMA ResetClicked ==
  ASSUME Grounds, Grounds', SessionStep, Patient, ClickReset
  PROVE  Patient'
  <1>1. /\ UNCHANGED <<active, goScan, creds, login, scans, tested, form>> /\ rows' = {}
        /\ route \in {"scan", "results"} /\ route' = "scan"
        /\ Sends([kind |-> "reset"])
    BY DEF ClickReset, sessionVars, connVars
  <1>2. KeepsMessages(Telling)
    <2>1. [kind |-> "reset"] \in Sendable
      BY MessagesTyped
    <2> QED BY <1>1, <2>1, InboxKeeps DEF Grounds, AppTypeOK, Telling, LoginKinds
  <1>3. ScansShown'
    BY <1>1, ScansKept DEF Patient
  <1> QED BY <1>1, <1>2, <1>3, BehindTheLogin

LEMMA StartClicked ==
  ASSUME Grounds, Grounds', SessionStep, Patient, NEW r \in Run, ClickStart(r)
  PROVE  Patient'
  <1>1. /\ UNCHANGED <<active, goScan, creds, login, tested, form>> /\ rows' = {}
        /\ route = "scan" /\ route' = "results"
    BY DEF ClickStart, ScanStart, sessionVars, netVars, connVars
  <1>2. KeepsMessages(Telling)
    <2>1. [kind |-> "started", ok |-> FALSE] \in Sendable
      BY MessagesTyped
    <2> QED BY <2>1, InboxKeeps DEF ClickStart, Grounds, AppTypeOK, Telling, LoginKinds
  <1>3. ScansShown'
    <2>1. CASE creds # Nobody
      <3>1. /\ scans' = scans \cup {r} /\ run'[r].at = "pooling"
            /\ \A q \in Run \ {r} : run'[q] = run[q]
        BY <2>1 DEF ClickStart, ScanStart, Grounds, AppTypeOK, TypeOK, NoRun
      <3>2. active # Nobody
        BY <1>1 DEF Patient, Screens
      <3>3. scans \subseteq Run
        BY DEF Grounds, AppTypeOK, TypeOK
      <3> QED BY <1>1, <3>1, <3>2, <3>3 DEF Patient, ScansShown
    <2>2. CASE creds = Nobody
      BY <1>1, <2>2, ScansKept DEF ClickStart, sessionVars, Patient
    <2> QED BY <2>1, <2>2
  <1> QED BY <1>1, <1>2, <1>3, BehindTheLogin

LEMMA WentBack ==
  ASSUME Grounds, Grounds', SessionStep, Patient, GoBack
  PROVE  Patient'
  <1>1. /\ UNCHANGED <<active, goScan, creds, login, scans, tested, form, rows, inbox>>
        /\ route = "results" /\ route' = "scan"
    BY DEF GoBack, sessionVars, netVars, storeVars, connVars, sliceVars
  <1>2. KeepsMessages(Telling)
    BY <1>1, InboxKeeps DEF Grounds, AppTypeOK
  <1>3. ScansShown'
    BY <1>1, ScansKept DEF Patient
  <1> QED BY <1>1, <1>2, <1>3, BehindTheLogin

LEMMA PatientClick ==
  ASSUME ~Hasty, Grounds, Grounds', SessionStep, Patient, Click
  PROVE  Patient'
  <1>1. CASE ClickCancel
    <2>1. UNCHANGED <<creds, leaving, login, route, active, connVars, goScan, busy, rows, scans>>
      BY <1>1 DEF ClickCancel, sessionVars, netVars
    <2>2. KeepsMessages(Telling)
      <3>1. [kind |-> "cancelled"] \in Sendable
        BY MessagesTyped
      <3> QED BY <1>1, <3>1, InboxKeeps DEF ClickCancel, Grounds, AppTypeOK, Telling, LoginKinds
    <2> QED BY <2>1, <2>2, CalmStep
  <1> QED BY <1>1, TestOrUse, FormEdited, ForgetClicked, ContinueClicked, SwitchClicked,
             ResetClicked, StartClicked, WentBack DEF Click

LEMMA PatientEffect ==
  ASSUME Grounds, Grounds', SessionStep, Patient, Effect
  PROVE  Patient'
  <1>1. ASSUME NEW l \in Lister, FetchFolders(l) PROVE Patient'
    <2>1. UNCHANGED <<creds, leaving, login, route, active, connVars, goScan, busy, rows, scans>>
      BY <1>1 DEF FetchFolders, FoldersList, netVars
    <2>2. KeepsMessages(Telling)
      <3>1. [kind |-> "folders", ok |-> FALSE, acct |-> Nobody] \in Sendable
        BY MessagesTyped, NothingsTypes
      <3> QED BY <1>1, <3>1, InboxKeeps DEF FetchFolders, Grounds, AppTypeOK, Telling, LoginKinds
    <2> QED BY <2>1, <2>2, CalmStep
  <1> QED BY <1>1, BootSteps, HandedOff, RouteChanged DEF Effect

(* The answer to a login says what the credentials are now. *)
LEMMA LoginAnswered ==
  ASSUME Grounds, Grounds', SessionStep, Patient, NEW g \in Login, NEW ok \in BOOLEAN,
         LoginAnswer(g, ok)
  PROVE  Patient'
  <1> DEFINE m == [kind |-> IF login[g].at = "testing" THEN "tested"
                            ELSE IF route = "splash" THEN "booted" ELSE "used",
                   ok |-> ok, acct |-> login[g].acct]
  <1>1. /\ UNCHANGED <<route, active, form, testing, tested, goScan, busy, rows, leaving, scans, run>>
        /\ login[g].at # "idle" /\ login'[g].at = "idle"
        /\ \A h \in Login \ {g} : login'[h] = login[h]
        /\ ok => creds' = login[g].acct
        /\ Sends(m)
    BY DEF LoginAnswer, LoginSucceeds, LoginFails, netVars, storeVars, connVars, sliceVars, NoLogin,
           Grounds, AppTypeOK, TypeOK
  <1>2. /\ login[g].acct \in Account
        /\ login[g].at \in {"testing", "saved"}
    BY <1>1 DEF Grounds, LoginsHaveAccount, AppTypeOK, TypeOK, LoginAt
  <1>3. m \in Sendable
    BY <1>2, MessagesTyped
  <1>4. Outstanding
    BY <1>1 DEF Outstanding, LoginPending
  <1>5. /\ active = Nobody /\ ~goScan /\ leaving = {} /\ route \in {"splash", "connect"}
        /\ \A i \in DOMAIN inbox : inbox[i].kind \notin {"snapshot", "removed"}
    BY <1>4 DEF Patient, LoginShown, NobodyMeanwhile
  <1>6. /\ \A i \in DOMAIN inbox : ~LoginMsg(i)
        /\ \A h \in Login \ {g} : login[h].at = "idle"
    BY <1>1 DEF Patient, LoginShown, OneLogin, Pending
  <1>7. \A h \in Login : login'[h].at = "idle"
    BY <1>1, <1>6
  <1> DEFINE n == Len(inbox) + 1
  <1>8. /\ n \in DOMAIN inbox' /\ inbox'[n] = m
        /\ \A i \in DOMAIN inbox' : i # n => i \in DOMAIN inbox /\ inbox'[i] = inbox[i]
    BY <1>1, <1>3, Appended DEF Grounds, AppTypeOK
  <1>9. /\ m.kind \in LoginKinds /\ (m.kind = "tested" <=> login[g].at = "testing")
        /\ m.kind = "booted" => route = "splash"
        /\ m.kind = "used" => route = "connect"
        /\ m.ok = ok /\ m.acct = login[g].acct
    BY <1>2, <1>5 DEF LoginKinds
  <1> HIDE DEF m, n
  <1>10. \A i \in DOMAIN inbox' : i # n => ~LoginMsg(i)'
    BY <1>6, <1>8 DEF LoginMsg
  <1>11. \A i \in DOMAIN inbox' : inbox'[i].kind \notin {"snapshot", "removed"}
    BY <1>5, <1>8, <1>9 DEF LoginKinds
  <1>12. Outstanding'
    <2>1. inbox'[n].kind \in LoginKinds
      BY <1>8, <1>9
    <2>2. \E i \in DOMAIN inbox' : inbox'[i].kind \in LoginKinds
      BY <1>8, <2>1
    <2> QED BY <2>2 DEF LoginMsg, Outstanding
  <1>13. OneLogin'
    BY <1>7, <1>10 DEF OneLogin, Pending
  <1>14. NobodyMeanwhile'
    BY <1>1, <1>5, <1>11 DEF NobodyMeanwhile
  <1>15. CallShown'
    BY <1>7 DEF CallShown
  <1>16. AnswerShown'
    <2>1. login[g].at = "testing"
            => route = "connect" /\ testing /\ ~tested /\ form = login[g].acct
      BY DEF Patient, LoginShown, CallShown
    <2>2. /\ m.kind = "tested"
               => route' = "connect" /\ testing' /\ ~tested' /\ form' = m.acct
          /\ m.ok => creds' = m.acct
          /\ m.kind = "booted" => route' = "splash"
          /\ m.kind = "used" => route' = "connect"
      BY <1>1, <1>9, <2>1
    <2> QED BY <1>8, <1>10, <2>2 DEF AnswerShown
  <1>17. Screens'
    BY <1>1, <1>11 DEF Patient, Screens
  <1>18. SessionShown'
    BY <1>1, <1>5, <1>12 DEF SessionShown
  <1>19. ScansShown' /\ RowsShown'
    BY <1>1, <1>5 DEF Patient, ScansShown, RowsShown
  <1> QED BY <1>13, <1>14, <1>15, <1>16, <1>17, <1>18, <1>19 DEF Patient, LoginShown

(* A scan that sends rows is registered, so they are the active account's. *)
LEMMA SnapshotSent ==
  ASSUME Grounds, Grounds', SessionStep, Patient, NEW r \in Run, RunSnapshot(r)
  PROVE  Patient'
  <1>1. /\ UNCHANGED <<creds, leaving, login, route, active, connVars, goScan, busy, rows, scans>>
        /\ run[r].at = "storing" /\ r \notin aborted
        /\ Sends([kind |-> "snapshot", acct |-> run[r].acct])
    BY DEF RunSnapshot, sessionVars, netVars, storeVars, sliceVars
  <1>2. r \in scans /\ run[r].at \in Live \ {"pooling"}
    BY <1>1 DEF Grounds, Registry, NoScanEscapes, Live
  <1>3. active # Nobody /\ run[r].acct = active
    BY <1>2 DEF Patient, ScansShown
  <1>4. [kind |-> "snapshot", acct |-> active] \in Sendable
    BY <1>3, MessagesTyped DEF Grounds, AppTypeOK, Whose
  <1>5. KeepsMessages(LoginKinds)
    BY <1>1, <1>3, <1>4, InboxKeeps DEF Grounds, AppTypeOK, LoginKinds
  <1>6. ~Outstanding
    BY <1>3 DEF Patient, LoginShown, NobodyMeanwhile
  <1>7. ~Outstanding'
    BY <1>1, <1>5, <1>6, OutstandingKept
  <1>8. route # "splash"
    BY <1>3 DEF Patient, Screens
  <1>9. Screens'
    BY <1>1, <1>8 DEF Patient, Screens, connVars
  <1>10. SessionShown'
    BY <1>1, <1>6 DEF Patient, SessionShown, connVars
  <1>11. ScansShown'
    BY <1>1, ScansKept DEF Patient
  <1>12. RowsShown'
    <2> DEFINE m == [kind |-> "snapshot", acct |-> active]
    <2>1. inbox \in Seq(Sendable) /\ Sends(m) /\ m \in Sendable /\ m.acct = active
      BY <1>1, <1>3, <1>4 DEF Grounds, AppTypeOK
    <2> HIDE DEF m
    <2>2. \A i \in DOMAIN inbox' : inbox'[i] = m \/ (i \in DOMAIN inbox /\ inbox'[i] = inbox[i])
      BY <2>1, Appended
    <2> QED BY <1>1, <2>1, <2>2 DEF Patient, RowsShown
  <1> QED BY <1>1, <1>5, <1>6, <1>9, <1>10, <1>11, <1>12, QuietStep

LEMMA PatientAnswer ==
  ASSUME Grounds, Grounds', SessionStep, Patient, Answer
  PROVE  Patient'
  <1>1. ASSUME NEW l \in Lister, NEW ok \in BOOLEAN, ListAnswer(l, ok) PROVE Patient'
    <2>1. UNCHANGED <<creds, leaving, login, route, active, connVars, goScan, busy, rows, scans>>
      BY <1>1 DEF ListAnswer, Listed, ListFails, netVars, storeVars, sliceVars
    <2>2. KeepsMessages(Telling)
      <3>1. [kind |-> "folders", ok |-> ok, acct |-> lister[l].acct] \in Sendable
        BY MessagesTyped DEF Grounds, AppTypeOK, TypeOK
      <3> QED BY <1>1, <3>1, InboxKeeps DEF ListAnswer, Grounds, AppTypeOK, Telling, LoginKinds
    <2> QED BY <2>1, <2>2, CalmStep
  <1>2. ASSUME NEW r \in Run, NEW ok \in BOOLEAN, RunGoesOn(r) \/ RunJoins(r) \/ RunEnds(r, ok)
        PROVE  Patient'
    <2>1. PoolSettles(r) \/ RunConnected(r) \/ RunDone(r) \/ RunFails(r)
      BY <1>2 DEF RunGoesOn, RunJoins, RunEnds
    <2>2. UNCHANGED <<creds, leaving, login>>
      BY <2>1 DEF PoolSettles, RunConnected, RunDone, RunFails
    <2>3. scans' \subseteq scans
      BY <2>1 DEF PoolSettles, RunConnected, RunDone, RunFails, RunScan, Ends
    <2>4. PICK b \in BOOLEAN : Answers(r, b)
      BY <1>2 DEF RunGoesOn, RunJoins, RunEnds
    <2>5. UNCHANGED <<route, active, connVars, goScan, busy, rows>>
      BY <2>4 DEF Answers, storeVars, sliceVars
    <2>6. KeepsMessages(Telling)
      <3>1. [kind |-> "started", ok |-> b] \in Sendable
        BY MessagesTyped
      <3> QED BY <2>4, <3>1, InboxKeeps DEF Answers, Grounds, AppTypeOK, Telling, LoginKinds
    <2> QED BY <2>2, <2>3, <2>5, <2>6, CalmStep
  <1> QED BY <1>1, <1>2, LoginAnswered, SnapshotSent DEF Answer

LEMMA PatientMain ==
  ASSUME Grounds, Grounds', SessionStep, Patient, MainStep, Quietly
  PROVE  Patient'
  <1>1. UNCHANGED <<route, active, connVars, goScan, busy, rows, inbox>>
    BY DEF Quietly, storeVars, sliceVars
  <1>2. KeepsMessages(Telling) /\ KeepsMessages(LoginKinds) /\ KeepsMessages({"snapshot"})
    BY <1>1, InboxKeeps DEF Grounds, AppTypeOK
  <1>3. ASSUME UNCHANGED <<creds, leaving, login, scans>> PROVE Patient'
    BY <1>1, <1>2, <1>3, CalmStep
  <1>4. ASSUME NEW o \in Object, LoggedOut(o) PROVE Patient'
    <2>1. /\ UNCHANGED <<login, scans>> /\ creds' = Nobody
          /\ leaving # {} /\ leaving' \subseteq leaving
      BY <1>4 DEF LoggedOut
    <2>2. ~Outstanding
      BY <2>1 DEF Patient, LoginShown, NobodyMeanwhile
    <2>3. Screens' /\ SessionShown'
      BY <1>1, <2>1 DEF Patient, Screens, SessionShown, connVars
    <2>4. ScansShown' /\ RowsShown'
      BY <1>1, <1>2, <2>1, ScansKept, RowsKept DEF Patient
    <2> QED BY <1>2, <2>1, <2>2, <2>3, <2>4, QuietStep
  <1>5. ASSUME NEW o \in Object, ConnectionLost(o) PROVE Patient'
    BY <1>3, <1>5 DEF ConnectionLost
  <1>6. ASSUME NEW l \in Lister, ListerConnected(l) PROVE Patient'
    BY <1>3, <1>6 DEF ListerConnected
  <1>7. ASSUME NEW r \in Run, RunDials(r) \/ RunReconnects(r) \/ RunListens(r)
        PROVE  Patient'
    BY <1>3, <1>7 DEF RunDials, RunReconnects, RunListens, RunAttached, RunListed, netVars
  <1> QED BY <1>4, <1>5, <1>6, <1>7 DEF MainStep

(* The answer to the login arrives: it was the only one. *)
LEMMA LoginArrives ==
  ASSUME Grounds, Grounds', Patient, NEW kind \in LoginKinds, Receive(kind)
  PROVE  /\ ~Outstanding' /\ LoginShown'
         /\ LoginMsg(1) /\ 1 \in DOMAIN inbox /\ Head(inbox) = inbox[1]
         /\ Head(inbox).acct \in Account /\ Head(inbox).ok \in BOOLEAN
         /\ Head(inbox).ok => creds = Head(inbox).acct
         /\ active = Nobody /\ ~goScan /\ leaving = {} /\ scans = {}
         /\ \A i \in DOMAIN inbox' : inbox'[i].kind # "snapshot"
  <1>0. inbox \in Seq(Sendable)
    BY DEF Grounds, AppTypeOK
  <1>1. /\ 1 \in DOMAIN inbox /\ Head(inbox) = inbox[1] /\ Head(inbox) \in Sendable
        /\ Head(inbox).kind = kind
        /\ \A i \in DOMAIN inbox' : i + 1 \in DOMAIN inbox /\ inbox'[i] = inbox[i + 1]
        /\ DOMAIN inbox' \subseteq Nat \ {0} /\ DOMAIN inbox \subseteq Nat \ {0}
    BY <1>0, Taken
  <1>2. LoginMsg(1) /\ Outstanding
    BY <1>1 DEF LoginMsg, Outstanding
  <1>3. \A i \in DOMAIN inbox' : ~LoginMsg(i)'
    <2> SUFFICES ASSUME NEW i \in DOMAIN inbox', LoginMsg(i)' PROVE FALSE
      OBVIOUS
    <2>1. i + 1 \in DOMAIN inbox /\ LoginMsg(i + 1) /\ i + 1 # 1
      BY <1>1 DEF LoginMsg
    <2> QED BY <1>1, <1>2, <2>1 DEF Patient, LoginShown, OneLogin
  <1>4. ~Outstanding'
    <2>1. \A g \in Login : login[g].at = "idle"
      BY <1>1, <1>2 DEF Patient, LoginShown, OneLogin, Pending
    <2>2. login' = login
      BY DEF Receive, sessionVars
    <2> QED BY <1>3, <2>1, <2>2 DEF Outstanding, LoginPending
  <1>5. Head(inbox).acct \in Account /\ Head(inbox).ok \in BOOLEAN
    BY <1>1, MessageFields DEF LoginKinds
  <1>6. Head(inbox).ok => creds = Head(inbox).acct
    BY <1>1, <1>2 DEF Patient, LoginShown, AnswerShown
  <1>7. /\ active = Nobody /\ ~goScan /\ leaving = {}
        /\ \A i \in DOMAIN inbox : inbox[i].kind # "snapshot"
    BY <1>2 DEF Patient, LoginShown, NobodyMeanwhile
  <1>8. scans = {}
    BY <1>7 DEF Patient, ScansShown
  <1>9. \A i \in DOMAIN inbox' : inbox'[i].kind # "snapshot"
    BY <1>1, <1>7
  <1> QED BY <1>1, <1>2, <1>4, <1>5, <1>6, <1>7, <1>8, <1>9, NoLoginToShow

LEMMA LoginDelivered ==
  ASSUME Grounds, Grounds', SessionStep, Patient, Booted \/ Tested \/ Used
  PROVE  Patient'
  <1> USE DEF LoginKinds
  <1>1. UNCHANGED <<creds, leaving, scans, run>>
    BY DEF Booted, Tested, Used, Receive, sessionVars
  <1>2. CASE Booted
    <2>1. /\ ~Outstanding' /\ LoginShown'
          /\ LoginMsg(1) /\ 1 \in DOMAIN inbox /\ Head(inbox) = inbox[1]
          /\ Head(inbox).acct \in Account /\ Head(inbox).ok \in BOOLEAN
          /\ Head(inbox).ok => creds = Head(inbox).acct
          /\ active = Nobody /\ ~goScan /\ leaving = {} /\ scans = {}
          /\ \A i \in DOMAIN inbox' : inbox'[i].kind # "snapshot"
      BY <1>2, LoginArrives DEF Booted
    <2>2. route = "splash" /\ rows = {} /\ ~tested
      <3>1. route = "splash"
        BY <1>2, <2>1 DEF Booted, Receive, Patient, LoginShown, AnswerShown
      <3> QED BY <3>1 DEF Patient, Screens
    <2>3. goScan' = goScan /\ rows' = rows
      BY <1>2 DEF Booted, sliceVars
    <2>4. CASE Head(inbox).ok
      <3>1. active' = Head(inbox).acct /\ route' = "scan" /\ tested' = tested
        BY <1>2, <2>4 DEF Booted, connVars
      <3>2. Screens' /\ SessionShown' /\ ScansShown' /\ RowsShown'
        BY <1>1, <2>1, <2>2, <2>3, <2>4, <3>1 DEF Screens, SessionShown, ScansShown, RowsShown
      <3> QED BY <2>1, <3>2 DEF Patient
    <2>5. CASE ~Head(inbox).ok
      <3>1. active' = active /\ route' = "connect" /\ ~tested'
        BY <1>2, <2>5 DEF Booted, Prefilled
      <3>2. Screens' /\ SessionShown' /\ ScansShown' /\ RowsShown'
        BY <1>1, <2>1, <2>3, <3>1 DEF Screens, SessionShown, ScansShown, RowsShown
      <3> QED BY <2>1, <3>2 DEF Patient
    <2> QED BY <2>4, <2>5
  <1>3. CASE Tested
    <2>1. /\ ~Outstanding' /\ LoginShown'
          /\ LoginMsg(1) /\ 1 \in DOMAIN inbox /\ Head(inbox) = inbox[1]
          /\ Head(inbox).acct \in Account /\ Head(inbox).ok \in BOOLEAN
          /\ Head(inbox).ok => creds = Head(inbox).acct
          /\ active = Nobody /\ ~goScan /\ leaving = {} /\ scans = {}
          /\ \A i \in DOMAIN inbox' : inbox'[i].kind # "snapshot"
      BY <1>3, LoginArrives DEF Tested
    <2>2. route = "connect" /\ form = Head(inbox).acct
      BY <1>3, <2>1 DEF Tested, Receive, Patient, LoginShown, AnswerShown
    <2>3. /\ UNCHANGED <<route, active, goScan, rows>> /\ tested' = Head(inbox).ok
          /\ form' = IF Head(inbox).ok THEN form ELSE Nobody
      BY <1>3 DEF Tested, sliceVars
    <2>4. Screens' /\ SessionShown'
      BY <1>1, <2>1, <2>2, <2>3 DEF Screens, SessionShown
    <2>5. ScansShown' /\ RowsShown'
      BY <1>1, <2>1, <2>3 DEF ScansShown, RowsShown
    <2> QED BY <2>1, <2>4, <2>5 DEF Patient
  <1>4. CASE Used
    <2>1. /\ ~Outstanding' /\ LoginShown'
          /\ LoginMsg(1) /\ 1 \in DOMAIN inbox /\ Head(inbox) = inbox[1]
          /\ Head(inbox).acct \in Account /\ Head(inbox).ok \in BOOLEAN
          /\ Head(inbox).ok => creds = Head(inbox).acct
          /\ active = Nobody /\ ~goScan /\ leaving = {} /\ scans = {}
          /\ \A i \in DOMAIN inbox' : inbox'[i].kind # "snapshot"
      BY <1>4, LoginArrives DEF Used
    <2>2. route = "connect" /\ route' = "connect"
      BY <1>4, <2>1 DEF Used, Receive, Patient, LoginShown, AnswerShown
    <2>3. CASE Head(inbox).ok
      <3>1. active' = Head(inbox).acct /\ goScan' /\ rows' = {} /\ UNCHANGED <<tested, form>>
        BY <1>4, <2>3 DEF Used, SliceReset, connVars
      <3>2. Screens'
        BY <2>1, <2>2, <3>1 DEF Patient, Screens
      <3>3. SessionShown' /\ ScansShown' /\ RowsShown'
        BY <1>1, <2>1, <2>2, <2>3, <3>1 DEF SessionShown, ScansShown, RowsShown
      <3> QED BY <2>1, <3>2, <3>3 DEF Patient
    <2>4. CASE ~Head(inbox).ok
      <3>1. UNCHANGED <<active, goScan>> /\ ~tested'
        BY <1>4, <2>4 DEF Used, Prefilled
      <3>2. Screens' /\ SessionShown' /\ ScansShown' /\ RowsShown'
        BY <1>1, <2>1, <2>2, <3>1 DEF Screens, SessionShown, ScansShown, RowsShown
      <3> QED BY <2>1, <3>2 DEF Patient
    <2> QED BY <2>3, <2>4
  <1> QED BY <1>2, <1>3, <1>4

(* An account that was forgotten is not one that is being connected. *)
LEMMA RemovedArrives ==
  ASSUME Grounds, Grounds', SessionStep, Patient, Removed
  PROVE  Patient'
  <1>1. /\ UNCHANGED <<creds, leaving, login, scans, route, active, connVars, goScan>>
        /\ rows' = {} /\ Receive("removed")
    BY DEF Removed, Receive, SliceReset, sessionVars, netVars
  <1>2. KeepsMessages(LoginKinds) /\ KeepsMessages({"snapshot"})
    BY <1>1, InboxKeeps DEF Grounds, AppTypeOK, LoginKinds
  <1>3. ~Outstanding
    BY <1>1, Taken DEF Grounds, AppTypeOK, Patient, LoginShown, NobodyMeanwhile
  <1>4. ~Outstanding'
    BY <1>1, <1>2, <1>3, OutstandingKept
  <1>5. (\A i \in DOMAIN inbox : inbox[i].kind # "snapshot")
          => \A i \in DOMAIN inbox' : inbox'[i].kind # "snapshot"
    BY <1>2 DEF KeepsMessages
  <1>6. Screens' /\ SessionShown'
    BY <1>1, <1>3, <1>5 DEF Patient, Screens, SessionShown, connVars
  <1>7. ScansShown' /\ RowsShown'
    BY <1>1, <1>2, ScansKept, RowsKept DEF Patient
  <1> QED BY <1>1, <1>2, <1>3, <1>6, <1>7, QuietStep

LEMMA SnapshotArrives ==
  ASSUME Grounds, Grounds', SessionStep, Patient, SnapshotAppended
  PROVE  Patient'
  <1>1. /\ UNCHANGED <<creds, leaving, login, scans, route, active, connVars, goScan>>
        /\ rows' = rows \cup {Head(inbox).acct} /\ Receive("snapshot")
    BY DEF SnapshotAppended, Receive, sessionVars, netVars
  <1>2. KeepsMessages(LoginKinds)
    BY <1>1, InboxKeeps DEF Grounds, AppTypeOK, LoginKinds
  <1>3. /\ 1 \in DOMAIN inbox /\ inbox[1].kind = "snapshot" /\ Head(inbox) = inbox[1]
        /\ \A i \in DOMAIN inbox' : i + 1 \in DOMAIN inbox /\ inbox'[i] = inbox[i + 1]
    BY <1>1, Taken DEF Grounds, AppTypeOK
  <1>4. ~Outstanding /\ route # "splash"
    BY <1>3 DEF Patient, LoginShown, NobodyMeanwhile, Screens
  <1>5. Screens' /\ SessionShown'
    BY <1>1, <1>4 DEF Patient, Screens, SessionShown, connVars
  <1>6. ScansShown'
    BY <1>1, ScansKept DEF Patient
  <1>7. RowsShown'
    BY <1>1, <1>3 DEF Patient, RowsShown
  <1> QED BY <1>1, <1>2, <1>4, <1>5, <1>6, <1>7, QuietStep

LEMMA PatientDelivery ==
  ASSUME Grounds, Grounds', SessionStep, Patient, Deliver
  PROVE  Patient'
  <1>1. CASE FoldersFetched \/ Started \/ CancelDone \/ ResetDone
    <2>1. PICK kind \in {"folders", "started", "cancelled", "reset"} : Receive(kind)
      BY <1>1 DEF FoldersFetched, Started, CancelDone, ResetDone
    <2>2. UNCHANGED <<creds, leaving, login, scans>>
      BY <2>1 DEF Receive, sessionVars
    <2>3. UNCHANGED <<route, active, connVars, goScan, busy, rows>>
      BY <1>1 DEF FoldersFetched, Started, CancelDone, ResetDone, sliceVars
    <2>4. KeepsMessages(Telling)
      BY <2>1, InboxKeeps DEF Grounds, AppTypeOK, Telling, LoginKinds
    <2> QED BY <2>2, <2>3, <2>4, CalmStep
  <1> QED BY <1>1, LoginDelivered, RemovedArrives, SnapshotArrives DEF Deliver

LEMMA StepPatient ==
  ~Hasty /\ Grounds /\ Patient /\ [Next]_vars => Patient'
  <1> SUFFICES ASSUME ~Hasty, Grounds, Patient, [Next]_vars PROVE Patient'
    OBVIOUS
  <1>1. Grounds' /\ SessionStep
    BY StepGrounds, NextIsSession
  <1>2. CASE Next
    BY <1>1, <1>2, PatientClick, PatientEffect, PatientAnswer, PatientMain, PatientDelivery
       DEF Next
  <1>3. CASE UNCHANGED vars
    <2>1. UNCHANGED <<creds, leaving, login, scans, route, active, connVars, goScan, busy, rows, inbox>>
      BY <1>3 DEF vars, sessionVars, netVars, storeVars, sliceVars
    <2>2. KeepsMessages(Telling)
      BY <2>1, InboxKeeps DEF Grounds, AppTypeOK
    <2> QED BY <1>1, <2>1, <2>2, CalmStep
  <1> QED BY <1>2, <1>3

LEMMA InitPatient == Init => Patient
  <1> SUFFICES ASSUME Init PROVE Patient
    OBVIOUS
  <1>1. /\ route = "splash" /\ active = Nobody /\ ~goScan /\ ~tested /\ inbox = <<>> /\ rows = {}
        /\ leaving = {} /\ scans = {} /\ \A g \in Login : login[g].at = "idle"
    BY DEF Init, SessionInit, NoLogin
  <1>2. DOMAIN inbox = {}
    BY <1>1
  <1>3. LoginShown
    BY <1>1, <1>2 DEF LoginShown, OneLogin, NobodyMeanwhile, CallShown, AnswerShown, Outstanding,
                      LoginPending, Pending
  <1>4. Screens /\ SessionShown /\ ScansShown /\ RowsShown
    BY <1>1, <1>2 DEF Screens, SessionShown, ScansShown, RowsShown
  <1> QED BY <1>3, <1>4 DEF Patient

(* The header and the main process name one account, if the user waits for  *)
(* the answer to a click before the next one on the connect screen; one who *)
(* does not wait can make them differ (run app_header).                     *)
THEOREM HeaderAndSessionAgree == ~Hasty => (Spec => []HeaderNamesTheSession)
  <1> SUFFICES ASSUME ~Hasty PROVE Spec => []HeaderNamesTheSession
    OBVIOUS
  <1>1. Grounds /\ Patient /\ [Next]_vars => Grounds' /\ Patient'
    BY StepGrounds, StepPatient
  <1>2. Patient => HeaderNamesTheSession
    BY DEF Patient, SessionShown, HeaderNamesTheSession
  <1> QED BY <1>1, <1>2, InitGrounds, InitPatient, PTL DEF Spec

(* Nor are another account's rows ever shown to such a user. *)
THEOREM OnlyActivesRowsAreShown == ~Hasty => (Spec => []RowsAreActives)
  <1> SUFFICES ASSUME ~Hasty PROVE Spec => []RowsAreActives
    OBVIOUS
  <1>1. Grounds /\ Patient /\ [Next]_vars => Grounds' /\ Patient'
    BY StepGrounds, StepPatient
  <1>2. Patient => RowsAreActives
    BY DEF Patient, RowsShown, RowsAreActives
  <1> QED BY <1>1, <1>2, InitGrounds, InitPatient, PTL DEF Spec

=============================================================================
