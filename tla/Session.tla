------------------------------- MODULE Session -------------------------------
(***************************************************************************)
(* The main process's session, src/main/ipc/session.ts, as the handlers of *)
(* src/main/ipc/handlers.ts use it: the credentials that the last login    *)
(* left, the one ImapClient that folders.list and scan.start share, and    *)
(* the registry of running scans that scan.cancel and session.disconnect   *)
(* abort.                                                                  *)
(*                                                                         *)
(* Each handler runs by itself from one await to the next; an action is    *)
(* such a stretch.  Any call may come at any time: what the screens call,  *)
(* and when, is added by App.                                              *)
(*                                                                         *)
(* What a scan stores is FolderIngest and DeepScan; here a run only keeps  *)
(* whose mailbox it reads and under whose account it stores what it reads. *)
(* An account stands for its host and user name.                           *)
(***************************************************************************)
EXTENDS Naturals

CONSTANTS
  Account,
  Nobody,
  Login,       \* calls of imap.testConnection and imap.connectSaved at once
  Lister,      \* calls of folders.list at once
  Run,         \* calls of scan.start at once
  MaxObjects   \* bound: ImapClient objects in use at once

Object == 1 .. MaxObjects
None   == 0    \* no object

ASSUME SessionAssumption ==
  /\ Nobody \notin Account
  /\ MaxObjects \in Nat \ {0}

VARIABLES
  creds,     \* credentials
  client,    \* client
  sock,      \* ImapClient.client of each object: whose mailbox it is open on
  leaving,   \* objects whose logout session.disconnect awaits
  login,
  lister,
  run,
  scans,     \* scans, the runs that can be aborted
  aborted,   \* the runs under way whose signal is aborted
  saved      \* the accounts whose row has a stored password

sessionVars == <<creds, client, sock, leaving, login, lister, run, scans, aborted, saved>>
netVars     == <<client, sock, leaving>>

Whose == Account \cup {Nobody}

LoginAt  == {"idle", "testing", "saved"}
ListerAt == {"idle", "connecting", "listing", "parting", "cut"}
Live     == {"pooling", "connecting", "attaching", "running", "storing", "wiped"}
RunAt    == {"idle"} \cup Live

TypeOK ==
  /\ creds \in Whose
  /\ client \in Object \cup {None}
  /\ sock \in [Object -> Whose]
  /\ leaving \subseteq Object
  /\ login \in [Login -> [at : LoginAt, acct : Whose]]
  /\ lister \in [Lister -> [at : ListerAt, obj : Object \cup {None}, acct : Whose]]
  /\ run \in [Run -> [at : RunAt, obj : Object \cup {None}, acct : Whose, owns : BOOLEAN,
                      redial : BOOLEAN]]
  /\ scans \subseteq Run
  /\ aborted \subseteq Run
  /\ saved \subseteq Account

NoLogin  == [at |-> "idle", acct |-> Nobody]
NoLister == [at |-> "idle", obj |-> None, acct |-> Nobody]
NoRun    == [at |-> "idle", obj |-> None, acct |-> Nobody, owns |-> FALSE, redial |-> FALSE]

(* The program starts with what earlier sessions left in the database.      *)
SessionInit ==
  /\ creds = Nobody
  /\ client = None
  /\ sock = [o \in Object |-> Nobody]
  /\ leaving = {}
  /\ login = [g \in Login |-> NoLogin]
  /\ lister = [l \in Lister |-> NoLister]
  /\ run = [r \in Run |-> NoRun]
  /\ scans = {}
  /\ aborted = {}
  /\ saved \in SUBSET Account

-----------------------------------------------------------------------------
(* The ImapClient objects.                                                  *)

HeldByRun == {run[r].obj : r \in {q \in Run : run[q].at \in Live \ {"connecting"}}}
InUse     == {client} \cup leaving \cup {run[r].obj : r \in Run}
               \cup {lister[l].obj : l \in Lister}

(* `new ImapClient()`: an object nobody refers to, while the bound leaves one. *)
CanMakeOne == client # None \/ \E o \in Object : o \notin InUse
TheClient  == IF client # None THEN client ELSE CHOOSE o \in Object : o \notin InUse

Connected == client # None /\ sock[client] # Nobody

(* ImapClient.connect has reached the server: the object is open.  The      *)
(* connection it had is forgotten, and one of an object that neither the    *)
(* session nor a run refers to is open with nobody to close it.             *)
Opened(o, a) ==
  IF o = client \/ o \in HeldByRun THEN [sock EXCEPT ![o] = a] ELSE sock

(* The requests on a connection that is gone fail. *)
CutOff(o, at) ==
  [l \in Lister |-> IF lister[l].at = at /\ lister[l].obj = o
                    THEN [lister[l] EXCEPT !.at = "cut"] ELSE lister[l]]

(* The server or the network closes a connection.                           *)
ConnectionLost(o) ==
  /\ sock[o] # Nobody
  /\ sock' = [sock EXCEPT ![o] = Nobody]
  /\ lister' = CutOff(o, "listing")
  /\ UNCHANGED <<creds, client, leaving, login, run, scans, aborted, saved>>

-----------------------------------------------------------------------------
(* imap.testConnection and imap.connectSaved: a probe connection of its own *)
(* is opened and closed, and only then the credentials become the session's.*)

TestConnection(g, a) ==
  /\ login[g].at = "idle"
  /\ login' = [login EXCEPT ![g] = [at |-> "testing", acct |-> a]]
  /\ UNCHANGED <<creds, netVars, lister, run, scans, aborted, saved>>

(* decryptSavedAccount finds a password; when it does not, or the system    *)
(* cannot decrypt it, the call is answered at once and nothing has changed. *)
ConnectSaved(g, a) ==
  /\ login[g].at = "idle"
  /\ a \in saved
  /\ login' = [login EXCEPT ![g] = [at |-> "saved", acct |-> a]]
  /\ UNCHANGED <<creds, netVars, lister, run, scans, aborted, saved>>

(* persistCredentialsAfterTest: the password is stored, or the one there is *)
(* is removed, as the user asked; that it cannot be encrypted is only       *)
(* logged.                                                                  *)
Persisted(a) ==
  {saved, saved \cup {a}, saved \ {a}}

LoginSucceeds(g) ==
  /\ login[g].at # "idle"
  /\ creds' = login[g].acct
  /\ saved' \in IF login[g].at = "testing" THEN Persisted(login[g].acct) ELSE {saved}
  /\ login' = [login EXCEPT ![g] = NoLogin]
  /\ UNCHANGED <<netVars, lister, run, scans, aborted>>

LoginFails(g) ==
  /\ login[g].at # "idle"
  /\ login' = [login EXCEPT ![g] = NoLogin]
  /\ UNCHANGED <<creds, netVars, lister, run, scans, aborted, saved>>

-----------------------------------------------------------------------------
(* session.disconnect                                                       *)

(* Mutated form: the scans go on. *)
DisconnectLeavesScans ==
  /\ IF Connected
       THEN /\ sock' = [sock EXCEPT ![client] = Nobody]
            /\ leaving' = leaving \cup {client}
            /\ UNCHANGED <<creds, client, lister>>
       ELSE /\ client' = None
            /\ creds' = Nobody
            /\ UNCHANGED <<sock, leaving, lister>>
  /\ UNCHANGED <<login, run, scans, aborted, saved>>

(* Every registered scan is aborted and forgotten at once.  An open client  *)
(* logs out first, and the session keeps its credentials meanwhile.         *)
Disconnect ==
  /\ aborted' = aborted \cup scans
  /\ scans' = {}
  /\ IF Connected
       THEN /\ sock' = [sock EXCEPT ![client] = Nobody]
            /\ leaving' = leaving \cup {client}
            /\ lister' = [l \in Lister |->
                            IF lister[l].at = "listing" /\ lister[l].obj = client
                            THEN [lister[l] EXCEPT !.at = "parting"] ELSE lister[l]]
            /\ UNCHANGED <<creds, client>>
       ELSE /\ client' = None
            /\ creds' = Nobody
            /\ UNCHANGED <<sock, leaving, lister>>
  /\ UNCHANGED <<login, run, saved>>

(* Mutated form: the client is kept. *)
LoggedOutKeepsClient(o) ==
  /\ o \in leaving
  /\ leaving' = leaving \ {o}
  /\ creds' = Nobody
  /\ lister' = CutOff(o, "parting")
  /\ UNCHANGED <<client, sock, login, run, scans, aborted, saved>>

(* The logout is over: client and credentials are forgotten, whoever's they *)
(* are by now.                                                              *)
LoggedOut(o) ==
  /\ o \in leaving
  /\ leaving' = leaving \ {o}
  /\ client' = None
  /\ creds' = Nobody
  /\ lister' = CutOff(o, "parting")
  /\ UNCHANGED <<sock, login, run, scans, aborted, saved>>

-----------------------------------------------------------------------------
(* folders.list                                                             *)

(* ensureClient: the open client, or else a connection of the one there is  *)
(* or of a new one.  Without credentials it fails, and the object stays.    *)
FoldersList(l) ==
  /\ lister[l].at = "idle"
  /\ CanMakeOne
  /\ IF Connected
       THEN /\ lister' = [lister EXCEPT ![l] =
                            [at |-> "listing", obj |-> client, acct |-> sock[client]]]
            /\ UNCHANGED netVars
       ELSE /\ client' = TheClient
            /\ sock' = [sock EXCEPT ![TheClient] = Nobody]
            /\ lister' = IF creds = Nobody THEN lister
                         ELSE [lister EXCEPT ![l] =
                                 [at |-> "connecting", obj |-> TheClient, acct |-> creds]]
            /\ UNCHANGED leaving
  /\ UNCHANGED <<creds, login, run, scans, aborted, saved>>

(* Connected: the handler goes on with the session's client, which need not *)
(* be the object it has connected and may be none.                          *)
ListerConnected(l) ==
  /\ lister[l].at = "connecting"
  /\ sock' = Opened(lister[l].obj, lister[l].acct)
  /\ lister' = [lister EXCEPT ![l] =
                  IF client # None /\ sock'[client] # Nobody
                  THEN [at |-> "listing", obj |-> client, acct |-> sock'[client]]
                  ELSE [@ EXCEPT !.at = "cut"]]
  /\ UNCHANGED <<creds, client, leaving, login, run, scans, aborted, saved>>

(* The LIST is answered; it may still be while the connection logs out. *)
Listed(l) ==
  /\ lister[l].at \in {"listing", "parting"}
  /\ lister' = [lister EXCEPT ![l] = NoLister]
  /\ UNCHANGED <<creds, netVars, login, run, scans, aborted, saved>>

ListFails(l) ==
  /\ lister[l].at # "idle"
  /\ lister' = [lister EXCEPT ![l] = NoLister]
  /\ UNCHANGED <<creds, netVars, login, run, scans, aborted, saved>>

-----------------------------------------------------------------------------
(* scan.start                                                               *)

(* Mutated form: the run is not registered before the pool is awaited. *)
ScanStartUnregistered(r) ==
  /\ run[r].at = "idle"
  /\ creds # Nobody
  /\ run' = [run EXCEPT ![r] = [NoRun EXCEPT !.at = "pooling"]]
  /\ UNCHANGED <<creds, netVars, login, lister, scans, aborted, saved>>

(* The run is registered before the handler first awaits, for the pool.     *)
ScanStart(r) ==
  /\ run[r].at = "idle"
  /\ creds # Nobody
  /\ scans' = scans \cup {r}
  /\ run' = [run EXCEPT ![r] = [NoRun EXCEPT !.at = "pooling"]]
  /\ UNCHANGED <<creds, netVars, login, lister, aborted, saved>>

(* The finally block: the run is forgotten, the pools are closed, and the   *)
(* call is answered.                                                        *)
Ends(r) ==
  /\ scans' = scans \ {r}
  /\ aborted' = aborted \ {r}
  /\ run' = [run EXCEPT ![r] = NoRun]

(* runScan's own finally: a connection of its own is closed. *)
HangsUp(r) ==
  IF run[r].owns
  THEN sock' = [sock EXCEPT ![run[r].obj] = Nobody] /\ lister' = CutOff(run[r].obj, "listing")
  ELSE UNCHANGED <<sock, lister>>

(* runScan begins with the credentials of now: on an open client, or with a *)
(* connection of its own.                                                   *)
RunScan(r, o, open) ==
  IF creds = Nobody \/ o = None \/ (~open /\ r \in aborted) THEN Ends(r)
  ELSE /\ run' = [run EXCEPT ![r] = [NoRun EXCEPT !.at = IF open THEN "running" ELSE "attaching",
                                                !.obj = o, !.acct = creds]]
       /\ UNCHANGED <<scans, aborted>>

(* createImapPool has come up or has not, and ensureClient begins: the open *)
(* client, or a connection of it.                                           *)
PoolSettles(r) ==
  /\ run[r].at = "pooling"
  /\ CanMakeOne
  /\ IF Connected
       THEN RunScan(r, client, TRUE) /\ UNCHANGED <<client, sock>>
       ELSE /\ client' = TheClient
            /\ sock' = [sock EXCEPT ![TheClient] = Nobody]
            /\ IF creds = Nobody THEN Ends(r)
               ELSE /\ run' = [run EXCEPT ![r] = [NoRun EXCEPT !.at = "connecting",
                                                              !.obj = TheClient, !.acct = creds]]
                    /\ UNCHANGED <<scans, aborted>>
  /\ UNCHANGED <<creds, leaving, login, lister, saved>>

RunConnected(r) ==
  /\ run[r].at = "connecting"
  /\ sock' = Opened(run[r].obj, run[r].acct)
  /\ RunScan(r, client, client # None /\ sock'[client] # Nobody)
  /\ UNCHANGED <<creds, client, leaving, login, lister, saved>>

(* runScan's own connect, when the client it was given is not open. *)
RunAttached(r) ==
  /\ run[r].at = "attaching"
  /\ sock' = [sock EXCEPT ![run[r].obj] = run[r].acct]
  /\ run' = [run EXCEPT ![r].at = "running", ![r].owns = TRUE]
  /\ UNCHANGED <<creds, client, leaving, login, lister, scans, aborted, saved>>

(* The folders are listed and stored: an aborted run does not get this far. *)
RunListed(r) ==
  /\ run[r].at = "running"
  /\ r \notin aborted
  /\ ~run[r].redial
  /\ sock[run[r].obj] # Nobody
  /\ run' = [run EXCEPT ![r].at = "storing"]
  /\ UNCHANGED <<creds, netVars, login, lister, scans, aborted, saved>>

(* withReconnectRetry: a request has failed, the sleep is over, and connect   *)
(* is on its way.  (A disconnect that finds the object open after all is      *)
(* ConnectionLost and then this.)                                            *)
RunDials(r) ==
  /\ run[r].at \in {"running", "storing", "wiped"}
  /\ r \notin aborted
  /\ ~run[r].redial
  /\ sock[run[r].obj] = Nobody
  /\ run' = [run EXCEPT ![r].redial = TRUE]
  /\ UNCHANGED <<creds, netVars, login, lister, scans, aborted, saved>>

(* connect settles, well or not, also for a run that was aborted meanwhile:   *)
(* it opens the object for the credentials the run was started with.         *)
RunReconnects(r) ==
  /\ run[r].redial
  /\ sock' \in {sock, [sock EXCEPT ![run[r].obj] = run[r].acct]}
  /\ run' = [run EXCEPT ![r].redial = FALSE]
  /\ UNCHANGED <<creds, client, leaving, login, lister, scans, aborted, saved>>

RunDone(r) ==
  /\ run[r].at \in {"storing", "wiped"}
  /\ r \notin aborted
  /\ ~run[r].redial
  /\ Ends(r)
  /\ HangsUp(r)
  /\ UNCHANGED <<creds, client, leaving, login, saved>>

(* An error, the cancelled one included. *)
RunFails(r) ==
  /\ run[r].at \in Live \ {"pooling"}
  /\ Ends(r)
  /\ HangsUp(r)
  /\ UNCHANGED <<creds, client, leaving, login, saved>>

(* scan.cancel. An id that is not registered changes nothing. *)
ScanCancel(r) ==
  /\ r \in scans
  /\ aborted' = aborted \cup {r}
  /\ scans' = scans \ {r}
  /\ UNCHANGED <<creds, netVars, login, lister, run, saved>>

-----------------------------------------------------------------------------
(* accounts.delete. The rows a run is storing into go with the account, and   *)
(* the foreign keys let it store no more. (cache.reset is no part of the      *)
(* session: it asks for no scan and aborts none, and a run that upserts its   *)
(* folders again goes on storing.)                                           *)

Wiped(R) == [r \in Run |-> IF r \in R /\ run[r].at = "storing"
                           THEN [run[r] EXCEPT !.at = "wiped"] ELSE run[r]]

AccountsDelete(a) ==
  /\ saved' = saved \ {a}
  /\ run' = Wiped({r \in Run : run[r].acct = a})
  /\ UNCHANGED <<creds, netVars, login, lister, scans, aborted>>

-----------------------------------------------------------------------------
LoginStep ==
  \E g \in Login :
    \/ \E a \in Account : ConnectSaved(g, a) \/ TestConnection(g, a)
    \/ LoginSucceeds(g)
    \/ LoginFails(g)

ListerStep ==
  \E l \in Lister : FoldersList(l) \/ ListerConnected(l) \/ Listed(l) \/ ListFails(l)

RunStep ==
  \E r \in Run :
    \/ ScanStart(r)
    \/ PoolSettles(r) \/ RunConnected(r) \/ RunAttached(r) \/ RunListed(r)
    \/ RunDials(r) \/ RunReconnects(r) \/ RunDone(r) \/ RunFails(r)
    \/ ScanCancel(r)

SessionNext ==
  \/ LoginStep
  \/ ListerStep
  \/ RunStep
  \/ Disconnect
  \/ \E a \in Account : AccountsDelete(a)
  \/ \E o \in Object : ConnectionLost(o) \/ LoggedOut(o)

SessionSpec == SessionInit /\ [][SessionNext]_sessionVars

-----------------------------------------------------------------------------
(* Properties.                                                              *)

(* No scan escapes the session: a run that is under way and not aborted is  *)
(* in the registry, so that session.disconnect (session.ts:45-47) reaches   *)
(* it, whatever it is waiting for; and the registry holds no other run.     *)
NoScanEscapes ==
  scans = {r \in Run : run[r].at \in Live /\ r \notin aborted}

(* The session never has an open client without credentials: a connect that *)
(* was under way when the user left, with the credentials of then, does not *)
(* become the session's client after all (session.ts:38-57).                *)
ClientHasSession == Connected => creds # Nobody

=============================================================================
