--------------------------- MODULE ConnectionPool ---------------------------
(***************************************************************************)
(* The IMAP connection pool of one scan (src/main/imap/connection-pool.ts) *)
(* and the tasks that share it: one per folder, ingestFolder in pass 1 and *)
(* processFolderGroup in pass 2, each wrapped in withConnection.  A task   *)
(* that loses its connection sleeps, disconnects and connects again on the *)
(* client it holds (ingestFolder's catch arm, withReconnectRetry).         *)
(*                                                                         *)
(* A step is what runs between two awaits.  The scan starts the pool, runs *)
(* its tasks under Promise.all and closes the pool in a finally block;     *)
(* Promise.all settles with the first task that fails, and the others run  *)
(* on.                                                                     *)
(***************************************************************************)
EXTENDS Integers, Sequences, FiniteSets, Functions

CONSTANTS
  Client,      \* the pool's ImapClient objects
  Tasks,       \* how many folders the scan has
  NoClient,
  RetryBudget  \* backoff.length (3 in the code)

ASSUME PoolAssumption ==
  /\ IsFiniteSet(Client)
  /\ Client # {}
  /\ NoClient \notin Client
  /\ Tasks \in Nat
  /\ RetryBudget \in Nat

VARIABLES
  (* the pool *)
  pool,      \* createImapPool, and then closed
  socket,    \* each client's connection; ImapClient.client # null when "up"
  clients,   \* the clients createImapPool has connected
  free,
  waiters,
  (* the scan *)
  task,      \* the await each task stands at
  holds,     \* the client of each task
  attempt,
  aborted    \* signal.aborted

poolVars == <<pool, clients, free, waiters>>
vars     == <<poolVars, socket, task, holds, attempt, aborted>>

Task   == 1 .. Tasks    \* the folders in the order of the scan's list
Active == {"running", "sleeping", "connecting"}
Ended  == {"done", "failed", "cancelled"}

TypeOK ==
  /\ pool \in {"creating", "failed", "open", "closed"}
  /\ socket \in [Client -> {"connecting", "up", "down"}]
  /\ clients \in Seq(Client)
  /\ free \in Seq(Client)
  /\ waiters \in Seq(Task)
  /\ task \in [Task -> {"idle", "waiting"} \cup Active \cup Ended]
  /\ holds \in [Task -> Client \cup {NoClient}]
  /\ attempt \in [Task -> 0 .. RetryBudget]
  /\ aborted \in BOOLEAN

Init ==
  /\ pool = "creating"
  /\ socket = [c \in Client |-> "connecting"]
  /\ clients = <<>>
  /\ free = <<>>
  /\ waiters = <<>>
  /\ task = [t \in Task |-> "idle"]
  /\ holds = [t \in Task |-> NoClient]
  /\ attempt = [t \in Task |-> 0]
  /\ aborted = FALSE

-----------------------------------------------------------------------------
(* createImapPool connects every client at once.                            *)

ClientUp(c) ==
  /\ pool \in {"creating", "failed"}
  /\ socket[c] = "connecting"
  /\ socket' = [socket EXCEPT ![c] = "up"]
  /\ clients' = Append(clients, c)
  /\ IF pool = "creating" /\ Range(clients') = Client
     THEN pool' = "open" /\ free' = clients'
     ELSE UNCHANGED <<pool, free>>
  /\ UNCHANGED <<waiters, task, holds, attempt, aborted>>

(* The first client that fails takes down those that have come up by then.  *)
ClientFails(c) ==
  /\ pool \in {"creating", "failed"}
  /\ socket[c] = "connecting"
  /\ pool' = "failed"
  /\ socket' = [d \in Client |->
                  IF d = c \/ (pool = "creating" /\ d \in Range(clients)) THEN "down" ELSE socket[d]]
  /\ UNCHANGED <<clients, free, waiters, task, holds, attempt, aborted>>

(* An established connection is lost. *)
Drop(c) ==
  /\ pool \in {"open", "closed"}
  /\ socket[c] = "up"
  /\ socket' = [socket EXCEPT ![c] = "down"]
  /\ UNCHANGED <<poolVars, task, holds, attempt, aborted>>

-----------------------------------------------------------------------------
(* acquire and release.                                                     *)

(* withConnection begins, folder by folder in the order of the list: with   *)
(* the most recently freed client, or at the end of the queue.              *)
Acquire(t) ==
  /\ pool = "open"
  /\ task[t] = "idle"
  /\ \A u \in Task : u < t => task[u] # "idle"
  /\ \/ /\ free # <<>>
        /\ holds' = [holds EXCEPT ![t] = free[Len(free)]]
        /\ free' = SubSeq(free, 1, Len(free) - 1)
        /\ task' = [task EXCEPT ![t] = "running"]
        /\ UNCHANGED waiters
     \/ /\ free = <<>>
        /\ waiters' = Append(waiters, t)
        /\ task' = [task EXCEPT ![t] = "waiting"]
        /\ UNCHANGED <<holds, free>>
  /\ UNCHANGED <<pool, socket, clients, attempt, aborted>>

PushWithoutLooking(t) ==
  /\ holds' = [holds EXCEPT ![t] = NoClient]
  /\ free' = IF pool = "closed" THEN free ELSE Append(free, holds[t])
  /\ UNCHANGED waiters

LastWaiterFirst(t) ==
  IF pool = "closed" \/ waiters = <<>>
  THEN /\ holds' = [holds EXCEPT ![t] = NoClient]
       /\ free' = IF pool = "closed" THEN free ELSE Append(free, holds[t])
       /\ UNCHANGED waiters
  ELSE /\ holds' = [holds EXCEPT ![t] = NoClient, ![waiters[Len(waiters)]] = holds[t]]
       /\ waiters' = SubSeq(waiters, 1, Len(waiters) - 1)
       /\ UNCHANGED free

(* release: a closed pool drops the client, a waiter gets it directly.      *)
Release(t) ==
  \/ /\ pool = "closed"
     /\ holds' = [holds EXCEPT ![t] = NoClient]
     /\ UNCHANGED <<free, waiters>>
  \/ /\ pool # "closed"
     /\ waiters # <<>>
     /\ holds' = [holds EXCEPT ![t] = NoClient, ![Head(waiters)] = holds[t]]
     /\ waiters' = Tail(waiters)
     /\ UNCHANGED free
  \/ /\ pool # "closed"
     /\ waiters = <<>>
     /\ holds' = [holds EXCEPT ![t] = NoClient]
     /\ free' = Append(free, holds[t])
     /\ UNCHANGED waiters

Handed(t) == task[t] = "waiting" /\ holds'[t] # NoClient

ReleaseOnSuccessOnly(t, outcome) ==
  /\ IF outcome = "done" THEN Release(t) ELSE UNCHANGED <<free, waiters, holds>>
  /\ task' = [u \in Task |-> IF u = t THEN outcome ELSE IF Handed(u) THEN "running" ELSE task[u]]

(* withConnection ends, one way or another, and releases in its finally.    *)
EndTask(t, outcome) ==
  /\ Release(t)
  /\ task' = [u \in Task |-> IF u = t THEN outcome ELSE IF Handed(u) THEN "running" ELSE task[u]]

-----------------------------------------------------------------------------
(* The task's own work.                                                     *)

(* It completes, fails for good, or sees the abort.                         *)
Settle(t, outcome) ==
  /\ task[t] = "running"
  /\ outcome = "done" => socket[holds[t]] = "up"
  /\ outcome = "cancelled" => aborted
  /\ EndTask(t, outcome)
  /\ UNCHANGED <<pool, clients, socket, attempt, aborted>>

RetryWithoutLimit(t) == TRUE
RetryLeft(t) == attempt[t] < RetryBudget

(* A call fails on a connection that is down, for a transient reason: back  *)
(* off while the budget lasts.                                              *)
Retry(t) ==
  /\ task[t] = "running"
  /\ socket[holds[t]] = "down"
  /\ ~ aborted
  /\ RetryLeft(t)
  /\ attempt' = [attempt EXCEPT ![t] = @ + 1]
  /\ task' = [task EXCEPT ![t] = "sleeping"]
  /\ UNCHANGED <<poolVars, socket, holds, aborted>>

(* The delay is over: disconnect, and start to connect.                     *)
Wake(t) ==
  /\ task[t] = "sleeping"
  /\ ~ aborted
  /\ socket' = [socket EXCEPT ![holds[t]] = "connecting"]
  /\ task' = [task EXCEPT ![t] = "connecting"]
  /\ UNCHANGED <<poolVars, holds, attempt, aborted>>

WakeCancelled(t) ==
  /\ task[t] = "sleeping"
  /\ aborted
  /\ EndTask(t, "cancelled")
  /\ UNCHANGED <<pool, clients, socket, attempt, aborted>>

(* connect returns; it looks at the signal before it starts and not again.  *)
Reconnected(t) ==
  /\ task[t] = "connecting"
  /\ socket' = [socket EXCEPT ![holds[t]] = "up"]
  /\ task' = [task EXCEPT ![t] = "running"]
  /\ UNCHANGED <<poolVars, holds, attempt, aborted>>

ReconnectFails(t) ==
  /\ task[t] = "connecting"
  /\ socket' = [socket EXCEPT ![holds[t]] = "down"]
  /\ IF attempt[t] >= RetryBudget
     THEN EndTask(t, "failed")
     ELSE task' = [task EXCEPT ![t] = "running"] /\ UNCHANGED <<free, waiters, holds>>
  /\ UNCHANGED <<pool, clients, attempt, aborted>>

TaskStep(t) ==
  \/ Acquire(t)
  \/ \E outcome \in Ended : Settle(t, outcome)
  \/ Retry(t) \/ Wake(t) \/ WakeCancelled(t) \/ Reconnected(t) \/ ReconnectFails(t)

-----------------------------------------------------------------------------
(* The scan.                                                                *)

Abort ==
  /\ ~ aborted
  /\ aborted' = TRUE
  /\ UNCHANGED <<poolVars, socket, task, holds, attempt>>

CloseWithoutRejecting ==
  /\ task' = task
  /\ waiters' = waiters

(* close rejects the queue before it tears the connections down.            *)
RejectWaiters ==
  /\ task' = [t \in Task |-> IF task[t] = "waiting" THEN "cancelled" ELSE task[t]]
  /\ waiters' = <<>>

(* A task has failed, and Promise.all with it, or no task is under way: the *)
(* finally block of scan.start closes the pool.  disconnect drops the       *)
(* connection a client has; one that is connecting has none yet.            *)
Close ==
  /\ pool = "open"
  /\ \/ \E t \in Task : task[t] \in {"failed", "cancelled"}
     \/ \A t \in Task : task[t] \in {"idle", "done"}
  /\ pool' = "closed"
  /\ RejectWaiters
  /\ free' = <<>>
  /\ socket' = [c \in Client |-> IF socket[c] = "up" THEN "down" ELSE socket[c]]
  /\ UNCHANGED <<clients, holds, attempt, aborted>>

Next ==
  \/ \E c \in Client : ClientUp(c) \/ ClientFails(c) \/ Drop(c)
  \/ \E t \in Task : TaskStep(t)
  \/ Abort
  \/ Close

Spec == Init /\ [][Next]_vars

(* Connection attempts and the calls of a task settle, timers fire, and the *)
(* finally block runs.                                                      *)
FairSpec ==
  /\ Spec
  /\ \A c \in Client : WF_vars(ClientUp(c) \/ ClientFails(c))
  /\ \A t \in Task : WF_vars(TaskStep(t))
  /\ WF_vars(Close)

-----------------------------------------------------------------------------
(* Properties.                                                              *)

NoClientShared == \A t, u \in Task : holds[t] # NoClient /\ holds[t] = holds[u] => t = u
NoClientTwiceFree == \A i, j \in 1 .. Len(free) : free[i] = free[j] => i = j

(* While the pool is open each of its clients is in one place: once in the  *)
(* free list, or with one task that is under way.  No client is shared, and *)
(* none is lost, whichever way the tasks end.                               *)
EachClientInOnePlace ==
  pool = "open" =>
    /\ NoClientShared
    /\ NoClientTwiceFree
    /\ \A c \in Client :
         c \in Range(free) <=> ~ \E t \in Task : task[t] \in Active /\ holds[t] = c

(* Nobody waits while a client is free.                                     *)
NoWaitBesideFree == waiters # <<>> => free = <<>>

(* A waiter is served only when it is the one that has waited longest.      *)
ServedInOrder ==
  [][\A t \in Task : task[t] = "waiting" /\ task'[t] = "running" => t = Head(waiters)]_vars

(* Whoever starts comes to an end: no waiter is left behind by an error, a  *)
(* cancellation, a lost connection or the end of the scan.                  *)
EveryTaskEnds == \A t \in Task : task[t] # "idle" ~> task[t] \in Ended

=============================================================================
