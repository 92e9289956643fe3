------------------------ MODULE ConnectionPoolProofs ------------------------
(***************************************************************************)
(* What holds of ConnectionPool for every number of connections, every     *)
(* number of folders and every retry budget.                               *)
(***************************************************************************)
EXTENDS ConnectionPool, TLAPS

(* A task holds a client exactly while it is under way.                     *)
HoldersActive == \A t \in Task : task[t] \in Active <=> holds[t] # NoClient

(* The queue is of tasks that wait, each queued once.                       *)
WaitersWait ==
  /\ \A i \in 1 .. Len(waiters) : task[waiters[i]] = "waiting"
  /\ \A i, j \in 1 .. Len(waiters) : waiters[i] = waiters[j] => i = j

(* Nothing starts before the pool stands.                                   *)
NotStarted ==
  pool \in {"creating", "failed"} =>
    free = <<>> /\ waiters = <<>> /\ \A t \in Task : task[t] = "idle"

FreeUnheld == \A i \in 1 .. Len(free) : \A t \in Task : holds[t] # free[i]

NoneLost ==
  pool = "open" =>
    \A c \in Client : (\E i \in 1 .. Len(free) : free[i] = c) \/ (\E t \in Task : holds[t] = c)

(* createImapPool lists a client once, when it has come up.                 *)
ListedOnce ==
  pool = "creating" =>
    /\ \A i \in 1 .. Len(clients) : socket[clients[i]] # "connecting"
    /\ \A i, j \in 1 .. Len(clients) : clients[i] = clients[j] => i = j

(* Who has which client, and who queues for one.                            *)
Seating ==
  /\ HoldersActive
  /\ WaitersWait
  /\ NotStarted
  /\ NoClientShared
  /\ NoClientTwiceFree
  /\ FreeUnheld
  /\ NoneLost
  /\ NoWaitBesideFree

IInv == TypeOK /\ ListedOnce /\ Seating

-----------------------------------------------------------------------------
(* release and what follows it.                                             *)

(* What release does to the queue, the free list and each task's client.    *)
LEMMA ReleaseEffect ==
  ASSUME TypeOK, Seating, NEW t \in Task, task[t] \in Active, Release(t)
  PROVE  /\ holds' \in [Task -> Client \cup {NoClient}]
         /\ free' \in Seq(Client)
         /\ waiters' \in Seq(Task)
         /\ \/ /\ pool = "closed" \/ waiters = <<>>
               /\ waiters' = waiters
               /\ \A u \in Task : holds'[u] = IF u = t THEN NoClient ELSE holds[u]
               /\ free' = IF pool = "closed" THEN free ELSE Append(free, holds[t])
            \/ /\ pool # "closed"
               /\ waiters # <<>>
               /\ Head(waiters) \in Task
               /\ Head(waiters) # t
               /\ task[Head(waiters)] = "waiting"
               /\ waiters' = Tail(waiters)
               /\ \A u \in Task : holds'[u] = IF u = Head(waiters) THEN holds[t]
                                             ELSE IF u = t THEN NoClient ELSE holds[u]
               /\ free' = free
  <1>1. holds[t] \in Client
    BY DEF TypeOK, Seating, HoldersActive
  <1>2. CASE pool = "closed" \/ waiters = <<>>
    <2>1. /\ waiters' = waiters
          /\ holds' = [holds EXCEPT ![t] = NoClient]
          /\ free' = IF pool = "closed" THEN free ELSE Append(free, holds[t])
      BY <1>2 DEF Release
    <2> QED
      BY <1>1, <1>2, <2>1 DEF TypeOK
  <1>3. CASE pool # "closed" /\ waiters # <<>>
    <2>1. /\ waiters' = Tail(waiters)
          /\ holds' = [holds EXCEPT ![t] = NoClient, ![Head(waiters)] = holds[t]]
          /\ free' = free
      BY <1>3 DEF Release
    <2>2. Head(waiters) \in Task /\ Head(waiters) = waiters[1] /\ 1 \in 1 .. Len(waiters)
      BY <1>3 DEF TypeOK
    <2>3. task[Head(waiters)] = "waiting"
      BY <2>2 DEF Seating, WaitersWait
    <2>4. Head(waiters) # t
      BY <2>3 DEF Active
    <2>5. waiters' \in Seq(Task) /\ free' \in Seq(Client)
      BY <1>3, <2>1 DEF TypeOK
    <2>6. /\ holds' \in [Task -> Client \cup {NoClient}]
          /\ \A u \in Task : holds'[u] = IF u = Head(waiters) THEN holds[t]
                                        ELSE IF u = t THEN NoClient ELSE holds[u]
      BY <1>1, <2>1, <2>2, <2>4 DEF TypeOK
    <2> QED
      BY <1>3, <2>1, <2>2, <2>3, <2>4, <2>5, <2>6
  <1> QED
    BY <1>2, <1>3

(* A task that ends, and releases, leaves everyone else seated.             *)
LEMMA EndTaskSeats ==
  ASSUME TypeOK, Seating, NEW t \in Task, task[t] \in Active, NEW outcome \in Ended,
         EndTask(t, outcome), UNCHANGED pool
  PROVE  /\ holds' \in [Task -> Client \cup {NoClient}]
         /\ free' \in Seq(Client)
         /\ waiters' \in Seq(Task)
         /\ task' \in [Task -> {"idle", "waiting"} \cup Active \cup Ended]
         /\ Seating'
  <1>0. Release(t)
    BY DEF EndTask
  <1>1. /\ holds' \in [Task -> Client \cup {NoClient}]
        /\ free' \in Seq(Client)
        /\ waiters' \in Seq(Task)
    BY <1>0, ReleaseEffect
  <1>2. \A u \in Task : task'[u] = IF u = t THEN outcome
                                  ELSE IF task[u] = "waiting" /\ holds'[u] # NoClient
                                       THEN "running" ELSE task[u]
    BY DEF EndTask, Handed
  <1>3. task' \in [Task -> {"idle", "waiting"} \cup Active \cup Ended]
    BY DEF EndTask, TypeOK, Active
  <1>4. holds[t] \in Client /\ holds[t] # NoClient
    BY PoolAssumption DEF TypeOK, Seating, HoldersActive
  <1>5. \A u \in Task : task[u] = "waiting" => holds[u] = NoClient
    BY DEF Seating, HoldersActive, Active
  <1>6. pool \notin {"creating", "failed"}
    BY DEF Seating, NotStarted, Active
  <1>7. outcome \notin Active /\ outcome # "waiting" /\ "running" \in Active /\ "waiting" \notin Active
    BY DEF Active, Ended
  <1>8. CASE /\ pool = "closed" \/ waiters = <<>>
             /\ waiters' = waiters
             /\ \A u \in Task : holds'[u] = IF u = t THEN NoClient ELSE holds[u]
             /\ free' = IF pool = "closed" THEN free ELSE Append(free, holds[t])
    <2>1. \A u \in Task : task'[u] = IF u = t THEN outcome ELSE task[u]
      BY <1>2, <1>5, <1>8
    <2>2. HoldersActive'
      BY <1>7, <1>8, <2>1 DEF Seating, HoldersActive
    <2>3. WaitersWait'
      BY <1>8, <2>1 DEF TypeOK, Seating, WaitersWait, Active
    <2>4. NotStarted'
      BY <1>6 DEF NotStarted
    <2>5. NoClientShared'
      BY <1>8 DEF Seating, NoClientShared
    <2>6. CASE pool = "closed"
      <3>1. free' = free /\ waiters' = waiters /\ pool' # "open"
        BY <1>8, <2>6
      <3>2. NoClientTwiceFree' /\ NoneLost' /\ NoWaitBesideFree'
        BY <3>1 DEF Seating, NoClientTwiceFree, NoneLost, NoWaitBesideFree
      <3>3. \A i \in 1 .. Len(free) : free[i] # NoClient
        BY PoolAssumption DEF TypeOK
      <3>4. FreeUnheld'
        BY <1>8, <3>1, <3>3 DEF Seating, FreeUnheld
      <3> QED
        BY <1>1, <1>3, <2>2, <2>3, <2>4, <2>5, <3>2, <3>4 DEF Seating
    <2>7. CASE pool # "closed"
      <3>1. free' = Append(free, holds[t]) /\ waiters' = <<>>
        BY <1>8, <2>7
      <3>2. /\ Len(free') = Len(free) + 1
            /\ \A i \in 1 .. Len(free) : free'[i] = free[i]
            /\ free'[Len(free')] = holds[t]
        BY <1>4, <3>1 DEF TypeOK
      <3>3. \A i \in 1 .. Len(free) : free[i] # holds[t] /\ free[i] \in Client
        BY DEF TypeOK, Seating, FreeUnheld
      <3>4. \A i \in 1 .. Len(free') : i \in 1 .. Len(free) \/ i = Len(free')
        BY <3>2 DEF TypeOK
      <3>5. NoClientTwiceFree'
        BY <3>2, <3>3, <3>4 DEF Seating, NoClientTwiceFree
      <3>6. FreeUnheld'
        BY <1>4, <1>8, <3>2, <3>3, <3>4, PoolAssumption DEF Seating, FreeUnheld, NoClientShared
      <3>7. NoneLost'
        <4> SUFFICES ASSUME pool' = "open", NEW c \in Client
                     PROVE  \/ \E i \in 1 .. Len(free') : free'[i] = c
                            \/ \E u \in Task : holds'[u] = c
          BY DEF NoneLost
        <4>1. CASE c = holds[t]
          <5>1. Len(free') \in 1 .. Len(free')
            BY <3>2 DEF TypeOK
          <5> QED
            BY <4>1, <5>1, <3>2
        <4>2. CASE \E i \in 1 .. Len(free) : free[i] = c
          BY <4>2, <3>2 DEF TypeOK
        <4>3. CASE c # holds[t] /\ \E u \in Task : holds[u] = c
          BY <4>3, <1>8
        <4> QED
          BY <4>1, <4>2, <4>3 DEF Seating, NoneLost
      <3>8. NoWaitBesideFree'
        BY <3>1 DEF NoWaitBesideFree
      <3> QED
        BY <1>1, <1>3, <2>2, <2>3, <2>4, <2>5, <3>5, <3>6, <3>7, <3>8 DEF Seating
    <2> QED
      BY <1>1, <1>3, <2>6, <2>7
  <1>9. CASE /\ pool # "closed"
             /\ waiters # <<>>
             /\ Head(waiters) \in Task
             /\ Head(waiters) # t
             /\ task[Head(waiters)] = "waiting"
             /\ waiters' = Tail(waiters)
             /\ \A u \in Task : holds'[u] = IF u = Head(waiters) THEN holds[t]
                                           ELSE IF u = t THEN NoClient ELSE holds[u]
             /\ free' = free
    <2> DEFINE w == Head(waiters)
    <2>1. \A u \in Task : task'[u] = IF u = t THEN outcome ELSE IF u = w THEN "running" ELSE task[u]
      BY <1>2, <1>4, <1>5, <1>9
    <2>2. HoldersActive'
      BY <1>4, <1>7, <1>9, <2>1 DEF Seating, HoldersActive
    <2>3. /\ Len(waiters') = Len(waiters) - 1
          /\ \A i \in 1 .. Len(waiters') : waiters'[i] = waiters[i + 1] /\ i + 1 \in 1 .. Len(waiters)
          /\ w = waiters[1] /\ 1 \in 1 .. Len(waiters)
      BY <1>9 DEF TypeOK
    <2>4. \A i \in 1 .. Len(waiters') : waiters'[i] \in Task /\ waiters'[i] # w /\ waiters'[i] # t
      <3> TAKE i \in 1 .. Len(waiters')
      <3>1. waiters'[i] = waiters[i + 1] /\ i + 1 \in 1 .. Len(waiters) /\ i + 1 # 1
        BY <2>3
      <3>2. waiters[i + 1] # waiters[1]
        BY <2>3, <3>1 DEF Seating, WaitersWait
      <3>3. task[waiters[i + 1]] = "waiting"
        BY <3>1 DEF Seating, WaitersWait
      <3> QED
        BY <2>3, <3>1, <3>2, <3>3 DEF TypeOK, Active
    <2>5. WaitersWait'
      <3>1. \A i \in 1 .. Len(waiters') : task'[waiters'[i]] = "waiting"
        BY <2>1, <2>3, <2>4 DEF Seating, WaitersWait
      <3>2. \A i, j \in 1 .. Len(waiters') : waiters'[i] = waiters'[j] => i = j
        BY <2>3 DEF Seating, WaitersWait
      <3> QED
        BY <3>1, <3>2 DEF WaitersWait
    <2>6. NotStarted'
      BY <1>6 DEF NotStarted
    <2>7. NoClientShared'
      BY <1>4, <1>9 DEF Seating, NoClientShared
    <2>8. NoClientTwiceFree'
      BY <1>9 DEF Seating, NoClientTwiceFree
    <2>9. free = <<>>
      BY <1>9 DEF Seating, NoWaitBesideFree
    <2>10. FreeUnheld' /\ NoWaitBesideFree'
      BY <1>9, <2>9 DEF FreeUnheld, NoWaitBesideFree
    <2>11. NoneLost'
      <3> SUFFICES ASSUME pool = "open", NEW c \in Client
                   PROVE  \E u \in Task : holds'[u] = c
        BY DEF NoneLost
      <3>1. PICK u \in Task : holds[u] = c
        BY <2>9 DEF Seating, NoneLost
      <3>2. u # w
        BY <1>5, <1>9, <3>1, PoolAssumption
      <3>3. CASE u = t
        BY <1>9, <3>1, <3>3
      <3>4. CASE u # t
        BY <1>9, <3>1, <3>2, <3>4
      <3> QED
        BY <3>3, <3>4
    <2> QED
      BY <1>1, <1>3, <2>2, <2>5, <2>6, <2>7, <2>8, <2>10, <2>11 DEF Seating
  <1> QED
    BY <1>0, <1>8, <1>9, ReleaseEffect

-----------------------------------------------------------------------------
(* The invariant.                                                           *)

LEMMA InitIInv == Init => IInv
  <1> SUFFICES ASSUME Init PROVE IInv
    OBVIOUS
  <1>1. TypeOK
    <2>1. attempt \in [Task -> 0 .. RetryBudget]
      BY PoolAssumption DEF Init
    <2>2. clients \in Seq(Client) /\ free \in Seq(Client) /\ waiters \in Seq(Task)
      BY DEF Init
    <2> QED
      BY <2>1, <2>2 DEF Init, TypeOK
  <1>2. ListedOnce
    BY DEF Init, ListedOnce
  <1>3. HoldersActive
    BY DEF Init, HoldersActive, Active
  <1>4. WaitersWait /\ NotStarted /\ NoClientShared /\ NoClientTwiceFree
    BY DEF Init, WaitersWait, NotStarted, NoClientShared, NoClientTwiceFree
  <1>5. FreeUnheld /\ NoneLost /\ NoWaitBesideFree
    BY DEF Init, FreeUnheld, NoneLost, NoWaitBesideFree
  <1> QED
    BY <1>1, <1>2, <1>3, <1>4, <1>5 DEF IInv, Seating

(* A client comes up; with the last of them the pool opens, all free.       *)
LEMMA ClientUpKeeps ==
  ASSUME IInv, NEW c \in Client, ClientUp(c)
  PROVE  IInv'
  <1> USE DEF IInv
  <1>1. /\ clients' = Append(clients, c)
        /\ socket' = [socket EXCEPT ![c] = "up"]
        /\ socket[c] = "connecting"
        /\ pool \in {"creating", "failed"}
        /\ UNCHANGED <<waiters, task, holds, attempt, aborted>>
    BY DEF ClientUp
  <1>2. /\ Len(clients') = Len(clients) + 1
        /\ \A i \in 1 .. Len(clients) : clients'[i] = clients[i]
        /\ clients'[Len(clients')] = c
        /\ clients' \in Seq(Client)
    BY <1>1 DEF TypeOK
  <1>3. \A i \in 1 .. Len(clients') : i \in 1 .. Len(clients) \/ i = Len(clients')
    BY <1>2 DEF TypeOK
  <1>4. /\ \A t \in Task : task[t] = "idle" /\ holds[t] = NoClient
        /\ free = <<>>
        /\ waiters = <<>>
    BY <1>1 DEF Seating, NotStarted, HoldersActive, Active
  <1>5. pool = "creating" =>
          /\ \A i \in 1 .. Len(clients') : socket'[clients'[i]] # "connecting"
          /\ \A i, j \in 1 .. Len(clients') : clients'[i] = clients'[j] => i = j
    <2> HAVE pool = "creating"
    <2>1. \A i \in 1 .. Len(clients) : clients[i] # c /\ clients[i] \in Client
      BY <1>1 DEF ListedOnce, TypeOK
    <2>2. \A d \in Client : socket'[d] = IF d = c THEN "up" ELSE socket[d]
      BY <1>1 DEF TypeOK
    <2>3. \A i \in 1 .. Len(clients') : socket'[clients'[i]] # "connecting"
      BY <1>2, <1>3, <2>1, <2>2 DEF ListedOnce
    <2>4. \A i, j \in 1 .. Len(clients') : clients'[i] = clients'[j] => i = j
      BY <1>2, <1>3, <2>1 DEF ListedOnce
    <2> QED
      BY <2>3, <2>4
  <1>6. CASE pool = "creating" /\ Range(clients') = Client
    <2>1. pool' = "open" /\ free' = clients'
      BY <1>6 DEF ClientUp
    <2>2. TypeOK'
      BY <1>1, <1>2, <2>1 DEF TypeOK
    <2>3. ListedOnce' /\ NotStarted'
      BY <2>1 DEF ListedOnce, NotStarted
    <2>4. HoldersActive' /\ WaitersWait' /\ NoClientShared'
      BY <1>1, <1>4 DEF Seating, HoldersActive, WaitersWait, NoClientShared
    <2>5. NoClientTwiceFree' /\ NoWaitBesideFree'
      BY <1>1, <1>4, <1>5, <1>6, <2>1 DEF NoClientTwiceFree, NoWaitBesideFree
    <2>6. FreeUnheld'
      BY <1>1, <1>2, <1>4, <2>1, PoolAssumption DEF FreeUnheld
    <2>7. NoneLost'
      BY <1>6, <2>1 DEF NoneLost, Range
    <2> QED
      BY <2>2, <2>3, <2>4, <2>5, <2>6, <2>7 DEF Seating
  <1>7. CASE ~ (pool = "creating" /\ Range(clients') = Client)
    <2>1. UNCHANGED <<pool, free>>
      BY <1>7 DEF ClientUp
    <2>2. TypeOK'
      BY <1>1, <1>2, <2>1 DEF TypeOK
    <2>3. ListedOnce'
      BY <1>5, <2>1 DEF ListedOnce
    <2>4. Seating'
      BY <1>1, <2>1 DEF Seating, HoldersActive, WaitersWait, NotStarted, NoClientShared,
                        NoClientTwiceFree, FreeUnheld, NoneLost, NoWaitBesideFree
    <2> QED
      BY <2>2, <2>3, <2>4
  <1> QED
    BY <1>6, <1>7

LEMMA ClientFailsKeeps ==
  ASSUME IInv, NEW c \in Client, ClientFails(c)
  PROVE  IInv'
  <1> USE DEF IInv
  <1>1. TypeOK'
    BY DEF ClientFails, TypeOK
  <1>2. ListedOnce' /\ NotStarted' /\ NoneLost'
    BY DEF ClientFails, ListedOnce, Seating, NotStarted, NoneLost
  <1>3. Seating'
    BY <1>2 DEF ClientFails, Seating, HoldersActive, WaitersWait, NoClientShared,
                NoClientTwiceFree, FreeUnheld, NoWaitBesideFree
  <1> QED
    BY <1>1, <1>2, <1>3

(* free.pop() takes the last element off.                                   *)
LEMMA DropLast ==
  ASSUME NEW S, NEW s \in Seq(S), s # <<>>
  PROVE  /\ SubSeq(s, 1, Len(s) - 1) \in Seq(S)
         /\ Len(SubSeq(s, 1, Len(s) - 1)) = Len(s) - 1
         /\ \A i \in 1 .. Len(s) - 1 : SubSeq(s, 1, Len(s) - 1)[i] = s[i]
  <1> DEFINE n == Len(s) - 1
  <1>1. n \in Nat /\ \A i \in 1 .. n : s[i] \in S
    OBVIOUS
  <1> HIDE DEF n
  <1>2. /\ SubSeq(s, 1, n) \in Seq(S)
        /\ Len(SubSeq(s, 1, n)) = n
        /\ \A i \in 1 .. n : SubSeq(s, 1, n)[i] = s[i]
    BY <1>1
  <1> QED
    BY <1>2 DEF n

LEMMA AcquireKeeps ==
  ASSUME IInv, NEW t \in Task, Acquire(t)
  PROVE  IInv'
  <1> USE DEF IInv
  <1>1. /\ pool = "open"
        /\ task[t] = "idle"
        /\ UNCHANGED <<pool, socket, clients, attempt, aborted>>
    BY DEF Acquire
  <1>2. holds[t] = NoClient
    BY <1>1 DEF Seating, HoldersActive, Active
  <1>3. ListedOnce' /\ NotStarted'
    BY <1>1 DEF ListedOnce, NotStarted
  <1>4. CASE /\ free # <<>>
             /\ holds' = [holds EXCEPT ![t] = free[Len(free)]]
             /\ free' = SubSeq(free, 1, Len(free) - 1)
             /\ task' = [task EXCEPT ![t] = "running"]
             /\ UNCHANGED waiters
    <2> DEFINE c == free[Len(free)]
    <2>1. /\ Len(free) \in 1 .. Len(free)
          /\ c \in Client
          /\ Len(free') = Len(free) - 1
          /\ \A i \in 1 .. Len(free') : free'[i] = free[i] /\ i \in 1 .. Len(free) /\ i # Len(free)
          /\ free' \in Seq(Client)
      <3>1. free \in Seq(Client) /\ Len(free) \in Nat /\ Len(free) >= 1
        BY <1>4 DEF TypeOK
      <3>2. Len(free) \in 1 .. Len(free) /\ c \in Client
        BY <3>1
      <3>3. /\ free' \in Seq(Client)
            /\ Len(free') = Len(free) - 1
            /\ \A i \in 1 .. Len(free) - 1 : free'[i] = free[i]
        BY <1>4, <3>1, DropLast
      <3> QED
        BY <3>1, <3>2, <3>3
    <2>2. /\ \A u \in Task : holds'[u] = IF u = t THEN c ELSE holds[u]
          /\ \A u \in Task : task'[u] = IF u = t THEN "running" ELSE task[u]
      BY <1>4 DEF TypeOK
    <2>3. TypeOK'
      BY <1>1, <1>4, <2>1 DEF TypeOK, Active
    <2>4. HoldersActive'
      BY <2>1, <2>2, PoolAssumption DEF Seating, HoldersActive, Active
    <2>5. waiters = <<>> /\ WaitersWait' /\ NoWaitBesideFree'
      BY <1>4 DEF Seating, WaitersWait, NoWaitBesideFree
    <2>6. NoClientShared'
      BY <2>1, <2>2 DEF Seating, NoClientShared, FreeUnheld
    <2>7. NoClientTwiceFree'
      BY <2>1 DEF Seating, NoClientTwiceFree
    <2>8. FreeUnheld'
      BY <2>1, <2>2 DEF Seating, FreeUnheld, NoClientTwiceFree
    <2>9. NoneLost'
      <3> SUFFICES ASSUME NEW d \in Client
                   PROVE  \/ \E i \in 1 .. Len(free') : free'[i] = d
                          \/ \E u \in Task : holds'[u] = d
        BY DEF NoneLost
      <3>1. CASE d = c
        BY <2>2, <3>1
      <3>2. CASE \E u \in Task : holds[u] = d
        BY <1>2, <2>2, <3>2, PoolAssumption
      <3>3. CASE d # c /\ \E i \in 1 .. Len(free) : free[i] = d
        <4>1. PICK i \in 1 .. Len(free) : free[i] = d
          BY <3>3
        <4>2. i \in 1 .. Len(free')
          BY <2>1, <3>3, <4>1 DEF TypeOK
        <4> QED
          BY <2>1, <4>1, <4>2
      <3> QED
        BY <1>1, <3>1, <3>2, <3>3 DEF Seating, NoneLost
    <2> QED
      BY <1>3, <2>3, <2>4, <2>5, <2>6, <2>7, <2>8, <2>9 DEF Seating
  <1>5. CASE /\ free = <<>>
             /\ waiters' = Append(waiters, t)
             /\ task' = [task EXCEPT ![t] = "waiting"]
             /\ UNCHANGED <<holds, free>>
    <2>1. /\ Len(waiters') = Len(waiters) + 1
          /\ \A i \in 1 .. Len(waiters) : waiters'[i] = waiters[i]
          /\ waiters'[Len(waiters')] = t
          /\ waiters' \in Seq(Task)
      BY <1>5 DEF TypeOK
    <2>2. \A i \in 1 .. Len(waiters') : i \in 1 .. Len(waiters) \/ i = Len(waiters')
      BY <2>1 DEF TypeOK
    <2>3. \A u \in Task : task'[u] = IF u = t THEN "waiting" ELSE task[u]
      BY <1>5 DEF TypeOK
    <2>4. \A i \in 1 .. Len(waiters) : waiters[i] # t /\ waiters[i] \in Task
      BY <1>1 DEF TypeOK, Seating, WaitersWait
    <2>5. TypeOK'
      BY <1>1, <1>5, <2>1 DEF TypeOK
    <2>6. HoldersActive'
      BY <1>2, <1>5, <2>3 DEF Seating, HoldersActive, Active
    <2>7. WaitersWait'
      <3>1. \A i \in 1 .. Len(waiters') : task'[waiters'[i]] = "waiting"
        BY <2>1, <2>2, <2>3, <2>4 DEF Seating, WaitersWait
      <3>2. \A i, j \in 1 .. Len(waiters') : waiters'[i] = waiters'[j] => i = j
        BY <2>1, <2>2, <2>4 DEF Seating, WaitersWait
      <3> QED
        BY <3>1, <3>2 DEF WaitersWait
    <2>8. /\ NoClientShared' /\ NoClientTwiceFree' /\ FreeUnheld'
          /\ NoneLost' /\ NoWaitBesideFree'
      BY <1>1, <1>5 DEF Seating, NoClientShared, NoClientTwiceFree, FreeUnheld, NoneLost,
                        NoWaitBesideFree
    <2> QED
      BY <1>3, <2>5, <2>6, <2>7, <2>8 DEF Seating
  <1> QED
    BY <1>4, <1>5 DEF Acquire

(* The steps of a task that holds a client.                                 *)
LEMMA HolderKeeps ==
  ASSUME IInv, NEW t \in Task,
         \/ \E outcome \in Ended : Settle(t, outcome)
         \/ Retry(t) \/ Wake(t) \/ WakeCancelled(t) \/ Reconnected(t) \/ ReconnectFails(t)
  PROVE  IInv'
  <1> USE DEF IInv
  <1>1. /\ task[t] \in Active
        /\ UNCHANGED <<pool, clients, aborted>>
        /\ holds[t] \in Client
    BY DEF Settle, Retry, Wake, WakeCancelled, Reconnected, ReconnectFails, Active, poolVars,
           TypeOK, Seating, HoldersActive
  <1>2. pool # "creating" /\ ListedOnce'
    BY <1>1 DEF Seating, NotStarted, Active, ListedOnce
  <1>3. ASSUME NEW outcome \in Ended, EndTask(t, outcome),
               attempt' \in [Task -> 0 .. RetryBudget],
               socket' \in [Client -> {"connecting", "up", "down"}]
        PROVE  IInv'
    <2>1. /\ holds' \in [Task -> Client \cup {NoClient}]
          /\ free' \in Seq(Client)
          /\ waiters' \in Seq(Task)
          /\ task' \in [Task -> {"idle", "waiting"} \cup Active \cup Ended]
          /\ Seating'
      BY <1>1, <1>3, EndTaskSeats
    <2>2. TypeOK'
      BY <1>1, <1>3, <2>1 DEF TypeOK
    <2> QED
      BY <1>2, <2>1, <2>2
  <1>4. ASSUME NEW stage \in Active, task' = [task EXCEPT ![t] = stage],
               UNCHANGED <<free, waiters, holds>>,
               attempt' \in [Task -> 0 .. RetryBudget],
               socket' \in [Client -> {"connecting", "up", "down"}]
        PROVE  IInv'
    <2>1. \A u \in Task : task'[u] = IF u = t THEN stage ELSE task[u]
      BY <1>4 DEF TypeOK
    <2>2. TypeOK'
      BY <1>1, <1>4 DEF TypeOK
    <2>3. HoldersActive' /\ NotStarted'
      BY <1>1, <1>4, <2>1 DEF Seating, HoldersActive, NotStarted, Active
    <2>4. WaitersWait'
      <3>1. WaitersWait /\ task[t] # "waiting" /\ stage # "waiting"
        BY <1>1, <1>4 DEF Seating, Active
      <3>2. \A u \in Task : task'[u] = "waiting" <=> task[u] = "waiting"
        BY <2>1, <3>1
      <3> QED BY <1>4, <3>1, <3>2 DEF WaitersWait, TypeOK
    <2>5. /\ NoClientShared' /\ NoClientTwiceFree' /\ FreeUnheld'
          /\ NoneLost' /\ NoWaitBesideFree'
      BY <1>1, <1>4 DEF Seating, NoClientShared, NoClientTwiceFree, FreeUnheld, NoneLost,
                        NoWaitBesideFree
    <2> QED
      BY <1>2, <2>2, <2>3, <2>4, <2>5 DEF Seating
  <1>5. CASE \E outcome \in Ended : Settle(t, outcome)
    BY <1>3, <1>5 DEF Settle, TypeOK
  <1>6. CASE Retry(t)
    <2>1. attempt' \in [Task -> 0 .. RetryBudget]
      BY <1>6, PoolAssumption DEF Retry, RetryLeft, TypeOK
    <2> QED
      BY <1>4, <1>6, <2>1 DEF Retry, poolVars, Active, TypeOK
  <1>7. CASE Wake(t)
    <2>1. socket' \in [Client -> {"connecting", "up", "down"}]
      BY <1>7 DEF Wake, TypeOK
    <2> QED
      BY <1>4, <1>7, <2>1 DEF Wake, poolVars, Active, TypeOK
  <1>8. CASE WakeCancelled(t)
    BY <1>3, <1>8 DEF WakeCancelled, TypeOK, Ended
  <1>9. CASE Reconnected(t)
    <2>1. socket' \in [Client -> {"connecting", "up", "down"}]
      BY <1>9 DEF Reconnected, TypeOK
    <2> QED
      BY <1>4, <1>9, <2>1 DEF Reconnected, poolVars, Active, TypeOK
  <1>10. CASE ReconnectFails(t)
    <2>1. socket' \in [Client -> {"connecting", "up", "down"}] /\ attempt' = attempt
      BY <1>10 DEF ReconnectFails, TypeOK
    <2>2. CASE attempt[t] >= RetryBudget
      BY <1>3, <1>10, <2>1, <2>2 DEF ReconnectFails, Ended, TypeOK
    <2>3. CASE ~ (attempt[t] >= RetryBudget)
      BY <1>4, <1>10, <2>1, <2>3 DEF ReconnectFails, Active, TypeOK
    <2> QED
      BY <2>2, <2>3
  <1> QED
    BY <1>5, <1>6, <1>7, <1>8, <1>9, <1>10

LEMMA CloseKeeps ==
  ASSUME IInv, Close
  PROVE  IInv'
  <1> USE DEF IInv
  <1>1. /\ pool' = "closed" /\ free' = <<>> /\ waiters' = <<>>
        /\ UNCHANGED <<clients, holds, attempt, aborted>>
        /\ \A t \in Task : task'[t] = IF task[t] = "waiting" THEN "cancelled" ELSE task[t]
    BY DEF Close, RejectWaiters
  <1>2. TypeOK'
    BY <1>1 DEF Close, RejectWaiters, TypeOK, Ended
  <1>3. HoldersActive'
    BY <1>1 DEF Seating, HoldersActive, Active
  <1>4. /\ ListedOnce' /\ WaitersWait' /\ NotStarted' /\ NoClientTwiceFree'
        /\ FreeUnheld' /\ NoneLost' /\ NoWaitBesideFree'
    BY <1>1 DEF ListedOnce, WaitersWait, NotStarted, NoClientTwiceFree, FreeUnheld, NoneLost,
                NoWaitBesideFree
  <1>5. NoClientShared'
    BY <1>1 DEF Seating, NoClientShared
  <1> QED
    BY <1>2, <1>3, <1>4, <1>5 DEF Seating

LEMMA IInvStep == IInv /\ [Next]_vars => IInv'
  <1> SUFFICES ASSUME IInv, [Next]_vars PROVE IInv'
    OBVIOUS
  <1>1. CASE \E c \in Client : ClientUp(c)
    BY <1>1, ClientUpKeeps
  <1>2. CASE \E c \in Client : ClientFails(c)
    BY <1>2, ClientFailsKeeps
  <1>3. CASE \E c \in Client : Drop(c)
    BY <1>3 DEF Drop, poolVars, IInv, TypeOK, ListedOnce, Seating, HoldersActive, WaitersWait,
                NotStarted, NoClientShared, NoClientTwiceFree, FreeUnheld, NoneLost,
                NoWaitBesideFree
  <1>4. CASE \E t \in Task : TaskStep(t)
    BY <1>4, AcquireKeeps, HolderKeeps DEF TaskStep
  <1>5. CASE Abort \/ UNCHANGED vars
    <2>1. UNCHANGED <<pool, clients, free, waiters, socket, task, holds, attempt>>
      BY <1>5 DEF Abort, poolVars, vars
    <2>2. aborted' \in BOOLEAN
      BY <1>5 DEF Abort, vars, IInv, TypeOK
    <2>3. TypeOK' /\ ListedOnce'
      BY <2>1, <2>2 DEF IInv, TypeOK, ListedOnce
    <2>4. Seating'
      BY <2>1 DEF IInv, Seating, HoldersActive, WaitersWait, NotStarted, NoClientShared,
                  NoClientTwiceFree, FreeUnheld, NoneLost, NoWaitBesideFree
    <2> QED
      BY <2>3, <2>4 DEF IInv
  <1>6. CASE Close
    BY <1>6, CloseKeeps
  <1> QED
    BY <1>1, <1>2, <1>3, <1>4, <1>5, <1>6 DEF Next

LEMMA Invariance == Spec => []IInv
  BY InitIInv, IInvStep, PTL DEF Spec

-----------------------------------------------------------------------------
(* The theorems.                                                            *)

(* The pool and its tasks keep their types; no task retries more often than *)
(* its budget allows (withReconnectRetry, ingestFolder).                    *)
THEOREM PoolTypeCorrect == Spec => []TypeOK
  <1>1. IInv => TypeOK
    BY DEF IInv
  <1> QED
    BY <1>1, Invariance, PTL

(* acquire and release neither share a client nor lose one.                 *)
THEOREM ClientsInOnePlace == Spec => []EachClientInOnePlace
  <1>1. IInv => EachClientInOnePlace
    <2> SUFFICES ASSUME IInv, pool = "open", NEW c \in Client
                 PROVE  c \in Range(free) <=> ~ \E t \in Task : task[t] \in Active /\ holds[t] = c
      BY DEF EachClientInOnePlace, IInv, Seating
    <2>1. ASSUME c \in Range(free), NEW t \in Task PROVE holds[t] # c
      BY <2>1 DEF IInv, Seating, FreeUnheld, Range
    <2>2. ASSUME c \notin Range(free) PROVE \E t \in Task : task[t] \in Active /\ holds[t] = c
      <3>1. PICK t \in Task : holds[t] = c
        BY <2>2 DEF IInv, Seating, NoneLost, Range
      <3> QED
        BY <3>1, PoolAssumption DEF IInv, Seating, HoldersActive
    <2> QED
      BY <2>1, <2>2
  <1> QED
    BY <1>1, Invariance, PTL

(* A client that comes free goes to whoever waits (release).                *)
THEOREM NobodyWaitsBesideFree == Spec => []NoWaitBesideFree
  <1>1. IInv => NoWaitBesideFree
    BY DEF IInv, Seating
  <1> QED
    BY <1>1, Invariance, PTL

(* release serves the queue in the order of arrival.                        *)
THEOREM QueueServedInOrder == Spec => ServedInOrder
  <1>1. IInv /\ [Next]_vars =>
          [\A t \in Task : task[t] = "waiting" /\ task'[t] = "running" => t = Head(waiters)]_vars
    <2> SUFFICES ASSUME IInv, Next, NEW w \in Task, task[w] = "waiting", task'[w] = "running"
                 PROVE  w = Head(waiters)
      OBVIOUS
    <2>1. holds[w] = NoClient
      BY DEF IInv, Seating, HoldersActive, Active
    <2>2. ASSUME NEW t \in Task, NEW outcome \in Ended, task[t] \in Active, EndTask(t, outcome)
          PROVE  w = Head(waiters)
      <3>1. holds'[w] # NoClient
        BY <2>2 DEF EndTask, Handed, Ended, Active
      <3>2. w # t
        BY <2>2 DEF Active
      <3> QED
        BY <2>1, <2>2, <3>1, <3>2, ReleaseEffect DEF IInv, EndTask
    <2>3. PICK t \in Task : TaskStep(t)
      BY DEF Next, ClientUp, ClientFails, Drop, Abort, Close, RejectWaiters, poolVars
    <2>4. CASE Acquire(t)
      BY <2>4 DEF Acquire, IInv, TypeOK
    <2>5. CASE \E outcome \in Ended : Settle(t, outcome)
      BY <2>2, <2>5 DEF Settle, Active
    <2>6. CASE Retry(t) \/ Wake(t) \/ Reconnected(t)
      BY <2>6 DEF Retry, Wake, Reconnected, IInv, TypeOK
    <2>7. CASE WakeCancelled(t)
      BY <2>2, <2>7 DEF WakeCancelled, Active, Ended
    <2>8. CASE ReconnectFails(t)
      BY <2>2, <2>8 DEF ReconnectFails, IInv, TypeOK, Active, Ended
    <2> QED
      BY <2>3, <2>4, <2>5, <2>6, <2>7, <2>8 DEF TaskStep
  <1> QED
    BY <1>1, Invariance, PTL DEF Spec, ServedInOrder

=============================================================================
