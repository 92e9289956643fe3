----------------------------- MODULE ParserPool -----------------------------
(***************************************************************************)
(* The pool of parser workers (src/main/pipeline/parser-pool.ts,           *)
(* workers/parser-worker.ts).  parse posts a request to the next worker of *)
(* the rotation and leaves an entry in that slot's map; a reply, the       *)
(* timeout, the end of the worker or close takes the entry out and settles *)
(* the promise.                                                            *)
(*                                                                         *)
(* Workers are threads: they answer in any order, late, or never, and may  *)
(* die.  What they post arrives in the order they posted it.               *)
(***************************************************************************)
EXTENDS Integers, Sequences

CONSTANTS
  Calls,    \* bound: how often parse is called
  Workers   \* size

ASSUME PoolAssumption ==
  /\ Calls \in Nat
  /\ Workers \in Nat \ {0}

VARIABLES
  (* the callers *)
  promise,  \* what each call of parse has come to
  text,     \* the call whose source the text it got is from, 0 without one
  (* the pool *)
  closed,
  nextId,
  cursor,
  pending,  \* each slot's map from id to call, 0 = no entry
  ticket,   \* the slot and id of each call, as its timer knows them
  (* the workers *)
  worker,   \* "up", "dead" and "gone": its exit event has been handled
  inbox,    \* requests a worker is parsing
  outbox    \* replies on their way to the main thread

callVars == <<promise, text>>
poolVars == <<closed, nextId, cursor, pending, ticket>>
vars     == <<callVars, poolVars, worker, inbox, outbox>>

Call == 1 .. Calls
Slot == 0 .. Workers - 1
Id   == 0 .. Calls

Request == [id : Id, source : Call]
Reply   == [id : Id, source : Call, ok : BOOLEAN]

TypeOK ==
  /\ promise \in [Call -> {"none", "pending", "text", "failed"}]
  /\ text \in [Call -> 0 .. Calls]
  /\ closed \in BOOLEAN
  /\ nextId \in Id
  /\ cursor \in Slot
  /\ pending \in [Slot -> [Id -> 0 .. Calls]]
  /\ ticket \in [Call -> [slot : Slot, id : Id]]
  /\ worker \in [Slot -> {"up", "dead", "gone"}]
  /\ inbox \in [Slot -> SUBSET Request]
  /\ outbox \in [Slot -> Seq(Reply)]

NoEntries == [i \in Id |-> 0]

Init ==
  /\ promise = [c \in Call |-> "none"]
  /\ text = [c \in Call |-> 0]
  /\ closed = FALSE
  /\ nextId = 0
  /\ cursor = 0
  /\ pending = [s \in Slot |-> NoEntries]
  /\ ticket = [c \in Call |-> [slot |-> 0, id |-> 0]]
  /\ worker = [s \in Slot |-> "up"]
  /\ inbox = [s \in Slot |-> {}]
  /\ outbox = [s \in Slot |-> <<>>]

-----------------------------------------------------------------------------
(* The main thread.                                                         *)

LowestFreeId(s) == CHOOSE i \in Id : /\ pending[s][i] = 0
                                     /\ \A j \in Id : pending[s][j] = 0 => i <= j
FreshId(s) == nextId

SlotAfterUnwrapped(s) == s + 1
SlotAfter(s) == (s + 1) % Workers

Open == ~ closed

(* parse.  What is posted to a worker that has died is lost. *)
Parse(c) ==
  /\ Open
  /\ promise[c] = "none"
  /\ \A d \in Call : d < c => promise[d] # "none"
  /\ LET s  == cursor
         id == FreshId(s)
     IN  /\ pending' = [pending EXCEPT ![s][id] = c]
         /\ ticket' = [ticket EXCEPT ![c] = [slot |-> s, id |-> id]]
         /\ inbox' = IF worker[s] = "up"
                     THEN [inbox EXCEPT ![s] = @ \cup {[id |-> id, source |-> c]}]
                     ELSE inbox
         /\ cursor' = SlotAfter(s)
  /\ nextId' = nextId + 1
  /\ promise' = [promise EXCEPT ![c] = "pending"]
  /\ UNCHANGED <<text, closed, worker, outbox>>

ParseOnClosedPool(c) ==
  /\ closed
  /\ promise[c] = "none"
  /\ promise' = [promise EXCEPT ![c] = "failed"]
  /\ UNCHANGED <<text, poolVars, worker, inbox, outbox>>

(* The message handler: a reply nobody waits for is dropped. *)
Deliver(s) ==
  /\ outbox[s] # <<>>
  /\ outbox' = [outbox EXCEPT ![s] = Tail(@)]
  /\ LET m == Head(outbox[s])
         c == pending[s][m.id]
     IN  IF c = 0
         THEN UNCHANGED <<pending, callVars>>
         ELSE /\ pending' = [pending EXCEPT ![s][m.id] = 0]
              /\ promise' = [promise EXCEPT ![c] = IF m.ok THEN "text" ELSE "failed"]
              /\ text' = [text EXCEPT ![c] = IF m.ok THEN m.source ELSE 0]
  /\ UNCHANGED <<closed, nextId, cursor, ticket, worker, inbox>>

TimeOut(c) ==
  /\ promise[c] = "pending"
  /\ LET t == ticket[c]
     IN  /\ pending[t.slot][t.id] # 0
         /\ pending' = [pending EXCEPT ![t.slot][t.id] = 0]
  /\ promise' = [promise EXCEPT ![c] = "failed"]
  /\ UNCHANGED <<text, closed, nextId, cursor, ticket, worker, inbox, outbox>>

ClearWithoutRejecting(slots) ==
  /\ pending' = [s \in Slot |-> IF s \in slots THEN NoEntries ELSE pending[s]]
  /\ promise' = promise

(* Reject every entry of these slots and clear their maps. *)
RejectAll(slots) ==
  /\ pending' = [s \in Slot |-> IF s \in slots THEN NoEntries ELSE pending[s]]
  /\ promise' = [c \in Call |-> IF \E s \in slots, i \in Id : pending[s][i] = c
                                THEN "failed" ELSE promise[c]]

(* The error event of a worker that died of an exception. *)
ErrorEvent(s) ==
  /\ worker[s] = "dead"
  /\ RejectAll({s})
  /\ UNCHANGED <<text, closed, nextId, cursor, ticket, worker, inbox, outbox>>

(* The exit event is the last of a worker's. *)
ExitEvent(s) ==
  /\ worker[s] = "dead"
  /\ worker' = [worker EXCEPT ![s] = "gone"]
  /\ outbox' = [outbox EXCEPT ![s] = <<>>]
  /\ RejectAll({s})
  /\ UNCHANGED <<text, closed, nextId, cursor, ticket, inbox>>

(* close, in the finally block of scan.start; terminate ends the workers.   *)
Close ==
  /\ ~ closed
  /\ closed' = TRUE
  /\ RejectAll(Slot)
  /\ worker' = [s \in Slot |-> IF worker[s] = "up" THEN "dead" ELSE worker[s]]
  /\ inbox' = [s \in Slot |-> {}]
  /\ UNCHANGED <<text, nextId, cursor, ticket, outbox>>

-----------------------------------------------------------------------------
(* The worker threads.                                                      *)

(* The listener answers with the text, or with what went wrong. *)
Work(s) ==
  /\ worker[s] = "up"
  /\ \E m \in inbox[s], ok \in BOOLEAN :
       /\ inbox' = [inbox EXCEPT ![s] = @ \ {m}]
       /\ outbox' = [outbox EXCEPT ![s] =
                       Append(@, [id |-> m.id, source |-> m.source, ok |-> ok])]
  /\ UNCHANGED <<callVars, poolVars, worker>>

Die(s) ==
  /\ worker[s] = "up"
  /\ worker' = [worker EXCEPT ![s] = "dead"]
  /\ inbox' = [inbox EXCEPT ![s] = {}]
  /\ UNCHANGED <<callVars, poolVars, outbox>>

Next ==
  \/ \E c \in Call : Parse(c) \/ ParseOnClosedPool(c) \/ TimeOut(c)
  \/ \E s \in Slot : Deliver(s) \/ ErrorEvent(s) \/ ExitEvent(s) \/ Work(s) \/ Die(s)
  \/ Close

Spec == Init /\ [][Next]_vars

(* Timers fire.  Of the workers nothing is assumed. *)
FairSpec == Spec /\ \A c \in Call : WF_vars(TimeOut(c))

-----------------------------------------------------------------------------
(* Properties.                                                              *)

(* A call waits exactly as long as its slot has an entry for it: the entry   *)
(* is all that a reply, the timer, the end of a worker and close go by, so a *)
(* call without one would wait for ever.                                    *)
EntryWhilePending ==
  \A c \in Call :
    promise[c] = "pending" <=> \E s \in Slot, i \in Id : pending[s][i] = c

(* Nothing is left in a pool that is closed. *)
ClosedPoolIsIdle == closed => \A c \in Call : promise[c] # "pending"

(* The pool is a Parser: a reply that comes after the timeout, after other   *)
(* replies or from a worker that has died since never settles another call,  *)
(* and each call is settled once, at the latest by its timer.               *)
IsParser == INSTANCE Parser

AnswersItsCaller == IsParser!Spec

=============================================================================
