-------------------------- MODULE ParserPoolProofs --------------------------
(***************************************************************************)
(* What holds of ParserPool for every number of calls and of workers.      *)
(***************************************************************************)
EXTENDS ParserPool, TLAPS

(* Each entry is that of a waiting call, where the call's timer looks.       *)
EntriesWait ==
  \A s \in Slot, i \in Id : pending[s][i] # 0 =>
    /\ promise[pending[s][i]] = "pending"
    /\ ticket[pending[s][i]] = [slot |-> s, id |-> i]

(* Each waiting call has its entry there.                                   *)
WaitersEntered ==
  \A c \in Call : promise[c] = "pending" => pending[ticket[c].slot][ticket[c].id] = c

(* Ids are handed out in order, at most one for each call so far.           *)
IdsFresh ==
  /\ \A c \in Call : promise[c] = "none" => nextId < c
  /\ \A s \in Slot, i \in Id : pending[s][i] # 0 => i < nextId

(* What travels to and from a worker under an id is of the call that waits   *)
(* for the id, if any does: the id will not be another call's.              *)
Travelling(s) == inbox[s] \cup {outbox[s][k] : k \in 1 .. Len(outbox[s])}

TravelsOwn ==
  \A s \in Slot : \A m \in Travelling(s) :
    m.id < nextId /\ pending[s][m.id] \in {0, m.source}

(* A call that is not answered has no text.                                 *)
NoTextYet == \A c \in Call : promise[c] \in {"none", "pending"} => text[c] = 0

ClosedIsEmpty == closed => \A s \in Slot, i \in Id : pending[s][i] = 0

Books == EntriesWait /\ WaitersEntered /\ IdsFresh /\ TravelsOwn /\ NoTextYet /\ ClosedIsEmpty

IInv == TypeOK /\ Books

USE PoolAssumption DEF PoolAssumption

-----------------------------------------------------------------------------
(* The steps.                                                               *)

LEMMA InitBooks == Init => IInv
  <1> SUFFICES ASSUME Init PROVE IInv
    OBVIOUS
  <1>1. 0 \in Slot /\ 0 \in Id /\ 0 \in 0 .. Calls
    BY DEF Slot, Id
  <1>2. NoEntries \in [Id -> 0 .. Calls] /\ \A i \in Id : NoEntries[i] = 0
    BY <1>1 DEF NoEntries
  <1>3. TypeOK
    BY <1>1, <1>2 DEF Init, TypeOK
  <1>4. \A s \in Slot, i \in Id : pending[s][i] = 0
    BY <1>2 DEF Init
  <1>5. EntriesWait /\ WaitersEntered /\ NoTextYet /\ ClosedIsEmpty
    BY <1>4 DEF Init, EntriesWait, WaitersEntered, NoTextYet, ClosedIsEmpty
  <1>6. IdsFresh
    BY <1>4 DEF Init, IdsFresh, Call
  <1>7. TravelsOwn
    <2>1. \A s \in Slot : inbox[s] = {} /\ outbox[s] = <<>>
      BY DEF Init
    <2> QED BY <2>1 DEF TravelsOwn, Travelling
  <1> QED BY <1>3, <1>5, <1>6, <1>7 DEF IInv, Books

(* The books, read for one entry, one waiting call and one slot.            *)
LEMMA EntryOf ==
  ASSUME IInv, NEW s \in Slot, NEW i \in Id, pending[s][i] # 0
  PROVE  /\ pending[s][i] \in Call
         /\ promise[pending[s][i]] = "pending"
         /\ ticket[pending[s][i]] = [slot |-> s, id |-> i]
  <1>1. pending[s][i] \in 0 .. Calls
    BY DEF IInv, TypeOK
  <1>2. pending[s][i] \in Call
    BY <1>1 DEF Call
  <1> QED BY <1>2 DEF IInv, Books, EntriesWait

LEMMA EntryFor ==
  ASSUME IInv, NEW c \in Call, promise[c] = "pending"
  PROVE  /\ ticket[c].slot \in Slot
         /\ ticket[c].id \in Id
         /\ pending[ticket[c].slot][ticket[c].id] = c
  BY DEF IInv, TypeOK, Books, WaitersEntered

LEMMA TravellersTyped ==
  ASSUME IInv, NEW s \in Slot, NEW m \in Travelling(s)
  PROVE  m \in Request \cup Reply /\ m.id \in Id /\ m.source \in Call
  <1>1. inbox[s] \subseteq Request /\ outbox[s] \in Seq(Reply)
    BY DEF IInv, TypeOK
  <1>2. \A k \in 1 .. Len(outbox[s]) : outbox[s][k] \in Reply
    BY <1>1
  <1> QED BY <1>1, <1>2 DEF Travelling, Request, Reply

(* What RejectAll does, entry by entry and call by call.                    *)
LEMMA RejectAllEffect ==
  ASSUME IInv, NEW slots \in SUBSET Slot, RejectAll(slots)
  PROVE  /\ pending' \in [Slot -> [Id -> 0 .. Calls]]
         /\ promise' \in [Call -> {"none", "pending", "text", "failed"}]
         /\ \A s \in Slot, i \in Id : pending'[s][i] = IF s \in slots THEN 0 ELSE pending[s][i]
         /\ \A c \in Call :
              promise'[c] = IF promise[c] = "pending" /\ ticket[c].slot \in slots
                            THEN "failed" ELSE promise[c]
  <1>1. \A c \in Call :
          (\E s \in slots, i \in Id : pending[s][i] = c)
            <=> promise[c] = "pending" /\ ticket[c].slot \in slots
    <2> SUFFICES ASSUME NEW c \in Call
                 PROVE  (\E s \in slots, i \in Id : pending[s][i] = c)
                          <=> promise[c] = "pending" /\ ticket[c].slot \in slots
      OBVIOUS
    <2>1. ASSUME NEW s \in slots, NEW i \in Id, pending[s][i] = c
          PROVE  promise[c] = "pending" /\ ticket[c].slot \in slots
      <3>1. s \in Slot /\ pending[s][i] # 0
        BY <2>1 DEF Call
      <3>2. promise[pending[s][i]] = "pending" /\ ticket[pending[s][i]] = [slot |-> s, id |-> i]
        BY <3>1 DEF IInv, Books, EntriesWait
      <3> QED BY <2>1, <3>2
    <2>2. ASSUME promise[c] = "pending", ticket[c].slot \in slots
          PROVE  \E s \in slots, i \in Id : pending[s][i] = c
      <3>1. ticket[c].id \in Id /\ pending[ticket[c].slot][ticket[c].id] = c
        BY <2>2 DEF IInv, TypeOK, Books, WaitersEntered
      <3> QED BY <2>2, <3>1
    <2> QED BY <2>1, <2>2
  <1>2. pending' = [s \in Slot |-> IF s \in slots THEN NoEntries ELSE pending[s]]
    BY DEF RejectAll
  <1>3. promise' = [c \in Call |-> IF promise[c] = "pending" /\ ticket[c].slot \in slots
                                   THEN "failed" ELSE promise[c]]
    BY <1>1 DEF RejectAll
  <1>4. NoEntries \in [Id -> 0 .. Calls] /\ \A i \in Id : NoEntries[i] = 0
    BY DEF NoEntries
  <1> QED BY <1>2, <1>3, <1>4 DEF IInv, TypeOK

(* Rejecting keeps the books, whatever becomes of the workers meanwhile.     *)
LEMMA RejectAllBooks ==
  ASSUME IInv, NEW slots \in SUBSET Slot, RejectAll(slots),
         UNCHANGED <<text, nextId, ticket>>,
         UNCHANGED closed \/ slots = Slot,
         \A s \in Slot : Travelling(s)' \subseteq Travelling(s)
  PROVE  Books'
  <1>1. /\ \A s \in Slot, i \in Id : pending'[s][i] = IF s \in slots THEN 0 ELSE pending[s][i]
        /\ \A c \in Call :
             promise'[c] = IF promise[c] = "pending" /\ ticket[c].slot \in slots
                           THEN "failed" ELSE promise[c]
    BY RejectAllEffect
  <1>2. EntriesWait'
    <2> SUFFICES ASSUME NEW s \in Slot, NEW i \in Id, pending'[s][i] # 0
                 PROVE  /\ promise'[pending'[s][i]] = "pending"
                        /\ ticket'[pending'[s][i]] = [slot |-> s, id |-> i]
      BY DEF EntriesWait
    <2>1. s \notin slots /\ pending'[s][i] = pending[s][i]
      BY <1>1
    <2>2. /\ pending[s][i] \in Call
          /\ promise[pending[s][i]] = "pending"
          /\ ticket[pending[s][i]] = [slot |-> s, id |-> i]
      BY <2>1, EntryOf
    <2> QED BY <1>1, <2>1, <2>2
  <1>3. WaitersEntered'
    <2> SUFFICES ASSUME NEW c \in Call, promise'[c] = "pending"
                 PROVE  pending'[ticket[c].slot][ticket[c].id] = c
      BY DEF WaitersEntered
    <2>1. promise[c] = "pending" /\ ticket[c].slot \notin slots
      BY <1>1
    <2>2. /\ ticket[c].slot \in Slot /\ ticket[c].id \in Id
          /\ pending[ticket[c].slot][ticket[c].id] = c
      BY <2>1, EntryFor
    <2> QED BY <1>1, <2>1, <2>2
  <1>4. IdsFresh'
    BY <1>1 DEF IInv, Books, IdsFresh
  <1>5. NoTextYet'
    BY <1>1 DEF IInv, Books, NoTextYet
  <1>6. ClosedIsEmpty'
    <2> SUFFICES ASSUME closed', NEW s \in Slot, NEW i \in Id PROVE pending'[s][i] = 0
      BY DEF ClosedIsEmpty
    <2>1. CASE closed
      BY <1>1, <2>1 DEF IInv, Books, ClosedIsEmpty
    <2>2. CASE slots = Slot
      BY <1>1, <2>2
    <2> QED BY <2>1, <2>2 DEF IInv, TypeOK
  <1>7. TravelsOwn'
    <2> SUFFICES ASSUME NEW s \in Slot, NEW m \in Travelling(s)'
                 PROVE  m.id < nextId' /\ pending'[s][m.id] \in {0, m.source}
      BY DEF TravelsOwn
    <2>1. m \in Travelling(s)
      OBVIOUS
    <2>2. m.id < nextId /\ pending[s][m.id] \in {0, m.source}
      BY <2>1 DEF IInv, Books, TravelsOwn
    <2>3. m.id \in Id
      BY <2>1, TravellersTyped
    <2> QED BY <1>1, <2>2, <2>3
  <1> QED BY <1>2, <1>3, <1>4, <1>5, <1>6, <1>7 DEF Books

LEMMA ParseBooks ==
  ASSUME IInv, NEW c \in Call, Parse(c)
  PROVE  IInv'
  <1> DEFINE s == cursor
             r == [id |-> nextId, source |-> c]
  <1>1. s \in Slot /\ nextId \in Id /\ nextId < c /\ nextId + 1 \in Id /\ promise[c] = "none"
    BY DEF IInv, TypeOK, Books, IdsFresh, Parse, Call, Id
  <1>2. /\ pending' = [pending EXCEPT ![s][nextId] = c]
        /\ ticket' = [ticket EXCEPT ![c] = [slot |-> s, id |-> nextId]]
        /\ inbox' \in {inbox, [inbox EXCEPT ![s] = @ \cup {r}]}
        /\ cursor' = (s + 1) % Workers
        /\ nextId' = nextId + 1
        /\ promise' = [promise EXCEPT ![c] = "pending"]
        /\ UNCHANGED <<text, closed, worker, outbox>>
        /\ ~ closed
        /\ \A d \in Call : d < c => promise[d] # "none"
    BY DEF Parse, FreshId, SlotAfter, Open
  <1>3. r \in Request /\ c \in 1 .. Calls
    BY <1>1 DEF Request, Call
  <1>4. TypeOK'
    <2>1. cursor' \in Slot
      BY <1>1, <1>2 DEF Slot
    <2>2. pending' \in [Slot -> [Id -> 0 .. Calls]]
      BY <1>1, <1>2, <1>3 DEF IInv, TypeOK
    <2>3. ticket' \in [Call -> [slot : Slot, id : Id]]
      BY <1>1, <1>2 DEF IInv, TypeOK
    <2>4. inbox' \in [Slot -> SUBSET Request]
      <3>1. inbox[s] \cup {r} \in SUBSET Request /\ inbox \in [Slot -> SUBSET Request]
        BY <1>1, <1>3 DEF IInv, TypeOK
      <3> HIDE DEF r
      <3> QED BY <1>2, <3>1
    <2>5. nextId' \in Id /\ promise' \in [Call -> {"none", "pending", "text", "failed"}]
      BY <1>1, <1>2 DEF IInv, TypeOK
    <2> QED BY <1>2, <2>1, <2>2, <2>3, <2>4, <2>5 DEF IInv, TypeOK
  <1>5. \A z \in Slot, i \in Id :
          pending'[z][i] = IF z = s /\ i = nextId THEN c ELSE pending[z][i]
    BY <1>1, <1>2 DEF IInv, TypeOK
  <1>6. \A z \in Slot, i \in Id : pending[z][i] # c
    <2> SUFFICES ASSUME NEW z \in Slot, NEW i \in Id, pending[z][i] = c PROVE FALSE
      OBVIOUS
    <2>1. pending[z][i] # 0
      BY <1>3
    <2>2. promise[pending[z][i]] = "pending"
      BY <2>1, EntryOf
    <2> QED BY <1>1, <2>2
  <1>7. EntriesWait'
    <2> SUFFICES ASSUME NEW z \in Slot, NEW i \in Id, pending'[z][i] # 0
                 PROVE  /\ promise'[pending'[z][i]] = "pending"
                        /\ ticket'[pending'[z][i]] = [slot |-> z, id |-> i]
      BY DEF EntriesWait
    <2>1. CASE z = s /\ i = nextId
      BY <1>2, <1>5, <2>1 DEF IInv, TypeOK
    <2>2. CASE ~ (z = s /\ i = nextId)
      <3>1. pending'[z][i] = pending[z][i] /\ pending[z][i] # c
        BY <1>5, <1>6, <2>2
      <3>2. /\ pending[z][i] \in Call
            /\ promise[pending[z][i]] = "pending"
            /\ ticket[pending[z][i]] = [slot |-> z, id |-> i]
        BY <3>1, EntryOf
      <3> QED BY <1>2, <3>1, <3>2 DEF IInv, TypeOK
    <2> QED BY <2>1, <2>2
  <1>8. WaitersEntered'
    <2> SUFFICES ASSUME NEW d \in Call, promise'[d] = "pending"
                 PROVE  pending'[ticket'[d].slot][ticket'[d].id] = d
      BY DEF WaitersEntered
    <2>1. CASE d = c
      BY <1>1, <1>2, <1>5, <2>1 DEF IInv, TypeOK
    <2>2. CASE d # c
      <3>1. ticket'[d] = ticket[d] /\ promise[d] = "pending"
        BY <1>2, <2>2 DEF IInv, TypeOK
      <3>2. /\ ticket[d].slot \in Slot /\ ticket[d].id \in Id
            /\ pending[ticket[d].slot][ticket[d].id] = d
        BY <3>1, EntryFor
      <3>3. pending[s][nextId] = 0
        BY <1>1 DEF IInv, Books, IdsFresh, Id
      <3> QED BY <1>5, <3>1, <3>2, <3>3 DEF Call
    <2> QED BY <2>1, <2>2
  <1>9. IdsFresh'
    <2>1. \A d \in Call : promise'[d] = "none" => nextId' < d
      BY <1>1, <1>2 DEF IInv, TypeOK, Call, Id
    <2>2. \A z \in Slot, i \in Id : pending'[z][i] # 0 => i < nextId'
      BY <1>1, <1>2, <1>5 DEF IInv, Books, IdsFresh, Id
    <2> QED BY <2>1, <2>2 DEF IdsFresh
  <1>10. TravelsOwn'
    <2> SUFFICES ASSUME NEW z \in Slot, NEW m \in Travelling(z)'
                 PROVE  m.id < nextId' /\ pending'[z][m.id] \in {0, m.source}
      BY DEF TravelsOwn
    <2>1. m \in Travelling(z) \/ (z = s /\ m = r)
      <3>1. inbox'[z] \subseteq inbox[z] \cup (IF z = s THEN {r} ELSE {})
        BY <1>2 DEF IInv, TypeOK
      <3> HIDE DEF r
      <3> QED BY <1>2, <3>1 DEF Travelling
    <2>2. CASE m \in Travelling(z)
      <3>1. m.id < nextId /\ pending[z][m.id] \in {0, m.source}
        BY <2>2 DEF IInv, Books, TravelsOwn
      <3>2. m.id \in Id
        BY <2>2, TravellersTyped
      <3> QED BY <1>1, <1>2, <1>5, <3>1, <3>2 DEF Id
    <2>3. CASE z = s /\ m = r
      <3>1. m.id = nextId /\ m.source = c
        BY <2>3
      <3>2. pending'[z][m.id] = c
        BY <1>1, <1>5, <2>3, <3>1
      <3> QED BY <1>1, <1>2, <3>1, <3>2 DEF Id
    <2> QED BY <2>1, <2>2, <2>3
  <1>11. NoTextYet' /\ ClosedIsEmpty'
    BY <1>1, <1>2 DEF IInv, TypeOK, Books, NoTextYet, ClosedIsEmpty
  <1> QED BY <1>4, <1>7, <1>8, <1>9, <1>10, <1>11 DEF IInv, Books

(* An entry goes, with its call: the answer or the timer.                   *)
LEMMA SettleBooks ==
  ASSUME IInv, NEW s \in Slot, NEW i \in Id, pending[s][i] # 0,
         pending' = [pending EXCEPT ![s][i] = 0],
         NEW outcome \in {"text", "failed"},
         promise' = [promise EXCEPT ![pending[s][i]] = outcome],
         \A c \in Call : c # pending[s][i] => text'[c] = text[c],
         UNCHANGED <<closed, nextId, ticket>>,
         \A z \in Slot : Travelling(z)' \subseteq Travelling(z)
  PROVE  Books'
  <1> DEFINE c == pending[s][i]
  <1>1. c \in Call /\ promise[c] = "pending" /\ ticket[c] = [slot |-> s, id |-> i]
    BY EntryOf
  <1>2. \A z \in Slot, j \in Id :
          pending'[z][j] = IF z = s /\ j = i THEN 0 ELSE pending[z][j]
    BY DEF IInv, TypeOK
  <1>3. \A d \in Call : promise'[d] = IF d = c THEN outcome ELSE promise[d]
    BY <1>1 DEF IInv, TypeOK
  <1>4. EntriesWait'
    <2> SUFFICES ASSUME NEW z \in Slot, NEW j \in Id, pending'[z][j] # 0
                 PROVE  /\ promise'[pending'[z][j]] = "pending"
                        /\ ticket'[pending'[z][j]] = [slot |-> z, id |-> j]
      BY DEF EntriesWait
    <2>1. ~ (z = s /\ j = i) /\ pending'[z][j] = pending[z][j]
      BY <1>2
    <2>2. /\ pending[z][j] \in Call
          /\ promise[pending[z][j]] = "pending"
          /\ ticket[pending[z][j]] = [slot |-> z, id |-> j]
      BY <2>1, EntryOf
    <2>3. pending[z][j] # c
      BY <1>1, <2>1, <2>2
    <2> QED BY <1>3, <2>1, <2>2, <2>3
  <1>5. WaitersEntered'
    <2> SUFFICES ASSUME NEW d \in Call, promise'[d] = "pending"
                 PROVE  pending'[ticket[d].slot][ticket[d].id] = d
      BY DEF WaitersEntered
    <2>1. d # c /\ promise[d] = "pending"
      BY <1>3
    <2>2. /\ ticket[d].slot \in Slot /\ ticket[d].id \in Id
          /\ pending[ticket[d].slot][ticket[d].id] = d
      BY <2>1, EntryFor
    <2> QED BY <1>1, <1>2, <2>1, <2>2
  <1>6. IdsFresh' /\ NoTextYet' /\ ClosedIsEmpty'
    BY <1>1, <1>2, <1>3 DEF IInv, Books, IdsFresh, NoTextYet, ClosedIsEmpty
  <1>7. TravelsOwn'
    <2> SUFFICES ASSUME NEW z \in Slot, NEW m \in Travelling(z)'
                 PROVE  m.id < nextId' /\ pending'[z][m.id] \in {0, m.source}
      BY DEF TravelsOwn
    <2>1. m \in Travelling(z)
      OBVIOUS
    <2>2. m.id < nextId /\ pending[z][m.id] \in {0, m.source}
      BY <2>1 DEF IInv, Books, TravelsOwn
    <2>3. m.id \in Id
      BY <2>1, TravellersTyped
    <2> QED BY <1>2, <2>2, <2>3
  <1> QED BY <1>4, <1>5, <1>6, <1>7 DEF Books

(* A reply is dropped, or it answers the call whose source it is of.         *)
LEMMA DeliverEffect ==
  ASSUME IInv, NEW s \in Slot, Deliver(s)
  PROVE  \/ UNCHANGED <<pending, callVars>>
         \/ \E m \in Reply : LET c == m.source IN
              /\ c \in Call
              /\ promise[c] = "pending"
              /\ m.id \in Id
              /\ pending[s][m.id] = c
              /\ pending' = [pending EXCEPT ![s][m.id] = 0]
              /\ promise' = [promise EXCEPT ![c] = IF m.ok THEN "text" ELSE "failed"]
              /\ text' = [text EXCEPT ![c] = IF m.ok THEN m.source ELSE 0]
  <1> DEFINE m == Head(outbox[s])
             c == pending[s][m.id]
  <1>1. outbox[s] \in Seq(Reply) /\ outbox[s] # <<>>
    BY DEF Deliver, IInv, TypeOK
  <1>2. m \in Reply /\ m \in Travelling(s)
    BY <1>1 DEF Travelling
  <1>3. m.id \in Id /\ c \in {0, m.source} /\ m.source \in Call
    BY <1>2, TravellersTyped DEF IInv, Books, TravelsOwn
  <1>4. CASE c = 0
    BY <1>4 DEF Deliver
  <1>5. CASE c # 0
    <2>1. /\ pending' = [pending EXCEPT ![s][m.id] = 0]
          /\ promise' = [promise EXCEPT ![c] = IF m.ok THEN "text" ELSE "failed"]
          /\ text' = [text EXCEPT ![c] = IF m.ok THEN m.source ELSE 0]
      BY <1>5 DEF Deliver
    <2>2. promise[c] = "pending" /\ c = m.source
      BY <1>3, <1>5, EntryOf
    <2> QED BY <1>2, <1>3, <2>1, <2>2
  <1> QED BY <1>4, <1>5

LEMMA DeliverBooks ==
  ASSUME IInv, NEW s \in Slot, Deliver(s)
  PROVE  IInv'
  <1>1. /\ outbox[s] # <<>>
        /\ outbox' = [outbox EXCEPT ![s] = Tail(outbox[s])]
        /\ UNCHANGED <<closed, nextId, cursor, ticket, worker, inbox>>
    BY DEF Deliver
  <1>2. outbox[s] \in Seq(Reply) /\ outbox \in [Slot -> Seq(Reply)]
    BY DEF IInv, TypeOK
  <1>3. outbox' \in [Slot -> Seq(Reply)]
    BY <1>1, <1>2
  <1>4. \A z \in Slot : Travelling(z)' \subseteq Travelling(z)
    <2>1. /\ Len(Tail(outbox[s])) = Len(outbox[s]) - 1
          /\ \A k \in 1 .. Len(Tail(outbox[s])) : Tail(outbox[s])[k] = outbox[s][k + 1]
      BY <1>1, <1>2
    <2>2. \A k \in 1 .. Len(Tail(outbox[s])) : k + 1 \in 1 .. Len(outbox[s])
      BY <1>2, <2>1
    <2>3. \A z \in Slot : outbox'[z] = IF z = s THEN Tail(outbox[s]) ELSE outbox[z]
      BY <1>1, <1>2
    <2> QED BY <1>1, <2>1, <2>2, <2>3 DEF Travelling
  <1>5. CASE UNCHANGED <<pending, callVars>>
    <2>1. TypeOK'
      BY <1>1, <1>3, <1>5 DEF IInv, TypeOK, callVars
    <2>2. EntriesWait' /\ WaitersEntered' /\ IdsFresh' /\ NoTextYet' /\ ClosedIsEmpty'
      BY <1>1, <1>5 DEF IInv, Books, EntriesWait, WaitersEntered, IdsFresh, NoTextYet,
            ClosedIsEmpty, callVars
    <2>3. TravelsOwn'
      BY <1>1, <1>4, <1>5 DEF IInv, Books, TravelsOwn
    <2> QED BY <2>1, <2>2, <2>3 DEF IInv, Books
  <1>6. ASSUME NEW m \in Reply, m.source \in Call, m.id \in Id, pending[s][m.id] = m.source,
               pending' = [pending EXCEPT ![s][m.id] = 0],
               promise' = [promise EXCEPT ![m.source] = IF m.ok THEN "text" ELSE "failed"],
               text' = [text EXCEPT ![m.source] = IF m.ok THEN m.source ELSE 0]
        PROVE  IInv'
    <2>1. pending[s][m.id] # 0
      BY <1>6 DEF Call
    <2>2. PICK outcome \in {"text", "failed"} : outcome = IF m.ok THEN "text" ELSE "failed"
      OBVIOUS
    <2>3. promise' = [promise EXCEPT ![pending[s][m.id]] = outcome]
      BY <1>6, <2>2
    <2>4. \A c \in Call : c # pending[s][m.id] => text'[c] = text[c]
      BY <1>6 DEF IInv, TypeOK
    <2>5. Books'
      <3>1. PICK i \in Id : i = m.id
        BY <1>6
      <3>2. pending' = [pending EXCEPT ![s][i] = 0] /\ pending[s][i] # 0
        BY <1>6, <2>1, <3>1
      <3>3. promise' = [promise EXCEPT ![pending[s][i]] = outcome]
        BY <2>3, <3>1
      <3>4. \A c \in Call : c # pending[s][i] => text'[c] = text[c]
        BY <2>4, <3>1
      <3>5. UNCHANGED <<closed, nextId, ticket>>
        BY <1>1
      <3> QED BY <1>4, <3>2, <3>3, <3>4, <3>5, SettleBooks
    <2>6. TypeOK'
      <3>1. pending' \in [Slot -> [Id -> 0 .. Calls]]
        BY <1>6 DEF IInv, TypeOK
      <3>2. promise' \in [Call -> {"none", "pending", "text", "failed"}]
        BY <1>6 DEF IInv, TypeOK
      <3>3. text' \in [Call -> 0 .. Calls]
        <4>1. PICK t \in 0 .. Calls : t = IF m.ok THEN m.source ELSE 0
          BY <1>6 DEF Call
        <4>2. text' = [text EXCEPT ![m.source] = t]
          BY <1>6, <4>1
        <4> QED BY <4>2 DEF IInv, TypeOK
      <3> QED BY <1>1, <1>3, <3>1, <3>2, <3>3 DEF IInv, TypeOK
    <2> QED BY <2>5, <2>6 DEF IInv
  <1> QED BY <1>5, <1>6, DeliverEffect

(* The reply a worker posts is of a request it had, under the same id.       *)
LEMMA WorkTravels ==
  ASSUME IInv, NEW s \in Slot, Work(s)
  PROVE  TypeOK' /\ TravelsOwn'
  <1>1. PICK m \in inbox[s], ok \in BOOLEAN :
          /\ inbox' = [inbox EXCEPT ![s] = @ \ {m}]
          /\ outbox' = [outbox EXCEPT ![s] =
                          Append(@, [id |-> m.id, source |-> m.source, ok |-> ok])]
    BY DEF Work
  <1> DEFINE r == [id |-> m.id, source |-> m.source, ok |-> ok]
  <1>2. m \in Travelling(s) /\ m \in Request
    BY DEF Travelling, IInv, TypeOK
  <1>3. r \in Reply /\ r.id = m.id /\ r.source = m.source
    BY <1>2 DEF Request, Reply
  <1>4. UNCHANGED <<callVars, poolVars, worker>>
    BY DEF Work
  <1> HIDE DEF r
  <1>5. TypeOK'
    <2>1. inbox' \in [Slot -> SUBSET Request]
      BY <1>1 DEF IInv, TypeOK
    <2>2. Append(outbox[s], r) \in Seq(Reply)
      BY <1>3 DEF IInv, TypeOK
    <2>3. outbox' = [outbox EXCEPT ![s] = Append(outbox[s], r)]
      BY <1>1 DEF r
    <2>4. outbox' \in [Slot -> Seq(Reply)]
      BY <2>2, <2>3 DEF IInv, TypeOK
    <2> QED BY <1>4, <2>1, <2>4 DEF IInv, TypeOK, callVars, poolVars
  <1>6. \A z \in Slot : \A n \in Travelling(z)' : n \in Travelling(z) \/ (z = s /\ n = r)
    <2> SUFFICES ASSUME NEW z \in Slot, NEW n \in Travelling(z)'
                 PROVE  n \in Travelling(z) \/ (z = s /\ n = r)
      OBVIOUS
    <2>1. CASE n \in inbox'[z]
      BY <1>1, <2>1 DEF Travelling, IInv, TypeOK
    <2>2. ASSUME NEW k \in 1 .. Len(outbox'[z]), n = outbox'[z][k]
          PROVE  n \in Travelling(z) \/ (z = s /\ n = r)
      <3>1. outbox[z] \in Seq(Reply) /\ outbox[s] \in Seq(Reply)
        BY DEF IInv, TypeOK
      <3>2. outbox'[z] = IF z = s THEN Append(outbox[s], r) ELSE outbox[z]
        BY <1>1 DEF IInv, TypeOK, r
      <3>3. CASE z = s
        <4>1. /\ Len(outbox'[z]) = Len(outbox[z]) + 1
              /\ \A j \in 1 .. Len(outbox[z]) : outbox'[z][j] = outbox[z][j]
              /\ outbox'[z][Len(outbox[z]) + 1] = r
          BY <1>3, <3>1, <3>2, <3>3
        <4>2. k \in 1 .. Len(outbox[z]) \/ k = Len(outbox[z]) + 1
          BY <3>1, <4>1
        <4> QED BY <2>2, <3>3, <4>1, <4>2 DEF Travelling
      <3>4. CASE z # s
        BY <2>2, <3>2, <3>4 DEF Travelling
      <3> QED BY <3>3, <3>4
    <2> QED BY <2>1, <2>2 DEF Travelling
  <1>7. m.id < nextId /\ pending[s][m.id] \in {0, m.source}
    BY <1>2 DEF IInv, Books, TravelsOwn
  <1>8. TravelsOwn'
    <2> SUFFICES ASSUME NEW z \in Slot, NEW n \in Travelling(z)'
                 PROVE  n.id < nextId /\ pending[z][n.id] \in {0, n.source}
      BY <1>4 DEF TravelsOwn, poolVars
    <2> QED BY <1>3, <1>6, <1>7 DEF IInv, Books, TravelsOwn
  <1> QED BY <1>5, <1>8

LEMMA NextKeepsInv == IInv /\ [Next]_vars => IInv'
  <1> SUFFICES ASSUME IInv, [Next]_vars PROVE IInv'
    OBVIOUS
  <1>1. ASSUME NEW c \in Call, Parse(c) PROVE IInv'
    BY <1>1, ParseBooks
  <1>2. ASSUME NEW c \in Call, ParseOnClosedPool(c) PROVE IInv'
    <2>1. \A d \in Call : promise'[d] = IF d = c THEN "failed" ELSE promise[d]
      BY <1>2 DEF ParseOnClosedPool, IInv, TypeOK
    <2>2. promise[c] = "none" /\ UNCHANGED <<text, poolVars, worker, inbox, outbox>>
      BY <1>2 DEF ParseOnClosedPool
    <2>3. TypeOK'
      BY <1>2, <2>2 DEF ParseOnClosedPool, IInv, TypeOK, poolVars
    <2>4. EntriesWait'
      <3> SUFFICES ASSUME NEW s \in Slot, NEW i \in Id, pending[s][i] # 0
                   PROVE  /\ promise'[pending[s][i]] = "pending"
                          /\ ticket[pending[s][i]] = [slot |-> s, id |-> i]
        BY <2>2 DEF EntriesWait, poolVars
      <3> QED BY <2>1, <2>2, EntryOf
    <2>5. WaitersEntered' /\ IdsFresh' /\ NoTextYet' /\ ClosedIsEmpty'
      BY <2>1, <2>2 DEF IInv, Books, WaitersEntered, IdsFresh, NoTextYet, ClosedIsEmpty, poolVars
    <2>6. TravelsOwn'
      BY <2>2 DEF IInv, Books, TravelsOwn, Travelling, poolVars
    <2> QED BY <2>3, <2>4, <2>5, <2>6 DEF IInv, Books
  <1>3. ASSUME NEW c \in Call, TimeOut(c) PROVE IInv'
    <2> DEFINE s == ticket[c].slot
               i == ticket[c].id
    <2>1. s \in Slot /\ i \in Id /\ pending[s][i] = c /\ c # 0
      BY <1>3, EntryFor DEF TimeOut, Call
    <2>2. /\ pending' = [pending EXCEPT ![s][i] = 0]
          /\ promise' = [promise EXCEPT ![c] = "failed"]
          /\ UNCHANGED <<text, closed, nextId, cursor, ticket, worker, inbox, outbox>>
      BY <1>3 DEF TimeOut
    <2> HIDE DEF s, i
    <2>3. \A z \in Slot : Travelling(z)' = Travelling(z)
      BY <2>2 DEF Travelling
    <2>4. Books'
      BY <2>1, <2>2, <2>3, SettleBooks
    <2>5. TypeOK'
      <3>1. pending' \in [Slot -> [Id -> 0 .. Calls]]
        BY <2>1, <2>2 DEF IInv, TypeOK
      <3>2. promise' \in [Call -> {"none", "pending", "text", "failed"}]
        BY <2>2 DEF IInv, TypeOK
      <3> QED BY <2>2, <3>1, <3>2 DEF IInv, TypeOK
    <2> QED BY <2>4, <2>5 DEF IInv
  <1>4. ASSUME NEW s \in Slot, Deliver(s) PROVE IInv'
    BY <1>4, DeliverBooks
  <1>5. ASSUME NEW s \in Slot, ErrorEvent(s) PROVE IInv'
    <2>1. /\ RejectAll({s})
          /\ UNCHANGED <<text, closed, nextId, cursor, ticket, worker, inbox, outbox>>
      BY <1>5 DEF ErrorEvent
    <2>2. \A z \in Slot : Travelling(z)' = Travelling(z)
      BY <2>1 DEF Travelling
    <2>3. Books'
      BY <2>1, <2>2, RejectAllBooks
    <2>4. TypeOK'
      BY <2>1, RejectAllEffect DEF IInv, TypeOK
    <2> QED BY <2>3, <2>4 DEF IInv
  <1>6. ASSUME NEW s \in Slot, ExitEvent(s) PROVE IInv'
    <2>1. /\ RejectAll({s})
          /\ outbox' = [outbox EXCEPT ![s] = <<>>]
          /\ worker' = [worker EXCEPT ![s] = "gone"]
          /\ UNCHANGED <<text, closed, nextId, cursor, ticket, inbox>>
      BY <1>6 DEF ExitEvent
    <2>2. \A z \in Slot : outbox'[z] \in {outbox[z], <<>>}
      BY <2>1 DEF IInv, TypeOK
    <2>3. \A z \in Slot : Travelling(z)' \subseteq Travelling(z)
      BY <2>1, <2>2 DEF Travelling
    <2>4. Books'
      BY <2>1, <2>3, RejectAllBooks
    <2>5. TypeOK'
      <3>1. outbox' \in [Slot -> Seq(Reply)] /\ worker' \in [Slot -> {"up", "dead", "gone"}]
        BY <2>1 DEF IInv, TypeOK
      <3>2. /\ pending' \in [Slot -> [Id -> 0 .. Calls]]
            /\ promise' \in [Call -> {"none", "pending", "text", "failed"}]
        BY <2>1, RejectAllEffect
      <3> QED BY <2>1, <3>1, <3>2 DEF IInv, TypeOK
    <2> QED BY <2>4, <2>5 DEF IInv
  <1>7. ASSUME Close PROVE IInv'
    <2>1. /\ RejectAll(Slot)
          /\ inbox' = [s \in Slot |-> {}]
          /\ worker' = [s \in Slot |-> IF worker[s] = "up" THEN "dead" ELSE worker[s]]
          /\ closed' = TRUE
          /\ UNCHANGED <<text, nextId, cursor, ticket, outbox>>
      BY <1>7 DEF Close
    <2>2. \A z \in Slot : Travelling(z)' \subseteq Travelling(z)
      BY <2>1 DEF Travelling
    <2>3. Books'
      BY <2>1, <2>2, RejectAllBooks
    <2>4. TypeOK'
      BY <2>1, RejectAllEffect DEF IInv, TypeOK
    <2> QED BY <2>3, <2>4 DEF IInv
  <1>8. ASSUME NEW s \in Slot, Work(s) PROVE IInv'
    <2>1. UNCHANGED <<callVars, poolVars, worker>>
      BY <1>8 DEF Work
    <2>2. EntriesWait' /\ WaitersEntered' /\ IdsFresh' /\ NoTextYet' /\ ClosedIsEmpty'
      BY <2>1 DEF IInv, Books, EntriesWait, WaitersEntered, IdsFresh, NoTextYet, ClosedIsEmpty,
            callVars, poolVars
    <2> QED BY <1>8, <2>2, WorkTravels DEF IInv, Books
  <1>9. ASSUME NEW s \in Slot, Die(s) PROVE IInv'
    <2>1. /\ UNCHANGED <<callVars, poolVars, outbox>>
          /\ inbox' = [inbox EXCEPT ![s] = {}]
          /\ worker' = [worker EXCEPT ![s] = "dead"]
      BY <1>9 DEF Die
    <2>2. EntriesWait' /\ WaitersEntered' /\ IdsFresh' /\ NoTextYet' /\ ClosedIsEmpty'
      BY <2>1 DEF IInv, Books, EntriesWait, WaitersEntered, IdsFresh, NoTextYet, ClosedIsEmpty,
            callVars, poolVars
    <2>3. \A z \in Slot : inbox'[z] \subseteq inbox[z]
      BY <2>1 DEF IInv, TypeOK
    <2>4. TravelsOwn'
      BY <2>1, <2>3 DEF IInv, Books, TravelsOwn, Travelling, poolVars
    <2>5. TypeOK'
      BY <2>1 DEF IInv, TypeOK, callVars, poolVars
    <2> QED BY <2>2, <2>4, <2>5 DEF IInv, Books
  <1>10. CASE UNCHANGED vars
    BY <1>10 DEF IInv, Books, TypeOK, EntriesWait, WaitersEntered, IdsFresh, TravelsOwn,
          Travelling, NoTextYet, ClosedIsEmpty, vars, callVars, poolVars
  <1> QED
    BY <1>1, <1>2, <1>3, <1>4, <1>5, <1>6, <1>7, <1>8, <1>9, <1>10 DEF Next

THEOREM Invariance == Spec => []IInv
  BY InitBooks, NextKeepsInv, PTL DEF Spec

-----------------------------------------------------------------------------
(* The theorems.                                                            *)

(* The pool keeps its types: the rotation stays within the slots and the ids *)
(* never outnumber the calls.                                               *)
THEOREM ParserPoolTypeCorrect == Spec => []TypeOK
  <1>1. IInv => TypeOK
    BY DEF IInv
  <1> QED BY <1>1, Invariance, PTL

(* A call of parse waits exactly as long as an entry of a slot stands for it: *)
(* no reply, timer, death of a worker or close can leave one without.        *)
THEOREM WaitingMeansEntered == Spec => []EntryWhilePending
  <1>1. IInv => EntryWhilePending
    <2> SUFFICES ASSUME IInv, NEW c \in Call
                 PROVE  promise[c] = "pending" <=> \E s \in Slot, i \in Id : pending[s][i] = c
      BY DEF EntryWhilePending
    <2>1. c # 0
      BY DEF Call
    <2>2. ASSUME NEW s \in Slot, NEW i \in Id, pending[s][i] = c PROVE promise[c] = "pending"
      <3>1. pending[s][i] # 0
        BY <2>1, <2>2
      <3> QED BY <2>2, <3>1, EntryOf
    <2>3. ASSUME promise[c] = "pending" PROVE \E s \in Slot, i \in Id : pending[s][i] = c
      BY <2>3, EntryFor
    <2> QED BY <2>2, <2>3
  <1> QED BY <1>1, Invariance, PTL

(* Once close has run nobody waits, and nobody will.                        *)
THEOREM ClosedPoolHasNoWaiter == Spec => []ClosedPoolIsIdle
  <1>1. IInv => ClosedPoolIsIdle
    <2> SUFFICES ASSUME IInv, closed, NEW c \in Call, promise[c] = "pending" PROVE FALSE
      BY DEF ClosedPoolIsIdle
    <2>1. c # 0
      BY DEF Call
    <2> QED BY <2>1, EntryFor DEF IInv, Books, ClosedIsEmpty
  <1> QED BY <1>1, Invariance, PTL

(* Every step of the pool is one of the Parser, or none: whatever the order  *)
(* of replies, timeouts and deaths, each call is answered once, and with the *)
(* text of its own source or an error.                                      *)
THEOREM AnswersAreOwn ==
  Spec => IsParser!Init /\ [][IsParser!Next]_(IsParser!vars)
  <1> USE DEF IsParser!Call, Call
  <1>1. Init => IsParser!Init
    BY DEF Init, IsParser!Init
  <1>2. IInv /\ [Next]_vars => [IsParser!Next]_(IsParser!vars)
    <2> SUFFICES ASSUME IInv, [Next]_vars
                 PROVE  IsParser!Next \/ UNCHANGED <<promise, text>>
      BY DEF IsParser!vars
    <2> SUFFICES ASSUME NEW d \in Call, ~ UNCHANGED <<promise, text>>
                 PROVE  IsParser!Stay(d) \/ IsParser!Ask(d) \/ IsParser!Answer(d)
      BY DEF IsParser!Next
    <2>1. ASSUME NEW c \in Call, Parse(c) \/ ParseOnClosedPool(c)
          PROVE  IsParser!Stay(d) \/ IsParser!Ask(d)
      <3>1. promise[c] = "none" /\ text[c] = 0 /\ text' = text
        BY <2>1 DEF Parse, ParseOnClosedPool, IInv, Books, NoTextYet
      <3>2. \/ promise' = [promise EXCEPT ![c] = "pending"]
            \/ promise' = [promise EXCEPT ![c] = "failed"]
        BY <2>1 DEF Parse, ParseOnClosedPool
      <3> QED BY <3>1, <3>2 DEF IsParser!Stay, IsParser!Ask, IInv, TypeOK
    <2>2. ASSUME NEW c \in Call, TimeOut(c) PROVE IsParser!Stay(d) \/ IsParser!Answer(d)
      <3>1. promise[c] = "pending" /\ text[c] = 0 /\ text' = text
        BY <2>2 DEF TimeOut, IInv, Books, NoTextYet
      <3>2. promise' = [promise EXCEPT ![c] = "failed"]
        BY <2>2 DEF TimeOut
      <3> QED BY <3>1, <3>2 DEF IsParser!Stay, IsParser!Answer, IInv, TypeOK
    <2>3. ASSUME NEW s \in Slot, Deliver(s) PROVE IsParser!Stay(d) \/ IsParser!Answer(d)
      <3>1. PICK c \in Call, m \in Reply :
              /\ promise[c] = "pending"
              /\ m.source = c
              /\ promise' = [promise EXCEPT ![c] = IF m.ok THEN "text" ELSE "failed"]
              /\ text' = [text EXCEPT ![c] = IF m.ok THEN m.source ELSE 0]
        BY <2>3, DeliverEffect DEF callVars
      <3> QED BY <3>1 DEF IsParser!Stay, IsParser!Answer, IInv, TypeOK, Reply
    <2>4. ASSUME NEW slots \in SUBSET Slot, RejectAll(slots), text' = text
          PROVE  IsParser!Stay(d) \/ IsParser!Answer(d)
      <3>1. promise'[d] = IF promise[d] = "pending" /\ ticket[d].slot \in slots
                          THEN "failed" ELSE promise[d]
        BY <2>4, RejectAllEffect
      <3>2. promise[d] = "pending" => text[d] = 0
        BY DEF IInv, Books, NoTextYet
      <3> QED BY <2>4, <3>1, <3>2 DEF IsParser!Stay, IsParser!Answer
    <2>5. ASSUME NEW s \in Slot, ErrorEvent(s) \/ ExitEvent(s)
          PROVE  IsParser!Stay(d) \/ IsParser!Answer(d)
      <3>1. RejectAll({s}) /\ text' = text
        BY <2>5 DEF ErrorEvent, ExitEvent
      <3> QED BY <2>4, <3>1
    <2>6. CASE Close
      <3>1. RejectAll(Slot) /\ text' = text
        BY <2>6 DEF Close
      <3> QED BY <2>4, <3>1
    <2>7. ASSUME NEW s \in Slot, Work(s) \/ Die(s) PROVE FALSE
      BY <2>7 DEF Work, Die, callVars
    <2>8. CASE UNCHANGED vars
      BY <2>8 DEF vars, callVars
    <2> QED BY <2>1, <2>2, <2>3, <2>5, <2>6, <2>7, <2>8 DEF Next
  <1> QED BY <1>1, <1>2, Invariance, PTL DEF Spec

=============================================================================
