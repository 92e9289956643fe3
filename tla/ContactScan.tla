---------------------------- MODULE ContactScan ----------------------------
(***************************************************************************)
(* A scan from its folders to its contacts: runScan                        *)
(* (src/main/pipeline/scan-runner.ts), rebuildAddressesAggregate and       *)
(* classifyAndPersistAddresses (src/main/pipeline/aggregation.ts), the     *)
(* rules of src/main/classifier, the choice of the bodies that pass 2      *)
(* fetches, and the rows the renderer is sent while the scan runs.         *)
(*                                                                         *)
(* Storing one folder's headers (FolderIngest) and one folder's bodies     *)
(* (DeepScan) is here one step per message; what those go through on the   *)
(* way, and what the other folders still do once a run is over, is there.  *)
(* One account, one scan at a time, and the user's own addresses do not    *)
(* change: Me stands for all.  MAX_MESSAGES_PER_CONTACT is not reached.    *)
(***************************************************************************)
EXTENDS Naturals, FiniteSets, Sequences

CONSTANTS
  Folder,
  Contact,     \* the addresses that are not the user's
  Me,          \* the user's own addresses, myAddresses
  NoOne,       \* the sender of a message without a From
  Message,
  Mail,        \* what each message says, see MailType
  Place,       \* the copies there can be: pairs of a message and a folder
  Options,     \* the settings a scan is started with, see OptionsType
  SamplesCap   \* SAMPLES_CAP (5 in the code)

Address == Contact \cup {Me}

(* "word" says where a message holds the word that the settings filter on, *)
(* "robot" that it has an automation header, "unsubscribe" that its body   *)
(* tells how to unsubscribe, "known" that it has a Message-ID.             *)
MailType ==
  [from : Address \cup {NoOne}, to : Seq(Address), date : Nat, known : BOOLEAN,
   robot : BOOLEAN, word : {"nowhere", "subject", "body"}, unsubscribe : BOOLEAN]

(* "deep" is parseBodies, "cipher" that the machine can encrypt bodies,     *)
(* "domains" are the contacts whose domain the two domain lists let pass,  *)
(* "localParts" those whose local part is one of an automaton, "words" the *)
(* word lists that hold the word.                                          *)
OptionsType ==
  [deep : BOOLEAN, cipher : BOOLEAN,
   minIn : Nat, minOut : Nat, minTotal : Nat,
   domains : SUBSET Contact, localParts : SUBSET Contact,
   words : SUBSET ({"include", "exclude"} \X {"in", "out"})]

ASSUME MailAssumption ==
  /\ Mail \in [Message -> MailType]
  /\ Place \subseteq Message \X Folder
  /\ Options \subseteq OptionsType
  /\ SamplesCap \in Nat \ {0}
  /\ Me # NoOne /\ {Me, NoOne} \cap Contact = {}

VARIABLES
  (* the database *)
  rows,      \* messages in the order of their ids, with message_bodies
  contacts,  \* addresses: a function from the contacts that have a row
  (* the run *)
  pc,
  opts,
  scope,     \* selectedFolderIds
  left,      \* folders not yet begun
  todo,      \* what ingestion has still to store, by folder being ingested
  targets,   \* the copies whose body is still to be fetched
  prior,     \* priorKept
  aborted,
  outcome,   \* of the last run that ended
  (* the renderer *)
  shown,     \* snapshotContacts: how often each contact is in it
  (* history *)
  unread     \* the copies whose body the last run could not get

runVars == <<pc, opts, scope, left, todo, targets, prior, aborted, outcome>>
vars    == <<rows, contacts, runVars, shown, unread>>

Tag == {"none", "kept", "filtered"}
Row == [copy : Place, body : BOOLEAN]

TypeOK ==
  /\ rows \in Seq(Row)
  /\ DOMAIN contacts \subseteq Contact
  /\ \A c \in DOMAIN contacts : contacts[c] \in [in : Nat, out : Nat, tag : Tag]
  /\ pc \in {"idle", "ingest", "snapshot", "prepass", "bodies", "final", "classify"}
  /\ opts \in Options
  /\ scope \subseteq Folder
  /\ left \subseteq scope
  /\ DOMAIN todo \subseteq scope \ left
  /\ \A f \in DOMAIN todo : todo[f] \subseteq Message
  /\ targets \subseteq Place
  /\ prior \subseteq Contact
  /\ aborted \in BOOLEAN
  /\ outcome \in {"none", "done", "stopped"}
  /\ shown \in [Contact -> Nat]
  /\ unread \subseteq Place

-----------------------------------------------------------------------------
(* Which rows a scan counts, and for whom.                                  *)

Msg(i)  == Mail[rows[i].copy[1]]

(* An empty set of folders means every folder. *)
InScope(i) == scope = {} \/ rows[i].copy[2] \in scope

Direction(m) ==
  IF m.from # Me THEN "in"
  ELSE IF m.to # <<>> /\ \A k \in DOMAIN m.to : m.to[k] = Me THEN "self"
  ELSE "out"

CountedTwice == {i \in DOMAIN rows : InScope(i) /\ Direction(Msg(i)) # "self"}

(* The first row of each Message-ID, and every row without one. *)
Counted ==
  {i \in DOMAIN rows :
     /\ InScope(i)
     /\ Direction(Msg(i)) # "self"
     /\ Msg(i).known =>
          \A j \in 1 .. i - 1 : InScope(j) => rows[j].copy[1] # rows[i].copy[1]}

Inbound(c)  == {i \in Counted : Direction(Msg(i)) = "in" /\ Msg(i).from = c}
Outbound(c) == {i \in Counted : Direction(Msg(i)) = "out"
                                  /\ \E k \in DOMAIN Msg(i).to : Msg(i).to[k] = c}

(* A contact in To and in Cc of one message counts twice. *)
Mentions(c) ==
  UNION {{i} \X {k \in DOMAIN Msg(i).to : Msg(i).to[k] = c} : i \in Outbound(c)}

(* Does the word occur in the subject or, when bodies are matched, in the  *)
(* body kept for this very row?                                             *)
HasWord(i, withBodies) ==
  \/ Msg(i).word = "subject"
  \/ (Msg(i).word = "body" /\ withBodies /\ rows[i].body)

PassesWords(c, withBodies) ==
  \A side \in {"in", "out"} :
    LET hit == \E i \in IF side = "in" THEN Inbound(c) ELSE Outbound(c) :
                 HasWord(i, withBodies)
    IN  /\ <<"include", side>> \in opts.words => hit
        /\ <<"exclude", side>> \in opts.words => ~hit

(* rebuildAddressesAggregate, with replaceAllAddresses. *)
Rebuilt(withBodies) ==
  [c \in {d \in opts.domains : /\ Inbound(d) \cup Outbound(d) # {}
                               /\ PassesWords(d, withBodies)} |->
     [in |-> Cardinality(Inbound(c)), out |-> Cardinality(Mentions(c)), tag |-> "none"]]

-----------------------------------------------------------------------------
(* The classifier.                                                          *)

Newer(i, j) ==
  \/ Msg(i).date > Msg(j).date
  \/ (Msg(i).date = Msg(j).date /\ i > j)

(* The newest rows from a contact, each copy of a message among them. *)
Samples(c) ==
  LET from == {i \in DOMAIN rows : InScope(i) /\ Msg(i).from = c}
  IN  {i \in from : Cardinality({j \in from : Newer(j, i)}) < SamplesCap}

(* has_inline_unsubscribe is written with the body of the row. *)
Automated(i) == Msg(i).robot \/ (rows[i].body /\ Msg(i).unsubscribe)

Bidirectional(counts) ==
  /\ counts.in >= opts.minIn
  /\ counts.out >= opts.minOut
  /\ counts.in + counts.out >= opts.minTotal

Keep(c, counts) ==
  /\ Bidirectional(counts)
  /\ c \notin opts.localParts
  /\ Samples(c) # {} => \E i \in Samples(c) : ~Automated(i)

(* classifyAndPersistAddresses *)
Classified(table) ==
  [c \in DOMAIN table |->
     [table[c] EXCEPT !.tag = IF Keep(c, table[c]) THEN "kept" ELSE "filtered"]]

Kept(table) == {c \in DOMAIN table : table[c].tag = "kept"}

-----------------------------------------------------------------------------
(* The run.                                                                 *)

NoTodo == [f \in {} |-> {}]

Init ==
  /\ rows = <<>>
  /\ contacts = [c \in {} |-> 0]
  /\ pc = "idle"
  /\ opts \in Options
  /\ scope = {}
  /\ left = {}
  /\ todo = NoTodo
  /\ targets = {}
  /\ prior = {}
  /\ aborted = FALSE
  /\ outcome = "none"
  /\ shown = [c \in Contact |-> 0]
  /\ unread = {}

(* Bodies are read on a machine that can encrypt them. *)
ReadsBodies(o) == o.deep /\ o.cipher

AfterFolders(o) == IF ReadsBodies(o) THEN "prepass" ELSE "final"

(* The user starts a scan with some settings and folders.  Those of the    *)
(* folders that are no longer on the server drop out of it.                *)
Start ==
  /\ pc = "idle"
  /\ opts' \in Options
  /\ scope' \in SUBSET Folder
  /\ left' = scope'
  /\ pc' = IF scope' = {} THEN AfterFolders(opts') ELSE "ingest"
  /\ prior' = {}
  /\ aborted' = FALSE
  /\ shown' = [c \in Contact |-> 0]
  /\ unread' = {}
  /\ UNCHANGED <<rows, contacts, todo, targets, outcome>>

(* The run ends; what it wrote to the database stays.  The settings and    *)
(* folders of a run that is done are kept to compare its result with.      *)
EndRun(how) ==
  /\ pc' = "idle"
  /\ outcome' = how
  /\ left' = {}
  /\ todo' = NoTodo
  /\ targets' = {}
  /\ prior' = {}
  /\ aborted' = FALSE
  /\ scope' = IF how = "done" THEN scope ELSE {}
  /\ unread' = IF how = "done" THEN unread ELSE {}
  /\ UNCHANGED opts

(* scan.cancel.  Between these two the run never waits. *)
Cancel ==
  /\ pc \in {"ingest", "bodies"}
  /\ aborted' = TRUE
  /\ UNCHANGED <<rows, contacts, pc, opts, scope, left, todo, targets, prior, outcome,
                 shown, unread>>

Stop ==
  /\ pc \in {"ingest", "snapshot", "bodies"}
  /\ aborted
  /\ EndRun("stopped")
  /\ UNCHANGED <<rows, contacts, shown>>

Fail ==
  /\ pc # "idle"
  /\ EndRun("stopped")
  /\ UNCHANGED <<rows, contacts, shown>>

(* A program that is started again shows nothing. *)
Crash ==
  /\ pc # "idle"
  /\ EndRun("stopped")
  /\ shown' = [c \in Contact |-> 0]
  /\ UNCHANGED <<rows, contacts>>

-----------------------------------------------------------------------------
(* Pass 1.  Folders are ingested all at once for a deep scan, and one      *)
(* after the other when a snapshot follows each.                           *)

Stored(f) == {m \in Message : \E i \in DOMAIN rows : rows[i].copy = <<m, f>>}

(* The rows with the ids in K are left, in the order of their ids.         *)
OnlyLeft(K) ==
  \E id \in [1 .. Cardinality(K) -> K] :
    /\ \A j, k \in DOMAIN id : j < k => id[j] < id[k]
    /\ rows' = [k \in DOMAIN id |-> rows[id[k]]]

(* The rows of folder f whose message is not live go.                       *)
DropVanished(f, live) ==
  OnlyLeft({i \in DOMAIN rows : rows[i].copy[2] = f => rows[i].copy[1] \in live})

BeginFolderAgain(f, live) ==
  /\ pc = "ingest"
  /\ ~aborted
  /\ f \in left
  /\ opts.deep \/ DOMAIN todo = {}
  /\ left' = left
  /\ todo' = [g \in DOMAIN todo \cup {f} |-> IF g = f THEN live \ Stored(f) ELSE todo[g]]
  /\ DropVanished(f, live) \/ rows' = rows
  /\ UNCHANGED <<contacts, pc, opts, scope, targets, prior, aborted, outcome, shown,
                 unread>>

(* ingestFolder as far as the sync.  "live" is what the server holds now:  *)
(* rows go whose message is not in it, unless the list of UIDs could not   *)
(* be had; what is in it and not stored is fetched.                        *)
BeginFolder(f, live) ==
  /\ pc = "ingest"
  /\ ~aborted
  /\ f \in left
  /\ opts.deep \/ DOMAIN todo = {}
  /\ left' = left \ {f}
  /\ todo' = [g \in DOMAIN todo \cup {f} |-> IF g = f THEN live \ Stored(f) ELSE todo[g]]
  /\ DropVanished(f, live) \/ rows' = rows
  /\ UNCHANGED <<contacts, pc, opts, scope, targets, prior, aborted, outcome, shown,
                 unread>>

(* The last thing a folder does; in a scan with snapshots one follows. *)
LeaveFolder(f) ==
  /\ todo' = [g \in DOMAIN todo \ {f} |-> todo[g]]
  /\ pc' = IF ~opts.deep THEN "snapshot"
           ELSE IF left = {} /\ DOMAIN todo = {f} THEN AfterFolders(opts) ELSE "ingest"

StoreMessage(f, m) ==
  /\ pc = "ingest"
  /\ ~aborted
  /\ f \in DOMAIN todo
  /\ m \in todo[f]
  /\ rows' = Append(rows, [copy |-> <<m, f>>, body |-> FALSE])
  /\ IF todo[f] = {m} THEN LeaveFolder(f)
     ELSE todo' = [todo EXCEPT ![f] = @ \ {m}] /\ UNCHANGED pc
  /\ UNCHANGED <<contacts, opts, scope, left, targets, prior, aborted, outcome, shown,
                 unread>>

(* A folder without new messages does not look at the signal once its list *)
(* of UIDs could not be had.                                                *)
UpToDate(f) ==
  /\ pc = "ingest"
  /\ f \in DOMAIN todo
  /\ todo[f] = {}
  /\ LeaveFolder(f)
  /\ UNCHANGED <<rows, contacts, opts, scope, left, targets, prior, aborted, outcome,
                 shown, unread>>

Show(delta) == shown' = [c \in Contact |-> shown[c] + IF c \in delta THEN 1 ELSE 0]

SnapshotAfterPrior ==
  /\ pc = "snapshot"
  /\ ~aborted
  /\ contacts' = Classified(Rebuilt(FALSE))
  /\ prior' = Kept(contacts')
  /\ Show({})
  /\ pc' = IF left = {} THEN "final" ELSE "ingest"
  /\ UNCHANGED <<rows, opts, scope, left, todo, targets, aborted, outcome, unread>>

Snapshot ==
  /\ pc = "snapshot"
  /\ ~aborted
  /\ contacts' = Classified(Rebuilt(FALSE))
  /\ prior' = Kept(contacts')
  /\ Show(prior' \ prior)
  /\ pc' = IF left = {} THEN "final" ELSE "ingest"
  /\ UNCHANGED <<rows, opts, scope, left, todo, targets, aborted, outcome, unread>>

-----------------------------------------------------------------------------
(* Pass 2.                                                                  *)

Involves(p, c) ==
  LET m == Mail[p[1]]
  IN  \/ Direction(m) = "in" /\ m.from = c
      \/ Direction(m) = "out" /\ \E k \in DOMAIN m.to : m.to[k] = c

Copies(kept) ==
  {rows[i].copy : i \in {j \in DOMAIN rows : InScope(j)}} \cap
  {p \in Place : \E c \in kept : Involves(p, c)}

(* Of the copies with one Message-ID the query returns some copy first:    *)
(* they have the same date, and it leaves the order of equals open.        *)
TargetChoices(kept) ==
  {T \in SUBSET Copies(kept) :
     \A p \in Copies(kept) :
       IF Mail[p[1]].known THEN Cardinality({q \in T : q[1] = p[1]}) = 1 ELSE p \in T}

Cached == {rows[i].copy : i \in {j \in DOMAIN rows : rows[j].body}}

(* The classification throws at its first contact once the run is aborted. *)
Prepass ==
  /\ pc = "prepass"
  /\ IF aborted /\ DOMAIN Rebuilt(FALSE) # {}
     THEN /\ contacts' = Rebuilt(FALSE)
          /\ EndRun("stopped")
     ELSE /\ contacts' = Classified(Rebuilt(FALSE))
          /\ \E T \in TargetChoices(Kept(contacts')) :
               /\ targets' = T \ Cached
               /\ pc' = IF T \subseteq Cached THEN "final" ELSE "bodies"
          /\ UNCHANGED <<opts, scope, left, todo, prior, aborted, outcome, unread>>
  /\ UNCHANGED <<rows, shown>>

(* A chunk that was fetched before the cancel is still stored, and nothing *)
(* looks at the signal after the last one.                                 *)
LeaveBody(p) ==
  /\ targets' = targets \ {p}
  /\ pc' = IF targets = {p} THEN "final" ELSE "bodies"
  /\ UNCHANGED <<contacts, opts, scope, left, todo, prior, aborted, outcome, shown>>

StoreBody(p) ==
  /\ pc = "bodies"
  /\ p \in targets
  /\ rows' = [i \in DOMAIN rows |->
                IF rows[i].copy = p THEN [rows[i] EXCEPT !.body = TRUE] ELSE rows[i]]
  /\ UNCHANGED unread
  /\ LeaveBody(p)

(* The message is gone from the server, or its body could not be parsed. *)
NoBody(p) ==
  /\ pc = "bodies"
  /\ p \in targets
  /\ unread' = unread \cup {p}
  /\ UNCHANGED rows
  /\ LeaveBody(p)

-----------------------------------------------------------------------------
(* The final pass: two transactions, one after the other.                   *)

RebuildWithoutBodies ==
  /\ pc = "final"
  /\ contacts' = Rebuilt(FALSE)
  /\ pc' = "classify"
  /\ UNCHANGED <<rows, opts, scope, left, todo, targets, prior, aborted, outcome, shown,
                 unread>>

Rebuild ==
  /\ pc = "final"
  /\ contacts' = Rebuilt(ReadsBodies(opts))
  /\ pc' = "classify"
  /\ UNCHANGED <<rows, opts, scope, left, todo, targets, prior, aborted, outcome, shown,
                 unread>>

ClassifyRegardless ==
  /\ pc = "classify"
  /\ contacts' = Classified(contacts)
  /\ IF opts.deep THEN Show(Kept(contacts')) ELSE UNCHANGED shown
  /\ EndRun("done")
  /\ UNCHANGED rows

Classify ==
  /\ pc = "classify"
  /\ ~aborted \/ DOMAIN contacts = {}
  /\ contacts' = Classified(contacts)
  /\ IF opts.deep THEN Show(Kept(contacts')) ELSE UNCHANGED shown
  /\ EndRun("done")
  /\ UNCHANGED rows

ClassifyAbortedAsDone ==
  /\ pc = "classify"
  /\ aborted
  /\ DOMAIN contacts # {}
  /\ EndRun("done")
  /\ UNCHANGED <<rows, contacts, shown>>

ClassifyAborted ==
  /\ pc = "classify"
  /\ aborted
  /\ DOMAIN contacts # {}
  /\ EndRun("stopped")
  /\ UNCHANGED <<rows, contacts, shown>>

(* Tags are written one by one: the program ends, or a write fails, when   *)
(* the contacts in S have theirs.                                           *)
ClassifyPartly(S) ==
  /\ pc \in {"snapshot", "prepass", "classify"}
  /\ ~aborted
  /\ LET table == IF pc = "classify" THEN contacts ELSE Rebuilt(FALSE)
     IN  /\ DOMAIN table \ S # {}
         /\ contacts' = [c \in DOMAIN table |->
                           IF c \in S THEN Classified(table)[c] ELSE table[c]]
  /\ EndRun("stopped")
  /\ UNCHANGED <<rows, shown>>

Next ==
  \/ \E p \in Place : StoreBody(p) \/ NoBody(p)
  \/ \E f \in Folder : \E live \in SUBSET {p[1] : p \in {q \in Place : q[2] = f}} :
       BeginFolder(f, live)
  \/ \E f \in Folder : UpToDate(f)
  \/ \E f \in Folder, m \in Message : StoreMessage(f, m)
  \/ \E S \in SUBSET Contact : ClassifyPartly(S)
  \/ Start \/ Cancel \/ Stop \/ Fail \/ Crash
  \/ Snapshot \/ Prepass \/ Rebuild \/ Classify \/ ClassifyAborted

Spec == Init /\ [][Next]_vars

-----------------------------------------------------------------------------
(* What a scan promises.                                                    *)

Done == pc = "idle" /\ outcome = "done"

StoredCopies(c) == {rows[i].copy : i \in {j \in DOMAIN rows : InScope(j)}}
                     \cap {p \in Place : Involves(p, c)}

(* All copies of a message with a Message-ID are one letter. *)
Letters(P) == {IF Mail[p[1]].known THEN <<p[1]>> ELSE p : p \in P}

(* The table counts, for each contact, every letter to or from it that is  *)
(* stored in the folders of the scan, and none twice (the dedup by         *)
(* Message-ID and the strict scope of rebuildAddressesAggregate).          *)
CountsLetters ==
  pc = "classify" =>
    \A c \in DOMAIN contacts :
      LET dir(d) == Letters({p \in StoredCopies(c) : Direction(Mail[p[1]]) = d})
      IN  /\ contacts[c].in = Cardinality(dir("in"))
          /\ contacts[c].out =
               Cardinality(UNION {{l} \X {k \in DOMAIN Mail[l[1]].to : Mail[l[1]].to[k] = c}
                                    : l \in dir("out")})

(* When a scan is done the renderer has been sent each contact it keeps;   *)
(* a deep scan has sent those alone and each once (the snapshots are       *)
(* deltas, and a deep scan's are held back until pass 2 is over).  A scan  *)
(* without a folder sends no snapshot.                                     *)
StreamHasResult ==
  Done => /\ opts.deep \/ scope # {} => \A c \in Kept(contacts) : shown[c] > 0
          /\ opts.deep => \A c \in Contact : shown[c] = IF c \in Kept(contacts) THEN 1 ELSE 0

(* Once a scan is cancelled the renderer is sent no more contacts.  *)
CancelledScanShowsNothing ==
  [][aborted => \A c \in Contact : shown'[c] <= shown[c]]_vars

(* Contacts without a verdict are only left behind by a run that did not   *)
(* end well, and the next one that does gives each its verdict.            *)
UntaggedOnlyAfterInterruption ==
  pc = "idle" /\ outcome # "stopped" =>
    \A c \in DOMAIN contacts : contacts[c].tag # "none"

SingleCopies(c) ==
  \A p, q \in StoredCopies(c) : p[1] = q[1] => p = q

(* A deep scan that could read the bodies keeps no contact with an         *)
(* excluded word in a letter, subject or body, of the side it is excluded  *)
(* on, and none whose newest letters are all automated, by a header or an  *)
(* unsubscribe line.  This holds for letters with one copy in the scan, and *)
(* for contacts the pre-pass does not drop for want of an included word in *)
(* a subject: an included word in a body that an earlier scan has cached   *)
(* brings one back whose other bodies were never fetched.                   *)
BodiesDecide ==
  Done /\ ReadsBodies(opts) =>
    \A c \in Kept(contacts) :
     (PassesWords(c, FALSE) /\ SingleCopies(c) /\ unread \cap StoredCopies(c) = {}) =>
      /\ \A p \in StoredCopies(c) :
           <<"exclude", Direction(Mail[p[1]])>> \in opts.words => Mail[p[1]].word = "nowhere"
      /\ Samples(c) # {} => \E i \in Samples(c) : ~Msg(i).robot /\ ~Msg(i).unsubscribe
=============================================================================
