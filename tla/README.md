# Verification of the e-mail contact extractor

TLA+ models of the scan pipeline of this repository, of the session it runs in and of
the window in front of it, the TLC configurations that check them on small instances, and TLAPS proofs of their most important
properties for every value of the constants.

    tlc -workers 2 -config FolderIngest.cfg FolderIngest.tla    # a run
    tlapm FolderIngestProofs.tla                                # the proofs

`PROJECT.json` lists the runs, the mutants, the lines of source each definition
stands for, the hazards the properties are aimed at, and the theorems.

## 1. The system

An Electron application. The main process talks IMAP, keeps a SQLite cache and
runs scans; the renderer shows them. The main process is one JavaScript thread
with promises: between two `await`s nothing interleaves, and `better-sqlite3` is
synchronous, so a transaction is never interleaved with anything in the process.
It can be cut short by a crash, which rolls it back.

| Component (under `src/src/`) | State | Operations | What makes it correct |
|---|---|---|---|
| Folder ingestion, `main/pipeline/ingestion.ts` | per run: copy of the folder row, candidate `highestUid`, batch, attempts | `ingestFolder`: upsert, UID sync, fetch, checkpoint, retry | no message is skipped for good; only vanished messages are dropped; a run ends |
| Repositories, `main/db/*.repo.ts` | tables `folders`, `messages`, `message_bodies`, `addresses`, `accounts`, `settings` | upserts, deletes, queries | watermark and rows move together |
| IMAP client, `main/imap/client.ts` | `client`: the live connection or null | connect, disconnect, list, fetch | one connection per object; a lost one is noticed |
| Connection pool, `main/imap/connection-pool.ts`, `retry.ts` | `free`, `waiters`, `closed` | create, acquire, release, close | clients neither shared nor lost; fair; nobody waits for ever; nothing left open |
| Body scan, `main/pipeline/body-scan.ts` | chunks, per-folder groups, seen message ids | fetch bodies, parse, cache, count | each body counted once, across retries |
| Parser pool, `main/pipeline/parser-pool.ts` | workers, pending requests, timers | parse, timeout, worker exit, close | each request answered once, by its own answer |
| Scan runner, `main/pipeline/scan-runner.ts`, `progress.ts` | phase, snapshots, kept set | connect, pass 1, pass 2, rebuild, classify | contacts shown are those of the finished scan |
| Aggregation, classifier, `main/pipeline/aggregation.ts`, `main/classifier` | none of their own | rows to contacts to tags | deterministic in the rows, not in their history |
| Session and IPC, `main/ipc` | credentials, session client, registry of scans | connect, disconnect, start, cancel, reset | commands act on the session they were meant for |
| Accounts and settings, `main/db/accounts.repo.ts`, `settings.repo.ts` | rows `accounts`, `settings` | save and forget a password, filter preferences | an account's own, and what is shown is what is stored |
| Database, `main/db/singleton.ts`, `connection.ts`, `migrations/` | the file's schema, `_migrations` | open, migrate | the schema is what is recorded, across crashes and processes |
| Renderer store, `renderer/src/store` | slices: session, scan, connection, accounts, cache, bootstrap | epics and reducers | who is logged in; what is shown belongs to the current session |
| Screens, `renderer/src/routes`, `components` | route, open dialogs | clicks, effects | a command is offered only when it may be given |
| Preload, `preload/index.ts`, `ipc-client.ts`, `shared` | none | pass calls and pushes on | order |
| Export, logging, metrics, configuration | none that others read | formatting, declarations | not modelled |

The parts interact through calls and promises (runner to ingestion to client and
repositories), one abort signal per scan (session to everything), shared rows in
SQLite, the pool that lends connections to folder tasks, and IPC messages
(renderer to handlers, progress and snapshots back).

What is hard: a cancel, a lost connection, a failed commit or a crash between
any two steps; new, vanished and renumbered mail while a scan reads; tasks that
outlive `Promise.all`; a second scan over the same folders; waits that somebody
must end. The `hazards` in `PROJECT.json` list each at its line.

## 2. The plan

In order of importance, each with its proofs where they are in reach:

1. `FolderIngest`, with `FolderMirror` as what it promises - **done, proved**
2. `OverlappingIngest`, two of them on one folder - **done, proved as far as it goes**
3. `ConnectionPool`, with the tasks that share it - **done, safety proved**
4. `ParserPool`, with `Parser` as what it promises, and `DeepScan`: pass 2, chunks
   and retries over the parser pool - **done, safety proved**
5. `ContactScan`: the passes of `runScan`, snapshots, the final rebuild, with
   aggregation, classifier and the choice of the bodies to fetch as operators on
   messages that lie in several folders - **done, proved**
6. `Session`, the main process's session and its handlers, and `App`, the window on top
   of it - **done, safety and the refinement of Session by App proved**
7. `Migrations` - **done, safety proved**
8. `ScanSlice`: filters, folders, rows and the dialog of the scan and results screens -
   **done, proved**
9. the own addresses that scans derive while rows keep the directions of earlier ones
10. refinements between the parts: `ContactScan`'s storing steps by `FolderIngest` and
    `DeepScan`, and their proofs

## 3. The modules

### FolderIngest

One run of `ingestFolder` over one folder. A step is the code between two
`await`s. `pc` names the await the run stands at:

| `pc` | in the code |
|---|---|
| `idle` | no scan |
| `selected` | STATUS is answered, `runScan` has upserted the row (`GetFolderState`); the folder waits its turn |
| `syncing`, `pruning` | `listLiveUids` is to be asked; it has answered |
| `loop` | the head of the retry loop, the mailbox being opened |
| `fetching` | inside `for await (... fetchHeaders ...)`; `stream` is what is still to come |
| `parsing` | `await parseHeaders` of the message at the head of `stream` |
| `backoff` | `sleep`, `disconnect`, `connect` |
| `done`, `failed`, `cancelled` | the promise has settled |

The server is `mail`, `uidnext`, `uidvalidity`: messages arrive, are expunged, are
flagged or cleared of `\Deleted`, and the mailbox may be renumbered, at any point. The database is
`folder` (uidvalidity and watermark) and `rows`. `passedOver` and `misjudged` are history: what a
fetch received and deliberately did not store, and what a run deleted on the word of a failed SEARCH. A crash is `Forget` in the middle
of a run: the run's variables go, the database stays. It is also what `scan.start`
does when the run has ended, and the next run starts from whatever is stored.

`listLiveUids` has three ends (`ListLiveUids`, `ListLiveUidsFails`): it answers with what is there, it rejects, and the
sync is skipped, or its SEARCH fails. imapflow, which is external, answers that with `false`, and
`client.ts:406` makes it an empty list, as its comment takes `false` for an empty search; `refused` tells
the two empty lists apart, which the code cannot. An abort is looked at when a message comes off the stream, not while it is parsed:
`Receive` is the loop's body up to `parseHeaders`, `ParseSettles` the rest, which commits a full batch
whether the scan was cancelled or not. `lateCommits` counts the run's commits after the abort.

`cache.reset` asks for no scan, and the screen only for its own status, which is not `running`
after a cancel that never reached main; so `ResetCache` may come at any step. A run that has `ingestFolder` before it upserts the row
anew. One that is inside keeps the id of a row that is `gone`: it finds nothing to prune, its commits fail on the
foreign key as soon as they hold a message, and moving the watermark updates no row.

`uid FETCH n:*` delivers the last message even when it is below `n`
(`Selected`), as IMAP has it. A failed transaction leaves the batch in memory
and the run's copy of the watermark behind (`RolledBack`).

`FolderMirror` is the promise without runs or batches: a mirror that is extended
to a mark, covering all there is below it, and pruned of what has gone - or, after a failed SEARCH, emptied
while its mark stays (`Blind`).
`MirrorsMailbox` is the refinement, rows to `mirror`, `uidnext_seen` to `mark`.
A renumbering voids the promise: UIDs then mean nothing.

`OverlappingIngest` adds a second run, with variables of its own, over the same
server and rows (`BothSpec`). It also has what can be said of a run whose neighbour is known only by what it
does to the shared rows (`SharedSpec`, `Neighbour`), and the mapping of two runs that
take turns to one (`One`).

### ConnectionPool

The pool of one scan, its clients and its folder tasks. `socket[c]` is the state
of the client (`ImapClient.client` is non-null when it is `"up"`); `task[t]` is
the await a task stands at: queued in `acquire`, running, or in one of the waits of
`withReconnectRetry` and of ingestFolder's own retry arm, which have the same
shape (sleep, disconnect, connect on the client it holds). Folders start in the
order of the list. `Close` is the finally block of `scan.start`: it runs when
`Promise.all` has settled, which is at the first failure, with the siblings still
at work.

### ParserPool

Each slot of the pool has its `pending` map, and its worker's requests (`inbox`)
and replies (`outbox`); `ticket[c]` is what the timer of call `c` has captured. A
worker picks any request of its inbox, since its listener is asynchronous and
several parses of one worker overlap; its replies arrive in the order they were
posted. A worker may die at any time, before or after its `error` event has been
handled, and a dead one stays in the rotation, as in the code: what is posted to
it is answered by the timer alone. `exit` is the last event of a worker.

`Parser` is the promise `deepScanBodies` relies on: each call is answered once,
with the text of its own source or an error, in the end. `AnswersItsCaller` is the
refinement, which leaves out everything but `promise` and `text`.

### DeepScan

`processFolderGroup` over one folder, with `withReconnectRetry` around a chunk, the
parses in flight (`parsing`, counted, since a retry parses a message again), and
the tables it writes to. `pc` is the await it stands at: `chunk` the head of the
loop, `opening` and `fetching` inside `fetchHeaders`, `backoff` in the retry,
`parsing` the `Promise.all` over the chunk's parses. A body is the UID of
the message its text came from, so that a body at the wrong row shows.

Rows have ids of their own, handed out by AUTOINCREMENT. While the pass runs, another
run may prune or store rows and the user may reset the cache: the pass goes on
with the ids it read at the start, which is what the first two properties are about.
One pass is modelled at a time; the writes of an earlier one that still unwinds are
not. The folder is not renumbered (that is FolderIngest's subject).

### ContactScan

One account's scans, one after the other, from the folders to the contacts. `pc` is
where `runScan` stands: `ingest` and `bodies` await the network, and only there can a cancel
or another folder come in between; `snapshot`, `prepass`, `final` and `classify` are
synchronous, but the program may end, or a write fail, inside them: the table is rebuilt
in one transaction, the tags are written one by one (`ClassifyPartly`). The database is
`rows`, messages in the order of their ids with the body kept for each, and
`contacts`; both outlive the run. A scan with bodies ingests its folders side by
side, a scan of headers one after the other, with a `Snapshot` after each. `shown` is the
renderer's `snapshotContacts`; messages to it arrive in order.

A mailbox is a constant: `Mail` says what each message holds, as far as the rules look at
it (sender, recipients, date, whether there is a Message-ID, an automation header, the
filtered word, an unsubscribe line), `Place` which folders have a copy. At each begin of a
folder any part of it may be on the server. The operators follow the code's queries:
`Counted` takes the first row of each Message-ID in row order, `Samples` the newest
rows with all their copies, `TargetChoices` any one copy of each letter, because the
query orders by date and copies have the same date.

`CountsLetters` and `BodiesDecide` compare what is computed from rows with a statement about
letters. `BodiesDecide` is limited to contacts whose letters have one copy in the scan -
with two, pass 2 flags the row of the one it fetched and the classifier samples both (section 6) -
and to those that the pre-pass keeps for their subjects: an included word in a body that an
earlier scan has cached brings back a contact the pre-pass dropped, whose other bodies were
never fetched. Without the second limit the property fails after two scans.

### Session

`session.ts` and the handlers that use it, for any order of calls, several of a kind at
once. An action is the code between two `await`s:

| Variable | in the code |
|---|---|
| `creds`, `client`, `scans` | the three module variables of `session.ts`; `client` is the number of an object |
| `sock[o]` | `ImapClient.client` of object `o`: whose mailbox it is open on |
| `leaving` | objects whose logout `session.disconnect` awaits |
| `login[g]` | a call of `imap.testConnection` (`testing`) or `imap.connectSaved` (`saved`), its probe under way |
| `lister[l]` | a call of `folders.list`: connecting, listing, or on a connection that logs out or is gone |
| `run[r]` | a call of `scan.start`: `pooling` awaits `createImapPool`, `connecting` awaits `ensureClient`, `attaching` is runScan's own connect, `running` before its folders are stored, `storing` after, `wiped` when its account was deleted under it; `redial` while a connect of `withReconnectRetry` is on its way |
| `aborted` | runs whose signal is aborted |
| `saved` | accounts with a stored password |

`Disconnect` is `session.disconnect` as far as its await, `LoggedOut` the rest: between the two
the session still has its credentials. `ensureClient` awaits `connect` and then returns
whatever `client` is by then, which may be another object or none (`ListerConnected`,
`RunConnected`). `withReconnectRetry` sleeps and then
connects: the sleep ends with an abort, a connect that has begun does not (`RunDials`, `RunReconnects`). `cache.reset`
touches nothing of the session, and a run under way stores its folders again after it; it is in `FolderIngest`,
`DeepScan` and, as a click, in `App`. An object that nobody refers to any more is garbage, unless it is
open: `Opened` forgets such connections, which nobody can close (hazard
`session.ts:37`). Objects are numbered again when free, so their bound is one of objects in use at
once. `saved` is the rows that have a password; a row without one differs in nothing
modelled. Which row was used last is left open, as is whether a password can be decrypted.

### App

Session with the window in front of it. The store's variables are those of the slices, `route` the
screen; a click of the user (`Click`), an effect of a screen (`Effect`), something the
main process does (`Answer`, `MainStep`) and the arrival of what it sent (`Deliver`) are the
disjuncts of `Next`. The form holds an account, or `Nobody` for what nothing depends on.

A call reaches the main process in the step that makes it. Calls stay in order, and what the main
process does depends on the store only through them, so a behaviour in which a call travels is
one of the model in which the click came later. Answers do travel: `inbox` is what was
sent and has not arrived, in order, pushed snapshots included; `MaxInbox` only holds back
snapshots, starts and cancels.

`Hasty` says whether the user clicks on while an answer is awaited. A patient user of the connect
screen waits for what is under way, but not for the scan of the session before: nothing on that screen
tells whether it has ended. `RouteChanges` is a step of its own because the scan screen
stays mounted for a render after Switch account has blanked its slice, and its effect
asks for the folders once more.

### ScanSlice

The filters of the scan screen, the preferences stored for each account, the choice of folders and
the dialog with a contact's messages. `prefs[a]` is the row of account `a` in
`settings`, as a set of none or one; `filters` is what the screen shows, with two
of the ten settings: the direction, which the choice of folders depends on, and `words`, which
is marked with the account it was typed under and stands for the others, all of which are set,
saved and loaded alike. `Edits` is a `set...` action with its
epic: the whole set of filters is saved under the credentials main has at that moment.
`Quit` ends the program at any step and keeps the settings. Logins, failures and cancels have their
detail in App; `Login` here comes when nothing of the session before is on its way.

### Migrations

`getDb`, `openDb` and `runMigrations` of several processes on one file (nothing asks Electron for
the single-instance lock). `schema[m]` counts how often migration `m`'s statements are
committed, `ledger` is the table `_migrations`, `proc[p].todo` is what process `p` read once and has
still to make. `Execute` and `Record` are the two halves of a transaction; a process that ends
between them is rolled back. `Busy` is SQLite's busy timeout, after which `getDb` throws and its
next call begins anew. The file is new, or holds the first migrations of an older version.

## 4. The runs

| Run | Module, instance | Question and result |
|---|---|---|
| `ingest` | FolderIngest; 2 UIDs, batches of 2, 2 retries, one renumbering; 368 000 states | types, four safety and action properties and the refinement hold, but for what a failed SEARCH deletes, and every started run ends |
| `ingest_renumbered` | 2 UIDs, one renumbering | **violated**: a renumbered folder is not rescanned |
| `ingest_overlap` | OverlappingIngest; 1 UID, no retry | **violated**: two runs at once drop a row that is on the server |
| `pool` | 2 clients, 4 folders, 1 retry; 125 000 states | types, exclusive clients, no idle client beside a waiter, order, every task ends |
| `parser_pool` | 4 calls, 2 workers; 27 700 states | types, an entry for each waiting call, and the refinement of `Parser` with its liveness |
| `deep_scan` | 2 messages, 4 row ids, chunks of 1, 2 retries; 338 000 states | types, bodies at their own messages, none orphaned, none missed; every started pass ends |
| `contact_scan` | MCContactScan; 2 folders, 2 contacts, 2 letters in 3 places, 4 settings; 244 000 states | types, letters counted once, the renderer has the result, verdicts for all, bodies heeded, silence after a cancel |
| `app` | App; 2 accounts, one login, one listing, one scan at a time, 3 connections, a patient user; 1.44 million states | types, every scan in reach of Switch account, no client without credentials, one account in window and main process, only its rows shown, a running scan is over at some point |
| `app_switch` | the same | **violated**: a scan stores another account's folders |
| `app_header` | the same, a hasty user | **violated**: header and session name two accounts |
| `migrations` | 7 migrations, 3 processes, 2 ends; 12 900 states | types, the schema is what is recorded, whole for whoever gets it, and everyone gets it |
| `scan_slice` | ScanSlice; 2 accounts, 2 contacts, 2 folders, up to 3 messages on their way; 142 000 states | types, filters stay with their account, those shown are stored, a dialog shows its contact's messages |

**Why these bounds are enough.** Two messages over batches of two give a full
batch and a partial one, whose commit is progress a retry starts from; arrivals and expunges may fall
before, between and after them, and they are enough
for a renumbering to put a live message below an old watermark. Two retries have a first, a last and a refused
attempt. Runs follow one another without bound (`Forget`, `GetFolderState`), so
every property is about chains of runs over what earlier ones left; one message is enough for
two runs to disagree about it. With three messages, one retry and no renumbering the invariants and
action properties of `ingest` hold as well (1.3 million states; too long with liveness for a run
kept here), and the proofs are for any number. Two clients and four folders give two holders and a
queue of two, which is what an order needs. Four parses over two workers give each
worker two at once, and a third call that meets the first one's worker again.
Two messages in chunks of one are two chunks, and four row ids
let both be dropped and stored again under new ones; the proofs cover larger chunks. Two folders, with one letter in both
and one in one of them, give a second copy, a folder that does not count and a row kept from an
earlier scan; the four settings are deep with and without a word filter, deep on a machine
that cannot encrypt, and headers alone. Two accounts are one that was left and one that
logs in; three connections are the session's, one that logs out and one that a run still holds. One
call of a kind at a time is what the screens allow a patient user, but for a scan
started over one whose cancel did not reach it (`ingest_overlap`); the
proofs are for any number of calls. Seven migrations are the repository's, with those that run a second time without
an error told apart; three processes give one that writes, one that waits and one that read too early.

**What each violated run shows.** `ingest_renumbered`: the `folders` row is
upserted with the server's UIDVALIDITY before the comparison that should detect
the change, so the wipe cannot run and the old watermark hides new messages.
`ingest_overlap`: run A asks for the live UIDs, run B stores a message that arrived
after the answer, A deletes it as stale; the watermark is already past it.
`app_switch`: Switch account aborts a scan that waits for its pool; the user tests the old account
again; the aborted scan, which looks at its signal only inside `runScan`, opens the session's client for
it; the user tests the other account and continues; `setCredentials` does not touch the client, so
folders are listed, and stored by the next scan, from the first account's mailbox.
`app_header`: the form is edited while it is tested, and Continue takes what it says then.
Each is a finding in `PROJECT.json`, with the comment it contradicts.

**Two divergences without a run of their own.** A SEARCH that fails empties the folder. The sync takes the empty
list for the truth and deletes every row; the watermark stays, so what was below it is never asked for
again, and an up-to-date folder ends as done with nothing in it. `ingestion.ts:194-196` says that a
flaked SEARCH is harmless and cleaned up by the next scan, and the test at `tests/main/pipeline/scan-runner.test.ts:1351` checks that for a
`listLiveUids` that throws. The model has the step, and
`NoMessageLost`, `CompleteWhenDone`, `OnlyGoneRowsDropped` and `MirrorsMailbox` except the rows it deletes
(`misjudged`): without the exception each is false, with it they say that nothing else loses mail. That the library
answers a failed SEARCH so is an assumption about code outside the repository; were it not so, `refused` would
always be false and the exception empty.

The comments say that a cancel rolls back the folder (`scan-runner.ts:123-124`) or the
batch (`ingestion.ts:43`). The batch in hand is committed by the catch arm, or the one that fills while a message
is with the parser by the loop; `CancelledRunCommitsOnce` says that it is one of them and never both.

**Fairness.** `ingest`: weak fairness of the run's own steps. Every await of
the run is a network call with a socket timeout, a timer or an abort, so each
settles, one way or another; the model leaves the outcome open. Nothing is assumed of the server,
the user or the connection. `pool`: weak fairness of each connection attempt, of each task and of the
finally block, for the same reason. `parser_pool`: that timers fire; of the workers
nothing is assumed, they may never answer. `deep_scan`: the pass's own
steps, and that each parse settles, which is what `parser_pool` shows. `app`: that each run
settles what it awaits, which `ingest`, `pool` and `deep_scan` show of its parts, and that
what was sent arrives. `migrations`: that a process goes on opening its database (the window calls
again and again) and that statements end; not that the busy timeout spares anybody.

**Deadlock** is checked in every run but those of the
two pools, of OverlappingIngest and of Migrations, which may stop: a scan has an end, and
so has the opening of a database.

## 5. The proofs

`FolderIngestProofs` (assuming only `BoundsAssumption`: the bounds are naturals, and
batches and numberings at least one) proves, for every mailbox size, batch
size, retry budget and number of renumberings, all the safety properties of run
`ingest`, the refinement included, and that the watermark falls only with its rows:
`TypeCorrect`, `NothingLost`, `DoneIsComplete`, `SyncDropsOnlyGone`,
`WatermarkAndRowsFallTogether`, `CancelCommitsOnce`, `ImplementsMirror`. Those about rows say, as their
properties do, what holds but for a failed SEARCH (section 4); a run whose cache was reset under it is not
said to be complete.

None of the invariants is inductive. `NoMessageLost` says what is below the
watermark; to be kept by a checkpoint it needs to know that everything up to the
candidate `highestUid` is stored, in the batch, passed over or with the parser (`CandidateCovered`).
To be kept by the next message that needs the stream to hold every live message
above the candidate, in order (`StreamComplete`), and to be kept by a new message
that nothing the run knows of lies beyond UIDNEXT (`BelowUidnext`). The sync
needs that a live UID list, if SEARCH was answered, though old, still contains every live message that
has a row (`SyncSound`): that is where a second run would break it. The copy of
the watermark the run carries must be the table's as long as the row is there, and no row may lie above the watermark (`InStep`),
since the mirror's mark must not pass one that a failed SEARCH took. The inductive
invariant `IInv` is their conjunction with the types, under the first numbering;
there is one lemma per action, and the theorems are read off it. For the cancel, `LateInv`: a run that
committed after its abort has ended, or is back at the stream with nothing left to write.

`SharedSpec` is a run with a neighbour that may at any time store messages that are there, move the watermark to
wherever everything below has been dealt with, up or down, and drop what has gone, or all there is after a failed SEARCH; only not store anything while this
run stands between its list of live UIDs and its deletes. Of such a run the same is proved (`NothingLostBeside`,
`DoneIsCompleteBeside`, `SyncDropsOnlyGoneBeside`; a run that is alone is a special case), and that it is such
a neighbour itself (`RunsAreGoodNeighbours`). So the gap in the sync, which
`ingest_overlap` finds, and the failed SEARCH are the only ways for overlapping runs to lose mail (`TwoRunsLoseNothing`, which takes what B does
to the rows as its hypothesis, by symmetry what `RunsAreGoodNeighbours` shows); that the run's copy of the watermark
goes stale is harmless. TLC confirms it for one message and a retry, and for two messages
that are always stored: with that one interleaving excluded, two runs keep these properties, and every step of the one keeps the folder for
the other (`KeepsTheFolder`). `TurnsAreOneRun` is the
simple case: two runs of which one starts when the other is over are a behaviour of
`FolderIngest`, which is what the screens allow as long as nothing is cancelled.

`ConnectionPoolProofs` (assuming `PoolAssumption`) proves, for every number of clients,
folders and retries, `PoolTypeCorrect`, `ClientsInOnePlace`,
`NobodyWaitsBesideFree` and `QueueServedInOrder`. The strengthening `Seating` says
that exactly the tasks under way hold a client (`HoldersActive`), that the queue is
of waiting tasks, each once (`WaitersWait`), that nothing starts before the pool
stands (`NotStarted`), that a free client is nobody's (`FreeUnheld`) and that none
is missing while the pool is open (`NoneLost`); `ListedOnce` is the same for the
list `createImapPool` builds. `EndTaskSeats` carries it over every way a task ends.

`ParserPoolProofs` (assuming `PoolAssumption`) proves for every number of calls and workers
`ParserPoolTypeCorrect`, `WaitingMeansEntered`, `ClosedPoolHasNoWaiter` and
`AnswersAreOwn`, the safety part of the refinement of `Parser`. The `Books` are the
strengthening: entries and waiting calls stand for each other at the place the call's timer
looks (`EntriesWait`, `WaitersEntered`); ids are handed out in order, at most one a call
(`IdsFresh`), so that what travels under an id is of the call that waits for it, or
nobody does (`TravelsOwn`), which is what a late reply needs; a call without an answer
has no text; a closed pool is empty.

`DeepScanProofs` (assuming `BoundsAssumption`) proves for every number of messages and row ids,
chunk size and retry budget `DeepScanTypeCorrect`, `BodiesBelong`, `NoOrphans`,
`DoneIsCached` and `FetchedOnce`. Rows and targets are distinct, and a row that has a
target's id is that message's row still (`RowsDistinct`, `TargetsKnown`: AUTOINCREMENT is
used here). What is streamed or parsed is of the chunk (`GroupInv`), at most once an
attempt (`AttemptInv`); what is still to be fetched has no body (`Uncached`); and every
target is cached, was passed over for a reason, or is on its way (`Accounted`).

`ContactScanProofs` (assuming `MailAssumption`: the constants have their types, and the owner
of the mailbox is not one of its contacts) proves for every mailbox, folders and settings all of
the run's properties: `ContactScanTypeCorrect`, `ResultIsShown`, `VerdictForEach`,
`SilentOnceCancelled`, `TableCountsLetters` and `BodiesHaveTheirSay`. `RunInv` is the strengthening
for what is shown: a deep scan has shown nothing before its
end (`DeepHeldBack`), what the last snapshot kept has been shown (`PriorShown`), no row
comes between the last snapshot and the final pass, so that the two agree
(`LastSnapshotStands`, which rests on `SameKept`: verdicts depend on rows, settings and folders
alone), and the table that is classified is of this run (`TableIsFresh`). `StoreInv` is the one for what
is stored: a copy is stored once (`RowsOnce`), which needs that what a folder has still to store is
not stored yet (`TodoNew`) and that only a deep scan has two folders at a time (`FoldersApart`).
`TableCountsLetters` maps the rows that are counted one to one to letters (`OneRowPerLetter`).
For the bodies, each stored copy of a contact the headers keep has its body, waits for it, or could not
be read (`BodiesAccounted`); a body that comes can only take a contact out of those.

The first part of `AppProofs` (assuming `SessionAssumption`) proves Session's properties for any number of accounts, calls and
connections: `SessionTypesAreRight`, `NoScanEscapesEver` and `OpenClientHasCredentials`. The registry
is exactly the runs under way that are not aborted, which every handler keeps because a run is
registered before its first await and forgotten in its last step. That an open client has
credentials is not inductive: a connect may be on its way. The strengthening is `ClientInUseHasCreds`:
while the session has no credentials its client, if any, is neither open nor referred to by a
call, so whoever takes it without credentials takes one nobody uses, and the connects that are on
their way on other objects open connections that are not the session's.

The second part (with `AppAssumption`) shows that App implements Session: every click, effect, answer and
delivery is a step of Session or leaves its variables alone (`AppImplementsSession`). So what is proved of Session holds of the
program, for a patient user and a hasty one (`NoScanEscapesTheWindow`, `OpenClientHasSession`).
`AppTypesAreRight` holds of both as well: `Grounds` adds to the types that logins and runs have accounts,
without which a snapshot could be of none.

`HeaderAndSessionAgree` and `OnlyActivesRowsAreShown` have the hypothesis `~Hasty`: of a hasty user
they are false, as `app_header` shows. Their invariant is `Patient`. At most one login is under way, as a call or as the
answer that travels (`OneLogin`); meanwhile nobody is active, no client logs out and no rows travel
(`NobodyMeanwhile`); and the screen shows the login until its answer has arrived, so that the answer
still means what the credentials are (`CallShown`, `AnswerShown`). Then credentials
are the active account's or those of the test that Continue takes over (`SessionShown`), the scans that are
registered are the active account's (`ScansShown`), and so are the rows on their way (`RowsShown`).
A run that waits for its pool has taken no account yet, and an aborted one sends
nothing: that is where the registry is needed.

`ScanSliceProofs` (assuming `ScanSliceAssumption`) proves for any number of accounts, contacts, folders and messages
`ScanSliceTypeCorrect`, `FiltersStayWithAccount`, `FiltersSurvive` and `DialogIsOfItsContact`. Their
conjunction is inductive with three facts more: credentials and active account agree
(`SessionAgrees`); preferences on their way are those stored now for the active account
(`PrefsComing`), because the screen offers no edit before they have arrived; and the last answer on
its way to a dialog is for the one that is open (`LastAnswerIsItsOwn`).

`MigrationsProofs` (assuming `MigrationsAssumption`) proves for any number of migrations and
processes `TypesAreRight`, `SchemaIsRecordedEver`, `ReadyHasAllEver` and `OneAfterTheOtherEver`.
The strengthening says that the list of a process that is migrating contains all that is not
recorded (`TodoCovers`), and what is not recorded only shrinks; and that a process that is ready has
nothing left (`ReadyIsDone`).

**Only model-checked**: liveness (`IngestTerminates`, `EveryTaskEnds`, `DeepScanEnds`, `RunningEnds`,
`GetsItsDatabase`, the `Answered` part of `Parser`), which is out of the prover's reach, and the violated
properties, which are false. Every invariant and action property that a passing run checks is the
statement of a theorem. **Only proved**, because the proofs say more than a run would:
`WatermarkFallsOnlyWithItsRows`, `ClosedPoolIsIdle`, `CachedBodyIsNotFetched`, `OneAfterTheOther`, and what is said of several runs over one folder.

## 6. Abstractions, and what is not modelled

A message is its UID and one of three kinds; headers, addresses and directions
are data no modelled property depends on. Progress, logging and metrics are left
out. `createThrottledProgress` and the progress counters do not feed back. The error taxonomy is
"transient or not". A call on a client that lost its connection fails; whether the
server or the socket is at fault is not told apart. But for `Migrations`, the process is
assumed to be the only one on its database.

In `DeepScan` a message of the group is any message without a cached body; whose
messages are chosen is in `ContactScan`, which stores headers and bodies one message a
step in turn. Truncation of long sources, parse times and counters are left out. In
`ContactScan` the word lists are one word, the domain lists the set of contacts they let
pass, and the direction of a row is that of its message, since the own addresses are
constant. Display names, dates seen, subjects and the cut of quoted replies are
left out, as is the limit of 5000 messages a contact.

Met while modelling, and not a run of its own: an empty set of folders counts every
folder (`messages.repo.ts:283`), so a scan whose folders are all gone shows the
whole cache's contacts in the end and none in its snapshots; a word that is in a body
alone cannot include a contact, since the pre-pass drops it first (`scan-runner.ts:421`); a
cancel during the last chunk of bodies is noticed only after the table was rebuilt; a
verdict is by the five newest letters, where `classify-contact.ts:54` says every one;
a pool of which one connection is refused keeps one that comes up later open
(`connection-pool.ts:101`); `README.md:47` names a rule for role addresses that the code
does not have. Those that depend on the order of steps are hazards in `PROJECT.json`.

Met in the same way: a client whose connect succeeds after the pool was closed is dropped and stays open, as is
one of the session that finishes connecting after a Switch (`connection-pool.ts:121`, `session.ts:38-57`); a contact that a
later folder's letter rules out stays on the screen, since snapshots are only appended
(`scan-runner.ts:66-68` takes what is kept for monotonic); an unsubscribe line found in pass 2 is
flagged in the row of one copy only, while the classifier samples all (`body-scan.ts:432`); with
the direction off and Sent unticked, Reset Filters turns the direction on without
Sent, whose box is then locked (`scan/reducer.ts:211`); rows of a scan that was cancelled on the screen only are
appended to those of the same account's next one (`scan/reducer.ts:253`); the export reads the
table as it is, not the rows that are shown (`handlers.ts:802-812`, where `ExportDialog.tsx:45-46`
promises exactly those).

In `App` and `ScanSlice`: the rows of `contacts.list`, which the results screen fetches only while the scan slice is
idle, and every way to it starts a scan; `lastRunFolders`; the list of saved accounts, so that Use
and Forget are offered for any account with a password, and Forget for any; progress; the text of errors; the window
that macOS reopens. A stored preference that cannot be read is one that is not there. An edit
of the filters faster than the answer that brings the stored ones is left out: main
answers that call without awaiting anything. Two listings or two scans at once are in Session and its
proofs, not in the runs of App.

Not modelled: the export, a single pass over a table into a file; formatting, logging, metrics and configuration;
layout, sorting and searching of the screens; encryption by the operating system; and
`deriveMyAddressesFromSent`, which reads the text of headers.
