# Ryu Mail: TLA+ models and proofs

Ryu Mail is a self-hosted mail service for agents: an HTTP API over a SQLite store, an
SMTP client, a scheduler for drafts that are to go out later, an inbound endpoint that a
mail gateway posts to, webhooks and realtime streams, and a set of crates that seal what
the store keeps. This directory holds TLA+ modules translated from that code, the TLC
configurations that check them on small instances, and proofs for the TLA+ proof system.

Line numbers below and in `PROJECT.json` are those of the repository at the commit the
models were written from; `PROJECT.json` maps every definition to its lines.

## How to run

    tlc -config DraftSend_claims.cfg MCDraftSend     # likewise for the other runs
    tlapm DraftSend_proofs.tla                       # and the other *_proofs modules

`PROJECT.json` lists the runs, the properties each checks, and the mutants: for every
property a changed definition, of the kind a plausible bug would be, that TLC finds to
violate it. The mutant operators (named after the definition they replace, as in
`EditWriteUnguarded`, and marked as mutants in a comment) stand before it and are used by
nothing else.

## Inventory

| Part | State it keeps | Operations | Hard behaviour | What makes it correct | Modules |
|---|---|---|---|---|---|
| Drafts and the scheduler (`api.rs`, `store.rs`) | `drafts` rows with a status and a send time | create, update, delete, send; the scheduler's poll, claim, send, park | owner and scheduler race for a row; handlers are dropped at awaits; restarts mid-send | one sender per draft; the claimed row goes out; no automatic resend; due drafts are handled | `DraftSend` |
| Keyed sends | `mail_send_claims`: key, request, response | lookup, claim, complete, recheck | retries of a request whose outcome is unknown | at most one message per key | `DraftSend`, `SendKey` |
| Transport (`send.rs`, `email.rs`, `host.rs`) | none | checks, envelopes, Core's relay or a local one | an answer lost after acceptance; the stored row against what the relay took | errors are not taken for refusals; the row tells who got the mail | `DraftSend`, `HostCalls`, `Conversations` |
| Registry: inboxes, pods, lists, domains | tables of those names | create once, patch, delete with cascades, reopen | creates with one client id at once; duplicates an older version left | one row per client id and per address | `MailRegistry`, and the block list in `Conversations`; the allow lists are not modelled |
| Messages and blobs (`store.rs`) | rows, content-addressed files, a cleanup queue | insert, delete, read, sweep, background sealing | a file and a row never change together; crashes between | a row's blob exists and is whole; no file outlives its last row for good | `BlobStore` |
| Inbound (`api.rs`, `store.rs`) | replay tombstones, messages | verify, deduplicate, insert | concurrent copies, replays, clock skew, pruning | a replayed post stores nothing; a mail is stored once | `InboundDelivery` |
| Events and webhooks (`webhooks.rs`, `api.rs`) | webhooks, events, deliveries | create, patch, rewrite headers, delete; record, deliver with retries | requests write back whole rows; tasks work from copies; crashes | a row tells what happened; an inbox's webhook keeps to its inbox | `WebhookDelivery` |
| Realtime | a broadcast channel | publish, subscribe, stream | subscribers that lag | all of the subscription and nothing else | `RealtimeStream` |
| Threads, labels, search | columns of messages | opens, labels, read marks, deletes; threads; batched search | updates from a row that changed; rows that move under an offset | one time per open; a search misses no more than what moved; an answer joins the thread of what it answers | `MessageMarks`, `SearchScan`, `Conversations` |
| Store sealing (`seal.rs`, `plugin_keys/`) | a root file, its pin, the store's record, secrets | resolve, pin, open, reconcile, reopen | keys that change between starts, processes without a key | secrets and rows open to what was stored | `PluginSecrets`, `SharedStore` |
| Content migration (`content_sqlite.rs`) | per-column cursor, store record, owed scrub | begin, batch, finish, scrub, vacuum, defer | crashes between batches, concurrent writers, rotation | sealed, scrubbed, nothing lost | `ContentMigration`, `CompactionQueue` |
| Master-key custody (`custody.rs`, `lib.rs`) | the slots of the key, the record, retired keys | resolve, adopt, retire, import | exits between any two writes, disagreeing slots, a keychain that locks | what is sealed stays openable | `KeyCustody` |
| Ciphers and sealed values | none; a memory budget | seal, open, escape; index, evict | retired roots, look-alikes, masks that come back | values open to their text; the budget counts what is held | `SealedValues`, `SecretConfig`, `VectorCache` |
| Sealed files and logs | files | write, read, seek; append, sync, recover, compact | torn tails, cuts at a chunk boundary, power failures | what was synced, and only what was written, is read back | `SealedLog`, `SealedFile` |
| App events (`app-events`) | none | one request each to Core; model streams | lost answers; frames cut by chunks | what the app is told is what happened | `HostCalls` |
| Sidecar runtime | the handoff file, a cached proof | publish, withdraw, authorize; probe | runs that overlap, ports that change hands | a token opens its own run; a bearer goes to who proved it | `SidecarHandoff`, `PeerProof` |
| Process wiring (`main.rs`) | none | start-up | none of its own | | parts of `PluginSecrets`, `HostCalls`, `SidecarHandoff` |
| MIME parsing, release scripts | none | conversions, tooling | none | | not modelled |

The parts meet in the store: one SQLite connection behind one async mutex. A store call
is atomic; between two calls of a handler everything else can happen. The scheduler is
one task, the HTTP handlers are as many as there are requests, and the server drops a
handler whose client goes away at whatever await it is in. The transport is called
between store calls and holds no lock. The sealing library is called by the store and by
other processes that have the same data folder, and its own state is files.

`hazards` in `PROJECT.json` lists, at the line where it bites, what is hard to test in
this code, with the properties that cover it or the reason why none does.

## Modules

The component modules share no variables. `DraftSend`, `InboundDelivery` and `BlobStore`
have runs of their own. The others are checked in two runs, `Service` and `Sealing`,
whose modules extend all of them and add a variable `part` that says which component
moves in a behaviour; the other components keep one initial state. This explores each
component by itself, as separate runs would. Components that act on the same rows are in
one module (a draft with its key, a message with its blobs, a webhook with its
deliveries).

| Module | What it is |
|---|---|
| `DraftSend`, `SendKey` | drafts, the scheduler, keyed and unkeyed sends, the transport; the abstract promise of a key, which `DraftSend` implements |
| `InboundDelivery` | posted mail: window, duplicates, replay tombstones, deletion, the clock |
| `BlobStore` | messages and the files they refer to: insert, delete, drain, sweep, sealing, downloads |
| `EventDelivery` | what the owner of a mailbox can rely on of a delivery, which `WebhookDelivery` implements |
| `WebhookDelivery`, `RealtimeStream`, `MessageMarks`, `SearchScan`, `MailRegistry`, `Conversations` | the rest of the mail service |
| `HostCalls`, `SidecarHandoff`, `PeerProof` | the service and the processes around it |
| `ContentMigration`, `CompactionQueue`, `KeyCustody`, `SealedLog`, `SealedFile`, `VectorCache` | the state machines of the sealing library |
| `SyncedLog` | what an append-only log promises its owner, which `SealedLog` implements |
| `SealedValues` | what each cipher opens, as operators; used by the three below |
| `PluginSecrets`, `SharedStore`, `SecretConfig` | keys and sealed secrets at start-up, of several processes, in files |
| `MCDraftSend`, `MCInboundDelivery`, `MCBlobStore`, `MCContent`, `MCCustody`, `MCSealing`, `MCService` | values, symmetry and composition for TLC |
| `Selection` | what a filter, an order or a sum of sizes leaves, as operators without recursion; used by `Conversations`, `SearchScan`, `RealtimeStream`, `HostCalls`, `VectorCache` |
| `*_proofs` | theorems about the modules above; `Selection_proofs` the lemmas about its operators |

### DraftSend

One step is one critical section of the connection mutex, one effect of the transport,
or one return of a handler.

| Variable | In the code |
|---|---|
| `status`, `sendAt`, `body` | the `drafts` row; `body` is everything that is sent |
| `claimedFor`, `replay` | the `mail_send_claims` row: the request that holds the key, and whether its response is stored |
| `pc`, `job` | where a handler or the scheduler is between two awaits, and its locals: the draft, the key, the contents, the send time it judged, the status a failure restores, the outcome |
| `batch`, `polledAt` | the drafts `list_due_drafts` returned and the `now` it was called with |
| `accepted`, `keyAccepts`, `autoSpent`, `parked` | history, read by properties only |

| Action | Code |
|---|---|
| `CreateDraft`, `EditRead`/`EditWrite`, `DeleteDraft` | `create_draft`, `update_draft` (read and validate, then the guarded write), `delete_draft` or the cascade of `delete_inbox` |
| `SendRead`, `SendClaim` | `send_draft` up to the decision what a failure restores |
| `DirectSend` | `POST /send` with a key |
| `Poll`, `DueRead`, `DueClaim` | `spawn_draft_scheduler`, the two halves of `claim_due_draft` |
| `CheckRefused`, `CheckPassed` | the outbound checks; `lookup_send` for a keyed request |
| `ClaimKey` | `claim_send` |
| `TransportAccepts`, `SendFails`, `SendRecorded` | `send_from_inbox`: the relay takes the message; an error, before or after that; the answer arrives and the row is stored |
| `CompleteKey`, `Recheck`, `Settle` | `complete_send`, `keyed_send_never_claimed`, `finish_draft_send` with `fail_scheduled_draft` |
| `StoreFails`, `Disconnect`, `Crash`, `Tick` | a store call that errors, a dropped handler, a restart, the clock |

What is abstracted. A request's contents, its inbox and its hash are one value of
`Bodies`: `claim_send` compares inbox and hash together. Send times are numbers, with
`NoTime` for NULL and `BadTime` for a value of an earlier version that does not parse.
The outbound checks may pass or refuse at any time, since lists and domains can change
between scheduling and sending. Responses are told apart only as far as `send_draft`
does: success, a 409 or a 5xx, anything else. Events are left to their own module. Draft
ids are uuids and are not reused. An unkeyed direct send touches no draft and no key and
is left out. Rows whose sealed columns do not open (`Unreadable`) can be deleted and
counted by the poll, and cannot be loaded.

### SendKey

A key is fresh, pending or acknowledged, in that order, and at most one message is
delivered under it, while it is pending. `DraftSend` implements it under the mapping
`Phase` (from the claim row) and `keyAccepts`.

### InboundDelivery

One step is one critical section of the connection mutex, or the stretch of the handler
`inbound` between two awaits.

| Variable | In the code |
|---|---|
| `inbox`, `stampNeeded` | the `inboxes` row and its `require_timestamp` |
| `live` | how many stored inbound messages have each raw body |
| `tombs`, `unfinished` | `inbound_replay_tombstones`: `seen_at` by digest, and the rows without a message id |
| `pc`, `req`, `seenAt` | where a handler is, the post it holds, the clock it read for its tombstone |
| `clock`, `high`, `since` | the wall clock, the latest time it has shown, and that time when the post's signature was verified |
| `stores`, `everStored`, `answered` | history, read by properties only |

| Action | Code |
|---|---|
| `Receive` | `get_inbox` and `verify_inbound_signature` |
| `Refused`, `KnownMessageId`, `NewMessageId` | parsing and sender lists; `find_inbound_by_message_id`, whose errors count as "not found"; the clock read for the tombstone |
| `InsertDuplicate`, `InsertStores`, `InsertFails` | `insert_inbound_message` with `claim_inbound_tombstone` and `insert_message_in`: one transaction |
| `RecordEvent` | the event and the 200 |
| `DeleteMessage`, `DeleteInbox`, `RequireTimestamp` | `delete_message`, `delete_inbox`, `update_inbox` |
| `Tick`, `Correct`, `Crash`, `Disconnect` | the clock, its correction, a restart, a relay that goes away |

What is abstracted. A post is a mail and the timestamp it was signed with, and stands for
its own digest. There is one inbox, as nothing here relates two. A wrong secret or a
blocked sender leaves no trace, so such posts end in `Refused` or do not start. A mail
without a usable Message-ID gets a fresh one from the parser and matches none. Blob files
belong to `BlobStore`; a blob that cannot be written is one way `InsertFails`.

### BlobStore

Inserts and deletions hold the connection lock to their end, so one of them at a time is
under way (`task`). Its steps on files are separate actions, because readers and the
sealing thread do not take the lock and because the process can stop between any two.

| Variable | In the code |
|---|---|
| `inboxes`, `rows`, `queue` | the `inboxes` and `messages` rows (a message's attachments and raw MIME are `BlobsOf` it), `mail_blob_cleanup` |
| `keyed` | the store's recorded key check value |
| `file` | what is under each name in the blob directory: nothing, the plain content, the sealed content, too few bytes, or the sealed form of a sealed file |
| `mode` | the process's `StoreSeal`, `"off"` while it is not running |
| `task`, `msg`, `todo`, `done`, `writing` | the holder of the lock: the message it inserts, the blobs still to write or to look at, the queue entries its transaction deletes, the file it is filling |
| `sealer`, `reader` | the sealing thread and the downloads: the name in hand and what they read under it |
| `spent`, `cut`, `raced`, `stray` | history: ids used, blobs left short, blobs the sealing thread read after they had been replaced, files whose removal nothing announces |

| Action | Code |
|---|---|
| `BeginInsert`, `InsertCommits`, `InsertFails` | `insert_message_in` and the transaction around it |
| `BlobExists`, `WriteSealed`, `BeginPlain`, `EndPlain`, `CutShort` | `write_blob`: the path exists; a temporary file and a rename; `write_private` and its `write_all` |
| `DeleteMessage`, `DeleteInbox` | the transactions that delete rows and queue blobs, up to the drain |
| `DrainKeeps`, `DrainRemoves`, `DrainFails`, `DrainCommits`, `DrainRollsBack` | `drain_blob_cleanup_sync`, entry by entry |
| `Stop`, `Start` | exit or crash; `open_with_sealer` with its drain and `sweep_orphan_blobs_sync` |
| `SealCheck`, `SealCopy`, `SealReplace`, `SealGivesUp` | `seal_legacy_blobs` with `seal_file_in_place`: the two opens of the path, the rename, any error |
| `ReadName`, `ReadOpen`, `ReadClose`, `ReadEnds` | `read_raw` and `read_attachment` under the lock, then `read_blob` |

What is abstracted. A blob is its digest, so two contents never share a name. Temporary
files (`.tmp`, `.sealing`) have names no row can have; the sweep removes them and they
are left out. What a reader has opened it reads as it was, since replacing is by rename
and a plain write fills only a file no row refers to. The thread may look at any file at
any time, and more often than its one pass per start. A start with a key that did not
seal the store is refused before it changes anything and is a stutter. Reading the queue
of a start and the sweep is one step: nobody else runs yet. One process has the data
directory, and a file operation that returned is on disk: a power failure that undoes it
is not modelled.

### WebhookDelivery

| Variable | In the code |
|---|---|
| `hooks` | table `webhooks`: address, enabled, filters by inbox, pod and type, secret |
| `log`, `rows` | tables `mail_events` and `webhook_deliveries` |
| `emitting` | how far `record_event` has come: the row, the lookup of enabled webhooks, a task per match |
| `tasks` | the `deliver_one` tasks: the copy of the webhook, the attempt, the outcome |
| `requests` | a route between reading a webhook and writing it back |
| `posts`, `born`, `spent` | history and bounds |

`CreateHook`, `ReadHook`/`PatchHook`, `WriteHeaders`, `DeleteHook` and `CheckScope` are
the routes, globally and for one inbox; `StoreEvent`, `MatchHooks`, `Dispatch` are
`record_event`; `Screen`, `Post`, `Note`, `Retry`, `GiveUpOn` are `deliver_one` with its
backoff; `CrashService` loses every task. A webhook is written back as a whole row. Ids
are uuids, so a deleted webhook's id is not made again while a copy of it is in flight.
A filter axis is the set of values it takes; an empty set takes everything.

`EventDelivery` is what an owner sees of this: `told` (the log), `rows` and `posts`, with
no webhook, request, lookup, task or crash. `WebhookDelivery` implements it with its own
`log`, `rows` and `posts`: `StoreEvent` is `Tell`, a `Dispatch` that makes a row `Begin`,
`Post` `Attempt`, a `Note` that is written `Deliver` or `WillRetry`, a `GiveUpOn` that is
written `GiveUp`; every other step, and every failing write, stutters.

### RealtimeStream

`stored` and `published` are the event log and what was sent on the broadcast channel, of
which the newest `Capacity` values are kept; `client` is the task of each WebSocket with
its subscription and its place in the channel. `StoreRow` and `Publish` are the two steps
of `record_event`; `Connect`, `Subscribe`, `Turn` (forward, or skip what was lost) and
`Disconnect` are `handle_realtime_socket`. A filter is the set of events it takes.

### MessageMarks, SearchScan, MailRegistry, Conversations

`MessageMarks` has the rows of one thread (labels, read mark, time of opening) and the
requests that change them: a pixel open, labels and read marks of a message or of its
thread, and deletes of both. `Look`, `Copy` and the `Write...` actions are the store calls
of each handler; the row in hand may be old by the time it is written.

`SearchScan` reads the filtered rows newest first in batches (`ScanBatch`, with the
offset and the two limits), reads the ids it found again (`ReadFound`), and lets rows be
inserted, removed and trashed in between. A row's columns are opened one by one until one
holds the needle, so a row can match (`Matching`) that does not open whole (`Opening`): it
counts toward the limit, is left out of the final read, and nothing takes its place.
`shifts` counts the rows that left the filter at or before the offset.

`MailRegistry` has inboxes, pods and one domain: `CreateInbox` and
`LookUpPod`/`InsertPod` with client ids, `PatchInbox`, `DeleteInbox`, `DeletePod` with
what they clear, `ReadDomain`/`WriteDomain`, and `Reopen`, which makes the unique index
once the duplicates of an older version are gone.

`Conversations` is one inbox's messages with their references and threads: mail that
arrives with any headers, `Reply`, `ReplyAll`, `Forward_cv`, `Send_cv`, `SendDraft` with
the recipients and headers each computes and the checks it passes, `Handed`/`NotHanded`
(the relay), a block list that changes between check and hand-over, trash and deletion,
and the thread lists as operators. An address is a value with a lower-case form. A
Message-ID is stored with its angle brackets or without: those this code makes have them,
those of Core are as it answers them, and what is read from an incoming mail has none
(`Bare`), of whose References one is taken. Threads compare ids as they are stored.

### HostCalls, SidecarHandoff, PeerProof

`HostCalls` is one request to Core per call, of nine kinds, each with its own checks
(sizes around each limit) and its own reading of the answer: `Answered` and `Lost` are
Core's side, `Returns` what the caller is told. The model stream is a wire of lines,
returns and newlines that arrives in any chunks; `DrainFrame` is the loop over frame
boundaries, which are two newlines on end: a stream whose lines end with a return and a
newline has none.

`SidecarHandoff` has runs of the sidecar that start on ports, publish a handoff file with
a token of their own, load it again to withdraw it, and stop or are killed, and a process
without a key that loads the file, probes the port and calls. `PeerProof` has clients that
ask a listener for a proof of a bearer before they send it, share one remembered proof
with a time to live, and see ports change hands while they wait. An impostor may relay the
challenge to a server on another port that has the token, as a proof is bound neither to
a connection nor to an address (the comment on `pin_localhost`), and any probe may come
back unreachable, a cut-off one included.

### ContentMigration, CompactionQueue

| Variable | In the code |
|---|---|
| `cells` | how each value of each planned column is stored: plain, escaped, sealed under a root, or foreign |
| `items`, `store` | the state table: a cursor per column, the record with what is owed |
| `residue` | where the files still hold earlier plaintext: `free` pages and the `slack` of used ones, from the time before `secure_delete`, and the rows whose old bytes the `wal` or a page it has not replaced yet holds |
| `proc`, `cipher`, `seal`, `work` | the process, its roots, the decision it made, the thread's place in the work |

`StartSealing`, `StartKeyless` are the open with its key check; `BeginPending`,
`BeginItem`, `SealBatch`, `EndItem`, `MigrationDone` the migration; `Checkpoint`, `Scrub`,
`Vacuum` with their refusals what it owes; `Write` and `DeleteRow` the requests beside it,
which leave the old bytes of a plain row behind as a sealing batch does;
`Exit`, `WorkFails`, `MigrationFails` what can go wrong between any two transactions.
`CompactionQueue` is the process-wide queue of jobs that are too large for an open, its one
worker thread and the maintenance actions that drain it too.

### KeyCustody

A key is in a slot (`env`, `keychain`, `file`, `legacy`), in the retired vault (`folder`:
index and material), and named by the record. `Ladder...` is `load_master_key_guarded`,
`Settle...`, `Recover` and `GiveUp` the comparison with the record, `Retire...` the vault,
`Adopt`, `Import`, `StoreCurrent`, `RetireKey`, `RemoveRetired` the commands. `Stop` ends
any of them between any two writes, and the keychain locks and unlocks (`Lock`). The
check value of a key stands for the key.

### SealedLog, SealedFile, VectorCache

`SealedLog` has the frames of an append-only log (whole, short or garbled), what of them
is durable, the writer, and the compacted file at its final name; `PowerFails` keeps what
was synced, some of what came after, and perhaps a torn frame. `SealedFile` numbers the
plaintext bytes, so that the chunk arithmetic of the writer, of ranges and of seeks is
computed and not assumed, and lets the file be cut anywhere before it is opened.
`SyncedLog` is what the log promises: `entries` is what a scan of the file finds, `synced`
`committed` while no writer has gone on behind a failed append (`damaged`), `copy` what a
scan of the compacted file finds. An append that is written whole is `Add`, a sync `Sync`,
a power failure or the cut of a torn tail `Lose` (perhaps of nothing), a compaction
`MakeCopy`.

`VectorCache` is the memory budget that all vector indexes share, with evictions, failed
and overlapping hydrations.

### SealedValues, PluginSecrets, SharedStore, SecretConfig

`SealedValues` says for each cipher what it opens, refuses and passes through, by the
form of the envelope, its key and its place: cryptography is ideal. `PluginSecrets` is the
start of the mail process (key delivered, derived, generated, or none), what it pins and
records and which secrets it reseals, with exits between any two writes. `SharedStore` is
one store opened by processes with the key, without one and with another one.
`SecretConfig` is a configuration file with sealed fields, the masked round trip through a
client, and secret files, over roots that are replaced.

## Properties and runs

Passing runs; each property's comment in its module says which behaviour it is about.

| Run | Bounds | Properties |
|---|---|---|
| `DraftSend_claims` | one draft, two requests at a time and four in all, two contents, one key, one fault, two instants | `TypeOK`, `ClaimIsExclusive`, `SendsTheClaimedRow`, `StatusAgreesWithRelay`, `SchedulerNeverRepeats`, `NeverResent`, `ImplementsSendKey` |
| `DraftSend_liveness` | two drafts and a row that never opens, polls of two | `DueDraftIsHandled` |
| `Inbound_posts` | two mails with one Message-ID, two handlers, stamps 1 and 6, window 1, retention 5, clock to 6 | `TypeOK`, `ReplayStoresNothing`, `OneLiveCopy`, `AnsweredWasStored` |
| `Blob_files` | three messages in two inboxes that share a blob, three starts, one reader, one fault, one short write | `TypeOK`, `CommittedIsWhole`, `OrphanIsExpected`, `ReadFailsOnlyIfDeleted` |
| `Sealing` | see below | `TypesOK`, `MigrationLeavesNoPlain`, `MigrationFinishes`, `DeferredIsTaken`, `CommittedLogOpens`, `ImplementsSyncedLog`, `ReadsAreExact`, `CacheFits`, `SealedStaysOpenable`, `SecretsOpen`, `SharedStoreIsSound`, `SecretsSurvive` |
| `Service` | see below | `TypesOK`, `InboxHookKeepsItsInbox`, `ImplementsEventDelivery`, `DeliveriesSettle`, `DeliversItsSubscription`, `MarksHold`, `SearchIsRight`, `RegistryIsUnambiguous`, `ConversationsHold`, `HostIsReported`, `HandoffOpensItsRun`, `BearerIsProved` |

Why the bounds are enough for the cases to happen:

* `DraftSend_claims`: two requests and the scheduler are three actors that can each be at
  any program point, which is every pairwise race with a third party; four requests let a
  draft be created, scheduled, sent, and acted upon twice more.
* `DraftSend_liveness`: the property needs fewer unreadable due rows than one poll takes
  (16 in the program, two here), as `list_due_drafts` applies its limit before it drops
  rows that do not open.
* `Inbound_posts`: the retention is the least `RetentionCovers` allows, and the clock runs
  long enough for a tombstone of the first timestamp to be pruned by a post of the second.
  The state constraint `Focus` keeps the product small: behaviours follow one mail over
  the whole time, or two mails (and the fault) while the first timestamp is in its window.
* `Blob_files`: either deletion can be of the last reference or not, and the starts make a
  store without a key, then with one, then without again. Except the blobs in `cut` and
  `raced`, which hold exactly what the two faults described below break, its first two
  properties are unconditional.
* `Sealing`: a column of two rows and one of one row, a row per transaction, over two
  starts, with one write, one fault and a rotation of the root; two stores that defer
  three jobs; four appends with two faults; files of up to five bytes in
  chunks of two, so that the last chunk is short, full or the only one; two vector
  indexes with a budget that holds one of three; three starts over two secrets and two
  master keys; three processes with the key, without and with another; a configuration
  over a replaced root. In its custody part, two processes are every pairwise race of
  two ladders or of a ladder with a command that follows it, in any folder with at most
  two slots taken; the second of the two starts or commands may also find the folder as
  the first left it, or as its exit did; the operator's key makes the environment and
  the slots differ; with one retired entry the index is full at the second. Its steps
  are those of `CustodyNext` that keep `MakersAgree`, the condition of the theorem; what
  that excludes is the run `Custody_makers`.
* `Service`: one webhook, two events of two inboxes, patches that widen and narrow, two
  attempts; a stream client behind a channel of two of three events; two messages and two
  requests at a time over a thread limit of one, so that a thread can be longer than its
  listing; four mails in batches of two with a scan limit that is no multiple of the
  batch, one of which matches on its subject while its text does not open and one the
  other way round; two duplicate inboxes of an older version; streams of up to six lines,
  returns and newlines cut into any chunks; two overlapping runs; two clients of one
  cached proof; three mails of one inbox. The state constraint `Explored` keeps the
  product small: the webhook part has one failed store call or crash, which one of the two
  events meets (`OneMishap`); mails are trashed and deleted and the block list changed in
  conversations whose ids are all stored bare, and nothing follows such a change once
  there are three mails (`EditsAmongBare`); wires with returns have five symbols, of deltas
  only, and those of six symbols only deltas, end markers and newlines (`FewLines`). One
  request to the webhook routes is under way at a time: that two overlapping patches keep
  an inbox's webhook in its inbox is shown by the theorem, not by the run.

`RetentionCovers` is stronger than what the program asserts at compile time (a retention
of more than two windows): it adds twice the correction of the clock and the slowest
post. With the program's 300 s and 86 400 s that leaves 85 800 s for the two, as the
comment on the constant intends ("a day leaves room for clock corrections").

Constants named `Max...` cap counters of requests, faults, starts, writes and the clock;
`PollLimit`, `ThreadLimit`, `Batch`, `ScanLimit`, `Limit`, `Capacity`, `MaxAttempts`,
`MaxRetired`, `Ttl`, `SummaryMails` and `MaxRecipients` are parameters of the program.
Deadlock checking is off because a behaviour ends once its requests, starts and ids are
used up; the system itself may be idle for ever.

Fairness:

* `DueDraftIsHandled`: weak fairness of the scheduler's own steps. Its loop has no exit
  and sleeps five seconds between polls, every store call returns, and a hand-over ends
  within `SEND_TIMEOUT`. Nothing is assumed of owners, clients or the clock.
* `DeliveriesSettle`: weak fairness of each delivery task, which tokio runs and whose posts
  have a timeout. It says nothing of a process that stops or a store that fails the last
  write.
* `MigrationFinishes`: weak fairness of the thread that migrates. Nobody promises that the
  process is started again, so an exit ends the obligation.
* `DeferredIsTaken`: weak fairness of the worker thread, once it started.

### Where the code and its comments disagree

Six runs expect a violation; each quotes the line it contradicts in `PROJECT.json`.

* `DraftSend_restored`: `send_draft` says that every failure other than an unresolved
  keyed one "is decided before or by the transport refusing the message", and restores
  the draft. Without a key, a timeout or a lost answer after acceptance, or a failing
  `insert_message`, is such a failure too, and the draft is sendable, or scheduled, again.
* `DraftSend_parked`: `send_draft` reads whether the draft is parked before it claims it.
  If the scheduler parks the draft between the two, a refused request restores it as
  `scheduled` with a past time and the scheduler sends it, which `fail_scheduled_draft`
  says cannot happen.
* `Blob_twice`: `seal_file_in_place` opens the path once to see that the file is plain
  and once to copy it. If between the two the last message with that content is deleted,
  its file drained, and the content stored again sealed, the sealed file is sealed again
  and replaces itself; `read_blob` then fails the digest of a committed message for good.
* `Blob_short`: without a key `write_private` fills the file under its final name. If
  that fails half way the file stays, and the retry of the insert takes it for the blob,
  because the path exists, and commits a row that refers to it.
* `Custody_makers`: `load_master_key_guarded` reads a key back after it stored it and
  records it, but nothing holds the keychain between two first starts. Both find it empty
  and make a key; the first stores, reads back, records and seals, then the second stores
  its own over it, and the key that values are sealed under is in no place any more.
* `Content_rotated`: `open_with_sealer` never calls `reset_items`. A migration that stops
  half way and is finished under a rotated root moves the record to that root although
  the columns finished first are sealed under the retired one.

Met while modelling, and without a run of their own (the models do what the code does):

* Webhooks: concurrent patches write back whole rows, so a lost update can restore a
  rotated secret, and deliveries in flight sign with the copy they have. Removing the last
  inbox id of a scoped webhook through the global route widens it to every inbox. A row
  whose loop a refused destination ended claims `MAX_ATTEMPTS`. A pending delivery is not
  resumed at the next start.
* Inbound: a timestamped delivery that is answered as a duplicate, because the mail was
  stored from an earlier post with another timestamp, writes no tombstone. Once the
  message is deleted a copy of that delivery is stored while its timestamp is in the
  window, which the comment on the table (`store.rs:872`) reads as excluded.
* Messages: overlapping pixel requests each record `message.opened`; label updates can be
  lost; `delete_thread` answers ok with messages past its limit left; the final read of a
  search does not filter the trash again, and rows deleted meanwhile can hide others. A row
  that matches on its subject or an address before its body is opened takes a place among
  the results, is dropped by the final read if the body does not open, and leaves the page
  short.
* Threads: an answer to a mail that the inbox sent can land in a thread of its own, as the
  sent row keeps its id in angle brackets and those of the answer's headers are read
  without, and so can one whose References name several mails, of which one is read. A
  reply to a mail with In-Reply-To but no References starts a new thread;
  draft sends carry neither thread nor In-Reply-To; `thread_view_sized` is given the
  messages newest first, so its last message, subject and update time are the oldest's;
  rows of an older version without a thread are listed and answer 404; reply-all keeps
  the inbox's own address when its lookup fails, and keeps duplicates; replies ignore
  Reply-To, and a reply to one's own mail goes to the inbox itself.
* Registry: an inbox's pod id is not validated; a domain patch can undo another one.
* Custody: `install_current` with a keychain that is read but refuses the write overwrites
  the key file (`clobbered`).
* Sealed files and logs: a writer that goes on after a failed append leaves the log
  damaged in its middle (`continued`); a create that is killed leaves a stub that neither
  create nor open accepts.
* Vector cache: an upsert between the read and the publication of a hydration is missed;
  totals do not shrink on hydration.
* Secrets: values under a retired plugin subkey or component key are never reported for
  resealing; a killed first start leaves a root file that no later standalone start
  accepts; a standalone start on a store with values of the older scheme pins a root and
  then refuses.
* Handoff and host: a run that withdraws its file can remove that of a run that replaced
  it between the load and the removal; the client does not compare a body with its
  content length; frames parted by a return and a newline never end, and such a stream is
  reported as one that broke off; `host.rs` ignores `RYU_BIND` and takes a port that does not parse.

## Proofs

Eight modules hold theorems; each holds for every value of the constants that satisfies
the named `ASSUME` of the component's module, which TLC evaluates on the values of every
run. Hardly any of the invariants is inductive alone, so each component has an inductive
invariant, made of named parts (`IInv`, `RegistryInv`, `LogInv` and so on), with one lemma
per action or group of actions that preserves it. TLC checked each property before its
proof was attempted.

### Drafts, inbound mail and blobs

`DraftSend_proofs` proves every safety property of `DraftSend_claims`, under the
assumptions of `DraftSend`: the sentinels are not values,
`Scheduler` is not a handler, unreadable rows are drafts, bounds are naturals, and there
is some content. Draft, key, handler and content sets may be infinite.

| Theorem | States |
|---|---|
| `TypeCorrect` | `Spec => []TypeOK` |
| `ExclusiveClaims` | `Spec => []ClaimIsExclusive` |
| `ClaimedRowIsSent` | `Spec => []SendsTheClaimedRow` |
| `OneDeliveryPerKey` | `Spec => []KeyDeliversOnce` |
| `AcceptedKeyedDraftStays` | `Spec => []KeyedSendNeverResendable` |
| `SchedulerHandsOverOnce` | `Spec => []SchedulerNeverRepeats` |
| `SentIsBacked` | `Spec => []SentWasAccepted` |
| `StatusesAgree` | `Spec => []StatusAgreesWithRelay`, which is `KeyedSendNeverResendable` and `SentWasAccepted` |
| `FinishedDraftsStayFinished` | `Spec => NeverResent` |
| `KeyRefinement` | `Spec => ImplementsSendKey` |

None of these is inductive alone. The inductive invariant `IInv` joins them with what the
program points say: `JobInv` (which locals are set where, and that the scheduler carries
no key and restores to `failed`), `KeyInv` (a keyed sender between its claim and its
completion is the only one under that key, the claim row is its own and pending, and the
relay took the message exactly if it is past the transport), `KeyedOwnerInv` (the owner
of a draft whose keyed send was accepted has a claim row for its key, so the recheck
cannot restore the draft), `AutoInv` (a draft the scheduler handed over is in no status
it could claim) and `SentInv` (an owner about to mark a draft sent has an acceptance, or
a stored response, behind it). The argument is one lemma per action and conjunct that the
action can disturb; the `Effect` lemmas state what an action does to `job` and `pc` once,
so that the others need not expand the record of locals.

`NeverResent` and the refinement follow step by step from `IInv`: in a step that would
move a finished draft, the mover would have to be an owner of it.

`InboundDelivery_proofs` proves the four invariants of `InboundDelivery` for all values
of the constants that satisfy its assumptions.

| Theorem | States |
|---|---|
| `TypeCorrect` | `Spec => []TypeOK` |
| `ReplayHarmless` | `Spec => []ReplayStoresNothing` |
| `AnswersAreStored` | `Spec => []AnsweredWasStored` |
| `OneCopyStored` | `Spec => []OneLiveCopy` |

For the replays the inductive invariant bounds, for every post in hand, the latest time
the clock has shown: at most its timestamp plus the window, the correction and the
holding time (`PostInv`). Past that time the delivery is `Expired`. `TombInv` says that a
stored delivery either has a finished tombstone whose `seen_at` is at most a window and a
correction older than its timestamp, or is expired. A claim prunes with a clock that is at
most `high`, so by `RetentionCovers` a tombstone it removes is of an expired delivery
(`PruneKeepsGuard`), and no post of that is in hand (`ExpiredNotInHand`). `StoredInv`
carries the answers: whatever can answer a post as a duplicate, a live message or a
finished tombstone, is of a mail that was stored.

`BlobStore_proofs` proves the four invariants of `BlobStore` for any messages, blobs,
inboxes and readers, finite or not.

| Theorem | States |
|---|---|
| `TypeCorrect` | `Spec => []TypeOK` |
| `CommittedStaysWhole` | `Spec => []CommittedIsWhole` |
| `OrphansExpected` | `Spec => []OrphanIsExpected` |
| `DownloadsSucceed` | `Spec => []ReadFailsOnlyIfDeleted` |

The rows and the files are tied together by `PresentInv` (every blob of a committed row
and every blob the insert has dealt with has a file, and it is not the one being filled)
and `FormInv` (a short file is in `cut` or being filled, a doubly sealed one in `raced`,
a sealed one means that the store has a key). `SealInv` does the same for what the
sealing thread holds, and needs `LockInv`, which says in which mode and under which task
each program point can be. `DoneInv` says of the drain that the entries it is about to
delete have a row, or no file, or one the sealing thread put back, and `OrphanInv` that a file without a row is queued, stray
or `Written` by the insert under way, which is narrower than the property and is what
survives a failing insert. `ReadInv` carries a download from the row to the digest: its
message is gone for good, since ids are not reused, or what it opened was whole.

### The other components

The proofs of the other components are kept in four modules, by subject: a proof module
extends the modules of its components, which share no variables, and `Selection_proofs`
where it needs it.

| Module | Component | Theorems | States |
|---|---|---|---|
| `Mailbox_proofs` | `MailRegistry` | `RegistryTypeCorrect`, `RegistryLeadsToOneRow` | `RegistrySpec => []` of `RegistryTypeOK`, `RegistryIsUnambiguous` |
| | `MessageMarks` | `MarksTypeCorrect`, `MarksAlwaysHold` | `MarksSpec => []` of `MarksTypeOK`, `MarksHold` |
| | `Conversations` | `ConversationTypeCorrect`, `ConversationsAlwaysHold` | `ConversationSpec => []` of `ConversationTypeOK`, `ConversationsHold` |
| | `SearchScan` | `SearchTypeCorrect`, `SearchIsAlwaysRight` | `SearchSpec => []` of `SearchTypeOK`, `SearchIsRight` |
| | `MCService` | `ServiceTypesCorrect`, `ServiceIsSound` | `Spec => []` of `TypesOK`, the conjunction of the safety invariants of the run `Service` and `RowTellsTheOutcome` |
| | | `ServiceDeliveryRefinement` | `Spec => ImplementsEventDelivery` |
| `Interfaces_proofs` | `WebhookDelivery` | `WebhookTypeCorrect`, `RowsAreHonest`, `InboxHooksAreConfined` | `WebhookSpec => []` of `WebhookTypeOK`, `RowTellsTheOutcome`, `InboxHookKeepsItsInbox` |
| | | `DeliveryRefinement` | `WebhookSpec => ImplementsEventDelivery` |
| | `RealtimeStream` | `StreamTypeCorrect`, `StreamDeliversItsSubscription` | `StreamSpec => []` of `StreamTypeOK`, `DeliversItsSubscription` |
| | `HostCalls` | `HostTypeCorrect`, `HostIsAlwaysReported` | `HostSpec => []` of `HostTypeOK`, `HostIsReported` |
| | `SidecarHandoff` | `HandoffTypeCorrect`, `HandoffIsConfined` | `HandoffSpec => []` of `HandoffTypeOK`, `HandoffOpensItsRun` |
| | `PeerProof` | `ProofTypeCorrect`, `BearersAreProved` | `ProofSpec => []` of `ProofTypeOK`, `BearerIsProved` |
| `Secrets_proofs` | `KeyCustody` | `CustodyTypeCorrect` | `CustodySpec => []CustodyTypeOK` |
| | | `SealedIsNeverLost` | `CustodySpec /\ []MakersAgree => []SealedStaysOpenable` |
| | | `UsedFolderIsNeverLost` | `CustodySpec /\ sealed # {} => []SealedStaysOpenable` |
| | `PluginSecrets` | `SecretsTypeCorrect`, `SecretsAlwaysOpen` | `SecretsSpec => []` of `SecretsTypeOK`, `SecretsOpen` |
| | `SharedStore` | `SharedTypeCorrect`, `SharedStoreStaysSound` | `SharedSpec => []` of `SharedTypeOK`, `SharedStoreIsSound` |
| | `SecretConfig` | `ConfigTypeCorrect`, `SecretsAlwaysSurvive` | `ConfigSpec => []` of `ConfigTypeOK`, `SecretsSurvive` |
| | `MCSealing` | `SealingTypesCorrect`, `SealingIsSound` | `Spec => []` of `TypesOK`, the conjunction of the safety invariants of the run `Sealing` and `NoJobIsStranded` |
| | | `SealingLogRefinement` | `Spec => ImplementsSyncedLog` |
| `SealedStores_proofs` | `ContentMigration` | `MigrationTypeCorrect`, `MigrationIsComplete` | `MigrationSpec => []` of `MigrationTypeOK`, `MigrationLeavesNoPlain` |
| | `CompactionQueue` | `QueueTypeCorrect`, `DeferredIsNeverStranded` | `QueueSpec => []` of `QueueTypeOK`, `NoJobIsStranded` |
| | `SealedLog` | `LogTypeCorrect`, `CommittedLogAlwaysOpens` | `LogSpec => []` of `LogTypeOK`, `CommittedLogOpens` |
| | | `LogRefinement` | `LogSpec => ImplementsSyncedLog` |
| | `SealedFile` | `FileTypeCorrect`, `ReadsAreAlwaysExact` | `FileSpec => []` of `FileTypeOK`, `ReadsAreExact` |
| | `VectorCache` | `CacheTypeCorrect`, `CacheAlwaysFits` | `CacheSpec => []` of `CacheTypeOK`, `CacheFits` |

With these, every safety invariant and every refinement of the passing runs is a theorem
of the specification of its component (for custody, under `MakersAgree`, see below), and
those of `Service` and `Sealing` also of the composition that the run explores. Two
invariants are stated by theorems only, as the runs check more: `RowTellsTheOutcome` is
what `ImplementsEventDelivery` says of a row in one state, and a stranded job of
`NoJobIsStranded` is one that `DeferredIsTaken` would miss.

#### The mailbox

Registry (`RegistryInv`): an answer is judged by what it named when it was given, so the
invariant keeps that the row it named still has that client id (`AnswersNameTheirRow`) and
that no two rows have one (`ClientsAreUnique`); a domain patch holds a copy of a row.

Marks (`MarksInv`): `JobOK` says of a request at each of its stages what it has in hand: a
listing, what is left of it, a copy that may be old. Every row only moves `Onward`: gone
stays gone and a time of opening stays, which is what an overlapping request relies on.
`MarksAreDistinct` says that a row that is not there is not a row.

Conversations (`ConversationInv`): a stored mail has the thread its headers name
(`ThreadsAreNamed`); what answers a mail names that mail's thread first (`Follows`), but
for an answer that cannot, where either names what it answers without References
(`CutShort`) or where an incoming mail answers one whose id is stored in another form than
it is read in (`AnswersFollow`); the request
between its checks and the hand-over still follows its parent and was checked by the list
it carries (`PostingChecked`), and each envelope is that of its row
(`EnvelopesNameTheirRow`). `ListedThreadsOpen` holds in every state that has this shape:
a page lists the newest mails of threads, largest first, so `Descending` gives it no key
twice and every key a head that is listed under it.

Search (`SearchInv`): `ExactSoFar` says that after n undisturbed rows `matched` is what
`Selected` keeps of the first n, at the end `NewestMatches`, of which the result has those
in `Opening`; and `FewMissed` that the rows which stayed, match, lie before the offset and
are not among the matched ones are at most `shifts` (`NoMoreThan`): an insertion moves the
scanned rows down, never a row not scanned up past the offset, and a row that leaves
before the offset moves one.

#### Interfaces

Webhooks: `Delivery` ties a task's attempt to the posts made and to what its row may say.
`Scoped` follows the filter of a webhook that one inbox's routes alone wrote through every
copy of it: the row, a request that read it, an event's matches, a task. The proof needs
that an id is not used again while a copy of its webhook is in flight, which is what the
guard of `CreateHook` says of uuids. For the refinement the same `Delivery` says that a
delivery with a task is open, and that what the task is about to write is how many posts
there were; only a step of a task changes a row or the posts, and a task ends with the
write that settles its row.

Streams (`StreamInv`): what is on the channel is in the log (`PublishedIsStored`), and the
last acknowledgement a client was sent is the filter it has (`FilterIsAcked`). With the
place in the channel that gives `NothingElseIsLost` one event at a time.

Host calls (`HostInv`): `CallOK` follows what Core did and what it answered. For the model
stream, `ReadUpTo` says that the bytes kept between chunks are the wire behind some place
p where the reference reader had an empty rest, and that what was handed on is what the
frames up to p tell, none of it terminal. A boundary in the buffer is then the end of the
reference reader's next frame (`ReadFrame`), a buffer without one means that the reference
reader ends no frame in it, and a chunk only makes the wire longer (`ReadAgrees`). The
reference is a recursive function of the wire; that it exists, and what it returns, is
proved by the least counterexample of a property of its places (`ReadExists`,
`ReadUnfolds`), without the induction theorems.

Handoff and proof: the file and what was loaded from it hold a token of some run
(`FileIsPublished`, `LoadedIsPublished`); a remembered proof was given at most one probe
before it was remembered (`CacheOK`) and a client's own since its probe began
(`FreshProof`).

#### Secrets

Custody (`CustodyInv`): any number of processes resolve at once, commands run with
everything stopped (`CommandsAlone`). `RunIsSound` says of each resolution or command at
each of its steps what has been done already, in a form that the others cannot undo: the
key it goes on with is held, what it overwrites or empties was indexed in the vault first
(`RetiresFirst`, `CopyIsWritten`), what it found in a slot is what whoever looks next finds
there (`IsChosen`, `FoundIn`), the record is what it read, or was written since by one that
chose the same key (`RecordIsRead`), and its retired keys cover the vault
(`KeepsTheVault`). As `Stop` may follow any step, that order is what the theorem is about.

The one thing that the code does not make true is that first starts which make a key at
once make the same one: the file path does (the first writer wins and the others read it
back), the keychain has no such step. `MakersAgree` says that of every state of a
behaviour, and is the hypothesis of `SealedIsNeverLost`; a behaviour without it is the run
`Custody_makers`. The hypothesis is met by every behaviour in which first starts do not
overlap, and by every behaviour, whatever overlaps, of a folder that has been used:
`UsedFolderIsNeverLost` proves that no ladder makes a key where values are sealed or a key
is recorded (`InUseInv`), so there it holds with no condition on the processes.

Plugin secrets (`SecretsInv`): every stored secret holds the text it was last given in
some form, and once a start is up each is of the current form under a key it holds
(`UpHoldsItsKeys`). Shared store (`SharedInv`): only a process that holds the recorded key
seals or migrates (`SealersHoldTheRecordedKey`), a row is its text plain, escaped or sealed
under that key, and what the cursor passed is sealed or late (`PassedRowsAreSealed`).
Configuration (`ConfigInv`): fields and files are what was typed, plain or under a root
that is still known, and the fields in memory are the typed ones, which is why a mask that
comes back may stand for what is stored. `PlacesAreDistinct` says that a field of the
configuration is no file of its own.

#### Sealed stores

Migration: the columns that are begun and the debt are recorded before anything is sealed
(`WorkIsKeyed`, `StartedIsRecorded`), so a process without the key can no longer write
plaintext in them; a column that is about to be marked holds none (`EndIsWhole`), which
rests on the cursor moving over rows in order, in batches whose last row is the greatest
of the rows taken; a column not begun has no cursor (`FreshHasNoCursor`), and what a
process may do follows from the recorded key (`ModeIsRecorded`). After the VACUUM only the
WAL can hold earlier plaintext (`VerifyIsWal`), until `Verified` truncated it. Requests
that write over or delete plain rows ahead of the cursor record no debt, which `ok` allows
of rows not passed; the batch that passes them runs under the debt its column recorded.

Queue (`QueueInv`): the types and `NoJobIsStranded`, which is inductive: the worker's last
look at the queue and the end of its flag are one step under the lock, so an owner that
pushes a job either finds the flag set, and the worker looks again, or starts another.

Log (`LogInv`): only the last frame may be torn (`TailOnly`), the committed records are
those of the first frames, all of them durable (`Covers`), and the writer knows what a
scan would find (`WriterKnows`). All three are stated for `~continued`, the exception the
property names. The refinement needs more, and of a damaged log too: a writer that was
told of no failure is at the end of a log that opens, one that was is behind a frame that
does not (`TailKnown`), and records are numbered as they are appended (`RecordsKnown`).
What a scan finds then changes only with a frame behind the last good one (`AppendScans`),
with a cut (`CutScan`, `PowerScans`), or not at all (`WholeScan`).

File (`FileInv`): chunk i holds the run of bytes that begins at (i - 1) * `ChunkSize`
(`ChunksAre`), the buffer is the run after the chunks, and buffer and bytes ahead make up
the plaintext (`WriterHolds`). A body of some size has one shape, and a file that was cut
has another number of chunks or another last length than the one whose last chunk is
marked, so it is refused. The arithmetic is that of `DivIs`, `DivMod`, `MulLess`.

Cache (`CacheInv`): the types and `CacheFits`, which is inductive once the totals can be
computed with: the weight of a cache from which victims are dropped, or one of whose
partitions grows, is the old one less or plus exactly that (`TotalSplits`,
`TotalWithout`, `TotalSame`). It needs finitely many indexes, partitions and vectors, as a
process has.

#### The compositions

`MCService` and `MCSealing` move one component at a time, so a step of the composition is,
for each component, a step of its own or none (`ServiceMoves`, `SealingMoves`). The
conjunction of the components' invariants (`ServiceInv`, `SealingInv`) is then inductive by
their step lemmas, and gives the type invariant of the composition, its safety invariants
and its refinements. `SealingInv` has `MakersAgree` too, which the custody part of `MCSealing`
keeps by construction: the condition of `SealedIsNeverLost`, no more. The fairness in
`Spec` is not used.

### Lemmas about the operators

`Selection` has the operators that queries and budgets are written with, by counting and
without recursion: the rows of an order that a condition keeps (`Selected`), the numbers of
a set in descending order (`Descending`), the sum of sizes over a set (`TotalOf`).
`Selection_proofs` proves what the other modules need of them: that the n-th number of a
finite set is one of it and the numbers are in order, that a selection is typed, holds
exactly the elements kept, splits over a concatenation and keeps the order of the list,
that a list in descending order has each number once, that totals add up over disjoint
sets, and the division of a length into chunks. `FirstExists` (a set of naturals that is
not empty has a least element) carries the arguments that would otherwise be inductions
over data.

Some assumptions on constants were made explicit for the proofs, each of which the
program satisfies: rows of different tables have different ids (`IdsAreDistinct`),
sentinels are not rows (`MarksAreDistinct`, `NoPartitionAssumption`), mails name addresses
(`AddressesAssumption`), and sets of messages, vectors, partitions and indexes are finite
(`MarksBounds`, `CacheBounds`).

### What is only model-checked

* `DueDraftIsHandled`, `DeliveriesSettle`, `MigrationFinishes` and `DeferredIsTaken`:
  liveness under fairness is out of the prover's reach, as is `ENABLED`.
* The properties of the six runs that expect a violation, which are false.

## Not modelled

* MIME parsing and composing: a pure conversion by a parser library.
* The release scripts: tooling. `next-version.mjs` numbers versions from tags it lists.
* Of custody, `copy_master_key_between_profiles`, which moves a key between data folders.
* Of the app events, the wording of notifications (`notify.rs`). Of the sidecar runtime,
  layout, branding, the MCP protocol's types and the library search. Of the process
  wiring, paths, ports and the HTTP set-up. Of the list and search routes, what they
  format.
* Power failures that undo a finished file operation of the blob store, and two processes
  with one mail data directory.
* The ciphers: `SealedValues` takes them to be ideal.

## What a next step would take

In this order: `copy_master_key_between_profiles` beside the resolvers of `KeyCustody`;
runs for the divergences listed above that quote a comment of the code; and an abstract
specification of what a mailbox shows (`MailRegistry`, `MessageMarks` and `InboundDelivery`
over one set of messages), for the components that are checked side by side to be
composed over shared rows.
