# A TLA+ model of bichon

Bichon is a self-hosted e-mail archive. It downloads the mail of IMAP accounts
(or takes it from imports and an SMTP listener), stores every message body and
attachment once in a content-addressed blob store, keeps the searchable
envelope of each message in a full-text index, keeps its settings in an
embedded database, answers readers according to their roles and views, exports
mail, and uploads consistent restore points to an object store. This directory
models the parts of it where interleavings, crashes and partial failures decide
whether mail is lost or shown wrongly, checks them with TLC on small instances
and proves central invariants with TLAPS for every instance.

Paths below are relative to `src/crates/`; `core/` stands for `core/src/`.

## 1. The system and how its parts interact

```
 SMTP, import ──> Ingest/Smtp/Import ─┐
 scheduler ──> SyncTasks ──> MailboxSync ──> dedup cache ──> queues ──> index ──> Queries ─┐
                  │ one download each │ UID watermark       Archive └──> blobs ──> Content ┴> Reading
                  │                   v                                BlobEngine          Export
 REST ──> Accounts (users, roles, accounts, tokens) ──> settings db (MemDb)     │
                                                                │               │
       write gate + backup run: pause, drain, copy db, blobs and index ─────────┘
       WriteGate, BackupWindow => AtomicSnapshot       BackupControl (configuration, schedule, records)
                     │                                         │
                     v                                         v
            BackupStore (objects, manifests, LATEST) ──> DataDir (restore, migrations, start)
```

| part | code | module | state |
|---|---|---|---|
| download task registry | `core/archive/imap/task.rs`, `core/common/periodic.rs` | `SyncTasks` | modelled, proved |
| write gate | `core/backup/gate.rs` | `WriteGate` | modelled, proved |
| backup run | `core/backup/manager.rs`, `prepare.rs` | `BackupWindow`, `AtomicSnapshot` | partly, proved |
| object-store backups | `core/backup/engine.rs`, `manifest.rs`, `retention.rs`, `backend.rs` | `BackupStore` | modelled, proved |
| backup configuration, schedule, records | `core/backup/config.rs`, `schedule.rs`, `model.rs` | `BackupControl` | modelled |
| settings database | `memdb/`, `core/database/manager.rs` | `MemDb` | modelled, proved |
| blob store | `blob/` | `BlobEngine` | modelled |
| IMAP download session | `core/archive/imap/download/`, `core/imap/executor.rs`, `core/account/state.rs` | `MailboxSync` | partly, proved |
| documents, blobs and their removal | `core/envelope/extractor.rs`, `core/store/`, `core/message/delete.rs`, `core/mailbox/delete.rs`, `core/retention.rs` | `Archive` | modelled, proved |
| message content, attachments, repair | `core/envelope/extractor.rs`, `repair.rs`, `core/message/content.rs` | `Content`, `Reading` | modelled |
| access control, search, lists, figures | `core/common/auth.rs`, `core/account/access.rs`, `core/store/tantivy/`, `core/dashboard/` | `Queries`, `Reading` | modelled, proved |
| accounts, users, roles, tokens, OAuth2 | `core/account/`, `core/users/`, `core/token/`, `core/oauth2/` | `Accounts` | modelled, partly proved |
| storage version, migrations, restore, admin tool | `core/migrate/`, `admin/`, `core/backup/restore.rs` | `DataDir` | modelled |
| batch export | `server/src/export/`, `cli/` | `Export` | modelled |
| SMTP and journal ingestion, import | `smtp/`, `core/import/`, `cli/` | `Ingest`, `Smtp`, `Import`, `Intake` | modelled |
| everything else | see section 8 | | left out |

Where the parts meet:

* `SyncTasks` shows that an account has at most one download at a time;
  `MailboxSync` relies on it and runs one session at a time.
* Downloads, imports and API calls write under guards of the gate that
  `BackupWindow` composes with the three stores (`BackupWindow` EXTENDS
  `WriteGate`). In `Archive`, `Accounts` and `Ingest` the gate is a fault: it may
  refuse a write.
* A backup window of the blob store (pause GC, seal, flush, list) is a process of
  `BlobEngine`; its `HashCurrent` is what the object names of a restore point rely
  on, and `BackupStore` takes the artifacts of a run as given.
* `BackupControl` EXTENDS `DataDir`: the configuration, the scheduler and the run
  records live in the server that `DataDir` starts and stops.
* `Reading` composes `Queries` and `Content`: `load_readable_with_access` decides
  which envelope is handed on, `Content` says what is put together for it.
* `Intake` composes SMTP sessions and an import, which share the gate, the
  deduplication cache and the index writer (`Ingest`).

## 2. Modules and code

**SyncTasks.** Every critical section of `task.rs` is a step. `busy_accounts`
and `manual_tasks` are the two mutex-protected maps, `manual_lock` is the mutex
of the second one while `cancel_manual_task` awaits a handle under it. `loop[a]`
is the periodic loop of an account (`SchedCheck`, `SchedClaim`, `SchedSync`,
`SchedReturn`; the drop guard's detached release is `SchedRelease`), `req[m]` is
`start_manual_task` (check, claim, insert) and `task[m]` the task it spawned.

**WriteGate, BackupWindow, AtomicSnapshot.** Every atomic access of `gate.rs` is
a step (increment, re-check, back out, give up at the deadline). `Outer` nests
an acquisition in the guard of another, which `delete_account_envelopes` does.
`BackupWindow` adds the three layers (memory database, blobs behind a queue,
index behind a queue) and the run: preflight, pause, drain, announce, one
preparer per layer, hand-over, upload, `RunScopedGuard::drop`; a panic or crash
may come anywhere. `AtomicSnapshot` has one step, a copy of the whole archive.
`BufferedSpec` lets the store of `pause()` become visible late, as a Release
store followed by an Acquire load of another location may.

**BackupStore.** The target of `engine.rs`: `objects`, `manifests` and `latest`.
A run uploads objects, then the manifest, then LATEST; the sweep selects what
`retention.rs` keeps, deletes manifests one by one, lists the rest again and
reclaims objects no manifest names; a restore point may be deleted by hand.
Objects are named by their content, so runs share them. Audit-log deltas are
half-open ranges of rows inherited from the previous manifest. Any call may fail
(`Abort`), and a listing may skip a manifest it cannot read.

**MemDb.** `data`, `pending` and `last_seq` are `Inner`; `wal` and `snapshot` are
the files. Commits in three durability modes, `flush`, the snapshot worker in
the four steps between which it frees the mutex, crashes between and inside
them, power loss, write and open errors, and `open` line by line. A log line is
a record or `Corrupted`; `unterminated` says that the file does not end in a
newline. `states` and `durable` are history: the state after every commit and
the last commit known to be flushed.

**BlobEngine.** A segment file is a sequence of cells, one for the header of an
entry and `Size[key]` for its data, so an offset into a rewritten or torn file
is what it is in the code: another entry, the middle of one, or past the end.
`meta` is `meta.bin`, `index` the redb table, `writer` the active segment's
writer. `put`, `delete`, the batches, `flush`, `get` (three steps: it takes no
lock before it reads), a GC pass in the steps between which the code frees its
lock or writes a file, the backup window, `shutdown`, crashes inside a call,
power loss, a failing append, a lost index, and `Engine::open` in two steps with
the scan, truncation and rebuild of `recovery.rs`. `load` is a mix of calls and
faults with its bounds, chosen at the start.

**MailboxSync.** `setup` is the account (its date range, what its messages carry,
the bounds), `rows` are the `MailBox` rows with the UIDVALIDITY and the UID
watermark, `state` is `DownloadState`, `queue` is the channel and the index
writer up to a commit, `dedup` the cache, `gapRun` the gap-fill run record.
`Start`, `List` and the visits of the three loops (`full`: initial download;
`trace`: reconcile; `missing`: new folders) and of gap-fill follow `flow.rs`,
`rebuild.rs` and `gap_fill.rs`; a visit makes a `job` (new mail, mail before a
day, by date, reconcile, gap-fill), whose batches are `FetchBatch`, `RetryBatch`
and `FailBatch`. Messages are told apart as the code does, by Message-ID and by
size and date. Around the session the server delivers, expunges and renumbers,
days pass, the user cancels, edits the date range, deletes mailboxes and asks
for gap-fill, and the process restarts.

**Archive.** A message is a document of the envelope index, documents of the
attachment index and blobs, handed to three background writers through channels
(`queue`, `attQueue`, `blobQueue`). Workers ingest, delete messages or mailboxes,
sweep by age, deduplicate, re-tag and repair; `lock` is the envelope writer.
`cleanup_unused_content` reclaims the blobs no committed document names, with the
lock held. The gate, the disk and the process may fail.

**Content.** A message is a tree of parts with an encoding each.
`strip_attachment_bodies` (and `StripLegacy`, the older format) replaces each
attachment by a placeholder and puts its bytes in a blob of its own;
`reattach_parts` is the way back; `retrieve_email_content`, the nested page and
the downloads are state functions of a document and the blobs. Blobs get lost,
the same mail is archived again, copies at the IMAP server are renumbered,
appended and deleted, and `repair_envelope_blobs` diagnoses, fetches the archived
body from the server and writes what is missing, against a backup window.

**Queries.** One signed-in reader. `permissions_allow`, the expiry of roles, the
scopes of view accounts and their filters; searches, thread lists, attachment
lists, tags, contacts, dashboard figures, export scope and single reads; between
requests mail comes and goes, roles expire, views are edited, the licence lapses.
The index query (`filter_query`) and the check on a stored envelope
(`ViewScopeGroup::matches`) are two definitions, as they are two in the code.

**Accounts.** Every request that administers accounts, users, roles, grants,
sessions, API tokens, second factors, OAuth2 applications and provider tokens is
a sequence of reads and writes of memdb rows. What it checks first is one step,
each later read or write a step of its own, `update_impl` two. The gate may
close, and the process may crash, between any two.

**DataDir, BackupControl.** `DataDir` is the data directory (version mark, files,
documents, blobs), the server's start (`check_data_status`, maintenance or
serving), both migrations and the restore step by step, each of which can be
killed, and the password reset of the admin tool. `BackupControl` adds the
configuration document, its cache and the migration of its older keys, two
administrators, the scheduler, a run with its record, deletions of restore
points, and a volume that may be unmounted.

**Export.** The registry of jobs in memory and their directories on disk, the
runner page by page, cancel, delete, the sweep by age, verification workers, the
reload after a crash, download tickets and the polling client.

**Ingest, Smtp, Import, Intake.** `Smtp` is `handle_connection` command by command
with the sender at the other end; `Import` is the upload with its temporary
file, the mbox, EML and PST readers and the command line client with its
batches; both hand messages to `Ingest`. A message is a short sequence of lines
classed by what they mean to the readers (plain, `.`, `From `, not UTF-8).

The `MC*` modules only give constants that a cfg cannot write down.

## 3. Runs

`pass` means that TLC explores every state of the instance and finds no error.

| run | instance | states | shows |
|---|---|---|---|
| `sync_tasks` | 2 accounts, 2 requests | 183k | one download per account; the busy set is exact; claims are released; cancel and stop return |
| `backup_window` | a write with a nested one, and another | 59k | the counter is exact; the window is quiescent; the gate is open outside runs and reopens; a run implements the atomic snapshot |
| `backup_store` | 2 files, 4 runs, 3 audit rows, 1 fault | 3.3M | every manifest keeps its objects and a whole audit log; LATEST resolves; the sweep keeps what the policy keeps |
| `memdb` | 2 keys, batches of 2, 2 crashes, all faults | 4.8M | recovery yields the state after some commit, not older than the last flush; retries do not lose flushed values |
| `blob_engine` | 2 keys, 5 loads | 1.7M | records point at their own entries; acknowledged puts and deletes hold; fsynced entries survive; gets and hashes are true |
| `mailbox_sync` | 1 mailbox, 2 messages, 7 accounts, up to 2 disturbances | 201k | the watermark hides nothing; one copy per message; a session drops nothing, stores nothing outside the range and tells the truth; everything is archived in the end |
| `archive` | 2 workers, 2 mailboxes, 2 documents, 2 events | 1.4M | no document loses its content; nothing is left behind; references resolve; only deletions remove, and none under a hold |
| `reading` | 144 grants and views, 1 change; 8 archives, up to 2 faults | 408k | lists, single reads, figures and exports agree; what is opened or repaired are the bytes archived |
| `accounts` | 2 workers, 3 requests of 6 mixes, a window, a crash | 1.4M | which references can dangle and which writes be lost, under which overlap only; the administrator stands |
| `data_dir` | 9 directories, 2 faults; 6 backup setups | 461k | only what is whole is served; the operator gets through; configuration, records and status card are true; runs end |
| `export` | 3 messages, 2 jobs, 2 events | 353k | a finished job tells the truth about its artifact; everything started ends and is cleaned up |
| `intake` | 28 loads, 2 faults | 610k | what is acknowledged is archived once, whole and in its place; every delivery and upload ends |

A run takes between half a minute and four minutes.

### Why the bounds are enough

The interesting cases need two of something. Two requests for one account meet
in the registry, and a second account shows that the lock of one does not touch
the other. Three acquisitions are the nested pair and one independent writer.
Two crashes are needed for the torn log line and for the rebuild of an index
lost at the first. Two keys and segments of four cells make a GC pass keep one
entry and drop another; two restarts put one crash inside the pass and the other
inside the recovery from it. Two messages with batches of one put a failure between
two batches. Four runs with two kept restore points give a chain with a manifest
missing in its middle and a day with two points. Two workers of `Archive` and
`Accounts` make every pair of requests overlap, and the third request of
`Accounts` comes after the pair has done its damage. One archived message and one
that comes in share a blob in `Archive`. Pages of one, with a third message that
comes or goes, move a message across a page boundary in `Export`; `Queries` asks
for pages beyond the last, page zero and a page above the limit. The fault
budgets (`MaxFaults`, `MaxEvents`, a load's or setup's own) are one budget for
all kinds of disturbance, so every pair of them is met. `HistoryLimit` 2 stands
for the 200 and 20 run records, `MaxCandidates` 1 for 32 and `PageLimit` 2 for
500: the limit is reached and passed.

Larger instances were run once and hold: `MemDb` with `MaxSeq` 3, `MaxLines` 1
(14.3M states), `BlobEngine` with faults, every call and segments of 3 (14M),
`BackupStore` with three files, two faults or a longer log (1M to 4.5M, and 6.4M
without symmetry). One of `Archive` (two archived messages, three documents) was stopped after 5.3M states
without an error. Symmetry is used for keys in `MemDb` and `BlobEngine`, files in
`BackupStore` and workers in `Archive` and `Accounts`; those runs check
invariants and properties of single steps only.

Deadlock is not checked where the system may rightly stop: the bounded runs end
when their budget of calls, crashes or messages is used up, and an account
without a loop or request is at rest. `backup_window` and `data_dir` are checked
for deadlock.

### Fairness

* `SyncTasks`: tokio runs spawned tasks, and a download ends because every
  network call has a timeout and bounded retries (weak fairness). `select!`
  picks among ready branches at random, so a stop signal is taken although
  ticks keep coming (strong fairness of `LoopExit`).
* `BackupWindow`: threads run and writes end. The deadline of an acquirer is
  absolute, so it gives up however often it retried (strong). `drain()` polls at
  every notification and every `RECHECK_INTERVAL`; refused attempts last three
  atomic accesses and then park, so `drain()` does not miss every quiet moment
  (`[]<>NoAttempt`, strong fairness of `DrainGate`).
* `MailboxSync`: the scheduler starts downloads of an idle account, a session
  goes on, and the writer task commits (weak fairness). Faults are bounded, so
  `EventuallyArchived` says what happens once they stop.
* `DataDir`: a started server and a started tool go on, and the operator restarts
  a server in maintenance, runs the migration it asks for and restores again into
  an emptied directory. The operator runs no migration under a serving server and
  starts no server on a directory a restore is writing. `BackupControl`: the
  threads of a request, the scheduler's tick and the task of a run go on.
* `Export`: the runtime runs its tasks, the sweep is periodic, an hour passes, the
  operator starts a server that is down and the client goes on polling; weak
  fairness of all of these together, since none can go on for ever on its own.
* `Intake`: sessions, workers, the commit task and the import go on, a backup ends,
  and the sender comes back with what was not acknowledged.

The properties of the other modules need no fairness.

## 4. What a property excuses

Each passing run carries all faults at once; where the code is known to lose
something a history variable records the cause, and the property excuses exactly
that. Removing an excuse makes TLC show the loss.

* `MemDb`: `glued` (an entry was appended to a torn line), `failed` (a log write
  returned an error; `RetriedSurvives` covers those states).
* `BlobEngine`: `happened` holds `disk_full` (a failed append leaves the writer's
  offset behind the file's), `power`, `short_offset` (an open after a compaction
  found an indexed offset short of the file), `stale_hash` (a crash between the
  rename of a compacted file and the save of its metadata) and `half_rebuilt` (a
  crash between the metadata and the index of a rebuild, or of the recovery from a
  `stale_hash`: the next open scans nothing). `stale_hash` excuses the hash only.
  `DurableSurvives` covers power loss while there is one segment only, because
  sealing does not fsync the file. `NothingReturns` and `GetReturnsOwn` leave out
  what a GC pass does to a delete or a get that overlaps it.
* `BackupStore`: `unread` (a listing skipped a manifest it could not read), `cut`
  (a deletion ended before it moved LATEST).
* `MailboxSync`: `lost` (documents a restart dropped from the queue although the
  watermark was stored: neither a crash nor a shutdown drains the channel);
  `passed` (messages outside the date range with a higher UID inside it); `holes`
  of a row (the UIDVALIDITY changed while the mailbox was empty, so `flow.rs`
  stores the new validity with the old watermark; gap-fill stores the listed
  validity with a watermark read at the start of the session, or failed on some
  batches of a mailbox without a watermark); `forgot` (messages older than the
  window from which the cache is filled at a start); a mailbox renumbered between
  search and fetch; a gap-fill cancelled within its last folder.
* `Archive`: `lost` (a blob write failed or was dropped, or a key was reclaimed
  while its document was not yet in the writer or was written back by a tag
  update), `leaked` (blobs left by deletions that had not seen a document, or
  were cut short), `blind` (cache entries made after the document went), `loose`
  (attachment documents a retention purge leaves), `stray` (messages on their way
  to a mailbox that is deleted), `failed` (mailboxes whose deletion was cut short).
* `Content`: `Damaged` and `Queued` (a blob was lost, or is not yet written),
  `Clash` (the older format kept one blob for all the encodings of a file),
  `Reformed` and `Miscounted` (section 5). A repair that is not complete is excused
  when a backup window refused the write, the message was hit again or deleted, or
  the record is of the older format.
* `Accounts`: each part of a property names the pairs of requests that may break
  it (`Raced`), the rows two `update_impl` met on (`clash`), or the crash or refused
  write. `AdminStands` excuses nothing.
* `DataDir`: `crossed` (the v0.3.7 migration run on a v1 install), `half` (a restore
  that had not reached its first segment), `again` (an interrupted v0.3.7 migration
  run once more). `BackupControl`: `crossed` (two saves merged into what each had
  read), `stale` (a document cached after a newer one was saved), `raced` and
  `confirmed` (the volume went during a run, or was absent when the target was
  saved), `moved` (the configuration changed under a run), `deleted`, `panicked`.
* `Export`: `write` (a write error that tokio reports late), `older` and `deleted`
  (messages that came or went between two pages), `raced` (a deletion met the
  runner or a crash), `renamed` (a user name changed hands), `twice` (two
  verifications at once).
* `Intake`: `lost` (a crash with documents queued), `crossed` and `dropped` (the same
  message in two sessions at once, or a session dropped before the cache entry),
  `eof`, `dot` (section 5), `left`, `batch`, `failed`.

## 5. Where the code departs from its text

Runs state what holds; this section records what was met on the way. The first
group can be checked: the definition is in the module.

* `SyncTasks!EntryIsLive` (constants of `SyncTasks.cfg`): a manual task ends before
  its handle is stored; the entry stays and blocks the account's later downloads.
  `RunningIsCancellable`: the clean-up of a manual task removes the entry by
  account, after the claim was released, and may remove the entry of the next
  request (`task.rs:239`).
* `BackupWindow!Quiesced` under `BufferedSpec`: `drain()` reads zero while the pause
  is still in the store buffer.
* `MemDb!FlushedSurvives` (constants of `MemDb.cfg`): the first entry after a crash
  is appended to the torn line and lost with it. `SnapshotNeverPartial`
  (`PowerLoss`): the snapshot is renamed without an fsync (`db.rs:289`).
  `FlushPersists` (`FileErrors`): after a failed reopen the log handle stays `None`,
  and `flush` succeeds without writing (`db.rs:296`).
* `BlobEngine!NothingLost` without the excuse `short_offset`: `gc()` sets
  `indexed_up_to_offset` to the sum of data sizes without the headers
  (`engine.rs:725`), so the next open truncates the compacted segment
  (`tests/acid_test.rs:343`: "All non-deleted entries must still be readable").
* `BlobEngine!HashCurrent` without `stale_hash`: after a crash between the rename and
  the metadata of a GC pass (`engine.rs:726`) recovery scans the shorter file and
  keeps the hash it had when it was sealed. `NothingLost` without `half_rebuilt`:
  recovery saves the metadata before the index (`recovery.rs:123`), and after a crash
  between the two the records of that segment are not written.
* `BlobEngine!NothingReturns` without its `gcs = 0`: phase 2 of a GC pass writes
  index records collected in phase 1 and undoes a delete between.
  `GetReturnsOwn` without its exception: a `get` that overlaps a compaction reads
  another key's entry. `ArtifactsStable`: a pass that began before
  `set_gc_paused(true)` still renames a listed segment. `TombstonesReclaimed`: index
  records of deleted keys stay. `NothingLost` with `Size <- OneEmpty`: a segment
  whose only live entry is empty counts as emptied and is removed. `OpenSucceeds`
  with the fault `torn_data`: a complete header with short data makes
  `Engine::open` fail.
* `BackupStore!Restorable` without `unread`: `load_all_manifests` skips a manifest on
  any read error, so the sweep deletes its objects (`engine.rs:644`, against "R6 — GC
  never over-deletes"). `LatestResolves` without `cut`: LATEST dangles.

The second group are consequences of the excuses of section 4, or facts noted
while reading.

*Downloads.* A folder's full download that breaks off returns `Ok(None)` and the
session is recorded as Success. A message outside a relative `before` range with
a later one inside is passed by the watermark and not fetched when it comes into
range; clearing the range does not fetch it either. `since` bounds the first
download and not the incremental ones, and gap-fill ignores the range.
`fetch_new_mail_with_before` and the reconciliation have no retry. Oversized
candidates of gap-fill are not counted as failed but keep the watermark back.

*Archive.* A retention purge leaves the attachment documents. A tag update that
read before a deletion writes the document back without its blobs. Deduplication
asks for no legal hold. Documents in the channel are dropped at a shutdown. A
message delivered again loses its content when the blob is reclaimed while its
document is in the channel. Compaction of the blob store drops a tombstone
although an older entry of its key may be in another segment, which a later
rebuild of the index brings back.

*Content.* A journal delivery counts attachments without the report its record
lists (`extractor.rs:331`), so a journalled message with attachments of its own is
answered with "Consistency check failed" and its repair with "failed". A lost
attachment of a record of the older format cannot be repaired, and its body
healed from IMAP gets placeholders the record does not know. A body whose blob is
missing is put together with holes, silently. A renumbered message without
Message-ID, or with more than `MAX_MESSAGE_ID_CANDIDATES` copies, is not found by
repair.

*Reading.* Figures include an ordinary account granted without `data:read`. Tag
lists use the reader without a reload. An empty `mailbox_ids` list matches
nothing while an empty tag list is ignored. Paging may skip a message when
another is deleted meanwhile. `update_attachment_tags` asks for no hold. Some
events (exported, tagged, restored) are emitted before the operation.

*Accounts.* `update_impl` reads and writes back without a lock, so two updates of a
row lose one and a row deleted in between comes back. An account may be created
without a manager when its creator has gone. `create_api_token` does not look the
user up. The callback of an authorisation stores a token for an account deleted
meanwhile, and `delete_by_oauth2_id` deletes the first token only. The upgrade of an old
password hash at a login may write an old password back. The deleting mark stays
after a crash or when the gate refuses the revert.

*Directory.* The server stamps and serves an interrupted restore, though a comment
says `initialize()` would refuse it (`restore.rs:620`). A v0.3.7 install without
messages or metadata does not leave maintenance. An interrupted v0.3.7 migration
that is run again writes its documents twice; marked as v1, the v1 tool refuses
it. A restore cannot be resumed. A password reset under a running server is
overwritten by its next snapshot.

*Backups.* The scheduler records the slot as served before it asks for the run
(`schedule.rs:84`), so a refused run loses the slot. A run's record takes its
destination from the configuration at the end, the run its target at the
request. Deleting a restore point leaves its record. A panic leaves a record
Running until the next start. A restored database holds the Running record of the
run that made the point, which the next start marks Failed.

*Export.* A cancellation after the last check is overwritten by Finished. A job
that runs for more than an hour is swept. Two verifications can start at once,
though a comment calls the start idempotent. After a restart a job belongs to
whoever has the user name. The client polls for ever when its job has vanished.
The verify endpoints are not routed in the community server.

*Intake.* A session over implicit TLS sends no 220 greeting, so a sender that waits
for it is dropped after a minute. Lines that are not UTF-8 end the session though
8BITMIME is announced. A line that is `.` after trimming ends the data, a closed
connection archives what had come, and 552 leaves the rest of the body to be read
as commands. Recipients stay after a 451 (`server.rs:416`, "A new transaction
always starts clean"). The temporary file of an upload is left on a stream error,
a failed look-up or a crash. A PST folder whose mailbox cannot be created is
passed over. The client reports success regardless. Body lines that start with
`From ` split a message of an mbox, and the export writes them unescaped.

## 6. Proofs

| theorem | states, for all values of the constants |
|---|---|
| `BackgroundProofs!TasksTypeCorrect`, `BusyAlwaysExact`, `DownloadsExclude` | types; `busy_accounts` is the set of claimed accounts; at most one download per account |
| `BackgroundProofs!CounterExact`, `CounterExactBuffered` | `in_flight` is the number of counted acquisitions, also with a store buffer |
| `BackgroundProofs!GateOpenOutsideRuns`, `CaptureIsQuiesced` | the gate is open outside runs; no guard and no queued blob while a preparer runs |
| `BackgroundProofs!BackupImplementsSnapshot` | a run implements `AtomicSnapshot` |
| `MemDbProofs!TypeCorrect`, `RecoveryIsAPrefix` | types; what `open` rebuilds is the state after some commit |
| `BackgroundProofs!StoreTypeCorrect`, `AlwaysRestorable`, `LatestAlwaysResolves` | types; no manifest is without one of its objects; LATEST names a manifest |
| `BackgroundProofs!AuditAlwaysWhole` | a restore point's baseline and deltas give every audit row up to its cursor once |
| `ArchiveProofs!ContentAlwaysPresent`, `BlobsAlwaysReclaimed` | a document has its content; a blob has a document, or an operation that will index or reclaim it |
| `ArchiveProofs!ReferencesAlwaysResolve` | cache entries, attachment documents and mailboxes refer to what exists |
| `ArchiveProofs!OnlyDeletionsEverRemove` | committed content leaves the index only by a deletion that asked for it, and that a legal hold did not forbid |
| `ReadingProofs!ListsAgreeShown`, `NothingBeyondShown` | a list shows what can be opened and, unfiltered, all of it; its pages cover it; tags, contacts, figures and exports come from nothing that is kept from the reader |
| `ReadingProofs!ReadingAsks`, `ReadingAgrees` | `Reading` implements `Queries`, so both hold while content is opened and repaired |
| `MailboxSyncProofs!WatermarkAlwaysCovers` | the UID watermark never passes a message that was not fetched |
| `MailboxSyncProofs!OneCopyAlways` | a mailbox holds one document per e-mail |
| `AccountsProofs!AdminAlwaysStands` | the default administrator keeps row and role, the role its permission |

*Downloads.* `MutualExclusion` is not inductive: it needs to know that a download
under way holds the claim and that nobody else can take it. `BusyExact` is that
strengthening (one claimant per busy account, counting the detached release),
and with `TasksTypeOK` it is inductive.

*Backup window.* The counter's invariant is that `in_flight` is the cardinality of
the set of counted acquisitions (finite by `AcquirersAssumption`). From it,
`drain()` returning means that no guard is held; the gate being paused keeps it so
until `HandOver` (`WindowInv`). The refinement maps the archive to the three
layers, the index with its queue, since the index preparer commits what is queued
before it copies; the invariant adds that every layer captured so far equals its
live content. The proof is for interleaving semantics (`Spec`); `CaptureIsQuiesced`
fails under `BufferedSpec`.

*Object store.* `Restorable` alone is not inductive: while a run uploads, every
object of its draft is in the store or still to do; while a sweep runs, nothing it
is about to delete is named by a manifest that every listing could read; and the
sweep keeps the manifest LATEST names. `OperationInv` says this for each place of
the operation, and `StoreInv` adds `TypeInv`, `Restorable` and `LatestResolves`. One
operation runs at a time (the run lock), so a draft's objects are not swept.
`AuditWhole` needs one more fact, that a run commits what was delivered for the
restore point it inherits from (`Delivered`): that one is neither deleted nor
expired meanwhile, and its deltas end where the new one begins.

*Download sessions.* A watermark is written long after the messages below it were
fetched, from a copy of the row taken when the session began, while the server goes
on changing. `IInv` says what holds at each place of a session. `RowsInv`, `UpdatesInv`
and `LocalInv`: every row, every row about to be written and every copy promises its
watermark; a row without one promises it of the highest document instead, because
the next sync starts from there (`StartUid`). `JobInv`: the UIDs a download has yet to
fetch ascend, and up to its top they are all that is missing, so a batch may be taken
off the front and the last batch makes the top a watermark. Both speak of one
UIDVALIDITY only; `Epochs` orders the numbers rows, listings and downloads carry and keeps
the synthetic ones apart, so a number that equals the server's was read under it.
What a message counts as fetched by must survive a crash (`Good`): it is in the
archive or recorded as lost, or a message it is taken for is committed. `OneCopy` needs
that the cache holds what was archived under any UID (`CachedInv`), that the server
numbers a message once (`ServerInv`), and that queue and index do not overlap
(`Single`). That a set of UIDs has an ascending enumeration, and that the highest of one exists, are arguments by
the least counterexample (`AscendingExists`, `TopFacts`). `MailboxSyncFacts` holds the invariant,
the facts about its operators and the steps outside a download, `MailboxSyncVisits` the
planning of a folder and the copies, `MailboxSyncProofs` the batches and the theorems.
TLC has checked `IInv` on the instance of the run and on two more.

*Archive.* The runs' invariants name documents, blobs, cache entries and mailboxes,
and between two steps of an operation they hold because of what that operation is
about to do. `IInv` says it for each: a blob without a document belongs to a message
about to be queued, to the keys the deletion that holds the writer has collected, or
is recorded as leaked (`Owned`); a key somebody needs is stored or recorded as lost
(`Backed`); an entry of the cache, an attachment or a mailbox without its document or
row is one that a deletion at that very step will take away (`Leaving`, `Clearing`,
`Emptying`). `OpInv` keeps what a deletion carries from step to step: what it saw is
what its query picks, and it has the keys of all of that. `WriterInv` (a deletion that
holds the writer has committed what was buffered) is why its reference count sees
every document but those in the channel. `OnlyDeletionsEverRemove` also needs that of
equal entries deduplication keeps the newest, whose existence is an argument by the
least counterexample (`NewestStays`). TLC has checked `IInv` on the instance of the
run.

*Settings database.* The inductive invariant is `TypeOK` and, unless `glued` or
`failed`, `Sound`: every readable line leads from the state before its commit to
the state after it, lines are in commit order and without a gap above the
snapshot, only the last line may be torn, the snapshot and the worker's copy are
states of the history at their `last_seq`, the pending entries are the last
commits and the log ends where they begin, and the last durable commit is in the
snapshot or in the log. Replay is modelled line by line, and during it the
invariant says that the lines read so far lead from the snapshot to `data`; so
no induction over the log is needed.

*Reading.* An answer is cleared by every change, so its truth (`AnswerTrue`) is a
fact about each request in the state it is asked in; it needs only that account
rows and roles are well-formed (`DirectoryInv`, from `IsDirectory`: the program stores
no global role that carries `data:read`, see `validate_role_permissions`). At its
core are two lemmas: the clause a view contributes to the index query accepts a
message just when `ViewScopeGroup::matches` accepts the envelope, and a list's scope
is everything only for who may read everything. Paging is about several answers.
`WalkInv` says that as long as nothing but arrivals disturbed the walk, every
message of the list with a rank below the end of the last page was shown. A message
that arrives can only raise the ranks of others, and at the last page every rank
is below the end, because ranks are distinct numbers below the size of the list.

*Accounts.* No lock is held from a check to the write that relies on it, so
`AdminStands` is not inductive: what matters is what the requests in flight may
still write. `JobOK` says it for each place of a request: an edit about to be
written to the administrator's row has the administrator role if it has roles at
all; the row read before it has the role; no edit and no deletion under way names a
built-in role; no insertion or removal of a user names the administrator. Each
follows from a check made when the request began, and nothing another request does
in between invalidates it, since the checks look at ids that never change. A start
keeps the rows or makes them.

Assumptions are those named `...Assumption` in the modules: nonempty or finite
sets, bounds that are naturals, `None` and `Absent` outside the sets they
complement, attachment lists that are sequences, no worker called `"free"`, names
of requests that tell them apart, and tables of an earlier run
in which the administrator, if present, has the role (`LoadsAssumption`).

*Only model-checked:* every liveness property (fairness and ENABLED are out of
the prover's reach), `RetriedSurvives`, `RetentionKept` (the chain of manifests and
the sorted list of restore points are recursive data), the
properties of `Accounts` other than `AdminStands`, what a session records of itself
(`SessionsTrue` of `MailboxSync`), and all of `BlobEngine`, `Content`, `DataDir`,
`BackupControl`, `Export` and `Intake`.

## 7. What could come next

1. A proof of `IndexPointsHome` (`BlobEngine`). It needs an invariant over every place
   of every operation; TLC has checked the statement only.
2. An abstract archive (a set of readable messages) that `Archive` implements up to
   its excuses.
3. The renaming of folders (`detect_mailbox_changes`) in `MailboxSync`, and a mailbox
   deleted while its download runs (there it is deleted at rest only).

## 8. Not modelled

* IMAP protocol I/O, TLS and logins: a call works or fails. A truncated answer to
  UID SEARCH, which a comment in `executor.rs` mentions. The retention floor of a
  download, which narrows the set of messages like the date range.
* The cached list of remote folders (`core/mailbox/list.rs`, `mailbox_cache.rs`),
  which feeds a form; progress figures.
* MIME parsing and text extraction: a message is the tree the parser yields. A
  message whose own text contains the placeholder of its own attachment (a
  placeholder of another one is in the model).
* Compression, encryption, CRC arithmetic, hashes (taken as injective), TOTP and
  password hashing, the process lock of the blob store.
* Read-only queries of the database, saved searches, the ranking and the query
  language of the index library, statistics over time, the audit log's text.
* The size and time limits of a batch of blob writes, the manifest views and the
  download of an audit delta, the pruning of the import history, the re-grant of
  an expired role in a batch.
* Autoconfiguration (stateless look-ups), settings (read once), logging, routing
  and middleware of the REST server, the web front end. They hold no state a
  property could be about, or none the server keeps.
