# A TLA+ model of nga_tools

nga_tools archives threads of the NGA forum: it fetches pages, keeps every
version of every post in SQLite, recovers floors the site hides from the view of
one author, stores the images and audio files the posts show, and renders PDFs.
Its core logic is not the fetching. It is the bookkeeping around it: thread
pools shared by many threads of a backup, downloads shared between them, state
that decides what may be skipped next time, and two kinds of transactions that
must agree after a crash. That is what these modules are about.

Paths below are relative to `src/nga_tools/` unless they begin with `src/`.

## 1. The system

### Components, their state and what they do

| component | state | operations |
|---|---|---|
| fair API runtime, `ngaclient/api_runtime.py` | the batches of the running `map_*` calls, a round-robin deque, one condition variable, a fixed set of worker threads | register, dispatch, finish, yield a result, abandon a generator, close |
| client and sessions, `ngaclient/client.py` | a pool of HTTP sessions | requests, parsing, errors for hidden or deleted threads |
| download runtime, `core/image_download_runtime.py` | an event loop in a thread of its own, the batches of files, retry timers, one result queue per call | register, dispatch, attempt, retry, deliver, cancel, close |
| image pipeline, `backup/image_store.py` | the table of open claims and the memo of finished ones (process wide); per pipeline the tasks, three queues of pending work and the results | claim, download, store, map, release, report, wait for the claims of others |
| image index writer, `backup/image_index_writer.py` | a bounded queue, a writer thread, the SQLite index | submit, coalesce, commit, answer, fail, close |
| archive of a thread, `backup/archive_*.py`, `thread_stores.py` | `archive.sqlite3`: posts, versions, overlays, selected versions, floor map, revisions; `archive_state.sqlite3`: floor state, image state, manifest, counts, retry lists | upserts and commits, one transaction each |
| archive processing, `backup/archive.py`, `archive_processing.py`, `archive_image_processing.py` | none of its own: decides from the two files which of five paths a run takes | sync, maintenance, exact repair, floor map, incremental or full image references |
| floor map, `backup/floor_map.py` | none (a function of posts and pages, kept in the archive) | infers which floors of the full thread are missing from the author's view and recovers them |
| forum scan, `forum/export.py`, `thread_store.py` | `forum_threads.sqlite3`: the last reply of every thread seen | scan by last reply down to a watermark, scan by publication date |
| scheduled backups, `commands/ankebak.py`, `forum/ankebak_state.py` | a signature and two dates per thread | scan, plan, back up, record |
| thread list, `forum/watch.py`, `config/` | a JSON file | match titles, merge matches |
| retry schedules, `core/retry_schedule.py`, `media_retry.py`, `missing_floor_retry.py` | time and ticket of each retry | decide what is due |
| audio, `backup/audio_store.py`, `audio_pipeline.py` | claims, mapping database, a watermark of versions | as images, in a simpler form |
| image validation, `backup/image_validation.py` | results by file fingerprint, validations in flight, entries to persist | preload, validate, invalidate, flush |
| PDF, `backup/pdf.py`, `pdf_plan.py` | parts and a manifest of hashes | plan, render, write hashes |
| locks and gates, `core/output_lock.py`, `core/sqlite.py` | a lock per output root and per thread; counters of readers and writers | acquire, release |
| batches, `commands/thread_batch.py` | a queue of thread configurations | run in parallel, isolate failures |
| web viewer, `web/` | caches keyed by fingerprints of files | browse; save or clear an overlay, select a version |
| conversion, CLI, console, timing | none that outlives a call | text and reports |

### How they meet

A batch command takes the lock of the output root, opens the scopes of the API
runtime, the download runtime, the store workers and the index writer, and runs
one thread per archived thread. Each of those threads

1. fetches pages through the API runtime and writes them in one transaction,
2. runs archive processing, which reads and writes the two SQLite files of the
   thread, asks the API runtime for the pages that may hide missing floors, and
   hands image addresses to a pipeline,
3. in the pipeline claims the addresses in the shared table, downloads the ones
   it owns through the download runtime, hands the files to the store workers
   and the stored files to the index writer, and waits for the other claims.

`ankebak` puts a forum scan and a plan in front of this and the record of
success behind it. The web viewer writes overlays and selections in between; it
takes the same lock without waiting, so an edit and a run never overlap.
Callbacks run in the thread that called; worker threads and the event loop
answer through condition variables, queues and futures.

### What is hard about it

- *Concurrency.* One condition variable for all callers and workers; an event
  loop beside threads; claims taken in any order by threads that wait for each
  other; nested blocking drains of three queues.
- *Failure.* Any fetch, attempt, store, transaction or callback may fail, also
  while an earlier failure is being cleaned up; generators are abandoned; a
  process dies between two transactions of two files.
- *Order.* Results finish in any order and are reported in one; an address is
  answered after the index has it; a reply arrives between scan, backup and
  record.
- *Skipping.* Every shortcut trusts marks that earlier runs, perhaps cut short,
  have left.

For each component, what makes it correct: the API runtime delivers each item
once, in order where asked, starves nobody, loses no wake-up, and fails and
closes cleanly; so does the download runtime, with retries; the index writer and
the store pool answer every request, and "done" means durable; the pipelines
download an attachment once, never answer a success that is not durable, never
leave a claim behind and never wait in a circle; no stored image is overwritten,
and no verdict survives the file it was about; a floor map never names a wrong
place; archive processing never takes stale state for current and loses no image
and no floor; scheduled backups archive every reply in the end and never record
more than they have; what failed is tried again in time; two writers are never
in one folder; no thread is locked out of the SQLite gates; no PDF is older than
its text and taken for current; no cache outlives its source.

## 2. Modules

| module | code | checked by | proved in |
|---|---|---|---|
| `FairAPIRuntime`, `RoundRobin` (with a history of turns) | `ngaclient/api_runtime.py` | `MCFairAPIRuntime` | `FairAPIRuntimeProofs` |
| `PageStream` | `get_pages`, `iter_pages` of `ngaclient/client.py` | `MCCommands` | `CommandPartsProofs` |
| `MappingWriter` (abstract) | what `ImageIndexStore.enqueue_mappings` promises | through `ImageIndexWriter` | `ImageIndexWriterProofs` |
| `ImageIndexWriter` | `backup/image_index_writer.py` | `MCImageIndexWriter` | `ImageIndexWriterProofs` |
| `StorePool` | `backup/image_store_runtime.py` | `MCImageIndexWriter` | `ImageIndexWriterProofs` |
| `SharedDownloads` (abstract) | what pipelines promise each other | through `ImageDownloadPipeline` | `ImageDownloadPipelineProofs` |
| `ImageDownloadPipeline` | `backup/image_store.py`; takes the actions of `MappingWriter` by INSTANCE | `MCImageDownloadPipeline` | `ImageDownloadPipelineProofs` |
| `ImageFiles` | the files of `image_store.py`; `backup/image_validation.py` and its table | `MCImageFiles` | `ImageFilesProofs` |
| `DownloadRuntime` | `core/image_download_runtime.py`: calls and files | `MCDownloadRuntime` | `DownloadRuntimeProofs` |
| `DownloadAttempt` | the same file: one file, from the answers of servers to the disk | `MCCommands` | `CommandPartsProofs` |
| `ArchiveProcessing` | `backup/archive_processing.py` and the stores it writes | `MCArchiveProcessing` | `ArchiveProcessingProofs` |
| `FloorMap` | `backup/floor_map.py` | `MCArchiveProcessing`, `MCFloorMap` | `ArchiveProcessingProofs` |
| `Ankebak` | `commands/ankebak.py`, `forum/export.py`, `forum/ankebak_state.py` | itself | `AnkebakProofs` |
| `RetrySchedule`, `RetryTimes` | `core/retry_schedule.py`, `backup/media_retry.py`; `backup/missing_floor_retry.py` over time | `MCCommands` | `CommandPartsProofs` (`RetryTimes`) |
| `AudioArchive` | `backup/audio_pipeline.py`, `audio_store.py` | `MCCommands` | `CommandPartsProofs` |
| `ThreadBatch` | `core/output_lock.py`, `commands/thread_batch.py`, `cli/dispatch.py`, the edits of `web/routes.py` | `MCCommands` | `CommandPartsProofs` |
| `SqliteGates` | `core/sqlite.py` | `MCCommands` | `CommandPartsProofs` |
| `PdfOutput` | `backup/pdf.py`, `pdf_plan.py` | `MCCommands` | `CommandPartsProofs` |
| `ViewerCache` | `web/server_state.py` | `MCCommands` | `CommandPartsProofs` |

`PROJECT.json` maps every definition to the lines it stands for. Definitions
marked "Mutant" are plausible faults of the code; each is put in the place of
the definition it names to see that a property notices.

**FairAPIRuntime.** A batch is named by its call. One action per critical
section: a call registers (`Register`), takes a result (`Consume`), goes to
sleep (`AwaitResult`), is abandoned or fails (`Abandon`, `Finally`, `Drain`); a
worker takes an item (`Take`), sleeps (`Idle`), finishes (`Finish`, with a value
or an error); `Close` and `Joined`. `condition.wait()` is membership in
`sleepingCalls` or `sleepingWorkers`; `notify_all` empties both. `RoundRobin`
adds the variable `served`, which counts how often a batch was served while
another one waited, and changes nothing else.

**PageStream.** What a client does with that: a stream asks for the pages it
lacks, the runtime fetches some of them ahead in any order, and what a stream
that ends early has fetched and not yielded is kept for the next (`Left`).

**MappingWriter, ImageIndexWriter.** The detailed module has the bounded queue,
the coalescing of requests, the split into transactions, the connection that
cannot be opened, the transaction that fails and the stop request. A future is
answered only after all of its rows are committed; a batch larger than one
transaction may be partly durable and yet fail, which `MappingWriter` therefore
allows.

**StorePool.** Scopes of clients open and close the pool, which joins its queue
and then sends one stop to each worker. Work may raise, and clients may leave
without waiting for theirs.

**SharedDownloads, ImageDownloadPipeline.** A claim object is named by the task
that created it. `storeQueue`, `results` and `batches` are the two deques and
the list of the code; `mapGoal`, `owed` and `storeGoal` are what the nested
blocking drains still have to do. Every failure the code can meet is a member of
`Faults`: a download that fails, a stream that raises, a store, a transaction, a
progress callback, the set-up, a stored file that is gone. The refinement
mapping takes the claim table for the flights, the answers of claims and waiters
for the answers, and the committed rows for the index. `MappingWriter` replaces
the writer thread, which `ImageIndexWriter` has been shown to implement; this is
how the two modules compose.

**ImageFiles.** The work behind one store: under the lock of its hash a worker
looks for a file with the same content, takes the next free name or places the
file. It asks the validation cache, whose `validate` reads the fingerprint, waits
for a flight of another thread or decodes itself, and records the verdict only
if no `invalidate` came in between (`generation`). Preparations preload entries
of the database and flush new ones; a command may end or be killed at any point,
which leaves the files and the database.

**DownloadRuntime, DownloadAttempt.** What runs on the loop runs in one step,
since nothing in it awaits; the calling threads interleave. A failed attempt may
be retried later (`RetryReady`); callbacks may raise; `close()` may begin in the
middle of a call, cancels every batch, waits for the running downloads, then
stops the workers. `DownloadAttempt` is what one worker does with one file: each
address is asked in turn, an answer may be refused, break off or be short, the
temporary file takes the place of the old one or goes, and the failures of the
addresses are combined into the one that decides about the backoff.

**ArchiveProcessing.** One transaction of one of the two files is one action,
and `Crash` may fall between any two. A run begins by storing pages or without
(`BeginSync`, `BeginMaintain`), repairs or refuses what an earlier run has left
(`RepairRecovered`, `Refuse`), reuses the floor state, repairs due floors
exactly or builds the floor map, and then updates the images by one of four
plans. The result of the floor map build is any outcome its code can return: a
floor stays missing, becomes known or located, or is recovered with a text. Web
edits come between runs.

**FloorMap.** Why these are the outcomes. The thread has floors of the author
and of others, named, anonymous or hidden; the author's view numbers the
author's own and omits those it cannot show. A build takes over what an earlier
one has located (`Reused`), asks for single posts (`ScanTargets`) or reads the
pages on which a pending floor can be (`ScanRange`), and infers the rest from
what is left between two located floors (`InferGap`, `ByPosition`). Meanwhile
posts are hidden and shown again, pages come empty, and requests fail.

**Ankebak.** Replies move a thread to the front of a list that is read page by
page. The scan ends one page after the watermark of the table it writes
(`Crosses`, `CommitPages`); the plan compares what this scan saw with the
signature of the last success (`JobKind`); jobs store and are recorded in two
steps and may fail or die in between. `lastpost` stands for the pair of replies
and last post the code compares.

**RetrySchedule, RetryTimes.** The decision is an operator without state: the
cube of a fraction against a ticket, by whole numbers. `RetryTimes` lets a clock
run, floors be posted, hidden and shown again, and backups come at any time; the
gaps of missing floors split and merge, and each carries the attempts of its
floors.

**AudioArchive.** A run reads the newest version, selects the addresses above
the watermark and the due retries, claims, downloads, writes the rows and
releases, waits for the claims of other archives, and commits watermark and
retries together.

**ThreadBatch.** A lock is taken in two halves, one of the process and one on a
file, without waiting. A command holds the root and its jobs hold folders; an
edit of the viewer holds the root, and `image verify` of one thread a folder. A
process that is killed loses its threads and its file locks.

**SqliteGates.** Readers and writers have a gate each. A thread keeps the limit
it came with while it waits, operations of the same kind nest in their thread,
and the limit of readers is raised while a backup is on.

**PdfOutput.** A part is named by its first and last floor. `Plan` cuts the
floors, removes stale parts and compares hashes with the manifest; parts are
rendered one by one, may fail, and the manifest is written after all of them.
Between runs texts change, other part sizes are chosen, and PDFs are deleted or
damaged: a file that does not begin like a PDF is found unusable (`Damaged`), one
that was cut behind its beginning is not (`Cut`).

**ViewerCache.** A request reads the configurations, takes a fingerprint of the
files one by one, and is served what is kept for it or builds under a lock and
keeps the result for a fingerprint taken afterwards. Files are written all the
time, and some that an item shows have no part in the fingerprint (`Unseen`): the
archive when the schema of a file beside it is shown, and the images of overlays.

## 3. Runs

Several small modules share no state and never call each other. Their instances
are checked together: the MC module fixes in the first state which part moves,
and the others rest. Such a run has the sum of the parts' states, not the
product, and each of its properties belongs to one part.

| run | instance | distinct states | what it shows |
|---|---|---|---|
| `api_runtime` | calls of 3 (ordered) and 2 items, 2 workers | 90,457 | nothing lost or doubled, no lost wake-up, order, at most one overtaking, failures isolated, quiet after the end; calls end, `close()` returns |
| `image_writer` | writer: 4 requests of 2, 3, 1 and 0 rows, queue 2, transactions of 3 rows; pool: 2 workers, 2 clients with 2 pieces of work each | 11,977 | the writer implements `MappingWriter`; every request and all work is held until it is answered, once; it is answered, and both close |
| `image_pipeline` | 4 tasks (one repeated) beside 1, limits 2, failing downloads, stores, index and set-up, lost files | 978,844 | success is durable, reports come once, in the order of the downloads, the limits hold, `SharedDownloads` is implemented |
| `image_pipeline_ends` | 2 pipelines, the same 2 attachments in opposite orders, failing downloads, streams, callbacks and lost files | 150,640 | no claim outlives its pipeline, nobody waits while owning, all pipelines end |
| `image_files` | 2 threads, 2 images with one hash, 3 calls over 2 commands, 1 damage, failures of decoding, placing and the cache | 448,354 | what is stored stays, no remembered verdict is wrong, every call ends |
| `download_runtime` | calls of 3 and 1 files, limits 2 and 1, 2 workers, 1 retry | 264,058 | every file in one place, limits hold through retries, a cancelled call starts nothing, callers return, also from `close()` |
| `archive_processing` | processing: 2 floors, 2 texts sharing an image, 2 runs, 1 web edit, crashes; floor map: 5 floors, 4 of the author, 3 pages, 2 changes, 1 fault | 2,576,549 | images and floors accounted for, manifest exact, a completed run is current; maps are true, complete and stable |
| `ankebak` | 3 threads, 1 watched, pages of 1, 3 replies, 2 failures | 256,670 | signatures and skips are sound, every reply is archived in the end |
| `commands` | eight parts, see below | 2,239,347 | one property for each part |
| `image_claim_leak_mapping`, `backup_refused`, `floor_map_forced` | as above; 6 floors | | disagreements, see section 6 |

### The properties that take several parts of the code to break

- `DeliveredExactly`, `FilesAccounted`, `QueueIsSound`, `NothingIsLost`: each
  item, file, request or piece of work is in exactly one place, and the counters and id sets
  that stand for them agree with it.
- `EveryoneIsAnswered`, `CallersReturn`, `CallsEnd`, `CloseReturns`,
  `PipelinesEnd`, `JobsEnd`, `PostsGetArchived`: liveness.
- `ClaimsAreReleased` (with its part `EndedOwnsNothing`), `ReportsAreExact`,
  `Bounded`, `SuccessIsDurable`: what pipelines owe each other.
- `StoredStays`, `CacheIsSound`: files against what is remembered of them, over
  kills, collisions and damage.
- `DerivedIsAccounted`, `CompletedRunIsCurrent`: the marks a run trusts against
  what the archive holds. `MissingAreTrue`, `KnownAreFound`, `LocatedStays`: the
  map against the thread it never sees in full.
- `FoldersAreSafe`: writers exclude each other, and whoever ended holds nothing
  and has told its failures.
- `AudioIsCared`: everything up to the watermark is saved or waits for a retry,
  and every waiter will be served. `NotPutOffForEver`: every missing floor has
  been looked for within the longest interval. `AttemptsAreTrue`: a long backoff
  needs a host that said "not there" and none that was busy or sent a short body, and
  files are whole. `PrefetchIsExact`: a
  page fetched ahead is kept, once. `GatesHold`: no slot is lost or given twice,
  nobody sleeps beside a free one. `PdfsAreCurrent`: after a success each floor
  is in one PDF with the text that was read. `ServedIsCurrent`: nothing older
  than the request is served, in the files of the fingerprint or, to a refresh, in
  all of them.

Three properties except what the code gets wrong by design or by accident, by name:
`PdfsAreCurrent` the parts that a run without success has replaced (`unrecorded`)
or that were cut behind their beginning (`Cut`), as long as they are not rendered
again; `ServedIsCurrent` the items during whose making a file was written (`torn`)
and, but for a refresh, the files without fingerprint (`Unseen`); `AttemptsAreTrue`
a host that falls silent in the middle of a body. See the hazards and section 6.

### Bounds, and why they are enough

- *API runtime.* Two calls share two workers, so that both the window
  (`Capacity`) and the deque are contended; three items fill a window and leave
  one behind it. `AtMostOneOvertake` needs a history variable, which
  `RoundRobin` adds. The proofs lift all safety properties of the runtime to any
  size.
- *Writer and pool.* The four requests fill the queue and block a submitter,
  coalesce into one batch, and force a batch into two transactions.
  `CloseAfterSubmits`: the commands close the writer after the pipelines ended; a
  `submit` racing `close` is out of scope (hazard list). Four pieces of work for
  two workers leave some in the queue when the last client leaves.
- *Pipelines.* Two attachments in opposite orders are the shortest circle; four
  tasks fill each of the three limits, which the code has at tens, so that all
  drains block. Faults are split over the runs to keep each within minutes;
  `image_pipeline_ends` leaves out stores, index and set-up, because there the
  code does leave claims open (section 6).
- *Image files.* Two images with one hash make a collision; three calls are a
  store, a second store or a preparation that meets it, and a lookup in the next
  command.
- *Download runtime.* Limit 2 of 3 files makes the window bind, one retry makes
  the timer race with cancellation, two workers race for the last item.
  `close()` begins after the small call has ended (`MCNext`), otherwise the
  state space is several times larger; it still falls into the middle of the
  large one.
- *Archive processing.* Two floors after the opening post give a hole and a
  tail; two texts that share an image give counts of 0, 1 and 2; two runs are
  needed to skip on the marks of the first, cut short or not; the single edit
  lies between them. Longer histories are cut off by `MaxRuns` and `MaxEdits`.
- *Floor map.* The author has all floors but one of three pages of two, so that
  a gap can begin and end on any side of a page and have one candidate more than
  floors. Two changes hide a post and show it again, or hide two; the fault is an
  empty page or a failed build. Two and more builds follow each other freely.
- *Ankebak.* Jobs of different threads do not touch each other's state, so one
  watched thread suffices; it takes two more threads to push it below the page
  that overlaps the watermark, and a reply to each: three replies. Two failures
  allow a failure in the repair of a failure.
- *Commands.* Two batches of three configurations, two of them for one folder,
  two workers, a verifier and two edits: a folder is wanted by two jobs of a
  command, by those of another and by visitors. Two archives with one attachment
  under two addresses, one fault. Four floors and a clock of six ticks, so that
  gaps of up to three floors grow old, split and merge. PDFs of two floors in
  parts of one or two, two faults, three edits (a text can return to an earlier
  one). Four threads at gates of one and two, nested twice. Two addresses and two
  retries with the four kinds of answers. Three streams or calls over four pages,
  two fetched ahead. Two requests to the viewer and three files, read before the
  cache, in the fingerprint and outside it, each written once at any time.

`CHECK_DEADLOCK FALSE` stands in five configurations. In `FairAPIRuntime` and
`DownloadRuntime` a `close()` in the middle of a call may leave its caller
waiting, which the scopes of the commands exclude but the code does not. In
`ImagePipeline` a claim that stays open blocks its waiters. In
`ArchiveProcessing` and `BackupRefused` the bounds on runs and edits end the
behaviour. Elsewhere a finished system stutters by an action of its own
(`Terminated`) or has always something left to do, and TLC reports every other
stop.

### Fairness

- *FairAPIRuntime, DownloadRuntime, ImageIndexWriter, StorePool,
  ImageDownloadPipeline, ImageFiles:* weak fairness of every thread, of the
  loop's work and of each retry timer. A thread that can run is scheduled, a lock
  is handed on, a timer that was set fires; fetches, attempts and transactions
  have timeouts, and the body of a scope ends, so each ends, with either result.
  Nothing is assumed of failures, of abandoning a generator, of calling `close()`
  or of calling at all.
- *Ankebak:* weak fairness of the steps of a run and of the passing of time that
  makes a full backup due (the deadline of the schedule); strong fairness of
  `BeginAuto`, as the command is scheduled daily whatever is run in between.
  Failures are finitely many (`MaxFaults`): with a forum that always fails
  nothing can be promised.
- *ArchiveProcessing, FloorMap and the parts of `commands`* have no liveness
  property. That nobody waits in vain is a safety property there
  (`WaitersAreServed` in `AudioIsCared`, the sleepers in `GatesHold`).

## 4. Proofs

TLAPS proves the following for every value of the constants, under the
assumptions named in the modules (sizes are naturals, capacities positive, the
absent values differ from the data).

**FairAPIRuntimeProofs.** `Invariance` is `Spec => []IInv` with

    IInv == TypeOK /\ ReadyQueue /\ NoLostWakeup /\ Counters
              /\ JobsOK /\ BooksOK /\ LifecycleOK

`NoLostWakeup` alone is not inductive. That no worker sleeps beside work needs
that every batch that can dispatch is in the deque under a valid id
(`ReadyQueue`); that a caller in its `finally` is woken needs that `running`
counts the workers that fetch for it (`Counters`), which needs that a job
is an item that was dispatched and not yet filed, and that no two workers have
the same one (`JobsOK`); that a call sleeps only for a result that can still
come needs the relation of `next`, `yielded` and `outstanding` (`BooksOK`), and
that a batch is registered while its generator is in its loop and has no fetch
running once it is removed (`LifecycleOK`). Each action has a
lemma of its own; those that change one batch only share the `SameBooks` and
`OneBatch` lemmas. From it: `TypeCorrect`, `QueueSound`, `NoWakeupIsLost`,
`CountersAgree`, `WindowHolds`, `QuietAfterTheEnd`, and the action property
`FailureIsIsolated`.

`EachItemOnce` follows the items. `Delivery` says that what has been dispatched
is in flight, filed or delivered, and that an ordered call has delivered an
initial piece of its items. The counters of `BooksOK` then leave no room for an
item in two places: the places together have `next` elements. `NobodyIsOvertakenTwice`
rests on the order of the deque: if `d` was served since `c` last was unable to
dispatch, then `c` stands before `d` (`TurnsOK`), so that `c` comes next.

**AnkebakProofs.** `Invariance` with

    IInv == Known /\ PoolOK /\ MaintenanceOK /\ StoredOK /\ SignatureIsArchived

A signature is recorded after the backup of its job, so it is sound because a
stored backup reaches what the scan saw (`StoredOK`), and because a maintenance
job, which stores nothing of the forum, is planned only for a thread the scan
did not see or saw unchanged (`MaintenanceOK`). `Known` bounds both by what has
been posted. From it `SignatureSound` and the action property `SkippingSound`.
`TypeCorrect` is about the scan too: a page that is read lies within the pages of
the list, since the scan begins on the first and stops at the last (`Typed`).

**CommandPartsProofs.** Eight modules that share no state.

*Locks* (`ThreadBatch`): `BatchInvariance` with

    BatchInv == LockInv /\ OrderInv

`FoldersAreSafe` is not inductive. `LockInv` says in both directions what a lock
is: who is past the first half has the lock of its process, who is in has the
file lock, and each lock that is taken belongs to such an actor. It is preserved
by the five ways in which locks move (enter, lock, be refused, free, be killed),
each a lemma; that a kill frees only what is its own rests on it. Jobs and edits
lock different paths, so that they exclude each other needs `OrderInv`: a job is
not out only while its command is in, and so holds the root; and a command with
an exit is out, and its exit agrees with the outcomes of its jobs. From it
`FoldersSafe`. The assumption is that processes, folders and actors of different
kinds have names of their own (`NamesAssumption`).

*Gates* (`SqliteGates`): `GatesInvariance` with

    GatesInv == GateTypeOK /\ \A k \in Kinds : CountOK(k) /\ LimitsOK(k) /\ SleepOK(k)

That the threads inside are no more than the widest limit among them is not
inductive, for the widest may leave first. `LimitsOK` says more: for every `n` at
most `n` of those inside came with a limit of `n` or less. A thread enters below
its own limit, so each step keeps that, whatever limits the others have. From it
`GatesAreSound`.

*Audio* (`AudioArchive`): `AudioInvariance` with

    AudioInv == AudioTypes /\ AudioAccounted /\ ClaimsHeld
                  /\ \A a \in Archives : RunOK(a)

The watermark moves when a run ends well, over all it has read. What a run has
read is therefore followed through the run: it is saved, in the hands of the run,
or has an outcome or a deferral that will be written as a retry (`Cared`). A
success counts as saved but for the moment before its row is written
(`SuccessOK`), and a row, once written, stays for all archives. A claim is open
exactly while one address of its owner holds it (`HoldsOK`, `ClaimsHeld`), two
names of one attachment included, and who has no outcome yet waits for an open
claim (`AwaitsOK`). From it `AudioStaysCared`.

*Retries* (`RetryTimes`): `NobodyIsPutOff`. The invariant is small: floors are
posted in order, and what the code has written down about attempts is what has
happened. The argument is about one backup. A gap that is missing now and was put
off was looked for at the last attempt the code finds in its floors, which is the
oldest one (`LastAttempt`); new attempts of a gap are those of its own floors
that are still missing, so that floors which were tried together and have come
apart keep their times. A gap not due has all its attempts within the interval of
its age.

*Attempts* (`DownloadAttempt`): `AttemptsStayTrue`. The invariant adds that some
URL has not failed yet while the file is tried, and that only a body that has come
to its end is about to replace the file. The argument is about the failure that is
reported: it is one of the list and no other has a lesser priority
(`CombinedIsLeast`), so if it asks for the long backoff, none of the others is a
"try again" or a body that came short (`AllSayGone`). A connection lost and a
timeout have the greatest priority, before a body or in it, so they exclude nothing. The assumption on the statuses
to retry is what the code configures: no redirect, and 429 only among the client
errors (`core/downloads.py`).

*Pages* (`PageStream`): `PrefetchStaysExact`. What a stream has fetched and not
handed out is `prefetch` and the pages completed for the running call, in two
disjoint parts, and what it runs is in neither; a page in `prefetch` that it still
wants is one it found there (`StreamOK`). So a page is handed out of the place
where it is, and nothing is fetched that is kept.

*Viewer* (`ViewerCache`): `ServedStaysCurrent`. A request knows nothing older than
itself and, as long as no file is written, nothing but the present (`MakingOK`); an
item that is kept and not torn is what its fingerprint says, in the files the
fingerprint has (`KeptOK`). Hence an item that is found under the fingerprint of a
request is as new as the request there. A refresh is never served what is kept, and
what it builds is read after it came.

*PDFs* (`PdfOutput`): `PdfsStayCurrent`, an action property. `PdfInv` follows the
running command: each floor it has read lies in exactly one of its parts
(`PartsCover`, the only arithmetic with a variable factor in these proofs), the
HTML of a part is what it hashed, other parts have no file, and a part that is no
longer to be rendered was rendered or was current before (`PartOK`). The second is
sound because of what holds between runs (`SaidOK`): a usable PDF shows what the
manifest says, unless a run without success has replaced it or it was cut.

**ImageIndexWriterProofs.** `Invariance` with

    IInv == TypeOK /\ HeldOK /\ CallsOK /\ BatchOK /\ CloseOK

A request is pending exactly while it is in the queue or in the batch, in one
place once (`HeldOK`); the rows of the batch are committed or still unwritten
(`BatchOK`), so that when nothing is unwritten all of them are durable. With it
`WriterKeepsItsPromise` shows that the initial state and every step of the
writer are an initial state and a step or a stutter of `MappingWriter`: the
refinement holds for all sizes. `RequestsStayHeld` has the further assumption
`CloseAfterSubmits`, under which nothing gets behind the stop request.

`NothingGetsLost` says the same of both services of the instance, the writer and
the store pool, in which `Pool!WorkIsHeld` is inductive as it stands. Its parts
need each other: work is put only from a scope, and while there is a scope the pool
is open (`ItemsHeld`); an open or joining pool has all its workers, and since
`unfinished` counts the queue and the busy workers, `join()` returns with both
empty (`WorkersStay`); from then on stops alone are put, and those still to be put
with those in the queue are as many as the workers that run. What it assumes of the
pool is `StorePoolAssumption`: finitely many workers, and stop items that differ
from work.

**DownloadRuntimeProofs.** `Invariance` with

    IInv == Types /\ QueueOK /\ WorkersOK /\ \A c \in Calls : BookOK(c) /\ CallOK(c)

A batch leaves the loop with its last result, and nothing in that step looks at
its workers. That no worker is forgotten needs a count: a running download and a
result that waits, for a retry, in the queue or in the hands of the call, each
have a slot of the window (`BookOK`), and the last slot is that of the result
just taken. That no wakeup is lost needs that the ids left out of the queue are
those of cancelled batches, and that workers sleep only when there is no id
(`QueueOK`). From it `QueueStaysSound`, and, as an ended call has cancelled its
batch or the loop is gone (`CallOK`), the action property
`NothingStartsAfterCancel`.

`FilesStayAccounted` needs more. `Files` says that an item that was dispatched is
in exactly one of six places: with a worker, at a timer, in the queue of retries,
among the events, in the hands of the call, or delivered. A step moves one item
from one place to another, drops some of a cancelled batch, or adds the next one;
these are three lemmas about sets that are apart. A cancelled batch gives up its
items and goes on counting the results of those that still run, so that `pending`
may fall below zero; `SlotsOK` bounds it by `outstanding` from both sides. A call
that returns normally has taken `Size` results, all different, so it has all of
them.

**ImageDownloadPipelineProofs.** `Invariance` with

    IInv == TypeOK /\ ClaimsOK /\ WaitsOK /\ WorkOK /\ DurableOK
              /\ \A p \in Pipelines : Local(p)

    Local(p) == HeldOK(p) /\ EmittedOK(p) /\ BatchesOK(p)
                  /\ FlowOK(p) /\ LimitsOK(p) /\ OpenOK(p)

From the claim to its release a task is in exactly one place of its pipeline: not
yet stored, waiting for the store, waiting for a batch, in a batch, or owed a
release (`HeldOK`). It leaves the last of them in the step that closes its claim,
so an open claim is held by somebody (`OpenOK`), and a pipeline whose places are
empty owns nothing. `FlowOK` says which places are empty where, and what the
nested drains have still to do; `LimitsOK` that each drain is finished before the
next thing is put into its queue. A success is told only after the future of its
batch, which is done only when its rows are durable (`BatchesOK`, `WorkOK`).

From it `SuccessesAreDurable`, `WorkIsBounded`, `WaitingOwnsNothing`, which makes
a circle of waiters impossible, and `ClaimsReleased`. The last one has the
assumption `NothingLeaks`, because without it the code does leave claims open.
The invariant has the exact extent of that as `Leaky`: an index failure in the
clean-up of an abort, a set-up that fails, and a progress callback that raises
while the failure of a store is owed. The first two are the findings of section
6; the third came up in the proof.

`ReportsStayExact` is about the order of the reports, which no variable of the code
records. `MCImageDownloadPipeline` adds a history, `arrived`: the tasks whose
downloads have finished, in order. The invariant is

    RInv == IInv /\ arrived \in [Pipelines -> Seq(Tasks)]
              /\ \A p \in Pipelines : ReportsOK(p)

Its core is `LineOK`: what has arrived and is not reported yet stands in one line
through the places of the pipeline, first the batches, then the results for the
next batch, a failure that is owed, the stores, and the download that is being
handled. A step takes the first of the line and reports it, moves the border
between two places, or adds a task at the end; these are lemmas about sequences.
The line can break up only where an exception ends the progress, and then nothing
is reported any more from what is left in it (`Clean`). With `CoverOK`, every task
that was claimed is in the line or reported, so a pipeline that returns has
reported all.

`PipelinesShareDownloads` is the refinement under any faults, the leaking ones
included: the initial states map to those of `SharedDownloads`, and each step to
one step of it or to a stutter. Batches, drains and aborts are stutters but for
the steps that release a claim, answer a waiter or make rows durable.

**ImageFilesProofs.** `Invariance` with

    IInv == Types /\ DiskOK /\ MemoryOK /\ FlightsOK /\ \A t \in Threads : Local(t)

`StoredStays` needs that a worker replaces a file only if nothing was put there
(`ReplacesNothing`), which it decides by comparing under the lock of the hash with
the version it has taken the fingerprint of (`LooksAtPlaced`): the lock makes it
the only one to place files under that hash (`HoldsLock`), and a damage gives the
file another fingerprint. `VerdictsCurrent` needs that a fingerprint is older than
the clock and never given twice, so that a verdict that was true of a version is
true whenever that version is there, wherever it was kept meanwhile. From it
`StoredFilesStay` and `CacheStaysSound`.

**ArchiveProcessingProofs.** `Invariance` with

    IInv == Types /\ Files /\ Run

`DerivedIsAccounted` is about the two files and not inductive. `Files` says it of
marks that could become current again. A floor mark that names the present
revisions is true for the number of floors *it* names, whatever the pagination is
by then, because the retry list and the signature of the map were written for
that number (`FloorOK`); an image mark of the present revision is true of the web
edits it names, even if these are not the present ones, because edits can be
undone (`ImageOK`, `Shown`). Manifest and counts agree with each other at any time
(`ManifestOK`). `Run` says what a run knows at each step of its way: the short
ways start from a floor mark that is current (`ShortOK`); after a build the floors
to be stored are those missing after it (`BuildOK`); floors the run has not
changed are as the image mark it began with says (`BaseOK`); and the plan, until
it is committed, leads to an exact manifest and owes nothing (`PlanOK`). That each
of the plans is sound is shown from the definitions of the plans; the counts
of a delta are right because exchanging the old rows for the new ones adds and
takes away what differs, floor by floor.

From it `DerivedStaysAccounted` and the action property
`CompletedRunsAreCurrent`. Deaths between any two transactions, refused runs and
edits at any time between runs are in the model, so that they are in the theorems.
The assumptions are those of the module: floors are numbers from 1, the absent
value is none of the others, and bounds are numbers.

*The floor map* (`FloorMap`): `MapInvariance` with

    FloorInv == MapTyped /\ ThreadTrue /\ MapTrue
                  /\ (mapStep # "idle" => BuildTrue(mapJob) /\ SteadyTrue(mapJob)
                                            /\ SearchTrue(mapJob))

A map is stored by one build and taken as given by the next ones, so a place that
is wrong once stays wrong; `MissingAreTrue` therefore is not inductive without what
a build holds in its hands. `MapTrue` and `BuildTrue` compare every place, and
every offer of candidates, with `Orig`, the place the code never sees. The
argument is one about counting: true places rise with the numbers of the floors,
so the pending floors of a gap between two located ones lie between the places of
these, in order; `Possible` leaves out only the places of posts seen with a name,
so that it contains theirs; and if the k-th of n pending floors is given the
places from k on but for the last n - k (`ByPosition`), its own is among them, and
the only one left is its own. That what is missing was not seen needs that posts
are archived while they are shown with a name (`ThreadTrue`). For `KnownFloorsAreFound`
the invariant follows the scan: as long as no page came empty, the page of a floor
that was there all the time is still among those to be read, until the floor is
located (`SearchTrue`); the pages that a build leaves out are those which the
located floors around the pending ones exclude. `LocatedAreKept` rests on a build
taking over what is stored (the last part of `BuildTrue`). The assumption is
`FloorMapBounds`: the author opens the thread, pages have a positive size, and the
absent value is no floor and no entry.

### What is only model-checked

- Liveness under fairness, since the prover has no rule for ENABLED: `CallsEnd`,
  `CloseReturns`, `EveryoneIsAnswered`, `CallersReturn`, `PipelinesEnd`,
  `JobsEnd`, `PostsGetArchived`. Every other property of a passing run is stated
  by a theorem.
- What needs induction over data: what a sum or a fold over a sequence of any
  length is. Where the proofs need counts, they use cardinalities of finite sets.

## 5. Left out

- Not modelled: thread list maintenance, HTML and BBCode conversion, CLI,
  console, timing, configuration parsing, storage metadata and schemas, database
  browsing, the Vue front end, image decoding, the PDF renderer. They are
  sequential, hold no state between calls, or are pure input and output.
- Inside modelled components: metrics; sessions, parsing and the limits per host;
  the view without an author, invalid addresses, word counts, local pages and an
  unreadable floor state (which is cleared) in archive processing, and the refusal of
  a map whose PID is not that of the recovered text; errors of a caller's code
  between two pages of a stream; a preload of the validation cache that raises; the
  clean-up of a temporary directory that raises after audio rows are written; labels and reports of the floor map; pinned and mirrored
  entries, several forums and several authors per thread in Ankebak; the report
  of image verify; the names of audio files; pragmas of connections; the pairing
  of fetch and PDF stages in a batch. Readings that guard against a second writer
  are left out of `ArchiveProcessing`, because the output lock excludes one
  (`FoldersAreSafe`).
- Composition is by outcome: `ArchiveProcessing` takes the outcomes of
  `FloorMap`, `DownloadRuntime` those of `DownloadAttempt`, the pipelines those
  of `DownloadRuntime`, `StorePool` and `ImageFiles`, and the index by
  `MappingWriter`. A product of the detailed modules is out of TLC's reach.
- What hazards are covered only in part is said in their notes in `PROJECT.json`.

## 6. What the code does otherwise

- `image_claim_leak_mapping`: the clean-up of an aborted pipeline suppresses
  failures of stores and of the final flush, but a drain inside it may meet an
  index failure that is not suppressed (`backup/image_store.py:926`). Claims stay
  open and later pipelines wait for ever; the tests expect that a cancelled owner
  wakes its waiters. With `"setup"` among the faults the same property fails
  another way: claims are taken before the temporary directory and the tasks
  exist and are released only by the `try` that follows
  (`backup/image_store.py:1094`).
- `backup_refused`: the floor map and the recovered texts are written in two
  transactions. After a crash between them every later run of the thread ends in
  the same ValueError (`backup/archive_floor_store.py:87`), `--force-processing`
  included.
- `floor_map_forced`: the error about an archived floor that the map lacks
  advises a run with `--force-processing` (`backup/floor_map.py:247`), but when
  no floor is missing a forced run takes the map over as it is.

More limits of the code, which the properties above except by name:

- The watermark that ends a forum scan is stored before the backups that should
  react to it, and by plain `forum sync` too (`forum/thread_store.py:246`,
  `commands/ankebak.py:98`). A change that was seen once and not archived may lie
  below it; the plan then skips the thread until another reply or the periodic
  full backup. `SkippedIsArchived` and `PostsGetArchived` state what remains.
- A PDF part that a failed run has replaced keeps the hash of its former PDF: if
  its text returns to the former one, it is not rendered again
  (`backup/pdf.py:659`, `unrecorded`).
- An item of the viewer made while a file was written is kept for the fingerprint
  that already shows the write (`web/server_state.py:232`, `torn`).
- The fingerprint of an item leaves out files that the item shows: that of a schema
  the archive beside it, whose store id is compared (`web/server_state.py:159`,
  `web/database.py:275`), that of the use of images the contents of the overlays'
  images, of whose folder it has the time (`web/server_state.py:177`). Such an item
  is served until a file of its fingerprint is written or a refresh is asked for
  (`Unseen`).
- A PDF is taken for whole if it has more than five bytes and begins with `%PDF-`
  (`backup/pdf_plan.py:141`; `tests/test_pdf_cache.py:95` expects it of a stub of nine
  bytes): one that was cut later on stays until its text changes (`Cut`).
- "A responding host gives better evidence than an unreachable alias"
  (`core/image_download_runtime.py:164`), but a host that has begun to send a file
  and then falls silent counts as unreachable, other than one whose body comes short:
  the 404 of the alias is reported, and the file is left alone for long
  (`GoneOnlyIfTold`).

## 7. Plan

Done: every component but those under "Not modelled".

Next, in this order:

1. The pairing of fetch and PDF stages in a batch, and the limits per host of
   the download runtime.
2. Abstract specifications still worth stating: a *current* archive (derived
   state is a function of the archive or marked as old), which
   `ArchiveProcessing` would implement, and a *fair pool* for both runtimes.
