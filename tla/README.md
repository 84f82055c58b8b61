# DropRoom: a TLA+ model of its rooms

DropRoom (FastAPI, PostgreSQL, S3 or local storage, Next.js) keeps temporary
rooms for exchanging files. This directory models the parts of the backend whose
correctness depends on the order in which concurrent requests, jobs and failures
meet, checks them with TLC and proves the central invariants with TLAPS. Paths
without `src/` are below `src/backend/app/`.

## 1. Inventory

| component | state | operations | hard behaviours |
| --- | --- | --- | --- |
| whole-body uploads and file deletion (`services/file_service.py`, `api/files.py`, `repositories/file_repository.py`) | rows of `files`, the quota counters in `rooms`, objects | `upload_file`, `download_file`, `delete_file` | rows read once and not again; objects outside the transaction |
| room teardown (`services/cleanup_service.py`, `jobs/handlers.py`, `api/rooms.py:269`) | `rooms.status`, all rows of the room, objects | `cleanup_room` from a job or from the owner | racing teardowns, uploads and deletions; lock orders |
| transactions (`db/session.py`, `models/`) | row versions and row locks | one transaction per request, committed by the API layer | READ COMMITTED, foreign-key locks, deadlocks |
| chunked uploads (`services/upload_service.py`, `api/uploads.py`) | PENDING rows, part objects, `size_bytes` | create, store chunk, complete, abort, expire | repeated and concurrent calls, stale rows |
| object storage (`storage/`) | keys | put, get, delete, list | partial failure, swallowed errors |
| scheduler (`cleanup/scheduler.py`) | none | scan for expired rooms, deleted files, stale uploads, orphans | listing against uncommitted rows |
| job queue (`jobs/queue.py`, started and stopped by `main.py`) | queue, attempts, workers | enqueue, retry with backoff, stop | duplicates, shutdown |
| membership (`services/room_service.py`, `repositories/session_repository.py`, `api/rooms.py`, `api/websocket.py`) | rows of `sessions`, `rooms.user_count`, open sockets | join, reuse, connect, disconnect | counters against sockets, refresh, teardown |
| realtime (`ws/manager.py`, `api/websocket.py`, `src/frontend/app/r/[token]/client.tsx`) | registry of sockets, the client's view | connect, ROOM_STATE, broadcast, reconnect | state against events |
| chat (`services/message_service.py`) | rows of `messages` | send, delete, list | messages into a closing room |
| rate limiter (`core/ratelimit.py`) | windows | check | window boundary |
| tokens, CSRF, permissions (`core/security.py`, `api/deps.py`) | none | sign, verify | none that is concurrent |

What makes each correct:

* files: a counter equals what is stored; limits are never exceeded; what is
  CONFIRMED can be downloaded; a failed upload leaves nothing.
* teardown: done whole and once, leaves no file that was shown and no served object,
  is finished in the end, never seen half done.
* chunked uploads: confirmed once, charged once, with the bytes announced.
* sweep: deletes nothing a request is still going to commit.
* job queue: what is due is done in the end, as long as somebody runs the server; a shutdown ends and loses nothing.
* membership: every live session has a slot, slots are at most `max_users` and come
  back when people go.
* realtime and chat: a page shows nobody who is gone and no message that is not
  stored; messages go with the room.

The requests interact through the rows of PostgreSQL (and its locks), the keys in
storage, the in-process queue and the in-process socket registry. All of them run
on one asyncio loop, but every `await` of a statement, of storage or of a socket
lets any other one run.

## 2. Modules

| module | what it is |
| --- | --- |
| `ReadCommitted` | one PostgreSQL row: committed version, newest version, lock holder; read, write, commit, roll back; two lemmas about its type |
| `RoomContract` | abstract: an open room holds files within its limits, added and removed one at a time, and closes once with all of them |
| `RoomFiles` | uploads, the opening of upload sessions, file deletions, teardowns and the orphan sweep of one room as processes over `ReadCommitted` rows and a set of objects |
| `MCRoomFiles` | the instances TLC checks: file sizes and symmetry |
| `RoomFilesProofs` | types of `RoomFiles`, the inductive invariant of the teardown and what follows from it, why files keep their objects |
| `RoomQuotaProofs` | that the counters are those of the files, the limits, and that `RoomFiles` implements `RoomContract` |
| `UploadContract` | abstract: a file appears once, whole and charged once, or its session goes without a charge; what a teardown that breaks off and a stale-session job that meets the completion may cost it |
| `ChunkedUpload` | one upload session: chunks, completion, abort, the job for stale sessions, the orphan sweep, the teardown of the room |
| `UploadClient` | the page (`uploadInChunks`) that drives `ChunkedUpload`, with answers that may be lost |
| `MCChunkedUpload`, `MCUploadClient` | which request carries which chunk, and symmetry |
| `ChunkedUploadProofs` | types, the quota, that a CONFIRMED file is charged, and that `ChunkedUpload` implements `UploadContract` |
| `UploadClientProofs` | that the page keeps the contract in spite of its aborts, that `size_bytes` is exact, and when charges and chunks are safe |
| `RoomMembers` | the people of one room: joins, sockets, ROOM_STATE and broadcasts, chat, leaving, the wipe |
| `MCRoomMembers` | which visit happens in which browser |
| `RoomMembersProofs` | `user_count` within `max_users`; every live session and every socket has a slot |
| `RoomPagesProofs` | a page shows nobody who has left and no message that is not stored; leavers free their slots; what a wipe leaves of messages |
| `JobQueue` | scheduler, queue, workers, start, shutdown and kill of the process |
| `JobQueueProofs` | attempts are bounded, nothing behind a sentinel, a shutdown loses no job |

### RoomFiles and the code

A request is a process with a program counter; between two of its steps stands
an `await` at which others run. Its writes are visible to others when its handler
commits (`UploadCommit`, `DeleteCommit`, `WipeCommit`); if it fails they are
rolled back, while objects it put or deleted stay put or deleted.

* Upload: `UploadBegin` (authentication, `_authorize_upload`), `UploadInsert` (the
  PENDING row; its foreign key `uploaded_by` locks the uploader's session),
  `UploadPut`, `ClaimQuota` (the guarded UPDATE of `_claim_quota` and the
  CONFIRMED row), `UploadCommit`; failures are `UploadOrphaned`,
  `UploadPutFails`, `ClaimRefused`. A file, its key and its request have one name.
* Opening an upload session: `UploadBegin`, `UploadInsert`, `SessionCommit`: its
  PENDING row is committed without the lock of the room's row, so a teardown may
  miss it. What follows of a session is `ChunkedUpload`'s.
* Deletion: `DeleteBegin` reads the row, `DeleteMark` updates it by id alone,
  `DeleteUncharge` updates the counters, `DeleteObject`, `DeleteCommit`.
* Teardown: `JobBegin` or `OwnerDeleteBegin`, then `MarkExpired`, `MarkDeleting`,
  `RemoveObject`, `DeleteRows`/`DeleteRow`, `DeleteSessions`, `MarkDeleted`,
  `WipeCommit`; `WipeLost` when another teardown was first. The sessions of all
  members are one row: a teardown locks them together.
* Orphan sweep: `ScanOrphan` finds an object without a committed row, which the object
  of an upload under way is, and `SweepOrphan`, the job, deletes it without another
  look and without a lock, at any time and again.
* `Fail` ends any request in the middle (lost connection, storage error, crash);
  `DeadlockVictim` is PostgreSQL ending one of two transactions that wait for
  each other. A job that was ended runs again, an owner's request does not.

The rows of sessions a teardown deletes are those of members who were
authenticated before it began. Someone who joins while the teardown holds the
room's row is in `RoomMembers`.

### ChunkedUpload and the code

The state is the session's row in `files` (`upload`: status and `size_bytes`), the
room's row (`room`: whether it is open, how often this upload and how often other
files of the same size are charged), the staged chunks (`parts`), what is stored
under `storage_key` (`object`: nothing, less than the file, or the file) and the
program counters. Requests are processes as in `RoomFiles`, over the same rows.

* `store_chunk` is `ChunkBegin` (the row is loaded, its status checked), `ChunkPut`,
  `ChunkCount` (`size_bytes` becomes what was loaded plus this chunk),
  `ChunkCommit`. A chunk that is sent twice is two senders with one index. A put that
  fails (`ChunkPutFails`) deletes the key on S3, and with it a chunk of the same index
  that had arrived. Neither the session's age nor the room's expiry is looked at.
* `complete_upload_session` is `CompleteBegin`, `ListParts`, `MergePart` for each
  chunk in turn, `PutMerged` or `MergeFails`, `ClaimQuota` or `ClaimRefused`,
  `Confirm`, then `DropKey` for each part and `CompleteCommit` or `RefusedAnswer`.
  `Confirm` writes only the columns that differ from the row this request loaded,
  as SQLAlchemy does. Local storage reads a missing part as empty, S3 raises.
* `abort_upload_session` and `EXPIRE_UPLOAD_SESSION` are `AbortBegin` or
  `ExpireBegin`, `CleanupParts`, `DropKey`, `ExpireObject` (the job only),
  `DeleteUpload`, `DeleteCommit`. The job's status check is in `ExpireBegin`; an
  abort has none, and neither looks at the row again: a completion that runs beside
  the job is modelled with all it may lead to.
* The teardown is `CloseRoom` (the room's row is locked and marked), `ListKeys` (the
  keys of rows, so not those of chunks), `DropKey`, `DeleteUpload`, `DeleteCommit`. It
  may break off between any two, which restores the row but not the object, and begins
  again.
* The orphan sweep is `KnownKeys`, `ListOrphans`, then one `DropKey` for each job
  it enqueued, in any order and as late as it likes.
* `RowIsGone` is the flush that finds its row deleted. `OtherFiles` is the room's other
  uploads and deletions.

`UploadContract` says what all of this may do to the file: `Confirm` shows it whole and
charged, `GiveUp` ends the session, `Wipe` takes everything with the room. Two things
that the code allows are named there and not hidden: once a teardown has begun
(`Doom`) it may break off, and a file that is shown may have lost its content (`Lose`,
finding 2); and once the job for stale sessions and a completion have been under way
together (`Cross`), the job may take the content (`Lose`) or the row, which leaves the
charge (`Forget`). The history variables `doomed` and `crossed` of `ChunkedUpload` remember the
two. In no other way does a file that is shown lose content or row, and none
shows a part of itself in any.

`Init` is the state after `create_upload_session`. A chunk has one unit of size;
each file of `OtherFiles` is as large as this one, so `Slots` counts how often it
fits. The rows that this module does not need
(the uploader's session, the audit events) are left out, so the deadlocks are those
of `RoomFiles`; no cycle of waiting is possible between the two rows here, because
whoever writes both takes the room's first.

`UploadClient` conjoins the page: it makes a request of `ChunkedUpload`
(`AskChunk`, `AskComplete`, `AskAbort`) when its code does, hears the answer
(`Hear`, `Catch`) or loses it (`LoseAnswer`); all else is `Serve`, the server's own
steps. `ChunkedUpload` alone lets every request begin at any time, so what holds of
it holds with any client that makes those requests.

### RoomMembers and the code

A visit is one join request and the socket its page then opens. A reload and a
reconnect are new visits of the same browser, which shares its session cookie. The
rows are those of `ReadCommitted`; `sockets` is the registry of `ws/manager.py`,
which is in memory and changes without an `await`; `page` is what a page shows of
members and messages; `todo` holds the sessions a broadcast has still to reach.

* Join (`_establish_session`, `room_service.join_room`): `JoinBegin` loads the room;
  a browser with a cookie has its session looked up (`LookupFinds`,
  `LookupFindsNone`) and gets it again (`Reuse`, `ReuseFails`), anybody else takes a
  slot (`Claim`, `RoomFull`) and a session (`CreateSession`); `JoinCommit` commits
  and answers; `JoinRefused` stands for the closed room, the wrong password and the
  limiter.
* Socket (`room_ws`): `Auth` or `AuthRefused`, `Connect`, the two reads of
  ROOM_STATE (`ListSessions`, `ListMessages`) and its sending (`SendState`, which
  looks at the registry once more), `AnnounceJoin`, then events one by one. `Deliver`
  sends an event to one more session and applies it (`Handled`): a socket keeps the
  order of what it is sent, so nothing is observed between sending and applying. A
  page that has not had ROOM_STATE drops events (`HasState`), as the reducer does
  whose state is still null. A page that reconnects shows its old state until
  ROOM_STATE replaces it; the model starts its new connection with nothing.
* Chat: `Post`, `PostCommit`, `Publish`; `PostFails` when the session was wiped.
* Leave (the `finally` of `room_ws`): `Close` takes the socket out of the registry
  and, if it was the session's last, begins USER_LEFT; `Uncount`, `ExpireSession`,
  `LeaveCommit` follow in one transaction. The UPDATE of `Uncount` matches no row when
  the committed count is 0, and then neither waits nor locks.
* Wipe: `cleanup_room` as far as it meets people: `MarkRoom` (both status updates),
  `DeleteMessages`, `DeleteSessions` and `DeleteSession` for each, which waits for
  whoever holds the row, `WipeCommit`.
* Faults: `Fail` (a statement or commit raises, or the page never opens its socket),
  `ReadFails` (ROOM_STATE cannot be read; the transaction is unusable and the
  `finally` raises too, `UncountFails`), `ChatFails` (the handler's objects are
  expired by the rollback and its `finally` raises at once, so the socket stays
  registered), `Lapse` (`expires_at` passes), `Crash`.

`Registered` is the registry by session; `Connected` are the sessions with a socket whose
handler runs, `Abandoned` those with a socket whose handler broke off before it left the
registry (`PostFails`, `ChatFails`). `NoGhosts` keeps the two apart: a member is shown
while connected or until USER_LEFT arrives, but an abandoned one is shown for good.

`Init` is the state after `POST /rooms` has been answered.

### JobQueue and the code

An item is a room, an upload session or an object. It becomes due once
(`BecomeDue`) and is done when its handler has succeeded once (`Succeed`), which
the handlers allow to happen again. The scheduler's task is `ScanBegin`, `Enqueue`
for each item found, `ScanEnd` or `ScanFails`; a worker's is `Take`, then `Succeed`,
`Raise` and `Retry`. `lifespan` is `Start`, `Shutdown` (which awaits the scheduler,
`SchedulerOff`, cancelled after ten seconds at the latest), `StopQueue` (one
sentinel for each worker, then awaits them), `Exit`. `Kill` is the process dying at
any moment. A queue is lost with its process; items are not.

## 3. Runs

| run | bounds | shows |
| --- | --- | --- |
| `room_files` | 4 files, 1 deleter, 2 workers, 1 owner, 2 faults, at most 2 files or 3 bytes | the room is wiped whole and once, in one transaction, and keeps no file that was shown; counters match files; every step implements `RoomContract` |
| `room_files_live` | 2 files, 1 deleter, 1 worker, 1 fault, 1 upload taken for an orphan, fair | waiting requests are answered, an expired room is wiped; uploads and deletions by themselves lose no object |
| `room_files_double_delete` | 3 files, 2 deleters, at most 1 file | violated: a file deleted twice is uncharged twice and the limit is exceeded |
| `room_files_lost_object` | 3 files, 1 owner | violated: an owner's DELETE that loses a deadlock leaves CONFIRMED files without content |
| `chunked_upload` | 1 chunk, sent twice, 1 completion, the stale-session job, 1 teardown, 1 sweeper, 1 file fits, 1 fault | the session implements `UploadContract`; confirmed is charged; the quota holds |
| `upload_client` | 2 chunks, 1 completion, 1 abort, the job, 1 teardown, 1 sweeper, 1 file fits, 1 fault or 1 answer lost, fair | the page keeps the contract, its aborts included, while it hears every answer; `size_bytes` is exact; nothing is left over in the end |
| `upload_lost_answer` | 2 chunks, 1 completion, 1 abort, 2 files fit, 1 answer lost, no faults, no job, no teardown and no sweep | violated: an abort deletes a CONFIRMED file and leaves it charged |
| `upload_swept` | the same with 1 sweeper and every answer heard | violated: a sweep deletes the chunks of an upload under way |
| `members` | the owner and two visits of one browser, room for 2, 1 message, 1 cleaner, 1 fault | slots are within the limit, cover the live sessions and come back; pages show nobody who has left, except for a handler that broke off, and nothing that is not stored |
| `members_refresh` | two visits of the owner's browser and one of another, room for 1, no faults | violated: a reload makes room for one person too many |
| `message_outlives_room` | as `members`, no faults | violated: a message is committed after the wipe has deleted the messages |
| `job_queue` | 2 items, 2 workers, 2 attempts, 3 runs that raise, 2 stops, queue filled up to 3, fair | a shutdown ends and loses no job; what is due is done in the end |

Why the bounds suffice: file `f2` fills the room alone and the others are small,
so with four files each of the two limits refuses an upload the other would admit,
and one fits again after a deletion. A deleter, two cleaners of a kind and one of
another, and two uploads in flight give each pair of handlers a chance to overlap,
and a cycle of waiting requests has two members (a teardown holds the room's row,
and whoever waits for it holds a file or a session). The deleter begins again and
again, with any file; two of them at once break the counters (finding 1), so that
they have a run of their own. The properties of the teardown are proved for any
number of deleters, those of the counters for any number of which no two delete the
same file at once. `MaxFaults` bounds the requests that break off; two are
enough for a retry to break off as well. `MaxOrphans` bounds the uploads under way that
scans take for orphans. It is 0 in `room_files`: a sweep deletes objects only, and of
that run's properties only `WipedRoomHasNoServedObject` speaks of objects, which it
says are gone; the theorems are for any number. Deadlock checking is off because the
system may rest when every request has ended.

Of an upload, `chunked_upload` has one chunk and two requests that carry it, the
fewest with which a chunk overwrites `size_bytes` after the completion and a put that
fails takes away one that had arrived; a merge then misses the part or not. Two chunks, the
fewest for which a merge finds one part and misses the other and a late chunk meets
an earlier one, are those of `upload_client`, which has the same jobs, sweep and
teardown. One file fits and one other may come and go (`MaxOthers`), so the claim
succeeds or is refused; in `upload_client` the quota is the page's own (`MaxOthers` 0).
`MaxTroubles` bounds lost answers and faults together. The sweep, the job and the
teardown begin again without bound. With several aborts or completions the contract
fails (finding 3; the loser of two completions deletes the object of the winner, or
charges the room again), so `chunked_upload` has one completion and no abort, and
`upload_client` the abort that the page sends.

Fairness (`FairSpec`): asyncio runs every coroutine that is ready, hence weak
fairness of the steps that wait for nothing; PostgreSQL queues for row locks,
hence strong fairness of the steps that take one; the deadlock detector always
runs; a scan finds every expired room (`JobBegin`). FastAPI has read the body of
an upload before it calls the handler, so a put depends on the storage alone.
Browsers owe nothing: no request has to begin. The queue's limit of three attempts
does not appear, because the scheduler enqueues the room again at its next scan
for as long as the status committed is ACTIVE, and that it is committed as
nothing else before the end is what `TeardownIsAtomic` says.

`UploadClient` assumes the same of the server: strong fairness of the steps of a
chunk's request, of a completion, of an abort or job and of a teardown, each as a
whole, since each may have to wait for the lock of a row; scans and their jobs again
and again, and time passes (`Day`). Nothing keeps a chunk or a completion
from running on the day its session becomes stale, so nothing but the locks orders it
against the job. The page owes nothing: it may be closed at any moment, and no teardown
has to begin.

Of a room's people, two visits of one browser are the fewest that share a session,
and a third person is the fewest that takes a slot somebody else has given back. A
room for two is full with the owner and one more, so that a third join is refused or
waits for a leave. One message and one wipe meet every reader and every leave. The
fault is any one of those listed, at any step; with two cleaners, which TLC checked
the inductive invariant with, nothing else happens, because the second one waits and
finds the room DELETED. Deadlock checking is off because everybody may have left;
between the people's requests no cycle of waiting is possible: a join and a leave
take the room's row before a session's, as the wipe does, and a reuse and a message
take one row each.

In `job_queue` two items and two workers let a job run beside its own duplicate and
beside another one, two attempts include one retry and one drop (two attempts of one
job and the first of another use up the three failures), and a queue of three holds a
duplicate in front of the sentinels. Two stops are a shutdown that is killed, or two
processes in turn.

`FairSpec` of `JobQueue`: the event loop runs every task that is ready and its timers
fire, hence weak fairness of a scan, of a worker and of `lifespan`; a handler ends
with success or with an exception, and since `MaxFailures` bounds the exceptions one
of its runs succeeds at last. Nothing in the repository restarts a server that has
stopped: `Start` is not fair, and `DueIsDone` is about servers that are up again and
again. `SchedulerOff` has its own fairness, because `CleanupScheduler.stop` waits ten
seconds and then cancels the task, whatever the scan does. Nothing makes an item due
or stops the process.

### Findings

1. `file_service.py:185`: two deletions of one file that both read it CONFIRMED
   both subtract it from the counters. The room then accepts more than its limit.
   As long as no file is deleted twice at once the counters are exact and the limits
   hold (`CountersAreExact`, `LimitsHold`).
2. `cleanup_service.py:66`: the teardown deletes objects before its commit. It
   always deadlocks with an upload that has inserted its row and has not claimed
   its quota: `delete_by_room` waits for the upload's session lock, the upload for
   the room's row. When PostgreSQL ends the teardown its rollback brings back rows
   without objects. A job is run again and the room goes in the end; the DELETE
   of an owner is not, and the room stays open with files that have no content.
   Without a teardown, a request that breaks off and a scan that takes an upload under
   way for an orphan no file loses its object (`UndisturbedFilesKeepObjects`).
3. `upload_service.py:183`: an abort deletes the row whatever its status, and
   leaves the quota as it is. The page aborts on any error, a lost answer to its
   completion included: the file is gone and the room stays charged for it
   (`src/Plan.md:345` wants both in one transaction). As long as the page hears every
   answer and the stale-session job never runs beside the completion the charges
   are right (`HeardPagesPayOnce`).
4. `scheduler.py:80`: chunks have no row, so a scan, one every minute, takes those
   of an upload under way for orphans. The upload then cannot be completed. It
   stays whole or goes (`ImplementsContract` holds with a sweeper), but a
   client cannot retry single chunks as `src/Plan.md:540` wants. Only a scan takes
   them (`ChunksStayUntilSwept`).
5. `api/rooms.py:112`: a reload finds its session live, the socket of the old page
   closes, gives the slot back and expires the session, and the join then revives
   it. The session lives on without a slot, somebody else gets the slot, and the
   room holds more people than `max_users`. As long as no session is given out again,
   every one of them has a slot (`EveryoneCounted`) and no more than `max_users` are
   connected (`RoomIsNeverOverfull`).
6. `message_service.py:28`: the wipe deletes the messages it sees, a message whose
   insert is not committed is not among them, and the wipe's deletion of the
   sender's session only waits for that commit (`ON DELETE SET NULL`). The message
   stays in the database when the room is gone, without a sender. No other message
   survives its room (`OnlyLatePostsSurvive`).

Four more things the modules contain have no run of their own:

* The row of an upload session is committed without the lock of the room's row
  (`upload_service.py:42`, `api/uploads.py:85`). Between the teardown's DELETE of the
  files (`cleanup_service.py:67`) and that of the sessions (line 69) it is missed, as the
  message of finding 6 is; it outlives the room, without an uploader
  (`ON DELETE SET NULL`), until the stale-session job finds it a day later. No other row
  survives (`OnlyLateSessionsSurvive`).
* A whole-body upload that has put its object and not committed its row looks orphaned
  to a scan, and the job then deletes the object of a CONFIRMED file
  (`cleanup/scheduler.py:79`, `jobs/handlers.py:80`).
* `expire_upload_session` reads the row PENDING and deletes object and row of a file that
  is confirmed meanwhile; its docstring (`jobs/handlers.py:50`) promises a no-op then.
* A handler whose flush or commit fails raises again in its `finally`, before
  `manager.disconnect`: pages go on showing its member for as long as they are open,
  against `api/websocket.py:73` ("joined but left never linger") and `ws/manager.py:54`.

## 4. Proofs

Every safety property that a passing run checks is proved. Each property that a run
finds violated is proved too, under the condition that names what violates it: the
theorem says that the finding has this cause and no other (finding 2: a teardown, or a
request that broke off). The conditions speak of
states the code reaches; only two are about constants, one deleter
(`OneDeleterIsEnough`) and no scan for orphans (`ChunksStayUntilSwept`).

### Whole files and teardowns

`RoomFilesProofs` proves `Spec => []TypeOK` and, for any
number of files, deleters, workers and owners, any sizes and any limits, that a
wiped room has no row left of a file that was shown (`NoFileSurvives`) and no object of
an upload that was answered (`NoServedObjectSurvives`), that the teardown is one
transaction (`TeardownInOneTransaction`) and that one cleaner wipes
(`OneCleanerWipes`).

The assumptions are `LimitsAssumption` (limits and sizes are naturals) and
`NamesAssumption` (files, deleters, workers and owners are different requests).

The properties are not inductive. `IInv` adds

* `RoomLock`: a request holds the lock of the room's row exactly in the states
  after it updated the row and before it ends;
* `RoomStatusInv`: whoever else writes the row leaves the status alone, and
  nobody but a file deletion writes the row of a room that is no longer ACTIVE;
* `FileLock`: a row is locked by its uploader exactly while it is uncommitted, and
  afterwards only by deleters and cleaners in certain states;
* `Progress`: what a teardown has behind it at each step: its list covers the
  objects still served, then none is served; its list covers the rows it has not
  locked, then it has locked all;
* `Wiped`: the goal, and that a finished upload has a row while the room is
  ACTIVE.

The heart of it: from `MarkExpired` on the teardown holds the room's row, an
upload cannot reach `claimed` without it, so no CONFIRMED row is committed after the
teardown takes its lists, and those lists miss no file that is shown.

The PENDING row of an upload session needs no such lock. `OnlyLateSessionsSurvive` is for
behaviours in which none is committed while a teardown stands between its DELETE of the
files and that of the sessions (`NoLateSession`): a wiped room then has no row at all,
because the DELETE of the sessions waits for every insert and no insert finds a session
afterwards (`Seated`, `Gone`).

`UndisturbedFilesKeepObjects` is about `ConfirmedIsStored`, which a teardown's
rollback violates: before the first teardown, the first request that breaks off and the
first scan that takes an upload under way for an orphan (`Untouched`) it holds, but
for the deletion about to commit, with any number of uploads and deleters that deadlock
as they like. What is committed CONFIRMED has its object or a deleter that has
just removed it and holds the row's lock (`Held`, `Erasing`), and an upload that fails
removes an object nobody was shown.

`RoomQuotaProofs` adds the counters: they are the number and the bytes of the room's
files (`CountersAreExact`), the requests implement `RoomContract`
(`RoomKeepsContract`), and the limits hold (`LimitsHold`). All three are for behaviours
in which no two requests delete one file at once (`NoDoubleDelete`); with one deleter
there are no others (`OneDeleterIsEnough`). The condition is needed, for finding 1 is a
double deletion, and nothing else is: any number of deletions of different
files, uploads, teardowns and failures may race. The argument: whoever has
changed the counters holds the lock of the room's row until its commit, and commits the
file it counted in the same transaction, so that the uncommitted counters are the
committed ones plus or minus one file, and a rollback restores both. A deletion marks its
file before it changes the counters, and since nobody else deletes it the file is still
CONFIRMED when it is given back. The bytes of a set of files are the cardinality of a
set with one element for each byte (`Contents` of `RoomContract`), because the library
has theorems about cardinalities and a sum over a set would need an induction.

### Chunked uploads

`ChunkedUploadProofs` proves for any number of senders, completions, aborts, jobs
and sweeps, of chunks and of files, that the quota is never exceeded
(`QuotaIsNeverExceeded`) and that a CONFIRMED file is charged (`NoFileIsFree`). Its
invariant adds who holds the lock of either row in which state (`RoomLock`,
`UploadLock`), that what a claimer holds uncommitted counts its claim
(`OpenClaim`) and that the newest version of the room's row is within the quota too
(`Quota`): a claim is compared with the newest version, which its holder may commit.

It also proves `Spec => ImplementsContract` for at most one completion and no abort
(`OneCompletion`, theorem `SessionKeepsContract`), the rest as above, with any number of
teardowns that break off anywhere. The invariant says of
the steps between two statuses what the state of the storage then is: what a
completion has merged is whole until it is answered, or a teardown or a job that met it has
taken it (`Kept`, `MergeInv`); a job that met no completion works only on a session nobody
confirms any more (`ExpiryInv`); a sweep that lists `storage_key` has found no row that
can still be confirmed (`SweepInv`); a row that is gone stays gone, and goes in the commit
that closes its room (`GoneInv`). From these the status determines content and charge
(`StatusTells`), so that it is enough to show how each action moves the status.

The assumptions are `SizesAssumption` (at least one chunk) and `RolesAssumption`
(requests of different kinds are different).

`UploadClientProofs` is about the page, for one completion, one abort and one sender for
each chunk (`ClientAssumption`), any number of chunks, jobs, teardowns and scans and any
bound on lost answers. That it keeps the contract with its abort (`PageEndsItsUpload`) holds while
it hears every answer: it then aborts only after a request of its own has failed, so
that its completion has failed or will never begin, and nothing can
confirm what the abort deletes (`GivenUp`). The same invariant shows that the room is charged
exactly for a file that is there, as long as the job has not met the completion either
(`HeardPagesPayOnce`). That `size_bytes` counts
the chunks (`SizeCountsChunks`) needs no such condition: a chunk is sent when the
one before it is answered and none after a lost answer (`Sequential`), so the size
that a request loaded is still the committed one when it writes. `ChunksStayUntilSwept`
assumes that there are no scans for orphans: then no job and no abort touches a chunk
before the upload is completed, given up or stale.

### People

`RoomMembersProofs` proves, for any finite set of visits in any browsers, any number
of cleaners and any limit, that `user_count` stays between 0 and `max_users`
(`CountInBounds`) and that, as long as no session is given to a second visit, there
are at most `user_count` live sessions (`LiveSessionsHaveSlots`). That is not
inductive: a session that lapses while its page is open is live no longer, and the
leave of that page still gives a slot back. `IInv` therefore counts `Holders`, the
live sessions, the visits whose leave will give a slot back and the sockets that
handlers which broke off have left in the registry (`Counted`), and adds

* what the holder of the room's row has made of the count: one more in a claim, one
  less at most in a leave, the same in a wipe (`RoomLock`);
* who holds the row of a session in which state, and that a session before its
  commit is its own visit's alone (`SessionLocks`, `Borrowed`); a session about to
  be given up will not be live (`Expiring`); a wipe deletes committed ones
  (`WipesCommitted`);
* what token a visit has in each state, that a cookie names a committed session,
  and which program counters visits and cleaners have (`Tokens`, `Cookies`, `Kinds`).

The commit of a join then adds one holder with one slot, the commit of a leave takes
one slot with its holder, and no other step changes either in the wrong direction.
The assumption is `MembersAssumption`: the visits are finitely many, for they are
counted. Since whoever is connected is a holder, `RoomIsNeverOverfull` follows: as long
as no session is given out again no more than `max_users` people are connected.

`RoomPagesProofs` first proves `NoGhosts` (`NobodyLingers`) and `ShownIsStored`
(`NothingUnsavedShows`). The first needs that a page with somebody on it is
connected and has had ROOM_STATE (`PagesOpen`), since USER_LEFT goes to those who are
registered when its sender leaves the registry, that whoever is shown is registered or
USER_LEFT is due (`ShownAreRegistered`), and that a handler that runs is registered
(`HandlersRegistered`). That a socket is abandoned only by a fault or in a wiped room is
part of the invariant of the slots below (`SocketsServed`). The second rests on `IInv`, whose locks say that the row
of a room that is over is nobody's to reopen (`OverForGood`), on who writes the row of a
message (`MessageLocks`), and on what was read or is about to be sent being stored
already (`ReadIsStored`, `SentIsStored`).

Then it proves the converse of `LiveSessionsHaveSlots` for a room that is ACTIVE and has
seen no fault (`Untroubled`): the count is at most the number of live sessions, those
apart whose leave has found the count at 0 (`Freed`, `NoSlotLost`), and each of those has a visit that has not left yet (`LiveAreSeated`).
For the second, `Close` looks at the registry in the step in which it leaves it, so the
last socket of a session knows that it is the last; and a join that revives a session
will itself leave. At rest nobody is seated, so no session is live and
no slot is taken (`LeaversFreeSlots`).

`OnlyLatePostsSurvive` shows `MessagesDieWithRoom` for behaviours in which no insert of a
message is open while a wipe stands between its DELETE of the messages and its commit
(`NoPostInWipe`). A wipe then holds every committed message and, once its list is done,
every committed session (`Wipers`): none is added meanwhile, for a join needs the room's
row, and a deleted one is not written again (`GoneForGood`). Afterwards no socket has a
session that a message could refer to, and `Auth` lets nobody in (`Aftermath`), so that
the room stays silent for good.

### Jobs

`JobQueueProofs` proves `Spec => []TypeOK`, which says that no attempt exceeds
`MaxAttempts`, that no job is behind a sentinel (`NoJobBehindSentinel`: sentinels are
put only when the scheduler is off, and only an enqueue puts a job), and that a
shutdown that ends has run every job (`ShutdownDrains`: a worker returns when it has
taken a sentinel, behind which there are only sentinels, `ReturnedLast`, and the
process ends when every worker has returned). The assumption is `JobsAssumption`.

### Only model-checked

Liveness, which needs ENABLED: `ExpiredRoomIsWiped`, `RequestsEnd`,
`LeftoversAreRemoved`, `DueIsDone` and `ShutdownEnds`. The inductive invariants
were checked with TLC on small instances before they were proved.

## 5. Not modelled

Downloads (they add one to `download_count` in the file's row, whose lock they hold until
they commit, and change nothing the properties speak of) and audit events (which lock no row that others wait for; a GENERATE_AUDIT_EVENT job never
writes one, because `jobs/handlers.py:88` does not await the insert); errors that S3
swallows: a delete (`storage/s3.py:97`) after which an object may outlive its row until the
sweep, and a listing (line 116) that comes back empty, after which a completion is
refused, a sweep does nothing and an abort leaves its chunks to a later sweep; JOB_DELETE_FILE_OBJECT, by which a scan deletes the object of a DELETED row again;
several rooms (they share no row and no key). Of `ChunkedUpload`: the
creation of a session, which is `RoomFiles`' (`UploadInsert`, `SessionCommit`), so that a
session opened in the middle of a teardown is in that module only; the progress broadcasts;
and that a scan lists at most `job_orphan_sweep_limit` orphans at a time.

Of `RoomMembers`: the events of files, of settings and of expiry; CHAT_DELETE; roles
and passwords (a join may be refused, which is all they do to the counts); changes
of the room's settings; the pool of connections (every request has one); sessions of
other rooms in the cookie (they are as if there were none).

`run_cleanup_pass` and the two `sweep_` functions of `cleanup_service.py`,
`touch_session` and `delete_expired_sessions` are called by tests alone or by nobody.
Of the rest of section 1, see the plan.

## 6. Plan

The runs are to stay few: one per question. In this order:

1. `RoomMembers`: CHAT_DELETE against the broadcast of the message it deletes, whose
   audit event is committed in between.
2. `RoomFiles`: JOB_DELETE_FILE_OBJECT and deletes that fail silently, beside the orphan
   sweep it has, and that every object without a row goes in the end.
3. `Realtime`: the events of files, settings and expiry against the reducer.
4. `RateLimiter`: the fixed window against a sliding one; proof of the factor two.
5. Downloads in `RoomFiles`.
