----------------------------- MODULE RoomFiles -----------------------------
(***************************************************************************)
(* The files of one room: uploads, deletions by the owner, the sweep of    *)
(* storage and the teardown of the room, as they meet in the rows of       *)
(* PostgreSQL and in object storage.                                       *)
(*                                                                         *)
(* Every request is a process.  It runs in one database transaction, which *)
(* its API handler or its job commits at the end; between two of its       *)
(* awaits any other request may run.  What it read at its start is not     *)
(* read again.  The objects in storage are outside the transaction: a      *)
(* rollback does not bring one back.                                       *)
(***************************************************************************)
EXTENDS ReadCommitted, Integers, FiniteSets

CONSTANTS
    Files,          \* the files that may be uploaded, each also the name of its
                    \* storage key and of the request that uploads it
    Deleters,       \* requests of owners' browsers that delete a file
    Workers,        \* job-queue workers that run ROOM_CLEANUP
    OwnerDeletes,   \* requests DELETE /rooms/{token}
    Size,           \* Size[f]: the bytes of file f
    MaxFiles,       \* settings.max_files_per_room
    MaxStorage,     \* settings.max_room_storage_bytes
    MaxFaults,      \* bound: how many requests may break off in the middle
    MaxOrphans,     \* bound: how many keys the scans may find orphaned
    NoFile          \* the target of a deleter at rest

Cleaners == Workers \cup OwnerDeletes
Requests == Files \cup Deleters \cup Cleaners

ASSUME LimitsAssumption ==
    /\ MaxFiles \in Nat \ {0}
    /\ MaxStorage \in Nat
    /\ MaxFaults \in Nat
    /\ MaxOrphans \in Nat
    /\ Size \in [Files -> Nat]

ASSUME NamesAssumption ==
    /\ Files \cap (Deleters \cup Cleaners) = {}
    /\ Deleters \cap Cleaners = {}
    /\ Workers \cap OwnerDeletes = {}
    /\ NoTx \notin Requests
    /\ NoFile \notin Files

VARIABLES
    room,           \* the row of `rooms`: status and the two quota counters
    file,           \* file[f]: the row of `files`, as its status
    sessions,       \* the rows of `sessions` of the room's members, as one
    objects,        \* the storage keys that hold an object
    pc,             \* pc[r]: where request r stands
    target,         \* target[d]: the file deleter d is about to delete
    todo,           \* todo[c]: the keys or rows cleaner c has still to delete
    expired,        \* whether expires_at has passed
    faults,         \* how many requests have broken off so far
    orphans         \* the keys for which a scan has enqueued CLEANUP_ORPHANED_OBJECT

vars == <<room, file, sessions, objects, pc, target, todo, expired, faults, orphans>>

RoomStatus == {"ACTIVE", "EXPIRED", "DELETING", "DELETED"}
FileStatus == {"ABSENT", "PENDING", "CONFIRMED", "DELETED"}   \* ABSENT: no row
SessionStatus == {"LIVE", "ABSENT"}
RoomValue == [status : RoomStatus, used : Int, count : Int]

UploadPC  == {"idle", "authorized", "streaming", "stored", "claimed", "done", "open",
              "failed"}
DeletePC  == {"idle", "found", "marked", "uncharged", "removed"}
CleanerPC == {"idle", "expire", "delete", "objects", "rows", "unseated", "emptied",
              "wiped", "over"}

(***************************************************************************)
(* How a transaction ends.                                                 *)
(***************************************************************************)
CommitAll(r) ==
    /\ room' = Commit(room, r)
    /\ file' = [f \in Files |-> Commit(file[f], r)]
    /\ sessions' = Commit(sessions, r)

RollbackAll(r) ==
    /\ room' = Rollback(room, r)
    /\ file' = [f \in Files |-> Rollback(file[f], r)]
    /\ sessions' = Rollback(sessions, r)

(***************************************************************************)
(* upload_file and create_upload_session                                   *)
(***************************************************************************)
\* require_member and _authorize_upload: the session is known, the room that
\* was loaded is ACTIVE, the actor may upload.  None of it is read again.
UploadBegin(f) ==
    /\ pc[f] = "idle"
    /\ Sees(room, f).status = "ACTIVE"
    /\ pc' = [pc EXCEPT ![f] = "authorized"]
    /\ UNCHANGED <<room, file, sessions, objects, target, todo, expired, faults, orphans>>

\* The row is inserted PENDING, by a whole-body upload and by the request that
\* opens an upload session alike; nobody else sees it before the commit.  Its
\* foreign key uploaded_by locks the uploader's session (FOR KEY SHARE), so the
\* insert waits for a teardown that has deleted the session.
UploadInsert(f) ==
    /\ pc[f] = "authorized"
    /\ Lockable(sessions, f)
    /\ sessions.saved = "LIVE"
    /\ file' = [file EXCEPT ![f] = Write(@, f, "PENDING")]
    /\ pc' = [pc EXCEPT ![f] = "streaming"]
    /\ UNCHANGED <<room, sessions, objects, target, todo, expired, faults, orphans>>

\* The session is gone: the insert violates the foreign key and the request
\* ends in an error, with nothing written.
UploadOrphaned(f) ==
    /\ pc[f] = "authorized"
    /\ sessions.saved = "ABSENT"
    /\ pc' = [pc EXCEPT ![f] = "failed"]
    /\ UNCHANGED <<room, file, sessions, objects, target, todo, expired, faults, orphans>>

\* An upload session's row is committed before a byte is sent, and without the
\* lock of the room's row.  What becomes of it then is ChunkedUpload's matter.
SessionCommit(f) ==
    /\ pc[f] = "streaming"
    /\ CommitAll(f)
    /\ pc' = [pc EXCEPT ![f] = "open"]
    /\ UNCHANGED <<objects, target, todo, expired, faults, orphans>>

\* The uploads whose insert is not committed: they lock their sessions.
Inserting == {f \in Files : pc[f] \in {"streaming", "stored", "claimed"}}

UploadPut(f) ==
    /\ pc[f] = "streaming"
    /\ objects' = objects \cup {f}
    /\ pc' = [pc EXCEPT ![f] = "stored"]
    /\ UNCHANGED <<room, file, sessions, target, todo, expired, faults, orphans>>

\* _cleanup_failed_upload: the object and the row go, and the error that is
\* raised next ends the transaction without a commit.
CleanupFailedUpload(f) ==
    /\ objects' = objects \ {f}
    /\ RollbackAll(f)
    /\ pc' = [pc EXCEPT ![f] = "failed"]
    /\ UNCHANGED <<target, todo, expired, faults, orphans>>

\* The body is too large or storage.put raises.
UploadPutFails(f) ==
    /\ pc[f] = "streaming"
    /\ CleanupFailedUpload(f)

\* Variant: <= where the limit on files needs <.
ClaimHoldsOneTooMany(v, f) ==
    /\ v.status = "ACTIVE"
    /\ v.count <= MaxFiles
    /\ v.used + Size[f] <= MaxStorage

\* The WHERE clause of _claim_quota on a version v of the room's row.
ClaimHolds(v, f) ==
    /\ v.status = "ACTIVE"
    /\ v.count < MaxFiles
    /\ v.used + Size[f] <= MaxStorage

Charged(v, f) ==
    [status |-> v.status, used |-> v.used + Size[f], count |-> v.count + 1]

ClaimQuota(f) ==
    /\ pc[f] = "stored"
    /\ Lockable(room, f)
    /\ ClaimHolds(room.draft, f)
    /\ room' = Write(room, f, Charged(room.draft, f))
    /\ file' = [file EXCEPT ![f] = Write(@, f, "CONFIRMED")]
    /\ pc' = [pc EXCEPT ![f] = "claimed"]
    /\ UNCHANGED <<sessions, objects, target, todo, expired, faults, orphans>>

ClaimRefused(f) ==
    /\ pc[f] = "stored"
    /\ ~ClaimHolds(Sees(room, f), f)
    /\ CleanupFailedUpload(f)

UploadCommit(f) ==
    /\ pc[f] = "claimed"
    /\ CommitAll(f)
    /\ pc' = [pc EXCEPT ![f] = "done"]
    /\ UNCHANGED <<objects, target, todo, expired, faults, orphans>>

UploadStep(f) ==
    \/ UploadBegin(f) \/ UploadInsert(f) \/ UploadOrphaned(f)
    \/ SessionCommit(f) \/ UploadPut(f) \/ UploadPutFails(f)
    \/ ClaimQuota(f) \/ ClaimRefused(f) \/ UploadCommit(f)

(***************************************************************************)
(* delete_file                                                             *)
(***************************************************************************)
\* get_file: the committed row is CONFIRMED.  It is not read again.
DeleteBegin(d, f) ==
    /\ pc[d] = "idle"
    /\ Sees(file[f], d) = "CONFIRMED"
    /\ target' = [target EXCEPT ![d] = f]
    /\ pc' = [pc EXCEPT ![d] = "found"]
    /\ UNCHANGED <<room, file, sessions, objects, todo, expired, faults, orphans>>

\* mark_deleted updates the row by id alone; a row that is gone is no error.
DeleteMark(d) ==
    /\ pc[d] = "found"
    /\ LET f == target[d] IN
        \/ /\ Sees(file[f], d) = "ABSENT"
           /\ UNCHANGED file
        \/ /\ Lockable(file[f], d)
           /\ file[f].draft # "ABSENT"
           /\ file' = [file EXCEPT ![f] = Write(@, d, "DELETED")]
    /\ pc' = [pc EXCEPT ![d] = "marked"]
    /\ UNCHANGED <<room, sessions, objects, target, todo, expired, faults, orphans>>

\* Variant: the bytes are given back, the file is not.
UnchargedBytesOnly(v, f) == [v EXCEPT !.used = @ - Size[f]]

Uncharged(v, f) ==
    [status |-> v.status, used |-> v.used - Size[f], count |-> v.count - 1]

\* update_storage_and_file_count has no condition on the room's status.
DeleteUncharge(d) ==
    /\ pc[d] = "marked"
    /\ Lockable(room, d)
    /\ room' = Write(room, d, Uncharged(room.draft, target[d]))
    /\ pc' = [pc EXCEPT ![d] = "uncharged"]
    /\ UNCHANGED <<file, sessions, objects, target, todo, expired, faults, orphans>>

\* The object goes before the handler commits.
DeleteObject(d) ==
    /\ pc[d] = "uncharged"
    /\ objects' = objects \ {target[d]}
    /\ pc' = [pc EXCEPT ![d] = "removed"]
    /\ UNCHANGED <<room, file, sessions, target, todo, expired, faults, orphans>>

\* Variant: the handler ends without a commit, and its transaction with it.
DeleteCommitForgotten(d) ==
    /\ pc[d] = "removed"
    /\ RollbackAll(d)
    /\ pc' = [pc EXCEPT ![d] = "idle"]
    /\ target' = [target EXCEPT ![d] = NoFile]
    /\ UNCHANGED <<objects, todo, expired, faults, orphans>>

DeleteCommit(d) ==
    /\ pc[d] = "removed"
    /\ CommitAll(d)
    /\ pc' = [pc EXCEPT ![d] = "idle"]
    /\ target' = [target EXCEPT ![d] = NoFile]
    /\ UNCHANGED <<objects, todo, expired, faults, orphans>>

DeleteServed(d) ==
    DeleteMark(d) \/ DeleteUncharge(d) \/ DeleteObject(d) \/ DeleteCommit(d)

(***************************************************************************)
(* cleanup_room, run by a worker for a room the scheduler found expired or *)
(* by the owner's DELETE request.                                          *)
(***************************************************************************)
JobBegin(w) ==
    /\ pc[w] = "idle"
    /\ expired
    /\ Sees(room, w).status # "DELETED"
    /\ pc' = [pc EXCEPT ![w] = "expire"]
    /\ UNCHANGED <<room, file, sessions, objects, target, todo, expired, faults, orphans>>

OwnerDeleteBegin(o) ==
    /\ pc[o] = "idle"
    /\ sessions.saved = "LIVE"
    /\ pc' = [pc EXCEPT ![o] = "expire"]
    /\ UNCHANGED <<room, file, sessions, objects, target, todo, expired, faults, orphans>>

\* Variant: the transition is made whatever the status is.
MarkRoomUnguarded(c, from, to) ==
    /\ Lockable(room, c)
    /\ room' = Write(room, c, [room.draft EXCEPT !.status = to])

\* One guarded transition of the room's status (mark_room_expired and the
\* two that follow it).
MarkRoom(c, from, to) ==
    /\ Lockable(room, c)
    /\ room.draft.status = from
    /\ room' = Write(room, c, [room.draft EXCEPT !.status = to])

\* Variant: the expiry is committed before the content is wiped.
MarkExpiredAtOnce(c) ==
    /\ pc[c] = "expire"
    /\ Lockable(room, c)
    /\ room.draft.status = "ACTIVE"
    /\ room' = Clean([room.draft EXCEPT !.status = "EXPIRED"])
    /\ pc' = [pc EXCEPT ![c] = "delete"]
    /\ UNCHANGED <<file, sessions, objects, target, todo, expired, faults, orphans>>

MarkExpired(c) ==
    /\ pc[c] = "expire"
    /\ MarkRoom(c, "ACTIVE", "EXPIRED")
    /\ pc' = [pc EXCEPT ![c] = "delete"]
    /\ UNCHANGED <<file, sessions, objects, target, todo, expired, faults, orphans>>

\* Another cleaner has committed: neither UPDATE finds the row, cleanup_room
\* returns False and the caller commits a transaction that wrote nothing.
WipeLost(c) ==
    /\ pc[c] = "expire"
    /\ Sees(room, c).status # "ACTIVE"
    /\ pc' = [pc EXCEPT ![c] = IF c \in Workers THEN "idle" ELSE "over"]
    /\ UNCHANGED <<room, file, sessions, objects, target, todo, expired, faults, orphans>>

\* Variant: only soft-deleted files are listed.
VisibleFilesDeleted(c) == {f \in Files : Sees(file[f], c) = "DELETED"}

\* Variant: only files that clients are shown are listed.
VisibleFilesConfirmed(c) == {f \in Files : Sees(file[f], c) = "CONFIRMED"}

VisibleFiles(c) == {f \in Files : Sees(file[f], c) # "ABSENT"}

\* mark_room_deleting, then list_room_storage_keys.
MarkDeleting(c) ==
    /\ pc[c] = "delete"
    /\ MarkRoom(c, "EXPIRED", "DELETING")
    /\ todo' = [todo EXCEPT ![c] = VisibleFiles(c)]
    /\ pc' = [pc EXCEPT ![c] = "objects"]
    /\ UNCHANGED <<file, sessions, objects, target, expired, faults, orphans>>

RemoveObject(c, f) ==
    /\ pc[c] = "objects"
    /\ f \in todo[c]
    /\ objects' = objects \ {f}
    /\ todo' = [todo EXCEPT ![c] = @ \ {f}]
    /\ UNCHANGED <<room, file, sessions, pc, target, expired, faults, orphans>>

\* delete_file_records takes its snapshot, then locks the rows one by one.  A row
\* committed after the snapshot is not in it.
DeleteRows(c) ==
    /\ pc[c] = "objects"
    /\ todo[c] = {}
    /\ todo' = [todo EXCEPT ![c] = VisibleFiles(c)]
    /\ pc' = [pc EXCEPT ![c] = "rows"]
    /\ UNCHANGED <<room, file, sessions, objects, target, expired, faults, orphans>>

DeleteRow(c, f) ==
    /\ pc[c] = "rows"
    /\ f \in todo[c]
    /\ Lockable(file[f], c)
    /\ file' = [file EXCEPT ![f] = Write(@, c, "ABSENT")]
    /\ todo' = [todo EXCEPT ![c] = @ \ {f}]
    /\ UNCHANGED <<room, sessions, objects, pc, target, expired, faults, orphans>>

\* session_repository.delete_by_room needs the sessions for itself: it waits
\* for every upload that has inserted its row and not ended.
DeleteSessions(c) ==
    /\ pc[c] = "rows"
    /\ todo[c] = {}
    /\ Inserting = {}
    /\ Lockable(sessions, c)
    /\ sessions' = Write(sessions, c, "ABSENT")
    /\ pc' = [pc EXCEPT ![c] = "unseated"]
    /\ UNCHANGED <<room, file, objects, target, todo, expired, faults, orphans>>

MarkDeleted(c) ==
    /\ pc[c] = "unseated"
    /\ MarkRoom(c, "DELETING", "DELETED")
    /\ pc' = [pc EXCEPT ![c] = "emptied"]
    /\ UNCHANGED <<file, sessions, objects, target, todo, expired, faults, orphans>>

\* Variant: the caller forgets to commit and keeps its session open.
WipeCommitForgotten(c) ==
    /\ pc[c] = "emptied"
    /\ pc' = [pc EXCEPT ![c] = "wiped"]
    /\ UNCHANGED <<room, file, sessions, objects, target, todo, expired, faults, orphans>>

\* cleanup_room has returned True; its caller commits.
WipeCommit(c) ==
    /\ pc[c] = "emptied"
    /\ CommitAll(c)
    /\ pc' = [pc EXCEPT ![c] = "wiped"]
    /\ UNCHANGED <<objects, target, todo, expired, faults, orphans>>

CleanerStep(c) ==
    \/ MarkExpired(c) \/ WipeLost(c) \/ MarkDeleting(c) \/ DeleteRows(c)
    \/ DeleteSessions(c) \/ MarkDeleted(c) \/ WipeCommit(c)
    \/ \E f \in Files : RemoveObject(c, f) \/ DeleteRow(c, f)

(***************************************************************************)
(* Requests that break off: the statement fails, the connection or the     *)
(* process is lost, storage raises where nothing catches it.  PostgreSQL   *)
(* rolls the transaction back; what was done to the storage stays.  The    *)
(* next scan runs a broken-off job again; an owner may ask again.          *)
(***************************************************************************)
AtRest == {"idle", "done", "open", "failed", "wiped", "over"}

\* Variant: a job that breaks off is not found by a later scan.
AbortForGood(r) ==
    /\ RollbackAll(r)
    /\ pc' = [pc EXCEPT ![r] = IF r \in Deleters THEN "idle" ELSE "failed"]
    /\ target' = [d \in Deleters |-> IF d = r THEN NoFile ELSE target[d]]
    /\ todo' = [c \in Cleaners |-> IF c = r THEN {} ELSE todo[c]]
    /\ UNCHANGED <<objects, expired, orphans>>

Abort(r) ==
    /\ RollbackAll(r)
    /\ pc' = [pc EXCEPT ![r] = IF r \in Files THEN "failed" ELSE
                               IF r \in OwnerDeletes THEN "over" ELSE "idle"]
    /\ target' = [d \in Deleters |-> IF d = r THEN NoFile ELSE target[d]]
    /\ todo' = [c \in Cleaners |-> IF c = r THEN {} ELSE todo[c]]
    /\ UNCHANGED <<objects, expired, orphans>>

Fail(r) ==
    /\ faults < MaxFaults
    /\ pc[r] \notin AtRest
    /\ faults' = faults + 1
    /\ Abort(r)

\* The transactions whose row locks request r waits for.
WaitsFor(r) ==
    LET roomHolder == {room.by} \ {r, NoTx}
        holder(f) == {file[f].by} \ {r, NoTx}
    IN  CASE r \in Deleters /\ pc[r] = "found" -> holder(target[r])
          [] r \in Deleters /\ pc[r] = "marked" -> roomHolder
          [] r \in Cleaners /\ pc[r] = "rows" /\ todo[r] # {} ->
                UNION {holder(f) : f \in todo[r]}
          [] r \in Cleaners /\ pc[r] = "rows" -> Inserting
          [] r \in Cleaners /\ pc[r] = "expire" -> roomHolder
          [] r \in Files /\ pc[r] = "authorized" -> {sessions.by} \ {NoTx}
          [] r \in Files /\ pc[r] = "stored" /\ ClaimHolds(room.saved, r) -> roomHolder
          [] OTHER -> {}

\* PostgreSQL finds two transactions that wait for each other and ends one.
DeadlockVictim(r) ==
    /\ \E s \in WaitsFor(r) : r \in WaitsFor(s)
    /\ Abort(r)
    /\ UNCHANGED faults

(***************************************************************************)
(* The sweep of storage.  A scan compares the keys in storage with the     *)
(* committed rows, so the object of an upload that has not committed looks *)
(* orphaned; the job that deletes it looks at no row and takes no lock.    *)
(* A job may be retried, so its key stays in `orphans`.  (The scan reads   *)
(* the rows first and lists storage then; an object is put before its row  *)
(* is committed, so no key is found that one look would not find.)         *)
(***************************************************************************)
ScanOrphan(f) ==
    /\ f \in objects
    /\ file[f].saved = "ABSENT"
    /\ Cardinality(orphans \cup {f}) <= MaxOrphans
    /\ orphans' = orphans \cup {f}
    /\ UNCHANGED <<room, file, sessions, objects, pc, target, todo, expired, faults>>

SweepOrphan(f) ==
    /\ f \in orphans
    /\ objects' = objects \ {f}
    /\ UNCHANGED <<room, file, sessions, pc, target, todo, expired, faults, orphans>>

Expire ==
    /\ ~expired
    /\ expired' = TRUE
    /\ UNCHANGED <<room, file, sessions, objects, pc, target, todo, faults, orphans>>

-----------------------------------------------------------------------------
Init ==
    /\ room = Clean([status |-> "ACTIVE", used |-> 0, count |-> 0])
    /\ file = [f \in Files |-> Clean("ABSENT")]
    /\ sessions = Clean("LIVE")
    /\ objects = {}
    /\ pc = [r \in Requests |-> "idle"]
    /\ target = [d \in Deleters |-> NoFile]
    /\ todo = [c \in Cleaners |-> {}]
    /\ expired = FALSE
    /\ faults = 0
    /\ orphans = {}

Next ==
    \/ \E f \in Files : UploadStep(f)
    \/ \E d \in Deleters : DeleteServed(d) \/ \E f \in Files : DeleteBegin(d, f)
    \/ \E w \in Workers : JobBegin(w)
    \/ \E o \in OwnerDeletes : OwnerDeleteBegin(o)
    \/ \E c \in Cleaners : CleanerStep(c)
    \/ \E r \in Requests : Fail(r) \/ DeadlockVictim(r)
    \/ \E f \in Files : ScanOrphan(f) \/ SweepOrphan(f)
    \/ Expire

Spec == Init /\ [][Next]_vars

(***************************************************************************)
(* Fairness.  asyncio runs every coroutine that is ready, so a request     *)
(* whose next statement can run runs it; PostgreSQL grants a row lock in   *)
(* the order in which it was asked for, hence SF where a lock is awaited.  *)
(* FastAPI has read the whole body before it calls the handler, so a put   *)
(* depends on the storage alone and ends.  Nothing is assumed of the       *)
(* browsers: an upload or a deletion may never be asked for.               *)
(***************************************************************************)
Fairness ==
    /\ \A f \in Files : /\ SF_vars(UploadInsert(f))
                        /\ SF_vars(ClaimQuota(f))
                        /\ WF_vars(UploadStep(f) /\ pc[f] # "idle")
    /\ \A d \in Deleters : SF_vars(DeleteMark(d)) /\ SF_vars(DeleteUncharge(d))
                           /\ WF_vars(DeleteObject(d) \/ DeleteCommit(d))
    /\ \A w \in Workers : WF_vars(JobBegin(w))
    /\ \A c \in Cleaners : /\ SF_vars(MarkExpired(c))
                           /\ SF_vars(\E f \in Files : DeleteRow(c, f))
                           /\ SF_vars(DeleteSessions(c))
                           /\ WF_vars(CleanerStep(c))
    /\ WF_vars(\E r \in Requests : DeadlockVictim(r))
    /\ WF_vars(Expire)

FairSpec == Spec /\ Fairness

-----------------------------------------------------------------------------
(***************************************************************************)
(* Properties                                                              *)
(***************************************************************************)
\* Every row, request and counter holds a value of its type.
TypeOK ==
    /\ room \in Row(RoomValue, Requests)
    /\ file \in [Files -> Row(FileStatus, Requests)]
    /\ sessions \in Row(SessionStatus, Requests)
    /\ objects \subseteq Files
    /\ pc \in [Requests -> UploadPC \cup DeletePC \cup CleanerPC]
    /\ \A f \in Files : pc[f] \in UploadPC
    /\ \A d \in Deleters : pc[d] \in DeletePC
    /\ \A c \in Cleaners : pc[c] \in CleanerPC
    /\ target \in [Deleters -> Files \cup {NoFile}]
    /\ \A d \in Deleters : pc[d] # "idle" => target[d] \in Files
    /\ todo \in [Cleaners -> SUBSET Files]
    /\ expired \in BOOLEAN
    /\ faults \in 0 .. MaxFaults
    /\ orphans \subseteq Files

\* No teardown misses a file that clients were shown, whatever uploads were
\* claiming quota when it began: the only rows left in a DELETED room are PENDING,
\* of upload sessions.
WipedRoomKeepsNoFile ==
    room.saved.status = "DELETED" => \A f \in Files : file[f].saved \in {"ABSENT", "PENDING"}

\* Nor does it leave the object of a file whose upload had been answered.
WipedRoomHasNoServedObject ==
    room.saved.status = "DELETED" => \A f \in objects : pc[f] # "done"

\* Of the workers and owners that tear the room down at once, cleanup_room
\* returns True, and the content is wiped, for one.
SingleWipe ==
    \A c, e \in Cleaners : pc[c] = "wiped" /\ pc[e] = "wiped" => c = e

\* The whole teardown is one transaction: no other request and no restart
\* ever finds a room EXPIRED or DELETING.
TeardownIsAtomic == room.saved.status \in {"ACTIVE", "DELETED"}

CC == INSTANCE RoomContract WITH
        open <- room.saved.status = "ACTIVE",
        held <- {f \in Files : file[f].saved = "CONFIRMED"}

Confirmed == {f \in Files : file[f].saved = "CONFIRMED"}

\* The quota counters of an open room are those of its files: nothing is
\* charged for a failed upload and a deleted file is given back, once.
ChargesMatchFiles ==
    room.saved.status = "ACTIVE" =>
        /\ room.saved.count = Cardinality(Confirmed)
        /\ room.saved.used = CC!Bytes(Confirmed)

\* The files clients can download stay within the room's limits.
FilesWithinLimits == CC!Fits(Confirmed)

\* Once every request has ended, a file that clients are shown as CONFIRMED
\* can be downloaded.
ConfirmedIsStored == (\A r \in Requests : pc[r] \in AtRest) => Confirmed \subseteq objects

\* No teardown has begun, no request has broken off and no scan has taken an
\* upload under way for an orphan.
Untouched ==
    /\ ~expired /\ faults = 0 /\ orphans = {}
    /\ \A o \in OwnerDeletes : pc[o] = "idle"

\* Uploads and deletions alone, and their deadlocks with each other, cost no
\* object: a file that clients are shown is in storage, but for the deletion that
\* is about to commit.
UndisturbedFilesAreStored ==
    Untouched =>
        \A f \in Confirmed :
            f \in objects \/ \E d \in Deleters : pc[d] = "removed" /\ target[d] = f

\* With one delete request at a time the requests implement RoomContract.
ImplementsContract == CC!Spec

\* An expired room is wiped, whatever requests are under way and although
\* some of them break off.
ExpiredRoomIsWiped == expired ~> room.saved.status = "DELETED"

\* A request that waits for a row lock is answered: cleanup_room takes its
\* locks in the opposite order to delete_file (the file, then the room) and to
\* upload_file (the session, then the room), and one of the two gives way.
RequestsEnd ==
    /\ \A f \in Files : pc[f] = "authorized" ~> pc[f] \in {"done", "open", "failed"}
    /\ \A d \in Deleters : pc[d] = "found" ~> pc[d] = "idle"
=============================================================================
