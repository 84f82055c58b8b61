---------------------------- MODULE ChunkedUpload ----------------------------
(***************************************************************************)
(* One upload session: a PENDING row whose chunks are staged as objects of *)
(* their own, then merged, charged to the room and CONFIRMED, or given up. *)
(* Beside the requests of browsers run the jobs that remove an abandoned   *)
(* session and orphaned objects, and the teardown of the room.  As in      *)
(* RoomFiles a request is one transaction, what it read is not read again, *)
(* and storage is outside it.                                              *)
(*                                                                         *)
(* Every chunk has one unit of size; the sizes of the room's other files   *)
(* are multiples of this upload's.                                         *)
(***************************************************************************)
EXTENDS ReadCommitted, Integers, FiniteSets

CONSTANTS
    Senders,        \* requests PUT .../chunks/{index}
    Completers,     \* requests POST .../complete
    Aborters,       \* requests DELETE /uploads/{id}
    Expirers,       \* workers that run EXPIRE_UPLOAD_SESSION
    Cleaners,       \* workers and owners that tear the room down
    Sweepers,       \* scans for orphans with the jobs they enqueue
    N,              \* the number of chunks, which is also total_size_bytes
    ChunkOf,        \* ChunkOf[s]: the chunk that sender s carries
    Slots,          \* how many uploads of this size the room's quota holds
    MaxOthers,      \* bound: how much of the quota other files take
    MaxFaults       \* bound: how many requests may break off in the middle

Indices == 1 .. N
Browser == Senders \cup Completers \cup Aborters
Workers == Expirers \cup Cleaners
Requests == Browser \cup Workers
Listers == Completers \cup Aborters \cup Workers \cup Sweepers

ASSUME SizesAssumption ==
    /\ N \in Nat \ {0}
    /\ Slots \in Nat
    /\ MaxOthers \in 0 .. Slots
    /\ MaxFaults \in Nat
    /\ ChunkOf \in [Senders -> Indices]

ASSUME RolesAssumption ==
    /\ Senders \cap (Completers \cup Aborters \cup Workers \cup Sweepers) = {}
    /\ Completers \cap (Aborters \cup Workers \cup Sweepers) = {}
    /\ Aborters \cap (Workers \cup Sweepers) = {}
    /\ Expirers \cap (Cleaners \cup Sweepers) = {}
    /\ Cleaners \cap Sweepers = {}
    /\ NoTx \notin Requests

VARIABLES
    upload,         \* the row of `files`: its status and size_bytes
    room,           \* the row of `rooms`: open, and whom its quota is charged for
    parts,          \* the indices of the chunks that are staged
    object,         \* what is stored under storage_key
    pc,             \* pc[r]: where request, job or scan r stands
    seen,           \* seen[r]: the size_bytes that r loaded with the row
    todo,           \* todo[r]: the parts that r listed and has still to handle
    torn,           \* the completers that missed a part while merging
    known,          \* the sweepers that found storage_key in a row
    stale,          \* whether the session is older than 24 hours
    faults,         \* how many requests have broken off so far
    doomed,         \* history: whether a teardown of the room has ever begun
    crossed         \* history: whether a completion and a run of the job for
                    \* stale sessions have ever been under way together

history == <<doomed, crossed>>
vars == <<upload, room, parts, object, pc, seen, todo, torn, known, stale, faults, history>>
memory == <<seen, todo, torn, known, stale, faults, history>>

UploadValue == [status : {"PENDING", "CONFIRMED", "ABSENT"}, size : Nat]
RoomValue == [open : BOOLEAN, mine : Nat, others : Nat]
Content == {"none", "short", "whole"}

Final == 0                  \* storage_key itself, among the keys in storage
Keys == Indices \cup {Final}

Gone == [status |-> "ABSENT", size |-> 0]

SenderPC    == {"idle", "storing", "stored", "counted", "done", "failed"}
CompleterPC == {"idle", "listing", "merging", "merged", "claimed", "confirmed",
                "refused", "done", "failed"}
AborterPC   == {"idle", "listing", "dropping", "deleted", "done", "failed"}
ExpirerPC   == {"idle", "listing", "dropping", "emptied", "deleted"}
CleanerPC   == {"idle", "listing", "dropping", "deleted"}
SweeperPC   == {"idle", "listing", "dropping"}

UnderWay(r) == pc[r] \notin {"idle", "done", "failed"}

Status(r) == Sees(upload, r).status

Goto(r, label) == pc' = [pc EXCEPT ![r] = label]

CommitAll(r) == upload' = Commit(upload, r) /\ room' = Commit(room, r)
RollbackAll(r) == upload' = Rollback(upload, r) /\ room' = Rollback(room, r)

\* A request answers with an error; its transaction is rolled back.
Raise(r) == RollbackAll(r) /\ Goto(r, "failed")

(***************************************************************************)
(* store_chunk                                                             *)
(***************************************************************************)
\* _pending_session and the check of the status; the age of the session or of
\* its room is not looked at.
ChunkBegin(s) ==
    /\ pc[s] = "idle"
    /\ \/ /\ Status(s) = "PENDING"
          /\ Goto(s, "storing")
          /\ seen' = [seen EXCEPT ![s] = upload.saved.size]
       \/ /\ Status(s) # "PENDING"
          /\ Goto(s, "failed")
          /\ UNCHANGED seen
    /\ UNCHANGED <<upload, room, parts, object, todo, torn, known, stale, faults, history>>

ChunkPut(s) ==
    /\ pc[s] = "storing"
    /\ parts' = parts \cup {ChunkOf[s]}
    /\ Goto(s, "stored")
    /\ UNCHANGED <<upload, room, object, memory>>

\* The storage raises; S3 then deletes the key, which may hold what an earlier
\* request has stored of the chunk.
ChunkPutFails(s) ==
    /\ pc[s] = "storing"
    /\ parts' \in {parts, parts \ {ChunkOf[s]}}
    /\ Raise(s)
    /\ UNCHANGED <<object, memory>>

\* The flush writes the size this request computed, whatever the row has become.
ChunkCount(s) ==
    /\ pc[s] = "stored"
    /\ Lockable(upload, s)
    /\ upload.draft.status # "ABSENT"
    /\ upload' = Write(upload, s, [upload.draft EXCEPT !.size = seen[s] + 1])
    /\ Goto(s, "counted")
    /\ UNCHANGED <<room, parts, object, memory>>

\* The UPDATE of the flush matches no row: StaleDataError.  The part stays.
RowIsGone(r) ==
    /\ pc[r] \in {"stored", "claimed"}
    /\ Status(r) = "ABSENT"
    /\ Raise(r)
    /\ UNCHANGED <<parts, object, memory>>

ChunkCommit(s) ==
    /\ pc[s] = "counted"
    /\ CommitAll(s)
    /\ Goto(s, "done")
    /\ UNCHANGED <<parts, object, memory>>

SendStep(s) ==
    ChunkPut(s) \/ ChunkPutFails(s) \/ ChunkCount(s) \/ RowIsGone(s) \/ ChunkCommit(s)

(***************************************************************************)
(* complete_upload_session                                                 *)
(***************************************************************************)
CompleteBegin(c) ==
    /\ pc[c] = "idle"
    /\ \/ /\ Status(c) = "PENDING" /\ Sees(room, c).open
          /\ Goto(c, "listing")
          /\ seen' = [seen EXCEPT ![c] = upload.saved.size]
          /\ crossed' = (crossed \/ \E e \in Expirers : UnderWay(e))
       \/ /\ Status(c) # "PENDING" \/ ~Sees(room, c).open
          /\ Goto(c, "failed")
          /\ UNCHANGED <<seen, crossed>>
    /\ UNCHANGED <<upload, room, parts, object, todo, torn, known, stale, faults, doomed>>

ListParts(c) ==
    /\ pc[c] = "listing"
    /\ \/ /\ Indices \subseteq parts
          /\ Goto(c, "merging")
          /\ todo' = [todo EXCEPT ![c] = Indices]
       \/ /\ ~(Indices \subseteq parts)
          /\ Goto(c, "failed")
          /\ UNCHANGED todo
    /\ UNCHANGED <<upload, room, parts, object, seen, torn, known, stale, faults, history>>

\* get_stream of the next part; local storage reads nothing where no file is.
MergePart(c, i) ==
    /\ pc[c] = "merging"
    /\ i \in todo[c] /\ \A j \in todo[c] : i <= j
    /\ todo' = [todo EXCEPT ![c] = @ \ {i}]
    /\ torn' = IF i \in parts THEN torn ELSE torn \cup {c}
    /\ UNCHANGED <<upload, room, parts, object, pc, seen, known, stale, faults, history>>

\* All parts are read; the put replaces the object in one go.
PutMerged(c) ==
    /\ pc[c] = "merging"
    /\ todo[c] = {}
    /\ object' = IF c \in torn THEN "short" ELSE "whole"
    /\ Goto(c, "merged")
    /\ UNCHANGED <<upload, room, parts, memory>>

\* The storage raises, as S3 does where a part is missing, in the put or in
\* the read of the first bytes; or the object has not the announced size.
MergeFails(c) ==
    /\ pc[c] \in {"merging", "merged"}
    /\ object' = "none"
    /\ Raise(c)
    /\ UNCHANGED <<parts, memory>>

\* Variant: the quota is compared before the upload is added.
ClaimHoldsOneTooMany(v) == v.open /\ v.mine + v.others <= Slots

\* The WHERE clause of _claim_quota on a version v of the room's row.
ClaimHolds(v) == v.open /\ v.mine + v.others < Slots

\* Variant: the size is not compared with the one announced.
SizeIsIgnored(c) == TRUE

\* total = total_size_bytes.
SizeIsRight(c) == c \notin torn

ClaimQuota(c) ==
    /\ pc[c] = "merged"
    /\ SizeIsRight(c)
    /\ Lockable(room, c)
    /\ ClaimHolds(room.draft)
    /\ room' = Write(room, c, [room.draft EXCEPT !.mine = @ + 1])
    /\ Goto(c, "claimed")
    /\ UNCHANGED <<upload, parts, object, memory>>

ClaimRefused(c) ==
    /\ pc[c] = "merged"
    /\ SizeIsRight(c)
    /\ ~ClaimHolds(Sees(room, c))
    /\ object' = "none"
    /\ todo' = [todo EXCEPT ![c] = Indices]
    /\ Goto(c, "refused")
    /\ UNCHANGED <<upload, room, parts, seen, torn, known, stale, faults, history>>

\* Only what differs from the loaded row is written: the size is not, if it
\* was complete then.
ConfirmedValue(v, loaded) ==
    [status |-> "CONFIRMED", size |-> IF loaded = N THEN v.size ELSE N]

Confirm(c) ==
    /\ pc[c] = "claimed"
    /\ Lockable(upload, c)
    /\ upload.draft.status # "ABSENT"
    /\ upload' = Write(upload, c, ConfirmedValue(upload.draft, seen[c]))
    /\ todo' = [todo EXCEPT ![c] = Indices]
    /\ Goto(c, "confirmed")
    /\ UNCHANGED <<room, parts, object, seen, torn, known, stale, faults, history>>

\* Variant: the quota is claimed in a transaction of its own, which is lost.
CompleteCommitAlone(c) ==
    /\ pc[c] = "confirmed"
    /\ todo[c] = {}
    /\ upload' = Commit(upload, c)
    /\ room' = Rollback(room, c)
    /\ Goto(c, "done")
    /\ UNCHANGED <<parts, object, memory>>

CompleteCommit(c) ==
    /\ pc[c] = "confirmed"
    /\ todo[c] = {}
    /\ CommitAll(c)
    /\ Goto(c, "done")
    /\ UNCHANGED <<parts, object, memory>>

RefusedAnswer(c) ==
    /\ pc[c] = "refused"
    /\ todo[c] = {}
    /\ Raise(c)
    /\ UNCHANGED <<parts, object, memory>>

\* A key is deleted: a part, by a complete that is confirmed or refused, by an
\* abort or a job that listed it; an orphan; or the object of a closed room.
DropKey(r, k) ==
    /\ pc[r] \in {"confirmed", "refused", "dropping"}
    /\ k \in todo[r]
    /\ parts' = parts \ {k}
    /\ object' = IF k = Final THEN "none" ELSE object
    /\ todo' = [todo EXCEPT ![r] = @ \ {k}]
    /\ UNCHANGED <<upload, room, pc, seen, torn, known, stale, faults, history>>

CompleteStep(c) ==
    \/ ListParts(c) \/ PutMerged(c) \/ MergeFails(c)
    \/ ClaimQuota(c) \/ ClaimRefused(c) \/ Confirm(c) \/ RowIsGone(c)
    \/ CompleteCommit(c) \/ RefusedAnswer(c)
    \/ \E k \in Indices : MergePart(c, k) \/ DropKey(c, k)

(***************************************************************************)
(* abort_upload_session and the job EXPIRE_UPLOAD_SESSION, which decides   *)
(* by the status that it loaded, whatever the row becomes meanwhile.       *)
(***************************************************************************)
\* The row is there; its status does not matter.
AbortBegin(a) ==
    /\ pc[a] = "idle"
    /\ Goto(a, IF Status(a) # "ABSENT" THEN "listing" ELSE "failed")
    /\ UNCHANGED <<upload, room, parts, object, memory>>

ExpireBegin(e) ==
    /\ pc[e] = "idle"
    /\ stale
    /\ Status(e) = "PENDING"
    /\ Goto(e, "listing")
    /\ crossed' = (crossed \/ \E c \in Completers : UnderWay(c))
    /\ UNCHANGED <<upload, room, parts, object, seen, todo, torn, known, stale, faults, doomed>>

\* cleanup_upload_parts lists the parts, then deletes them.
CleanupParts(r) ==
    /\ pc[r] = "listing"
    /\ todo' = [todo EXCEPT ![r] = parts]
    /\ Goto(r, "dropping")
    /\ UNCHANGED <<upload, room, parts, object, seen, torn, known, stale, faults, history>>

\* The job, unlike an abort, deletes what was merged.
ExpireObject(e) ==
    /\ pc[e] = "dropping"
    /\ todo[e] = {}
    /\ object' = "none"
    /\ Goto(e, "emptied")
    /\ UNCHANGED <<upload, room, parts, memory>>

\* db.delete(rec), or the DELETE of all the room's files; a row that is gone is
\* no error.
DeleteUpload(r) ==
    /\ pc[r] = IF r \in Expirers THEN "emptied" ELSE "dropping"
    /\ todo[r] = {}
    /\ \/ Status(r) = "ABSENT" /\ UNCHANGED upload
       \/ /\ Lockable(upload, r)
          /\ upload.draft.status # "ABSENT"
          /\ upload' = Write(upload, r, Gone)
    /\ Goto(r, "deleted")
    /\ UNCHANGED <<room, parts, object, memory>>

\* Variant: the job does not commit.
DeleteUncommitted(r) ==
    /\ pc[r] = "deleted"
    /\ RollbackAll(r)
    /\ Goto(r, IF r \in Workers THEN "idle" ELSE "done")
    /\ UNCHANGED <<parts, object, memory>>

\* Variant: a worker that has run the job once runs no other.
DeleteCommitOnce(r) ==
    /\ pc[r] = "deleted"
    /\ CommitAll(r)
    /\ Goto(r, "done")
    /\ UNCHANGED <<parts, object, memory>>

DeleteCommit(r) ==
    /\ pc[r] = "deleted"
    /\ CommitAll(r)
    /\ Goto(r, IF r \in Workers THEN "idle" ELSE "done")
    /\ UNCHANGED <<parts, object, memory>>

AbandonStep(r) ==
    \/ CleanupParts(r) \/ DeleteUpload(r) \/ DeleteCommit(r)
    \/ r \in Expirers /\ ExpireObject(r)
    \/ \E k \in Indices : DropKey(r, k)

(***************************************************************************)
(* cleanup_room, of which RoomFiles has every step: here what it does to   *)
(* the upload.  It deletes the object before the row and both before the   *)
(* commit; a teardown that breaks off is repeated by the next scan.        *)
(***************************************************************************)
\* From mark_room_expired to mark_room_deleting: the row is locked to the end.
CloseRoom(k) ==
    /\ pc[k] = "idle"
    /\ Lockable(room, k)
    /\ room.draft.open
    /\ room' = Write(room, k, [room.draft EXCEPT !.open = FALSE])
    /\ Goto(k, "listing")
    /\ doomed' = TRUE
    /\ UNCHANGED <<upload, parts, object, seen, todo, torn, known, stale, faults, crossed>>

\* list_room_storage_keys knows the keys of rows, not those of parts.
ListKeys(k) ==
    /\ pc[k] = "listing"
    /\ todo' = [todo EXCEPT ![k] = IF Status(k) = "ABSENT" THEN {} ELSE {Final}]
    /\ Goto(k, "dropping")
    /\ UNCHANGED <<upload, room, parts, object, seen, torn, known, stale, faults, history>>

CleanStep(k) ==
    ListKeys(k) \/ DropKey(k, Final) \/ DeleteUpload(k) \/ DeleteCommit(k)

(***************************************************************************)
(* The scan for orphans: the keys that rows know are read first, then the  *)
(* keys in storage.  No row knows the key of a part.                       *)
(***************************************************************************)
\* Variant: only the keys of files that are shown are known.
KnownConfirmed(w) ==
    /\ pc[w] = "idle"
    /\ known' = IF upload.saved.status = "CONFIRMED" THEN known \cup {w} ELSE known \ {w}
    /\ Goto(w, "listing")
    /\ UNCHANGED <<upload, room, parts, object, seen, todo, torn, stale, faults, history>>

KnownKeys(w) ==
    /\ pc[w] = "idle"
    /\ known' = IF upload.saved.status # "ABSENT" THEN known \cup {w} ELSE known \ {w}
    /\ Goto(w, "listing")
    /\ UNCHANGED <<upload, room, parts, object, seen, todo, torn, stale, faults, history>>

\* The merged object, if no row knew its key.
Orphan(w) == IF w \notin known /\ object # "none" THEN {Final} ELSE {}

\* Each orphan becomes a job, which deletes it whatever has happened since.
ListOrphans(w) ==
    /\ pc[w] = "listing"
    /\ todo' = [todo EXCEPT ![w] = parts \cup Orphan(w)]
    /\ Goto(w, "dropping")
    /\ UNCHANGED <<upload, room, parts, object, seen, torn, known, stale, faults, history>>

SweepEnd(w) ==
    /\ pc[w] = "dropping"
    /\ todo[w] = {}
    /\ known' = known \ {w}
    /\ Goto(w, "idle")
    /\ UNCHANGED <<upload, room, parts, object, seen, todo, torn, stale, faults, history>>

SweepStep(w) ==
    \/ KnownKeys(w) \/ ListOrphans(w) \/ SweepEnd(w)
    \/ \E k \in Keys : DropKey(w, k)

(***************************************************************************)
(* The rest of the system.                                                 *)
(***************************************************************************)
\* Other files of the room are uploaded and deleted.
OtherFiles ==
    /\ room.by = NoTx
    /\ room.saved.open
    /\ \E n \in 0 .. MaxOthers :
          /\ n # room.saved.others
          /\ n <= room.saved.others \/ room.saved.mine + n <= Slots
          /\ room' = Clean([room.saved EXCEPT !.others = n])
    /\ UNCHANGED <<upload, parts, object, pc, memory>>

\* A day passes.
Day ==
    /\ ~stale
    /\ stale' = TRUE
    /\ UNCHANGED <<upload, room, parts, object, pc, seen, todo, torn, known, faults, history>>

\* A request breaks off: its transaction is rolled back, what it did to the
\* storage stays.  The next scan finds a job's session or room again.
Fail(r) ==
    /\ faults < MaxFaults
    /\ UnderWay(r)
    /\ faults' = faults + 1
    /\ RollbackAll(r)
    /\ Goto(r, IF r \in Workers THEN "idle" ELSE "failed")
    /\ todo' = [x \in Listers |-> IF x = r THEN {} ELSE todo[x]]
    /\ torn' = torn \ {r}
    /\ UNCHANGED <<parts, object, seen, known, stale, history>>

-----------------------------------------------------------------------------
\* create_upload_session has committed; the room holds any files besides.
Init ==
    /\ upload = Clean([status |-> "PENDING", size |-> 0])
    /\ \E n \in 0 .. MaxOthers : room = Clean([open |-> TRUE, mine |-> 0, others |-> n])
    /\ parts = {}
    /\ object = "none"
    /\ pc = [r \in Requests \cup Sweepers |-> "idle"]
    /\ seen = [r \in Senders \cup Completers |-> 0]
    /\ todo = [r \in Listers |-> {}]
    /\ torn = {}
    /\ known = {}
    /\ stale = FALSE
    /\ faults = 0
    /\ doomed = FALSE
    /\ crossed = FALSE

\* What the server does of its own accord.
Serve ==
    \/ \E s \in Senders : SendStep(s)
    \/ \E c \in Completers : CompleteStep(c)
    \/ \E r \in Aborters \cup Expirers : AbandonStep(r)
    \/ \E e \in Expirers : ExpireBegin(e)
    \/ \E k \in Cleaners : CloseRoom(k) \/ CleanStep(k)
    \/ \E w \in Sweepers : SweepStep(w)
    \/ \E r \in Requests : Fail(r)
    \/ OtherFiles \/ Day

\* Requests of browsers reach their handlers at any time.
Next ==
    \/ \E s \in Senders : ChunkBegin(s)
    \/ \E c \in Completers : CompleteBegin(c)
    \/ \E a \in Aborters : AbortBegin(a)
    \/ Serve

Spec == Init /\ [][Next]_vars

-----------------------------------------------------------------------------
(***************************************************************************)
(* Properties                                                              *)
(***************************************************************************)
\* Every row, object and request holds a value of its type.
TypeOK ==
    /\ upload \in Row(UploadValue, Requests)
    /\ room \in Row(RoomValue, Requests)
    /\ parts \subseteq Indices
    /\ object \in Content
    /\ pc \in [Requests \cup Sweepers ->
              SenderPC \cup CompleterPC \cup AborterPC \cup ExpirerPC \cup CleanerPC
                  \cup SweeperPC]
    /\ \A s \in Senders : pc[s] \in SenderPC
    /\ \A c \in Completers : pc[c] \in CompleterPC
    /\ \A a \in Aborters : pc[a] \in AborterPC
    /\ \A e \in Expirers : pc[e] \in ExpirerPC
    /\ \A k \in Cleaners : pc[k] \in CleanerPC
    /\ \A w \in Sweepers : pc[w] \in SweeperPC
    /\ seen \in [Senders \cup Completers -> Nat]
    /\ todo \in [Listers -> SUBSET Keys]
    /\ torn \subseteq Completers
    /\ known \subseteq Sweepers
    /\ stale \in BOOLEAN
    /\ faults \in 0 .. MaxFaults
    /\ doomed \in BOOLEAN
    /\ crossed \in BOOLEAN

\* However many requests complete, repeat, abort or break off, the file of an
\* open room that clients are shown is charged: the claim and the status are
\* committed together.
ConfirmedIsCharged ==
    upload.saved.status = "CONFIRMED" /\ room.saved.open => room.saved.mine > 0

\* Completions and other uploads that race for the last of the quota do not
\* exceed it.
QuotaHolds == room.saved.mine + room.saved.others <= Slots

\* What UploadContract speaks of.
contentShown == IF upload.saved.status = "CONFIRMED" THEN object ELSE "none"
chargeShown == IF room.saved.open THEN room.saved.mine ELSE 0
contract == <<upload.saved.status, contentShown, chargeShown, doomed, crossed>>

UC == INSTANCE UploadContract WITH
        status <- upload.saved.status,
        content <- contentShown,
        charged <- chargeShown

\* With one request to complete and none to abort, the session implements
\* UploadContract: chunks that are retried, fail, arrive late or are swept away
\* and requests that break off cost the upload but never its integrity; only a
\* teardown, done or begun, and the job for stale sessions, run beside the
\* completion, take content from a file that is shown.
ImplementsContract == UC!Spec
=============================================================================
