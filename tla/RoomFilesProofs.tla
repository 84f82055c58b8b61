--------------------------- MODULE RoomFilesProofs ---------------------------
(***************************************************************************)
(* Proofs about RoomFiles, for any number of files, deleters, workers and  *)
(* owners and any limits: its types, and why a teardown that races with    *)
(* uploads, deletions and other teardowns leaves nothing behind.           *)
(***************************************************************************)
EXTENDS RoomFiles, TLAPS

USE NamesAssumption DEF Requests, Cleaners

-----------------------------------------------------------------------------
(***************************************************************************)
(* Rows.                                                                   *)
(***************************************************************************)
LEMMA AllRowsEnd ==
    ASSUME TypeOK, NEW r
    PROVE  CommitAll(r) \/ RollbackAll(r) =>
              /\ room' \in Row(RoomValue, Requests)
              /\ file' \in [Files -> Row(FileStatus, Requests)]
              /\ sessions' \in Row(SessionStatus, Requests)
  <1>1. /\ room \in Row(RoomValue, Requests)
        /\ sessions \in Row(SessionStatus, Requests)
        /\ \A f \in Files : file[f] \in Row(FileStatus, Requests)
    BY DEF TypeOK
  <1>2. /\ Commit(room, r) \in Row(RoomValue, Requests)
        /\ Rollback(room, r) \in Row(RoomValue, Requests)
        /\ Commit(sessions, r) \in Row(SessionStatus, Requests)
        /\ Rollback(sessions, r) \in Row(SessionStatus, Requests)
    BY <1>1, RowEnds
  <1>3. \A f \in Files : /\ Commit(file[f], r) \in Row(FileStatus, Requests)
                         /\ Rollback(file[f], r) \in Row(FileStatus, Requests)
    BY <1>1, RowEnds
  <1> QED
    BY <1>2, <1>3 DEF CommitAll, RollbackAll

\* The quota arithmetic stays in the integers.
LEMMA ChargeTypes ==
    ASSUME NEW v \in RoomValue, NEW f \in Files
    PROVE  Charged(v, f) \in RoomValue /\ Uncharged(v, f) \in RoomValue
  <1>1. Size[f] \in Int
    BY LimitsAssumption
  <1> QED
    BY <1>1 DEF RoomValue, Charged, Uncharged

\* The guarded UPDATE of the room's status keeps the type of its row.
LEMMA MarkRoomType ==
    ASSUME TypeOK, NEW c \in Cleaners, NEW from, NEW to \in RoomStatus,
           MarkRoom(c, from, to)
    PROVE  room' \in Row(RoomValue, Requests)
  <1>1. room.draft \in RoomValue
    BY DEF TypeOK, Row
  <1>2. [room.draft EXCEPT !.status = to] \in RoomValue
    BY <1>1 DEF RoomValue
  <1> QED
    BY <1>2, RowWrites DEF TypeOK, MarkRoom

-----------------------------------------------------------------------------
(***************************************************************************)
(* Types.                                                                  *)
(***************************************************************************)
\* Every request is in a state of its kind.
PCTypes(p) ==
    /\ p \in [Requests -> UploadPC \cup DeletePC \cup CleanerPC]
    /\ \A f \in Files : p[f] \in UploadPC
    /\ \A d \in Deleters : p[d] \in DeletePC
    /\ \A c \in Cleaners : p[c] \in CleanerPC

\* A step that moves one request to a state of its kind keeps pc well typed.
LEMMA PCUpdate ==
    ASSUME TypeOK, NEW r \in Requests, NEW v,
           \/ r \in Files /\ v \in UploadPC
           \/ r \in Deleters /\ v \in DeletePC
           \/ r \in Cleaners /\ v \in CleanerPC
    PROVE  PCTypes([pc EXCEPT ![r] = v])
  BY DEF TypeOK, PCTypes

\* The state after create_room is well typed.
LEMMA TypeInit == Init => TypeOK
  <1> SUFFICES ASSUME Init PROVE TypeOK
    OBVIOUS
  <1>1. room \in Row(RoomValue, Requests)
    BY DEF Init, Clean, Row, RoomValue, RoomStatus
  <1>2. file \in [Files -> Row(FileStatus, Requests)]
    BY DEF Init, Clean, Row, FileStatus
  <1>3. PCTypes(pc)
    BY DEF Init, PCTypes, UploadPC, DeletePC, CleanerPC
  <1>5. sessions \in Row(SessionStatus, Requests)
    BY DEF Init, Clean, Row, SessionStatus
  <1>4. faults \in 0 .. MaxFaults
    BY LimitsAssumption DEF Init
  <1>6. orphans \subseteq Files
    BY DEF Init
  <1> QED
    BY <1>1, <1>2, <1>3, <1>4, <1>5, <1>6 DEF Init, TypeOK, PCTypes

\* Every step of upload_file keeps the types.
LEMMA UploadType ==
    ASSUME TypeOK, NEW f \in Files, UploadStep(f)
    PROVE  TypeOK'
  <1>1. \A v \in UploadPC : PCTypes([pc EXCEPT ![f] = v])
    BY PCUpdate
  <1>2. \A v \in FileStatus : Write(file[f], f, v) \in Row(FileStatus, Requests)
    BY RowWrites DEF TypeOK
  <1>3. CASE UploadInsert(f)
    <2>1. PCTypes(pc')
      BY <1>1, <1>3 DEF UploadInsert, UploadPC
    <2>2. file' \in [Files -> Row(FileStatus, Requests)]
      BY <1>2, <1>3 DEF UploadInsert, TypeOK, FileStatus
    <2> QED
      BY <1>3, <2>1, <2>2 DEF UploadInsert, TypeOK, PCTypes
  <1>4. CASE UploadBegin(f) \/ UploadOrphaned(f) \/ UploadPut(f)
    <2>1. PCTypes(pc')
      BY <1>1, <1>4 DEF UploadBegin, UploadOrphaned, UploadPut, UploadPC
    <2> QED
      BY <1>4, <2>1 DEF UploadBegin, UploadOrphaned, UploadPut, TypeOK, PCTypes
  <1>5. CASE CleanupFailedUpload(f)
    <2>1. PCTypes(pc')
      BY <1>1, <1>5 DEF CleanupFailedUpload, UploadPC
    <2> QED
      BY <1>5, <2>1, AllRowsEnd DEF CleanupFailedUpload, TypeOK, PCTypes
  <1>6. CASE ClaimQuota(f)
    <2>1. PCTypes(pc')
      BY <1>1, <1>6 DEF ClaimQuota, UploadPC
    <2>2. Charged(room.draft, f) \in RoomValue
      BY ChargeTypes DEF TypeOK, Row
    <2>3. room' \in Row(RoomValue, Requests)
      BY <1>6, <2>2, RowWrites DEF ClaimQuota, TypeOK
    <2>4. file' \in [Files -> Row(FileStatus, Requests)]
      BY <1>2, <1>6 DEF ClaimQuota, TypeOK, FileStatus
    <2> QED
      BY <1>6, <2>1, <2>3, <2>4 DEF ClaimQuota, TypeOK, PCTypes
  <1>7. CASE UploadCommit(f) \/ SessionCommit(f)
    <2>1. PCTypes(pc')
      BY <1>1, <1>7 DEF UploadCommit, SessionCommit, UploadPC
    <2> QED
      BY <1>7, <2>1, AllRowsEnd DEF UploadCommit, SessionCommit, TypeOK, PCTypes
  <1> QED
    BY <1>3, <1>4, <1>5, <1>6, <1>7 DEF UploadStep, UploadPutFails, ClaimRefused

\* Every step of delete_file keeps the types.
LEMMA DeleteType ==
    ASSUME TypeOK, NEW d \in Deleters,
           DeleteServed(d) \/ \E f \in Files : DeleteBegin(d, f)
    PROVE  TypeOK'
  <1>1. \A v \in DeletePC : PCTypes([pc EXCEPT ![d] = v])
    BY PCUpdate
  <1>2. CASE \E f \in Files : DeleteBegin(d, f)
    <2>1. PICK f \in Files : DeleteBegin(d, f)
      BY <1>2
    <2>2. PCTypes(pc')
      BY <1>1, <2>1 DEF DeleteBegin, DeletePC
    <2>3. target' \in [Deleters -> Files \cup {NoFile}]
      BY <2>1 DEF DeleteBegin, TypeOK
    <2>4. \A e \in Deleters : pc'[e] # "idle" => target'[e] \in Files
      BY <2>1 DEF DeleteBegin, TypeOK
    <2> QED
      BY <2>1, <2>2, <2>3, <2>4 DEF DeleteBegin, TypeOK, PCTypes
  <1>3. CASE DeleteMark(d)
    <2>1. PCTypes(pc')
      BY <1>1, <1>3 DEF DeleteMark, DeletePC
    <2>2. target[d] \in Files
      BY <1>3 DEF DeleteMark, TypeOK
    <2>3. Write(file[target[d]], d, "DELETED") \in Row(FileStatus, Requests)
      BY <2>2, RowWrites DEF TypeOK, FileStatus
    <2>4. file' \in [Files -> Row(FileStatus, Requests)]
      BY <1>3, <2>3 DEF DeleteMark, TypeOK
    <2> QED
      BY <1>3, <2>1, <2>2, <2>4 DEF DeleteMark, TypeOK, PCTypes
  <1>4. CASE DeleteUncharge(d)
    <2>1. PCTypes(pc')
      BY <1>1, <1>4 DEF DeleteUncharge, DeletePC
    <2>2. Uncharged(room.draft, target[d]) \in RoomValue
      BY <1>4, ChargeTypes DEF DeleteUncharge, TypeOK, Row
    <2>3. room' \in Row(RoomValue, Requests)
      BY <1>4, <2>2, RowWrites DEF DeleteUncharge, TypeOK
    <2> QED
      BY <1>4, <2>1, <2>3 DEF DeleteUncharge, TypeOK, PCTypes
  <1>5. CASE DeleteObject(d)
    <2>1. PCTypes(pc')
      BY <1>1, <1>5 DEF DeleteObject, DeletePC
    <2> QED
      BY <1>5, <2>1 DEF DeleteObject, TypeOK, PCTypes
  <1>6. CASE DeleteCommit(d)
    <2>1. PCTypes(pc')
      BY <1>1, <1>6 DEF DeleteCommit, DeletePC
    <2> QED
      BY <1>6, <2>1, AllRowsEnd DEF DeleteCommit, TypeOK, PCTypes
  <1> QED
    BY <1>2, <1>3, <1>4, <1>5, <1>6 DEF DeleteServed

\* Every step of cleanup_room keeps the types.
LEMMA CleanerType ==
    ASSUME TypeOK, NEW c \in Cleaners,
           \/ CleanerStep(c)
           \/ c \in Workers /\ JobBegin(c)
           \/ c \in OwnerDeletes /\ OwnerDeleteBegin(c)
    PROVE  TypeOK'
  <1>1. \A v \in CleanerPC : PCTypes([pc EXCEPT ![c] = v])
    BY PCUpdate
  <1>2. \A S \in SUBSET Files : [todo EXCEPT ![c] = S] \in [Cleaners -> SUBSET Files]
    BY DEF TypeOK
  <1>3. CASE JobBegin(c) \/ OwnerDeleteBegin(c) \/ WipeLost(c)
    <2>1. PCTypes(pc')
      BY <1>1, <1>3 DEF JobBegin, OwnerDeleteBegin, WipeLost, CleanerPC
    <2>2. /\ \A d \in Deleters : pc'[d] = pc[d]
          /\ UNCHANGED <<room, file, sessions, objects, target, todo, expired, faults, orphans>>
      BY <1>3 DEF JobBegin, OwnerDeleteBegin, WipeLost, TypeOK
    <2> QED
      BY <2>1, <2>2 DEF TypeOK, PCTypes
  <1>4. CASE MarkExpired(c)
    <2>1. PCTypes(pc')
      BY <1>1, <1>4 DEF MarkExpired, CleanerPC
    <2>2. room' \in Row(RoomValue, Requests)
      BY <1>4, MarkRoomType DEF MarkExpired, RoomStatus
    <2> QED
      BY <1>4, <2>1, <2>2 DEF MarkExpired, TypeOK, PCTypes
  <1>5. CASE MarkDeleting(c)
    <2>1. PCTypes(pc')
      BY <1>1, <1>5 DEF MarkDeleting, CleanerPC
    <2>2. room' \in Row(RoomValue, Requests)
      BY <1>5, MarkRoomType DEF MarkDeleting, RoomStatus
    <2>3. todo' \in [Cleaners -> SUBSET Files]
      BY <1>2, <1>5 DEF MarkDeleting, VisibleFiles
    <2> QED
      BY <1>5, <2>1, <2>2, <2>3 DEF MarkDeleting, TypeOK, PCTypes
  <1>6. CASE MarkDeleted(c)
    <2>1. PCTypes(pc')
      BY <1>1, <1>6 DEF MarkDeleted, CleanerPC
    <2>2. room' \in Row(RoomValue, Requests)
      BY <1>6, MarkRoomType DEF MarkDeleted, RoomStatus
    <2> QED
      BY <1>6, <2>1, <2>2 DEF MarkDeleted, TypeOK, PCTypes
  <1>7. CASE DeleteRows(c)
    <2>1. PCTypes(pc')
      BY <1>1, <1>7 DEF DeleteRows, CleanerPC
    <2>2. todo' \in [Cleaners -> SUBSET Files]
      BY <1>2, <1>7 DEF DeleteRows, VisibleFiles
    <2> QED
      BY <1>7, <2>1, <2>2 DEF DeleteRows, TypeOK, PCTypes
  <1>8. CASE WipeCommit(c)
    <2>1. PCTypes(pc')
      BY <1>1, <1>8 DEF WipeCommit, CleanerPC
    <2> QED
      BY <1>8, <2>1, AllRowsEnd DEF WipeCommit, TypeOK, PCTypes
  <1>9. CASE \E f \in Files : RemoveObject(c, f)
    <2>1. todo' \in [Cleaners -> SUBSET Files]
      BY <1>9 DEF RemoveObject, TypeOK
    <2> QED
      BY <1>9, <2>1 DEF RemoveObject, TypeOK
  <1>10. CASE \E f \in Files : DeleteRow(c, f)
    <2>1. todo' \in [Cleaners -> SUBSET Files]
      BY <1>10 DEF DeleteRow, TypeOK
    <2>2. PICK f \in Files : DeleteRow(c, f)
      BY <1>10
    <2>3. Write(file[f], c, "ABSENT") \in Row(FileStatus, Requests)
      BY RowWrites DEF TypeOK, FileStatus
    <2>4. file' \in [Files -> Row(FileStatus, Requests)]
      BY <2>2, <2>3 DEF DeleteRow, TypeOK
    <2> QED
      BY <1>10, <2>1, <2>4 DEF DeleteRow, TypeOK
  <1>11. CASE DeleteSessions(c)
    <2>1. PCTypes(pc')
      BY <1>1, <1>11 DEF DeleteSessions, CleanerPC
    <2>2. sessions' \in Row(SessionStatus, Requests)
      BY <1>11, RowWrites DEF DeleteSessions, TypeOK, SessionStatus
    <2> QED
      BY <1>11, <2>1, <2>2 DEF DeleteSessions, TypeOK, PCTypes
  <1> QED
    BY <1>3, <1>4, <1>5, <1>6, <1>7, <1>8, <1>9, <1>10, <1>11 DEF CleanerStep

\* A request that breaks off keeps the types.
LEMMA AbortType ==
    ASSUME TypeOK, NEW r \in Requests, Abort(r), faults' \in 0 .. MaxFaults
    PROVE  TypeOK'
  <1>1. PCTypes(pc')
    BY PCUpdate DEF Abort, UploadPC, DeletePC, CleanerPC
  <1>2. target' \in [Deleters -> Files \cup {NoFile}]
    BY DEF Abort, TypeOK
  <1>3. \A d \in Deleters : pc'[d] # "idle" => target'[d] \in Files
    BY DEF Abort, TypeOK
  <1>4. todo' \in [Cleaners -> SUBSET Files]
    BY DEF Abort, TypeOK
  <1> QED
    BY <1>1, <1>2, <1>3, <1>4, AllRowsEnd DEF Abort, TypeOK, PCTypes

\* Every step keeps the types: the cases of Next.
LEMMA TypeStep == TypeOK /\ [Next]_vars => TypeOK'
  <1> SUFFICES ASSUME TypeOK, [Next]_vars PROVE TypeOK'
    OBVIOUS
  <1>1. CASE \E f \in Files : UploadStep(f)
    BY <1>1, UploadType
  <1>2. CASE \E d \in Deleters : DeleteServed(d) \/ \E f \in Files : DeleteBegin(d, f)
    BY <1>2, DeleteType
  <1>3. CASE \/ \E w \in Workers : JobBegin(w)
             \/ \E o \in OwnerDeletes : OwnerDeleteBegin(o)
             \/ \E c \in Cleaners : CleanerStep(c)
    BY <1>3, CleanerType
  <1>4. CASE \E r \in Requests : Fail(r) \/ DeadlockVictim(r)
    <2>1. PICK r \in Requests : Fail(r) \/ DeadlockVictim(r)
      BY <1>4
    <2>2. faults' \in 0 .. MaxFaults
      BY <2>1, LimitsAssumption DEF Fail, DeadlockVictim, TypeOK
    <2> QED
      BY <2>1, <2>2, AbortType DEF Fail, DeadlockVictim
  <1>5. CASE Expire \/ \E f \in Files : ScanOrphan(f) \/ SweepOrphan(f)
    BY <1>5 DEF Expire, ScanOrphan, SweepOrphan, TypeOK
  <1>6. CASE UNCHANGED vars
    BY <1>6 DEF vars, TypeOK
  <1> QED
    BY <1>1, <1>2, <1>3, <1>4, <1>5, <1>6 DEF Next

\* Whatever the requests do, in any number and in any order, every variable
\* keeps its type: a deleter that is under way has a file, counters stay
\* integers, a request never leaves the states of its kind.
THEOREM TypeCorrect == Spec => []TypeOK
  BY TypeInit, TypeStep, PTL DEF Spec

-----------------------------------------------------------------------------
(***************************************************************************)
(* The inductive invariant of the teardown.  The argument: the room's row  *)
(* is locked from the first UPDATE of cleanup_room to its commit, and no   *)
(* upload can commit without the lock of that row.  So the files whose     *)
(* rows the teardown can see are all there are, and stay all there are.    *)
(***************************************************************************)
\* The states in which a request holds the lock of the room's row.
HoldsRoom(r) ==
    \/ r \in Files /\ pc[r] = "claimed"
    \/ r \in Deleters /\ pc[r] \in {"uncharged", "removed"}
    \/ r \in Cleaners /\ pc[r] \in {"delete", "objects", "rows", "unseated", "emptied"}

RoomLock ==
    /\ room.by = NoTx => room.draft = room.saved
    /\ \A r \in Requests : room.by = r <=> HoldsRoom(r)

\* Only a cleaner changes the status, and only of an ACTIVE room.
RoomStatusInv ==
    /\ room.saved.status \in {"ACTIVE", "DELETED"}
    /\ \A r \in Files \cup Deleters :
          room.by = r => room.draft.status = room.saved.status
    /\ \A r \in Files \cup Cleaners : room.by = r => room.saved.status = "ACTIVE"
    /\ \A c \in Cleaners : pc[c] = "emptied" => room.draft.status = "DELETED"

\* A row is seen by others exactly when its upload is done or its session open,
\* until it is deleted; only deleters and cleaners lock a row that is seen, and
\* deleters none of an open session.
FileLock ==
    \A f \in Files :
        /\ file[f].by = NoTx => file[f].draft = file[f].saved
        /\ file[f].by = f <=> pc[f] \in {"streaming", "stored", "claimed"}
        /\ file[f].by \in Files => file[f].by = f
        /\ pc[f] \notin {"done", "open"} => file[f].saved = "ABSENT"
        /\ pc[f] = "open" => file[f].saved \in {"PENDING", "ABSENT"}
        /\ pc[f] = "streaming" => file[f].draft = "PENDING"
        /\ pc[f] = "claimed" => file[f].draft = "CONFIRMED"
        /\ \A d \in Deleters : file[f].by = d =>
              /\ pc[d] \in {"marked", "uncharged", "removed"}
              /\ pc[f] = "done"
              /\ file[f].saved # "ABSENT"
              /\ file[f].draft # "ABSENT"
        /\ \A c \in Cleaners : file[f].by = c =>
              /\ pc[c] \in {"rows", "unseated", "emptied"}
              /\ file[f].draft = "ABSENT"

\* A deleter's file had been CONFIRMED.
Targets == \A d \in Deleters : pc[d] # "idle" => pc[target[d]] = "done"

\* The files whose upload has been answered, and the objects of theirs that
\* storage still holds.
Answered == {f \in Files : pc[f] = "done"}
Served == {f \in objects : pc[f] = "done"}

\* What a cleaner has behind it at each of its steps.
Progress ==
    \A c \in Cleaners :
        /\ pc[c] = "objects" => Served \subseteq todo[c]
        /\ pc[c] \in {"rows", "unseated", "emptied"} => Served = {}
        /\ pc[c] = "rows" =>
              \A f \in Answered : file[f].saved # "ABSENT" => f \in todo[c] \/ file[f].by = c
        /\ pc[c] \in {"unseated", "emptied"} =>
              \A f \in Answered : file[f].saved # "ABSENT" => file[f].by = c
        /\ pc[c] = "wiped" => room.saved.status = "DELETED"

Wiped ==
    /\ room.saved.status = "DELETED" =>
          Served = {} /\ \A f \in Answered : file[f].saved = "ABSENT"
    /\ room.saved.status = "ACTIVE" =>
          \A f \in Answered : file[f].saved # "ABSENT"

IInv ==
    /\ TypeOK
    /\ RoomLock
    /\ RoomStatusInv
    /\ FileLock
    /\ Targets
    /\ Progress
    /\ Wiped

-----------------------------------------------------------------------------
(***************************************************************************)
(* It holds initially.                                                     *)
(***************************************************************************)
LEMMA InitIInv == Init => IInv
  <1> SUFFICES ASSUME Init PROVE IInv
    OBVIOUS
  <1>1. TypeOK
    BY TypeInit
  <1>2. \A r \in Requests : pc[r] = "idle"
    BY DEF Init
  <1>3. /\ room.by = NoTx /\ room.draft = room.saved
        /\ room.saved.status = "ACTIVE"
        /\ \A f \in Files : /\ file[f].by = NoTx
                            /\ file[f].saved = "ABSENT" /\ file[f].draft = "ABSENT"
        /\ objects = {}
    BY DEF Init, Clean
  <1>4. RoomLock
    BY <1>2, <1>3 DEF RoomLock, HoldsRoom
  <1>5. RoomStatusInv
    BY <1>2, <1>3 DEF RoomStatusInv
  <1>6. FileLock
    BY <1>2, <1>3 DEF FileLock
  <1>7. Served = {}
    BY <1>3 DEF Served
  <1>8. Progress
    BY <1>2, <1>3, <1>7 DEF Progress
  <1>9. Wiped
    BY <1>2, <1>3, <1>7 DEF Wiped, Answered
  <1>10. Targets
    BY <1>2 DEF Targets
  <1> QED
    BY <1>1, <1>4, <1>5, <1>6, <1>8, <1>9, <1>10 DEF IInv

-----------------------------------------------------------------------------
(***************************************************************************)
(* The steps of an upload.                                                 *)
(***************************************************************************)
\* The steps before the insert: nothing is written.
LEMMA UploadWaitsIInv ==
    ASSUME IInv, NEW f \in Files, UploadBegin(f) \/ UploadOrphaned(f)
    PROVE  RoomLock' /\ RoomStatusInv' /\ FileLock' /\ Progress' /\ Wiped'
  <1>1. /\ pc[f] \in {"idle", "authorized"} /\ pc'[f] \in {"authorized", "failed"}
        /\ \A r \in Requests \ {f} : pc'[r] = pc[r]
        /\ \A r \in Requests : HoldsRoom(r)' <=> HoldsRoom(r)
        /\ UNCHANGED <<room, file, objects, todo>>
    BY DEF UploadBegin, UploadOrphaned, IInv, TypeOK, HoldsRoom
  <1>2. RoomLock' /\ RoomStatusInv'
    BY <1>1 DEF IInv, RoomLock, RoomStatusInv, HoldsRoom
  <1>3. FileLock'
    BY <1>1 DEF IInv, FileLock
  <1>4. Served' = Served
    BY <1>1 DEF Served, IInv, TypeOK
  <1>5. Progress' /\ Wiped'
    BY <1>1, <1>4 DEF IInv, Progress, Wiped, Answered
  <1> QED
    BY <1>2, <1>3, <1>5

\* The INSERT of the PENDING row keeps the invariant: the row is its uploader's.
LEMMA UploadInsertIInv ==
    ASSUME IInv, NEW f \in Files, UploadInsert(f)
    PROVE  RoomLock' /\ RoomStatusInv' /\ FileLock' /\ Progress' /\ Wiped'
  <1>1. /\ pc'[f] = "streaming"
        /\ \A r \in Requests \ {f} : pc'[r] = pc[r]
        /\ \A r \in Requests : HoldsRoom(r)' <=> HoldsRoom(r)
        /\ pc[f] = "authorized"
    BY DEF UploadInsert, IInv, TypeOK, HoldsRoom
  <1>2. /\ file'[f] = Write(file[f], f, "PENDING")
        /\ \A g \in Files \ {f} : file'[g] = file[g]
        /\ file[f].saved = "ABSENT"
    BY DEF UploadInsert, IInv, TypeOK, FileLock
  <1>3. RoomLock' /\ RoomStatusInv'
    BY <1>1 DEF UploadInsert, IInv, RoomLock, RoomStatusInv, HoldsRoom
  <1>4. FileLock'
    BY <1>1, <1>2 DEF IInv, FileLock, Write
  <1>5. Served' = Served /\ \A c \in Cleaners : pc'[c] = pc[c]
    BY <1>1 DEF UploadInsert, Served
  <1>6. Progress'
    BY <1>1, <1>2, <1>5 DEF UploadInsert, IInv, Progress, Answered, Write
  <1>7. Wiped'
    BY <1>1, <1>2, <1>5 DEF UploadInsert, IInv, Wiped, Answered, Write
  <1> QED
    BY <1>3, <1>4, <1>6, <1>7

\* The put of an upload keeps the invariant: nobody serves its object yet.
LEMMA UploadPutIInv ==
    ASSUME IInv, NEW f \in Files, UploadPut(f)
    PROVE  RoomLock' /\ RoomStatusInv' /\ FileLock' /\ Progress' /\ Wiped'
  <1>1. /\ pc[f] = "streaming" /\ pc'[f] = "stored"
        /\ \A r \in Requests \ {f} : pc'[r] = pc[r]
        /\ \A r \in Requests : HoldsRoom(r)' <=> HoldsRoom(r)
        /\ UNCHANGED <<room, file, todo>>
    BY DEF UploadPut, IInv, TypeOK, HoldsRoom
  <1>2. RoomLock' /\ RoomStatusInv'
    BY <1>1 DEF IInv, RoomLock, RoomStatusInv, HoldsRoom
  <1>3. FileLock'
    BY <1>1 DEF IInv, FileLock
  <1>4. Served' = Served
    BY <1>1 DEF UploadPut, Served, IInv, TypeOK
  <1>5. Progress' /\ Wiped'
    BY <1>1, <1>4 DEF IInv, Progress, Wiped, Answered
  <1> QED
    BY <1>2, <1>3, <1>5

\* The end of a transaction that holds no lock of the room's row and has put no
\* row of its own in the way of others.
LEMMA ReleasedByRollback ==
    ASSUME IInv, NEW r \in Requests, RollbackAll(r)
    PROVE  /\ room'.saved = room.saved
           /\ room.by = r => room' = Clean(room.saved)
           /\ room.by # r => room' = room
           /\ \A f \in Files : /\ file'[f].saved = file[f].saved
                               /\ file[f].by = r => file'[f] = Clean(file[f].saved)
                               /\ file[f].by # r => file'[f] = file[f]
  BY DEF RollbackAll, Rollback, Clean

\* An upload that fails keeps the invariant: its row is rolled back, and its
\* object goes with it.
LEMMA CleanupFailedUploadIInv ==
    ASSUME IInv, NEW f \in Files, CleanupFailedUpload(f), pc[f] \in {"streaming", "stored"}
    PROVE  RoomLock' /\ RoomStatusInv' /\ FileLock' /\ Progress' /\ Wiped'
  <1>1. /\ pc'[f] = "failed"
        /\ \A r \in Requests \ {f} : pc'[r] = pc[r]
        /\ \A r \in Requests : HoldsRoom(r)' <=> HoldsRoom(r)
        /\ UNCHANGED todo
    BY DEF CleanupFailedUpload, IInv, TypeOK, HoldsRoom
  <1>2. /\ room' = room
        /\ \A g \in Files : /\ file'[g].saved = file[g].saved
                            /\ file[g].by = f => file'[g] = Clean(file[g].saved)
                            /\ file[g].by # f => file'[g] = file[g]
    BY ReleasedByRollback DEF CleanupFailedUpload, IInv, RoomLock, HoldsRoom
  <1>3. RoomLock' /\ RoomStatusInv'
    BY <1>1, <1>2 DEF IInv, RoomLock, RoomStatusInv, HoldsRoom
  <1>21. \A g \in Files : file[g].by = f <=> g = f
    BY DEF IInv, FileLock
  <1>22. /\ file'[f].by = NoTx /\ file'[f].draft = file'[f].saved
        /\ file'[f].saved = "ABSENT"
        /\ \A g \in Files \ {f} : file'[g] = file[g]
    <2>1. file'[f] = Clean(file[f].saved) /\ \A g \in Files \ {f} : file'[g] = file[g]
      BY <1>2, <1>21
    <2>2. file[f].saved = "ABSENT"
      BY DEF IInv, FileLock
    <2> QED
      BY <2>1, <2>2 DEF Clean
  <1>4. FileLock'
    BY <1>1, <1>22 DEF IInv, FileLock
  <1>5. Served' = Served
    BY <1>1 DEF CleanupFailedUpload, Served, IInv, TypeOK
  <1>6. Progress'
    BY <1>1, <1>2, <1>5, <1>22 DEF IInv, Progress, Answered
  <1>7. Wiped'
    BY <1>1, <1>2, <1>5 DEF IInv, Wiped, Answered
  <1> QED
    BY <1>3, <1>4, <1>6, <1>7

\* _claim_quota keeps the invariant: it succeeds in an ACTIVE room only and
\* locks the room's row.
LEMMA ClaimQuotaIInv ==
    ASSUME IInv, NEW f \in Files, ClaimQuota(f)
    PROVE  RoomLock' /\ RoomStatusInv' /\ FileLock' /\ Progress' /\ Wiped'
  <1>1. /\ pc[f] = "stored" /\ pc'[f] = "claimed"
        /\ \A r \in Requests \ {f} : pc'[r] = pc[r]
        /\ UNCHANGED <<objects, todo>>
    BY DEF ClaimQuota, IInv, TypeOK
  <1>2. /\ room.by = NoTx
        /\ room.saved.status = "ACTIVE"
        /\ room' = Write(room, f, Charged(room.draft, f))
        /\ room.draft = room.saved
    BY DEF ClaimQuota, ClaimHolds, Lockable, IInv, RoomLock, HoldsRoom
  <1>3. /\ room'.by = f /\ room'.saved = room.saved
        /\ room'.draft.status = "ACTIVE"
    BY <1>2 DEF Write, Charged
  <1>4. /\ file'[f] = Write(file[f], f, "CONFIRMED")
        /\ \A g \in Files \ {f} : file'[g] = file[g]
        /\ file[f].saved = "ABSENT" /\ file[f].by = f
    BY <1>1 DEF ClaimQuota, IInv, TypeOK, FileLock
  <1>5. RoomLock'
    BY <1>1, <1>2, <1>3 DEF IInv, RoomLock, HoldsRoom
  <1>6. RoomStatusInv'
    BY <1>1, <1>2, <1>3 DEF IInv, RoomStatusInv, RoomLock, HoldsRoom
  <1>7. FileLock'
    BY <1>1, <1>4 DEF IInv, FileLock, Write
  <1>8. Served' = Served
    BY <1>1 DEF Served, IInv, TypeOK
  <1>9. Progress' /\ Wiped'
    BY <1>1, <1>2, <1>3, <1>4, <1>8 DEF IInv, Progress, Wiped, Answered, Write
  <1> QED
    BY <1>5, <1>6, <1>7, <1>9

\* The heart of the argument: who commits an upload holds the room's row, so
\* no cleaner is anywhere between its first UPDATE and its commit.
LEMMA UploadCommitIInv ==
    ASSUME IInv, NEW f \in Files, UploadCommit(f)
    PROVE  RoomLock' /\ RoomStatusInv' /\ FileLock' /\ Progress' /\ Wiped'
  <1>1. /\ pc[f] = "claimed" /\ pc'[f] = "done"
        /\ \A r \in Requests \ {f} : pc'[r] = pc[r]
        /\ UNCHANGED <<objects, todo>>
    BY DEF UploadCommit, IInv, TypeOK
  <1>2. /\ room.by = f
        /\ room.saved.status = "ACTIVE"
        /\ \A r \in Requests : HoldsRoom(r) => r = f
    BY <1>1 DEF IInv, RoomLock, RoomStatusInv, HoldsRoom
  <1>3. /\ room'.by = NoTx /\ room'.draft = room'.saved
        /\ room'.saved.status = "ACTIVE"
    BY <1>2 DEF UploadCommit, CommitAll, Commit, Clean, IInv, RoomStatusInv
  <1>4. /\ \A g \in Files : /\ file[g].by = f => file'[g] = Clean(file[g].draft)
                            /\ file[g].by # f => file'[g] = file[g]
        /\ \A g \in Files : file[g].by = f <=> g = f
    BY <1>1 DEF UploadCommit, CommitAll, Commit, IInv, FileLock
  <1>5. file[f].draft # "ABSENT"
    BY <1>1 DEF IInv, FileLock
  <1>22. /\ file'[f].by = NoTx /\ file'[f].draft = file'[f].saved
        /\ file'[f].saved # "ABSENT"
        /\ \A g \in Files \ {f} : file'[g] = file[g]
    <2>1. file'[f] = Clean(file[f].draft) /\ \A g \in Files \ {f} : file'[g] = file[g]
      BY <1>4
    <2> QED
      BY <2>1, <1>5 DEF Clean
  <1>6. RoomLock'
    BY <1>1, <1>2, <1>3 DEF RoomLock, HoldsRoom
  <1>7. RoomStatusInv'
    BY <1>1, <1>2, <1>3 DEF IInv, RoomStatusInv, RoomLock, HoldsRoom
  <1>8. FileLock'
    BY <1>1, <1>22 DEF IInv, FileLock
  <1>9. \A c \in Cleaners : pc'[c] \notin {"objects", "rows", "unseated", "emptied", "wiped"}
    BY <1>1, <1>2 DEF IInv, Progress, Answered, HoldsRoom
  <1>10. Progress'
    BY <1>9 DEF Progress, Answered
  <1>11. Wiped'
    BY <1>1, <1>2, <1>3, <1>22 DEF IInv, Wiped, Answered
  <1> QED
    BY <1>6, <1>7, <1>8, <1>10, <1>11

\* The commit of an upload session keeps the invariant: it has no lock of the
\* room's row, and its row no teardown has to have seen.
LEMMA SessionCommitIInv ==
    ASSUME IInv, NEW f \in Files, SessionCommit(f)
    PROVE  RoomLock' /\ RoomStatusInv' /\ FileLock' /\ Progress' /\ Wiped'
  <1>1. /\ pc[f] = "streaming" /\ pc'[f] = "open"
        /\ \A r \in Requests \ {f} : pc'[r] = pc[r]
        /\ \A r \in Requests : HoldsRoom(r)' <=> HoldsRoom(r)
        /\ UNCHANGED <<objects, todo>>
    BY DEF SessionCommit, IInv, TypeOK, HoldsRoom
  <1>2. room' = room
    BY <1>1 DEF SessionCommit, CommitAll, Commit, IInv, RoomLock, HoldsRoom
  <1>3. /\ file[f].by = f /\ file[f].draft = "PENDING"
        /\ \A g \in Files \ {f} : file[g].by # f
    BY <1>1 DEF IInv, FileLock
  <1>4. file'[f] = Clean("PENDING") /\ \A g \in Files \ {f} : file'[g] = file[g]
    BY <1>3 DEF SessionCommit, CommitAll, Commit
  <1>5. file'[f].by = NoTx /\ file'[f].draft = "PENDING" /\ file'[f].saved = "PENDING"
    BY <1>4 DEF Clean
  <1>6. RoomLock' /\ RoomStatusInv'
    BY <1>1, <1>2 DEF IInv, RoomLock, RoomStatusInv, HoldsRoom
  <1>7. FileLock'
    BY <1>1, <1>4, <1>5 DEF IInv, FileLock
  <1>8. Served' = Served /\ Answered' = Answered /\ f \notin Answered
    BY <1>1 DEF Served, Answered, IInv, TypeOK
  <1>9. Progress'
    BY <1>1, <1>2, <1>4, <1>8 DEF IInv, Progress, Answered
  <1>10. Wiped'
    BY <1>1, <1>2, <1>4, <1>8 DEF IInv, Wiped, Answered
  <1> QED
    BY <1>6, <1>7, <1>9, <1>10

\* Every step of upload_file keeps the invariant.
LEMMA UploadIInv ==
    ASSUME IInv, NEW f \in Files, UploadStep(f)
    PROVE  RoomLock' /\ RoomStatusInv' /\ FileLock' /\ Progress' /\ Wiped'
  BY UploadWaitsIInv, UploadInsertIInv, UploadPutIInv, CleanupFailedUploadIInv,
     SessionCommitIInv, ClaimQuotaIInv, UploadCommitIInv
  DEF UploadStep, UploadPutFails, ClaimRefused

-----------------------------------------------------------------------------
(***************************************************************************)
(* The steps of a deletion.                                                *)
(***************************************************************************)
LEMMA DeleteBeginIInv ==
    ASSUME IInv, NEW d \in Deleters, NEW f \in Files, DeleteBegin(d, f)
    PROVE  RoomLock' /\ RoomStatusInv' /\ FileLock' /\ Progress' /\ Wiped'
  <1>1. /\ pc[d] = "idle" /\ pc'[d] = "found"
        /\ \A r \in Requests \ {d} : pc'[r] = pc[r]
        /\ \A r \in Requests : HoldsRoom(r)' <=> HoldsRoom(r)
        /\ UNCHANGED <<room, file, objects, todo>>
    BY DEF DeleteBegin, IInv, TypeOK, HoldsRoom
  <1>2. RoomLock' /\ RoomStatusInv'
    BY <1>1 DEF IInv, RoomLock, RoomStatusInv, HoldsRoom
  <1>3. FileLock'
    BY <1>1 DEF IInv, FileLock
  <1>4. Served' = Served
    BY <1>1 DEF Served, IInv, TypeOK
  <1>5. Progress' /\ Wiped'
    BY <1>1, <1>4 DEF IInv, Progress, Wiped, Answered
  <1> QED
    BY <1>2, <1>3, <1>5

\* The row a deleter marks is seen by all, so its upload is done; if a cleaner
\* has deleted it the UPDATE finds nothing.
LEMMA DeleteMarkIInv ==
    ASSUME IInv, NEW d \in Deleters, DeleteMark(d)
    PROVE  RoomLock' /\ RoomStatusInv' /\ FileLock' /\ Progress' /\ Wiped'
  <1> DEFINE f == target[d]
  <1>1. /\ pc[d] = "found" /\ pc'[d] = "marked"
        /\ \A r \in Requests \ {d} : pc'[r] = pc[r]
        /\ \A r \in Requests : HoldsRoom(r)' <=> HoldsRoom(r)
        /\ UNCHANGED <<room, objects, todo>>
        /\ f \in Files
    BY DEF DeleteMark, IInv, TypeOK, HoldsRoom
  <1>2. RoomLock' /\ RoomStatusInv'
    BY <1>1 DEF IInv, RoomLock, RoomStatusInv, HoldsRoom
  <1>3. Served' = Served
    BY <1>1 DEF Served, IInv, TypeOK
  <1>4. \A g \in Files : file[g].by # d
    BY <1>1 DEF IInv, FileLock
  <1>5. CASE UNCHANGED file
    <2>1. FileLock'
      BY <1>1, <1>5 DEF IInv, FileLock
    <2>2. Progress' /\ Wiped'
      BY <1>1, <1>3, <1>5 DEF IInv, Progress, Wiped, Answered
    <2> QED
      BY <1>2, <2>1, <2>2
  <1>6. CASE /\ Lockable(file[f], d)
             /\ file[f].draft # "ABSENT"
             /\ file' = [file EXCEPT ![f] = Write(@, d, "DELETED")]
    <2>1. file[f].by = NoTx /\ file[f].saved # "ABSENT"
      BY <1>1, <1>4, <1>6 DEF Lockable, IInv, FileLock
    <2>2. /\ file'[f].by = d /\ file'[f].saved = file[f].saved
          /\ file'[f].draft = "DELETED"
          /\ \A g \in Files \ {f} : file'[g] = file[g]
      BY <1>1, <1>6 DEF Write, IInv, TypeOK
    <2>3. pc[f] = "done"
      BY <1>1 DEF IInv, Targets
    <2>31. FileLock'
      BY <1>1, <2>1, <2>2, <2>3 DEF IInv, FileLock
    <2>4. Progress' /\ Wiped'
      BY <1>1, <1>3, <2>1, <2>2 DEF IInv, Progress, Wiped, Answered
    <2> QED
      BY <1>2, <2>31, <2>4
  <1> QED
    BY <1>5, <1>6 DEF DeleteMark

\* The UPDATE of the counters by a file deletion keeps the invariant: it leaves
\* the room's status alone.
LEMMA DeleteUnchargeIInv ==
    ASSUME IInv, NEW d \in Deleters, DeleteUncharge(d)
    PROVE  RoomLock' /\ RoomStatusInv' /\ FileLock' /\ Progress' /\ Wiped'
  <1>1. /\ pc[d] = "marked" /\ pc'[d] = "uncharged"
        /\ \A r \in Requests \ {d} : pc'[r] = pc[r]
        /\ UNCHANGED <<file, objects, todo>>
    BY DEF DeleteUncharge, IInv, TypeOK
  <1>2. room.by = NoTx /\ room.draft = room.saved
    BY DEF DeleteUncharge, Lockable, IInv, RoomLock, HoldsRoom
  <1>3. /\ room'.by = d /\ room'.saved = room.saved
        /\ room'.draft.status = room.saved.status
    BY <1>2 DEF DeleteUncharge, Write, Uncharged
  <1>4. RoomLock'
    BY <1>1, <1>2, <1>3 DEF IInv, RoomLock, HoldsRoom
  <1>5. RoomStatusInv'
    BY <1>1, <1>2, <1>3 DEF IInv, RoomStatusInv, RoomLock, HoldsRoom
  <1>6. FileLock'
    BY <1>1 DEF IInv, FileLock
  <1>7. Served' = Served
    BY <1>1 DEF Served, IInv, TypeOK
  <1>8. Progress' /\ Wiped'
    BY <1>1, <1>3, <1>7 DEF IInv, Progress, Wiped, Answered
  <1> QED
    BY <1>4, <1>5, <1>6, <1>8

\* A file deletion removes the object under its lock of the row, which keeps
\* the invariant.
LEMMA DeleteObjectIInv ==
    ASSUME IInv, NEW d \in Deleters, DeleteObject(d)
    PROVE  RoomLock' /\ RoomStatusInv' /\ FileLock' /\ Progress' /\ Wiped'
  <1>1. /\ pc[d] = "uncharged" /\ pc'[d] = "removed"
        /\ \A r \in Requests \ {d} : pc'[r] = pc[r]
        /\ \A r \in Requests : HoldsRoom(r)' <=> HoldsRoom(r)
        /\ UNCHANGED <<room, file, todo>>
    BY DEF DeleteObject, IInv, TypeOK, HoldsRoom
  <1>2. RoomLock' /\ RoomStatusInv'
    BY <1>1 DEF IInv, RoomLock, RoomStatusInv, HoldsRoom
  <1>3. FileLock'
    BY <1>1 DEF IInv, FileLock
  <1>4. Served' \subseteq Served
    BY <1>1 DEF DeleteObject, Served, IInv, TypeOK
  <1>5. Progress' /\ Wiped'
    BY <1>1, <1>4 DEF IInv, Progress, Wiped, Answered
  <1> QED
    BY <1>2, <1>3, <1>5

\* In a DELETED room a deleter has no row left to commit, so its commit brings
\* nothing back.
LEMMA DeleteCommitIInv ==
    ASSUME IInv, NEW d \in Deleters, DeleteCommit(d)
    PROVE  RoomLock' /\ RoomStatusInv' /\ FileLock' /\ Progress' /\ Wiped'
  <1>1. /\ pc[d] = "removed" /\ pc'[d] = "idle"
        /\ \A r \in Requests \ {d} : pc'[r] = pc[r]
        /\ UNCHANGED <<objects, todo>>
    BY DEF DeleteCommit, IInv, TypeOK
  <1>2. /\ room.by = d
        /\ \A r \in Requests : HoldsRoom(r) => r = d
    BY <1>1 DEF IInv, RoomLock, HoldsRoom
  <1>3. /\ room'.by = NoTx /\ room'.draft = room'.saved
        /\ room'.saved.status = room.saved.status
    BY <1>2 DEF DeleteCommit, CommitAll, Commit, Clean, IInv, RoomStatusInv
  <1>4. \A g \in Files : /\ file[g].by = d => file'[g] = Clean(file[g].draft)
                         /\ file[g].by # d => file'[g] = file[g]
    BY DEF DeleteCommit, CommitAll, Commit
  <1>5. \A g \in Files :
           file[g].by = d => /\ file'[g].by = NoTx /\ file'[g].draft = file'[g].saved
                             /\ file'[g].saved # "ABSENT" /\ file[g].saved # "ABSENT"
    <2> TAKE g \in Files
    <2> HAVE file[g].by = d
    <2>1. file'[g] = Clean(file[g].draft)
      BY <1>4
    <2>2. file[g].saved # "ABSENT" /\ file[g].draft # "ABSENT"
      BY DEF IInv, FileLock
    <2> QED
      BY <2>1, <2>2 DEF Clean
  <1>6. RoomLock'
    BY <1>1, <1>2, <1>3 DEF RoomLock, HoldsRoom
  <1>7. RoomStatusInv'
    BY <1>1, <1>2, <1>3 DEF IInv, RoomStatusInv, RoomLock, HoldsRoom
  <1>8. FileLock'
    BY <1>1, <1>4, <1>5 DEF IInv, FileLock
  <1>9. Served' = Served
    BY <1>1 DEF Served, IInv, TypeOK
  <1>10. \A c \in Cleaners : pc'[c] \notin {"objects", "rows", "unseated", "emptied"}
    BY <1>1, <1>2 DEF HoldsRoom
  <1>11. Progress'
    BY <1>1, <1>3, <1>10 DEF IInv, Progress, Answered
  <1>12. Wiped'
    BY <1>1, <1>3, <1>4, <1>5, <1>9 DEF IInv, Wiped, Answered
  <1> QED
    BY <1>6, <1>7, <1>8, <1>11, <1>12

\* Every step of delete_file keeps the invariant.
LEMMA DeleteIInv ==
    ASSUME IInv, NEW d \in Deleters,
           DeleteServed(d) \/ \E f \in Files : DeleteBegin(d, f)
    PROVE  RoomLock' /\ RoomStatusInv' /\ FileLock' /\ Progress' /\ Wiped'
  BY DeleteBeginIInv, DeleteMarkIInv, DeleteUnchargeIInv, DeleteObjectIInv,
     DeleteCommitIInv
  DEF DeleteServed

-----------------------------------------------------------------------------
(***************************************************************************)
(* The steps of a teardown.                                                *)
(***************************************************************************)
\* Steps that only look at the room's row.
LEMMA CleanerStartIInv ==
    ASSUME IInv, NEW c \in Cleaners,
           \/ c \in Workers /\ JobBegin(c)
           \/ c \in OwnerDeletes /\ OwnerDeleteBegin(c)
           \/ WipeLost(c)
    PROVE  RoomLock' /\ RoomStatusInv' /\ FileLock' /\ Progress' /\ Wiped'
  <1>1. /\ pc[c] \in {"idle", "expire"} /\ pc'[c] \in {"idle", "expire", "over"}
        /\ \A r \in Requests \ {c} : pc'[r] = pc[r]
        /\ UNCHANGED <<room, file, objects, todo>>
    BY DEF JobBegin, OwnerDeleteBegin, WipeLost, IInv, TypeOK
  <1>2. \A r \in Requests : HoldsRoom(r)' <=> HoldsRoom(r)
    BY <1>1 DEF HoldsRoom
  <1>3. RoomLock' /\ RoomStatusInv'
    BY <1>1, <1>2 DEF IInv, RoomLock, RoomStatusInv, HoldsRoom
  <1>4. FileLock'
    BY <1>1 DEF IInv, FileLock
  <1>5. Served' = Served
    BY <1>1 DEF Served, IInv, TypeOK
  <1>6. Progress' /\ Wiped'
    BY <1>1, <1>5 DEF IInv, Progress, Wiped, Answered
  <1> QED
    BY <1>3, <1>4, <1>6

\* mark_room_expired keeps the invariant: its teardown holds the room's row
\* from here on.
LEMMA MarkExpiredIInv ==
    ASSUME IInv, NEW c \in Cleaners, MarkExpired(c)
    PROVE  RoomLock' /\ RoomStatusInv' /\ FileLock' /\ Progress' /\ Wiped'
  <1>1. /\ pc[c] = "expire" /\ pc'[c] = "delete"
        /\ \A r \in Requests \ {c} : pc'[r] = pc[r]
        /\ UNCHANGED <<file, objects, todo>>
    BY DEF MarkExpired, IInv, TypeOK
  <1>2. room.by = NoTx /\ room.draft = room.saved /\ room.saved.status = "ACTIVE"
    BY DEF MarkExpired, MarkRoom, Lockable, IInv, RoomLock, HoldsRoom
  <1>3. room'.by = c /\ room'.saved = room.saved
    BY DEF MarkExpired, MarkRoom, Write
  <1>4. RoomLock'
    BY <1>1, <1>2, <1>3 DEF IInv, RoomLock, HoldsRoom
  <1>5. RoomStatusInv'
    BY <1>1, <1>2, <1>3 DEF IInv, RoomStatusInv, RoomLock, HoldsRoom
  <1>6. FileLock'
    BY <1>1 DEF IInv, FileLock
  <1>7. Served' = Served
    BY <1>1 DEF Served, IInv, TypeOK
  <1>8. Progress' /\ Wiped'
    BY <1>1, <1>3, <1>7 DEF IInv, Progress, Wiped, Answered
  <1> QED
    BY <1>4, <1>5, <1>6, <1>8

\* The cleaner that holds the row goes on to its next statement.
LEMMA CleanerHolds ==
    ASSUME IInv, NEW c \in Cleaners,
           pc[c] \in {"delete", "objects", "rows", "unseated", "emptied"}
    PROVE  /\ room.by = c
           /\ room.saved.status = "ACTIVE"
           /\ \A r \in Requests : HoldsRoom(r) => r = c
  BY DEF IInv, RoomLock, RoomStatusInv, HoldsRoom

\* mark_room_deleting keeps the invariant: the list of objects it is followed by
\* covers what is served.
LEMMA MarkDeletingIInv ==
    ASSUME IInv, NEW c \in Cleaners, MarkDeleting(c)
    PROVE  RoomLock' /\ RoomStatusInv' /\ FileLock' /\ Progress' /\ Wiped'
  <1>1. /\ pc[c] = "delete" /\ pc'[c] = "objects"
        /\ \A r \in Requests \ {c} : pc'[r] = pc[r]
        /\ \A r \in Requests : HoldsRoom(r)' <=> HoldsRoom(r)
        /\ UNCHANGED <<file, objects>>
        /\ todo'[c] = VisibleFiles(c)
        /\ \A e \in Cleaners \ {c} : todo'[e] = todo[e]
    BY DEF MarkDeleting, IInv, TypeOK, HoldsRoom
  <1>2. /\ room.by = c /\ room.saved.status = "ACTIVE"
        /\ \A e \in Cleaners \ {c} : pc[e] \notin {"objects", "rows", "unseated", "emptied"}
    BY <1>1, CleanerHolds DEF HoldsRoom
  <1>3. room'.by = c /\ room'.saved = room.saved
    BY DEF MarkDeleting, MarkRoom, Write
  <1>4. RoomLock'
    BY <1>1, <1>2, <1>3 DEF IInv, RoomLock
  <1>5. RoomStatusInv'
    BY <1>1, <1>2, <1>3 DEF IInv, RoomStatusInv
  <1>6. FileLock'
    BY <1>1 DEF IInv, FileLock
  <1>7. Served' = Served
    BY <1>1 DEF Served, IInv, TypeOK
  <1>8. Served \subseteq VisibleFiles(c)
    BY <1>1, <1>2 DEF Served, VisibleFiles, Sees, IInv, TypeOK, Wiped, Answered, FileLock
  <1>9. Progress'
    BY <1>1, <1>2, <1>3, <1>7, <1>8 DEF IInv, Progress, Answered
  <1>10. Wiped'
    BY <1>1, <1>3, <1>7 DEF IInv, Wiped, Answered
  <1> QED
    BY <1>4, <1>5, <1>6, <1>9, <1>10

\* The removal of one listed object keeps the invariant.
LEMMA RemoveObjectIInv ==
    ASSUME IInv, NEW c \in Cleaners, NEW f \in Files, RemoveObject(c, f)
    PROVE  RoomLock' /\ RoomStatusInv' /\ FileLock' /\ Progress' /\ Wiped'
  <1>1. /\ pc[c] = "objects"
        /\ UNCHANGED <<room, file, pc>>
        /\ todo'[c] = todo[c] \ {f}
        /\ \A e \in Cleaners \ {c} : todo'[e] = todo[e]
    BY DEF RemoveObject, IInv, TypeOK
  <1>2. Served' = Served \ {f}
    BY <1>1 DEF RemoveObject, Served
  <1>3. RoomLock' /\ RoomStatusInv'
    BY <1>1 DEF IInv, RoomLock, RoomStatusInv, HoldsRoom
  <1>4. FileLock'
    BY <1>1 DEF IInv, FileLock
  <1>5. \A e \in Cleaners \ {c} : pc[e] \notin {"objects", "rows", "unseated", "emptied"}
    BY <1>1, CleanerHolds DEF HoldsRoom
  <1>6. Progress'
    BY <1>1, <1>2, <1>5 DEF IInv, Progress, Answered
  <1>7. Wiped'
    BY <1>1, <1>2 DEF IInv, Wiped, Answered
  <1> QED
    BY <1>3, <1>4, <1>6, <1>7

\* The list of rows that delete_file_records takes covers what it has to lock.
LEMMA DeleteRowsIInv ==
    ASSUME IInv, NEW c \in Cleaners, DeleteRows(c)
    PROVE  RoomLock' /\ RoomStatusInv' /\ FileLock' /\ Progress' /\ Wiped'
  <1>1. /\ pc[c] = "objects" /\ pc'[c] = "rows"
        /\ \A r \in Requests \ {c} : pc'[r] = pc[r]
        /\ \A r \in Requests : HoldsRoom(r)' <=> HoldsRoom(r)
        /\ UNCHANGED <<room, file, objects>>
        /\ todo[c] = {} /\ todo'[c] = VisibleFiles(c)
        /\ \A e \in Cleaners \ {c} : todo'[e] = todo[e]
    BY DEF DeleteRows, IInv, TypeOK, HoldsRoom
  <1>2. \A e \in Cleaners \ {c} : pc[e] \notin {"objects", "rows", "unseated", "emptied"}
    BY <1>1, CleanerHolds DEF HoldsRoom
  <1>3. RoomLock'
    BY <1>1 DEF IInv, RoomLock
  <1>4. RoomStatusInv'
    BY <1>1 DEF IInv, RoomStatusInv
  <1>5. FileLock'
    BY <1>1 DEF IInv, FileLock
  <1>6. Served' = {}
    BY <1>1 DEF Served, IInv, TypeOK, Progress, Answered
  <1>7. \A f \in Files : file[f].saved # "ABSENT" => f \in VisibleFiles(c)
    BY <1>1 DEF VisibleFiles, Sees, IInv, FileLock
  <1>8. Progress'
    BY <1>1, <1>2, <1>6, <1>7 DEF IInv, Progress, Answered
  <1>9. Wiped'
    BY <1>1, <1>6 DEF IInv, Wiped, Answered
  <1> QED
    BY <1>3, <1>4, <1>5, <1>8, <1>9

\* The deletion of one row keeps the invariant: it is locked, hence not missed.
LEMMA DeleteRowIInv ==
    ASSUME IInv, NEW c \in Cleaners, NEW f \in Files, DeleteRow(c, f)
    PROVE  RoomLock' /\ RoomStatusInv' /\ FileLock' /\ Progress' /\ Wiped'
  <1>1. /\ pc[c] = "rows"
        /\ UNCHANGED <<room, objects, pc>>
        /\ todo'[c] = todo[c] \ {f}
        /\ \A e \in Cleaners \ {c} : todo'[e] = todo[e]
        /\ file[f].by \in {NoTx, c}
    BY DEF DeleteRow, Lockable, IInv, TypeOK
  <1>2. /\ file'[f].by = c /\ file'[f].saved = file[f].saved
        /\ file'[f].draft = "ABSENT"
        /\ \A g \in Files \ {f} : file'[g] = file[g]
    BY DEF DeleteRow, Write, IInv, TypeOK
  <1>3. \A e \in Cleaners \ {c} : pc[e] \notin {"objects", "rows", "unseated", "emptied"}
    BY <1>1, CleanerHolds DEF HoldsRoom
  <1>4. RoomLock' /\ RoomStatusInv'
    BY <1>1 DEF IInv, RoomLock, RoomStatusInv, HoldsRoom
  <1>5. pc[f] \notin {"streaming", "stored", "claimed"}
    BY <1>1 DEF IInv, FileLock
  <1>6. FileLock'
    BY <1>1, <1>2, <1>5 DEF IInv, FileLock
  <1>7. Served' = Served
    BY <1>1 DEF Served
  <1>8. Progress'
    BY <1>1, <1>2, <1>3, <1>7 DEF IInv, Progress, Answered
  <1>9. Wiped'
    BY <1>1, <1>2, <1>7 DEF IInv, Wiped, Answered
  <1> QED
    BY <1>4, <1>6, <1>8, <1>9

\* The deletion of the sessions keeps the invariant, which does not speak of them.
LEMMA DeleteSessionsIInv ==
    ASSUME IInv, NEW c \in Cleaners, DeleteSessions(c)
    PROVE  RoomLock' /\ RoomStatusInv' /\ FileLock' /\ Progress' /\ Wiped'
  <1>1. /\ pc[c] = "rows" /\ pc'[c] = "unseated"
        /\ \A r \in Requests \ {c} : pc'[r] = pc[r]
        /\ \A r \in Requests : HoldsRoom(r)' <=> HoldsRoom(r)
        /\ UNCHANGED <<room, file, objects, todo>>
        /\ todo[c] = {}
    BY DEF DeleteSessions, IInv, TypeOK, HoldsRoom
  <1>2. RoomLock' /\ RoomStatusInv'
    BY <1>1 DEF IInv, RoomLock, RoomStatusInv, HoldsRoom
  <1>3. FileLock'
    BY <1>1 DEF IInv, FileLock
  <1>4. Served' = Served
    BY <1>1 DEF Served, IInv, TypeOK
  <1>5. Progress' /\ Wiped'
    BY <1>1, <1>4 DEF IInv, Progress, Wiped, Answered
  <1> QED
    BY <1>2, <1>3, <1>5

\* mark_room_deleted keeps the invariant: no row and no served object is left.
LEMMA MarkDeletedIInv ==
    ASSUME IInv, NEW c \in Cleaners, MarkDeleted(c)
    PROVE  RoomLock' /\ RoomStatusInv' /\ FileLock' /\ Progress' /\ Wiped'
  <1>1. /\ pc[c] = "unseated" /\ pc'[c] = "emptied"
        /\ \A r \in Requests \ {c} : pc'[r] = pc[r]
        /\ \A r \in Requests : HoldsRoom(r)' <=> HoldsRoom(r)
        /\ UNCHANGED <<file, objects, todo>>
    BY DEF MarkDeleted, IInv, TypeOK, HoldsRoom
  <1>2. /\ room.by = c
        /\ \A e \in Cleaners \ {c} : pc[e] \notin {"objects", "rows", "unseated", "emptied"}
    BY <1>1, CleanerHolds DEF HoldsRoom
  <1>3. room'.by = c /\ room'.saved = room.saved /\ room'.draft.status = "DELETED"
    BY DEF MarkDeleted, MarkRoom, Write, IInv, TypeOK, Row, RoomValue
  <1>4. RoomLock'
    BY <1>1, <1>2, <1>3 DEF IInv, RoomLock
  <1>5. RoomStatusInv'
    BY <1>1, <1>2, <1>3 DEF IInv, RoomStatusInv
  <1>6. FileLock'
    BY <1>1 DEF IInv, FileLock
  <1>7. Served' = Served
    BY <1>1 DEF Served, IInv, TypeOK
  <1>8. Progress'
    BY <1>1, <1>2, <1>3, <1>7 DEF IInv, Progress, Answered
  <1>9. Wiped'
    BY <1>1, <1>3, <1>7 DEF IInv, Wiped, Answered
  <1> QED
    BY <1>4, <1>5, <1>6, <1>8, <1>9

\* The commit of a teardown keeps the invariant: what it locked is gone.
LEMMA WipeCommitIInv ==
    ASSUME IInv, NEW c \in Cleaners, WipeCommit(c)
    PROVE  RoomLock' /\ RoomStatusInv' /\ FileLock' /\ Progress' /\ Wiped'
  <1>1. /\ pc[c] = "emptied" /\ pc'[c] = "wiped"
        /\ \A r \in Requests \ {c} : pc'[r] = pc[r]
        /\ UNCHANGED <<objects, todo>>
    BY DEF WipeCommit, IInv, TypeOK
  <1>2. /\ room.by = c /\ room.saved.status = "ACTIVE" /\ room.draft.status = "DELETED"
        /\ \A r \in Requests : HoldsRoom(r) => r = c
    BY <1>1, CleanerHolds DEF IInv, RoomStatusInv
  <1>3. /\ room'.by = NoTx /\ room'.draft = room'.saved
        /\ room'.saved.status = "DELETED"
    BY <1>2 DEF WipeCommit, CommitAll, Commit, Clean
  <1>4. \A g \in Files : /\ file[g].by = c => file'[g] = Clean(file[g].draft)
                         /\ file[g].by # c => file'[g] = file[g]
    BY DEF WipeCommit, CommitAll, Commit
  <1>5. \A g \in Files :
           file[g].by = c => /\ file'[g].by = NoTx /\ file'[g].draft = file'[g].saved
                             /\ file'[g].saved = "ABSENT"
    <2> TAKE g \in Files
    <2> HAVE file[g].by = c
    <2>1. file'[g] = Clean(file[g].draft)
      BY <1>4
    <2>2. file[g].draft = "ABSENT"
      BY DEF IInv, FileLock
    <2> QED
      BY <2>1, <2>2 DEF Clean
  <1>6. \A g \in Answered : file'[g].saved = "ABSENT"
    BY <1>1, <1>4, <1>5 DEF IInv, Progress, Answered
  <1>61. Answered' = Answered
    BY <1>1 DEF Answered
  <1>7. RoomLock'
    BY <1>1, <1>2, <1>3 DEF RoomLock, HoldsRoom
  <1>8. RoomStatusInv'
    BY <1>1, <1>2, <1>3 DEF RoomStatusInv, HoldsRoom
  <1>9. FileLock'
    BY <1>1, <1>4, <1>5 DEF IInv, FileLock
  <1>10. Served' = {}
    BY <1>1 DEF Served, IInv, TypeOK, Progress, Answered
  <1>11. \A e \in Cleaners : pc'[e] \notin {"objects", "rows", "unseated", "emptied"}
    BY <1>1, <1>2 DEF HoldsRoom
  <1>12. Progress'
    BY <1>3, <1>11 DEF Progress, Answered
  <1>13. Wiped'
    BY <1>3, <1>6, <1>61, <1>10 DEF Wiped
  <1> QED
    BY <1>7, <1>8, <1>9, <1>12, <1>13

\* Every step of cleanup_room keeps the invariant.
LEMMA CleanerIInv ==
    ASSUME IInv, NEW c \in Cleaners, CleanerStep(c)
    PROVE  RoomLock' /\ RoomStatusInv' /\ FileLock' /\ Progress' /\ Wiped'
  BY CleanerStartIInv, MarkExpiredIInv, MarkDeletingIInv, RemoveObjectIInv,
     DeleteRowsIInv, DeleteRowIInv, DeleteSessionsIInv, MarkDeletedIInv, WipeCommitIInv
  DEF CleanerStep

-----------------------------------------------------------------------------
(***************************************************************************)
(* A request that breaks off.                                              *)
(***************************************************************************)
LEMMA AbortIInv ==
    ASSUME IInv, NEW r \in Requests, Abort(r), pc[r] \notin AtRest
    PROVE  RoomLock' /\ RoomStatusInv' /\ FileLock' /\ Progress' /\ Wiped'
  <1>1. /\ pc'[r] \in {"failed", "over", "idle"}
        /\ r \in Files => pc'[r] = "failed"
        /\ r \notin Files => pc'[r] # "failed"
        /\ \A s \in Requests \ {r} : pc'[s] = pc[s]
        /\ UNCHANGED objects
        /\ \A c \in Cleaners \ {r} : todo'[c] = todo[c]
    BY DEF Abort, IInv, TypeOK
  <1>2. /\ room'.saved = room.saved
        /\ room.by = r => room'.by = NoTx /\ room'.draft = room.saved
        /\ room.by # r => room' = room
    BY ReleasedByRollback DEF Abort, Clean
  <1>3. \A g \in Files :
          /\ file'[g].saved = file[g].saved
          /\ file[g].by = r => file'[g].by = NoTx /\ file'[g].draft = file'[g].saved
          /\ file[g].by # r => file'[g] = file[g]
    <2>1. \A g \in Files :
            /\ file'[g].saved = file[g].saved
            /\ file[g].by = r => file'[g] = Clean(file[g].saved)
            /\ file[g].by # r => file'[g] = file[g]
      BY ReleasedByRollback DEF Abort
    <2> TAKE g \in Files
    <2>2. CASE file[g].by = r
      <3>1. file'[g] = Clean(file[g].saved)
        BY <2>1, <2>2
      <3> QED
        BY <2>2, <3>1 DEF Clean
    <2>3. CASE file[g].by # r
      BY <2>1, <2>3
    <2> QED
      BY <2>2, <2>3
  <1>4. RoomLock'
    BY <1>1, <1>2 DEF IInv, RoomLock, HoldsRoom
  <1>5. RoomStatusInv'
    <2>1. \A c \in Cleaners : pc'[c] = "emptied" => room.by = c /\ c # r
      BY <1>1, CleanerHolds
    <2>2. room.by = r => RoomStatusInv'
      BY <1>1, <1>2, <2>1 DEF IInv, RoomStatusInv
    <2>3. room.by # r => RoomStatusInv'
      <3>1. \A c \in Cleaners : pc'[c] = "emptied" => pc[c] = "emptied"
        BY <1>1
      <3> QED
        BY <1>2, <3>1 DEF IInv, RoomStatusInv
    <2> QED
      BY <2>2, <2>3
  <1>6. FileLock'
    BY <1>1, <1>3 DEF IInv, FileLock, AtRest
  <1>7. Served' = Served
    BY <1>1 DEF Served, IInv, TypeOK, AtRest
  <1>8. Progress'
    BY <1>1, <1>2, <1>3, <1>7 DEF IInv, Progress, Answered
  <1>9. Wiped'
    BY <1>1, <1>2, <1>3, <1>7 DEF IInv, Wiped, Answered
  <1> QED
    BY <1>4, <1>5, <1>6, <1>8, <1>9

\* A request that waits for a lock is in the middle of its transaction.
LEMMA WaitsInTheMiddle ==
    ASSUME IInv, NEW r \in Requests, NEW s, s \in WaitsFor(r)
    PROVE  pc[r] \notin AtRest
  BY DEF WaitsFor, AtRest

\* The sweep of storage looks at no row: it can only leave fewer objects.
LEMMA SweepIInv ==
    ASSUME IInv, NEW f \in Files, ScanOrphan(f) \/ SweepOrphan(f)
    PROVE  RoomLock' /\ RoomStatusInv' /\ FileLock' /\ Progress' /\ Wiped'
  <1>1. UNCHANGED <<room, file, pc, todo>> /\ objects' \subseteq objects
    BY DEF ScanOrphan, SweepOrphan
  <1>2. Served' \subseteq Served
    BY <1>1 DEF Served
  <1>3. RoomLock' /\ RoomStatusInv' /\ FileLock'
    BY <1>1 DEF IInv, RoomLock, HoldsRoom, RoomStatusInv, FileLock
  <1>4. Progress' /\ Wiped'
    BY <1>1, <1>2 DEF IInv, Progress, Wiped, Answered
  <1> QED
    BY <1>3, <1>4

\* An answered upload stays answered.
LEMMA DoneStays ==
    ASSUME IInv, [Next]_vars, NEW g \in Files, pc[g] = "done"
    PROVE  pc'[g] = "done"
  <1>1. CASE \E f \in Files : UploadStep(f)
    BY <1>1 DEF UploadStep, UploadBegin, UploadInsert, UploadOrphaned, SessionCommit, UploadPut,
                UploadPutFails, CleanupFailedUpload,
                ClaimQuota, ClaimRefused, UploadCommit, IInv, TypeOK
  <1>2. CASE \E d \in Deleters : DeleteServed(d) \/ \E f \in Files : DeleteBegin(d, f)
    BY <1>2 DEF DeleteServed, DeleteBegin, DeleteMark, DeleteUncharge, DeleteObject,
                DeleteCommit, IInv, TypeOK
  <1>3. CASE \/ \E w \in Workers : JobBegin(w)
             \/ \E o \in OwnerDeletes : OwnerDeleteBegin(o)
    BY <1>3 DEF JobBegin, OwnerDeleteBegin, IInv, TypeOK
  <1>4. CASE \E c \in Cleaners : CleanerStep(c)
    BY <1>4 DEF CleanerStep, MarkExpired, WipeLost, MarkDeleting, DeleteRows,
                DeleteSessions, MarkDeleted, WipeCommit, RemoveObject, DeleteRow, IInv, TypeOK
  <1>5. CASE \E r \in Requests : Fail(r) \/ DeadlockVictim(r)
    <2>1. PICK r \in Requests : Fail(r) \/ DeadlockVictim(r)
      BY <1>5
    <2>2. Abort(r) /\ pc[r] \notin AtRest
      BY <2>1, WaitsInTheMiddle DEF Fail, DeadlockVictim
    <2> QED
      BY <2>2 DEF Abort, AtRest, IInv, TypeOK
  <1>6. CASE \/ Expire \/ UNCHANGED vars
             \/ \E f \in Files : ScanOrphan(f) \/ SweepOrphan(f)
    BY <1>6 DEF Expire, ScanOrphan, SweepOrphan, vars
  <1> QED
    BY <1>1, <1>2, <1>3, <1>4, <1>5, <1>6 DEF Next

\* A deletion begins with a file that others see, hence an answered upload's.
LEMMA TargetsStep == IInv /\ [Next]_vars => Targets'
  <1> SUFFICES ASSUME IInv, [Next]_vars, NEW d \in Deleters, pc'[d] # "idle"
               PROVE  pc'[target'[d]] = "done"
    BY DEF Targets
  <1>1. CASE \E f \in Files : DeleteBegin(d, f)
    <2>1. PICK f \in Files : DeleteBegin(d, f)
      BY <1>1
    <2>2. pc[d] = "idle" /\ target'[d] = f /\ pc'[f] = pc[f]
      BY <2>1 DEF DeleteBegin, IInv, TypeOK
    <2>3. file[f].saved = "CONFIRMED"
      BY <2>1, <2>2 DEF DeleteBegin, Sees, IInv, FileLock
    <2> QED
      BY <2>2, <2>3 DEF IInv, FileLock
  <1>2. CASE \A f \in Files : ~DeleteBegin(d, f)
    <2>1. pc[d] # "idle" /\ target'[d] = target[d]
      <3>1. CASE \E f \in Files : UploadStep(f)
        BY <3>1 DEF UploadStep, UploadBegin, UploadInsert, UploadOrphaned, SessionCommit,
                    UploadPut, UploadPutFails, CleanupFailedUpload,
                    ClaimQuota, ClaimRefused, UploadCommit, IInv, TypeOK
      <3>2. CASE \E e \in Deleters : DeleteServed(e) \/ \E f \in Files : DeleteBegin(e, f)
        BY <1>2, <3>2 DEF DeleteServed, DeleteBegin, DeleteMark, DeleteUncharge, DeleteObject,
                          DeleteCommit, IInv, TypeOK
      <3>3. CASE \/ \E w \in Workers : JobBegin(w)
                 \/ \E o \in OwnerDeletes : OwnerDeleteBegin(o)
        BY <3>3 DEF JobBegin, OwnerDeleteBegin, IInv, TypeOK
      <3>4. CASE \E c \in Cleaners : CleanerStep(c)
        BY <3>4 DEF CleanerStep, MarkExpired, WipeLost, MarkDeleting, DeleteRows,
                    DeleteSessions, MarkDeleted, WipeCommit, RemoveObject, DeleteRow, IInv, TypeOK
      <3>5. CASE \E r \in Requests : Fail(r) \/ DeadlockVictim(r)
        BY <3>5 DEF Fail, DeadlockVictim, Abort, IInv, TypeOK
      <3>6. CASE \/ Expire \/ UNCHANGED vars
                 \/ \E f \in Files : ScanOrphan(f) \/ SweepOrphan(f)
        BY <3>6 DEF Expire, ScanOrphan, SweepOrphan, vars
      <3> QED
        BY <3>1, <3>2, <3>3, <3>4, <3>5, <3>6 DEF Next
    <2>2. target[d] \in Files /\ pc[target[d]] = "done"
      BY <2>1 DEF IInv, TypeOK, Targets
    <2> QED
      BY <2>1, <2>2, DoneStays
  <1> QED
    BY <1>1, <1>2

\* Every step keeps the invariant: the cases of Next.
LEMMA StepIInv == IInv /\ [Next]_vars => IInv'
  <1> SUFFICES ASSUME IInv, [Next]_vars PROVE IInv'
    OBVIOUS
  <1>0. TypeOK'
    BY TypeStep DEF IInv
  <1>00. Targets'
    BY TargetsStep
  <1> SUFFICES RoomLock' /\ RoomStatusInv' /\ FileLock' /\ Progress' /\ Wiped'
    BY <1>0, <1>00 DEF IInv
  <1>1. CASE \E f \in Files : UploadStep(f)
    BY <1>1, UploadIInv
  <1>2. CASE \E d \in Deleters : DeleteServed(d) \/ \E f \in Files : DeleteBegin(d, f)
    BY <1>2, DeleteIInv
  <1>3. CASE \/ \E w \in Workers : JobBegin(w)
             \/ \E o \in OwnerDeletes : OwnerDeleteBegin(o)
    BY <1>3, CleanerStartIInv
  <1>4. CASE \E c \in Cleaners : CleanerStep(c)
    BY <1>4, CleanerIInv
  <1>5. CASE \E r \in Requests : Fail(r) \/ DeadlockVictim(r)
    <2>1. PICK r \in Requests : Fail(r) \/ DeadlockVictim(r)
      BY <1>5
    <2>2. Abort(r) /\ pc[r] \notin AtRest
      BY <2>1, WaitsInTheMiddle DEF Fail, DeadlockVictim
    <2> QED
      BY <2>2, AbortIInv
  <1>6. CASE Expire \/ UNCHANGED vars
    <2>1. UNCHANGED <<room, file, objects, pc, todo>>
      BY <1>6 DEF Expire, vars
    <2> QED
      BY <2>1 DEF IInv, RoomLock, HoldsRoom, RoomStatusInv, FileLock, Progress,
                  Served, Wiped, Answered
  <1>7. CASE \E f \in Files : ScanOrphan(f) \/ SweepOrphan(f)
    BY <1>7, SweepIInv
  <1> QED
    BY <1>1, <1>2, <1>3, <1>4, <1>5, <1>6, <1>7 DEF Next

\* The invariant holds of every reachable state.
LEMMA InvariantHolds == Spec => []IInv
  BY InitIInv, StepIInv, PTL DEF Spec

-----------------------------------------------------------------------------
(***************************************************************************)
(* What follows.                                                           *)
(***************************************************************************)
\* Whatever uploads, deletions, sweeps and other teardowns ran meanwhile, and
\* whoever broke off: cleanup_room leaves no row of a file that was confirmed.
THEOREM NoFileSurvives == Spec => []WipedRoomKeepsNoFile
  <1>1. IInv => WipedRoomKeepsNoFile
    BY DEF IInv, FileLock, Wiped, Answered, WipedRoomKeepsNoFile
  <1> QED
    BY <1>1, InvariantHolds, PTL

\* Nor does cleanup_room leave an object in storage that an upload had
\* answered for.
THEOREM NoServedObjectSurvives == Spec => []WipedRoomHasNoServedObject
  <1>1. IInv => WipedRoomHasNoServedObject
    BY DEF IInv, Wiped, Served, WipedRoomHasNoServedObject
  <1> QED
    BY <1>1, InvariantHolds, PTL

\* No commit ever shows the intermediate states of mark_room_expired and
\* mark_room_deleting.
THEOREM TeardownInOneTransaction == Spec => []TeardownIsAtomic
  <1>1. IInv => TeardownIsAtomic
    BY DEF IInv, RoomStatusInv, TeardownIsAtomic
  <1> QED
    BY <1>1, InvariantHolds, PTL

\* The one way for a cleaner to have wiped the room is to commit.
LEMMA WipedByCommit ==
    ASSUME IInv, [Next]_vars, NEW x \in Cleaners, pc'[x] = "wiped"
    PROVE  pc[x] = "wiped" \/ WipeCommit(x)
  <1>1. CASE \E f \in Files : UploadStep(f)
    BY <1>1 DEF UploadStep, UploadBegin, UploadInsert, UploadOrphaned, SessionCommit, UploadPut,
                UploadPutFails, CleanupFailedUpload,
                ClaimQuota, ClaimRefused, UploadCommit, IInv, TypeOK
  <1>2. CASE \E d \in Deleters : DeleteServed(d) \/ \E f \in Files : DeleteBegin(d, f)
    BY <1>2 DEF DeleteServed, DeleteBegin, DeleteMark, DeleteUncharge, DeleteObject,
                DeleteCommit, IInv, TypeOK
  <1>3. CASE \/ \E w \in Workers : JobBegin(w)
             \/ \E o \in OwnerDeletes : OwnerDeleteBegin(o)
    BY <1>3 DEF JobBegin, OwnerDeleteBegin, IInv, TypeOK
  <1>4. CASE \E c \in Cleaners : CleanerStep(c)
    BY <1>4 DEF CleanerStep, MarkExpired, WipeLost, MarkDeleting, DeleteRows,
                DeleteSessions, MarkDeleted, WipeCommit, RemoveObject, DeleteRow, IInv, TypeOK
  <1>5. CASE \E r \in Requests : Fail(r) \/ DeadlockVictim(r)
    BY <1>5 DEF Fail, DeadlockVictim, Abort, IInv, TypeOK
  <1>6. CASE \/ Expire \/ UNCHANGED vars
             \/ \E f \in Files : ScanOrphan(f) \/ SweepOrphan(f)
    BY <1>6 DEF Expire, ScanOrphan, SweepOrphan, vars
  <1> QED
    BY <1>1, <1>2, <1>3, <1>4, <1>5, <1>6 DEF Next

\* Of all the jobs and owner's requests that call cleanup_room, one wipes.
THEOREM OneCleanerWipes == Spec => []SingleWipe
  <1>1. Init => SingleWipe
    BY DEF Init, SingleWipe
  <1>2. IInv /\ SingleWipe /\ [Next]_vars => SingleWipe'
    <2> SUFFICES ASSUME IInv, SingleWipe, [Next]_vars,
                        NEW c \in Cleaners, NEW e \in Cleaners,
                        pc'[c] = "wiped", pc'[e] = "wiped"
                 PROVE  c = e
      BY DEF SingleWipe
    <2>1. \A x \in Cleaners : pc'[x] = "wiped" => pc[x] = "wiped" \/ WipeCommit(x)
      BY WipedByCommit
    <2>2. \A x \in Cleaners : WipeCommit(x) =>
             /\ room.by = x
             /\ \A y \in Cleaners : pc[y] # "wiped"
      <3> SUFFICES ASSUME NEW x \in Cleaners, WipeCommit(x)
                   PROVE  room.by = x /\ \A y \in Cleaners : pc[y] # "wiped"
        OBVIOUS
      <3>1. room.by = x /\ room.saved.status = "ACTIVE"
        BY CleanerHolds DEF WipeCommit
      <3> QED
        BY <3>1 DEF IInv, Progress
    <2> QED
      BY <2>1, <2>2 DEF SingleWipe
  <1> QED
    BY <1>1, <1>2, InvariantHolds, PTL DEF Spec

-----------------------------------------------------------------------------
(***************************************************************************)
(* The objects of files that clients are shown.  A file deletion takes the *)
(* object before its commit but is past every lock then, so no deadlock    *)
(* can stop it; a teardown takes objects and has locks still to wait for.  *)
(***************************************************************************)
NobodyWipes == \A c \in Cleaners : pc[c] = "idle"

Uploaded == \A f \in Files : pc[f] \in {"stored", "claimed"} => f \in objects

\* A deleter locks the row of its file and no other.
Erasing ==
    \A d \in Deleters :
        /\ pc[d] # "idle" => file[target[d]].saved # "ABSENT"
        /\ pc[d] \in {"marked", "uncharged", "removed"} =>
              file[target[d]].by = d /\ file[target[d]].draft = "DELETED"
        /\ \A f \in Files : file[f].by = d => f = target[d]

\* The object is there, or on its way out with the row.
Held ==
    \A f \in Files : file[f].saved = "CONFIRMED" =>
        f \in objects \/ \E d \in Deleters : pc[d] = "removed" /\ target[d] = f

ObjectsKept == NobodyWipes /\ Uploaded /\ Erasing /\ Held

\* The steps of an upload: what others are shown has been put, and what a
\* failed upload removes nobody was shown.
LEMMA UploadKeepsObjects ==
    ASSUME IInv, ObjectsKept, NEW f \in Files, UploadStep(f)
    PROVE  ObjectsKept'
  <1>1. /\ \A r \in Requests \ {f} : pc'[r] = pc[r]
        /\ target' = target
    BY DEF UploadStep, UploadBegin, UploadInsert, UploadOrphaned, SessionCommit, UploadPut,
           UploadPutFails, ClaimQuota, ClaimRefused, UploadCommit, CleanupFailedUpload, IInv, TypeOK
  <1>2. NobodyWipes'
    BY <1>1 DEF ObjectsKept, NobodyWipes
  <1>3. pc[f] # "done" /\ file[f].saved = "ABSENT"
    BY DEF UploadStep, UploadBegin, UploadInsert, UploadOrphaned, SessionCommit, UploadPut,
           UploadPutFails, ClaimQuota, ClaimRefused, UploadCommit, IInv, FileLock
  <1>4. \A d \in Deleters : pc[d] # "idle" => target[d] \in Files \ {f}
    BY <1>3 DEF IInv, TypeOK, ObjectsKept, Erasing
  <1>5. \A d \in Deleters : file[f].by # d
    BY <1>3 DEF IInv, FileLock
  <1>6. /\ \A g \in Files \ {f} : file'[g] = file[g]
        /\ \A d \in Deleters : file'[f].by # d
        /\ objects \ {f} \subseteq objects'
        /\ pc'[f] \in {"stored", "claimed"} => f \in objects'
        /\ file'[f].saved = "CONFIRMED" => f \in objects'
    <2>1. CASE UploadBegin(f) \/ UploadOrphaned(f)
      BY <2>1, <1>3, <1>5 DEF UploadBegin, UploadOrphaned, IInv, TypeOK
    <2>2. CASE UploadInsert(f)
      BY <2>2, <1>3 DEF UploadInsert, Write, IInv, TypeOK
    <2>3. CASE UploadPut(f)
      BY <2>3, <1>3, <1>5 DEF UploadPut
    <2>4. CASE UploadPutFails(f) \/ ClaimRefused(f)
      <3>1. CleanupFailedUpload(f)
        BY <2>4 DEF UploadPutFails, ClaimRefused
      <3>2. pc[f] \in {"streaming", "stored"}
        BY <2>4 DEF UploadPutFails, ClaimRefused
      <3>3. /\ \A g \in Files \ {f} : file[g].by # f
            /\ file[f].by = f
        BY <3>2 DEF IInv, FileLock
      <3>4. /\ \A g \in Files \ {f} : file'[g] = file[g]
            /\ file'[f] = Clean(file[f].saved)
        BY <3>1, <3>3, ReleasedByRollback DEF CleanupFailedUpload
      <3>5. file'[f].by = NoTx /\ file'[f].saved = "ABSENT"
        BY <1>3, <3>4 DEF Clean
      <3>6. objects' = objects \ {f} /\ pc'[f] = "failed"
        BY <3>1 DEF CleanupFailedUpload, IInv, TypeOK
      <3> QED
        BY <3>4, <3>5, <3>6
    <2>5. CASE ClaimQuota(f)
      BY <2>5, <1>3 DEF ClaimQuota, Write, IInv, TypeOK, ObjectsKept, Uploaded
    <2>6. CASE UploadCommit(f)
      <3>1. /\ pc[f] = "claimed" /\ pc'[f] = "done" /\ objects' = objects
            /\ file' = [g \in Files |-> Commit(file[g], f)]
        BY <2>6 DEF UploadCommit, CommitAll, IInv, TypeOK
      <3>2. /\ \A g \in Files \ {f} : file[g].by # f
            /\ file[f].by = f /\ f \in objects
        BY <3>1 DEF IInv, FileLock, ObjectsKept, Uploaded
      <3>3. file'[f] = Clean(file[f].draft) /\ \A g \in Files \ {f} : file'[g] = file[g]
        BY <3>1, <3>2 DEF Commit
      <3> QED
        BY <3>1, <3>2, <3>3 DEF Clean
    <2>7. CASE SessionCommit(f)
      <3>1. /\ pc[f] = "streaming" /\ pc'[f] = "open" /\ objects' = objects
            /\ file' = [g \in Files |-> Commit(file[g], f)]
        BY <2>7 DEF SessionCommit, CommitAll, IInv, TypeOK
      <3>2. /\ \A g \in Files \ {f} : file[g].by # f
            /\ file[f].by = f /\ file[f].draft = "PENDING"
        BY <3>1 DEF IInv, FileLock
      <3>3. file'[f] = Clean("PENDING") /\ \A g \in Files \ {f} : file'[g] = file[g]
        BY <3>1, <3>2 DEF Commit
      <3> QED
        BY <3>1, <3>2, <3>3 DEF Clean
    <2> QED
      BY <2>1, <2>2, <2>3, <2>4, <2>5, <2>6, <2>7 DEF UploadStep
  <1>7. Uploaded'
    BY <1>1, <1>6 DEF ObjectsKept, Uploaded
  <1>8. Erasing'
    BY <1>1, <1>4, <1>6 DEF ObjectsKept, Erasing
  <1>9. Held'
    BY <1>1, <1>6 DEF ObjectsKept, Held
  <1> QED
    BY <1>2, <1>7, <1>8, <1>9 DEF ObjectsKept

\* The steps of a file deletion: the object goes while its row is locked, and
\* the row says so as soon as it is committed.
LEMMA DeleteKeepsObjects ==
    ASSUME IInv, ObjectsKept, NEW d \in Deleters,
           DeleteServed(d) \/ \E f \in Files : DeleteBegin(d, f)
    PROVE  ObjectsKept'
  <1>1. \A r \in Requests \ {d} : pc'[r] = pc[r]
    BY DEF DeleteServed, DeleteBegin, DeleteMark, DeleteUncharge, DeleteObject, DeleteCommit,
           IInv, TypeOK
  <1>2. NobodyWipes'
    BY <1>1 DEF ObjectsKept, NobodyWipes
  <1>3. CASE \E f \in Files : DeleteBegin(d, f)
    <2>1. PICK f \in Files : DeleteBegin(d, f)
      BY <1>3
    <2>2. /\ pc[d] = "idle" /\ pc'[d] = "found" /\ target'[d] = f
          /\ \A e \in Deleters \ {d} : target'[e] = target[e]
          /\ UNCHANGED <<file, objects>>
      BY <2>1 DEF DeleteBegin, IInv, TypeOK
    <2>3. \A g \in Files : file[g].by # d
      BY <2>2 DEF IInv, FileLock
    <2>4. file[f].saved = "CONFIRMED"
      BY <2>1, <2>3 DEF DeleteBegin, Sees
    <2> QED
      BY <1>1, <1>2, <2>2, <2>3, <2>4 DEF ObjectsKept, Uploaded, Erasing, Held
  <1>4. CASE DeleteMark(d)
    <2> DEFINE f == target[d]
    <2>1. /\ pc[d] = "found" /\ pc'[d] = "marked" /\ f \in Files
          /\ UNCHANGED <<target, objects>>
      BY <1>4 DEF DeleteMark, IInv, TypeOK
    <2>2. \A g \in Files : file[g].by # d
      BY <2>1 DEF IInv, FileLock
    <2>3. Sees(file[f], d) # "ABSENT"
      BY <2>1, <2>2 DEF Sees, ObjectsKept, Erasing
    <2>4. file[f].by = NoTx /\ file' = [file EXCEPT ![f] = Write(@, d, "DELETED")]
      BY <1>4, <2>1, <2>2, <2>3 DEF DeleteMark, Lockable
    <2>5. /\ file'[f].by = d /\ file'[f].draft = "DELETED" /\ file'[f].saved = file[f].saved
          /\ \A g \in Files \ {f} : file'[g] = file[g]
      BY <2>1, <2>4 DEF Write, IInv, TypeOK
    <2>6. Erasing'
      BY <1>1, <2>1, <2>2, <2>4, <2>5 DEF ObjectsKept, Erasing, IInv, TypeOK
    <2> QED
      BY <1>1, <1>2, <2>1, <2>5, <2>6 DEF ObjectsKept, Uploaded, Held
  <1>5. CASE DeleteUncharge(d)
    <2>1. /\ pc[d] = "marked" /\ pc'[d] = "uncharged"
          /\ UNCHANGED <<target, objects, file>>
      BY <1>5 DEF DeleteUncharge, IInv, TypeOK
    <2> QED
      BY <1>1, <1>2, <2>1 DEF ObjectsKept, Uploaded, Erasing, Held
  <1>6. CASE DeleteObject(d)
    <2>1. /\ pc[d] = "uncharged" /\ pc'[d] = "removed" /\ target[d] \in Files
          /\ UNCHANGED <<target, file>>
          /\ objects' = objects \ {target[d]}
      BY <1>6 DEF DeleteObject, IInv, TypeOK
    <2>2. pc[target[d]] = "done"
      BY <2>1 DEF IInv, FileLock, ObjectsKept, Erasing
    <2> QED
      BY <1>1, <1>2, <2>1, <2>2 DEF ObjectsKept, Uploaded, Erasing, Held
  <1>7. CASE DeleteCommit(d)
    <2> DEFINE f == target[d]
    <2>1. /\ pc[d] = "removed" /\ pc'[d] = "idle" /\ f \in Files
          /\ \A e \in Deleters \ {d} : target'[e] = target[e]
          /\ UNCHANGED objects
          /\ file' = [g \in Files |-> Commit(file[g], d)]
      BY <1>7 DEF DeleteCommit, CommitAll, IInv, TypeOK
    <2>2. /\ file[f].by = d /\ file[f].draft = "DELETED"
          /\ \A g \in Files \ {f} : file[g].by # d
      BY <2>1 DEF ObjectsKept, Erasing
    <2>3. /\ file'[f] = Clean("DELETED")
          /\ \A g \in Files \ {f} : file'[g] = file[g]
      BY <2>1, <2>2 DEF Commit
    <2>4. file'[f].by = NoTx /\ file'[f].saved = "DELETED"
      BY <2>3 DEF Clean
    <2>5. \A e \in Deleters \ {d} : pc[e] \in {"marked", "uncharged", "removed"} => target[e] # f
      BY <2>2 DEF ObjectsKept, Erasing
    <2>6. Erasing'
      <3>1. \A g \in Files : file'[g].by # d
        BY <2>2, <2>3, <2>4
      <3>2. ASSUME NEW e \in Deleters \ {d}
            PROVE  /\ pc[e] # "idle" => file'[target[e]].saved # "ABSENT"
                   /\ pc[e] \in {"marked", "uncharged", "removed"} =>
                         file'[target[e]].by = e /\ file'[target[e]].draft = "DELETED"
                   /\ \A g \in Files : file'[g].by = e => g = target[e]
        <4>1. pc[e] # "idle" => target[e] \in Files
          BY DEF IInv, TypeOK
        <4>2. \A g \in Files : file'[g].by = e => file[g].by = e
          BY <2>3, <2>4
        <4> QED
          BY <2>3, <2>4, <2>5, <4>1, <4>2 DEF ObjectsKept, Erasing
      <3>3. \A e \in Deleters \ {d} : pc'[e] = pc[e]
        BY <1>1
      <3> QED
        BY <2>1, <3>1, <3>2, <3>3 DEF Erasing
    <2>7. Held'
      BY <1>1, <2>1, <2>3, <2>4 DEF ObjectsKept, Held
    <2> QED
      BY <1>1, <1>2, <2>1, <2>6, <2>7 DEF ObjectsKept, Uploaded
  <1> QED
    BY <1>3, <1>4, <1>5, <1>6, <1>7 DEF DeleteServed

\* The victim of a deadlock waits for a lock, and a deletion that does so has
\* taken no object.
LEMMA VictimKeepsObjects ==
    ASSUME IInv, ObjectsKept, NEW r \in Requests, DeadlockVictim(r)
    PROVE  ObjectsKept'
  <1>1. PICK s : s \in WaitsFor(r)
    BY DEF DeadlockVictim
  <1>2. /\ r \in Files \cup Deleters
        /\ r \in Files => pc[r] \in {"authorized", "stored"}
        /\ r \in Deleters => pc[r] \in {"found", "marked"}
    BY <1>1 DEF WaitsFor, ObjectsKept, NobodyWipes
  <1>3. /\ pc'[r] = IF r \in Files THEN "failed" ELSE "idle"
        /\ \A q \in Requests \ {r} : pc'[q] = pc[q]
        /\ \A d \in Deleters \ {r} : target'[d] = target[d]
        /\ objects' = objects
    BY <1>2 DEF DeadlockVictim, Abort, IInv, TypeOK
  <1>4. \A g \in Files : /\ file'[g].saved = file[g].saved
                         /\ file[g].by = r => file'[g] = Clean(file[g].saved)
                         /\ file[g].by # r => file'[g] = file[g]
    BY ReleasedByRollback DEF DeadlockVictim, Abort
  <1>5. ASSUME NEW g \in Files
        PROVE  file'[g].by # r /\ (file[g].by = r => file'[g].by = NoTx)
    <2>1. CASE file[g].by = r
      <3>1. file'[g] = Clean(file[g].saved)
        BY <1>4, <2>1
      <3> QED
        BY <3>1 DEF Clean
    <2>2. CASE file[g].by # r
      BY <1>4, <2>2
    <2> QED
      BY <2>1, <2>2
  <1>6. NobodyWipes'
    BY <1>2, <1>3 DEF ObjectsKept, NobodyWipes
  <1>7. Uploaded'
    BY <1>2, <1>3 DEF ObjectsKept, Uploaded
  <1>8. Erasing'
    <2>1. CASE r \in Files
      <3>1. \A d \in Deleters : pc'[d] = pc[d] /\ target'[d] = target[d]
        BY <1>3, <2>1
      <3>2. \A d \in Deleters : pc[d] # "idle" => target[d] \in Files
        BY DEF IInv, TypeOK
      <3>3. \A d \in Deleters : \A g \in Files :
               /\ file[g].by = d => file'[g] = file[g]
               /\ file'[g].by = d => file[g].by = d
        BY <1>4, <1>5, <2>1
      <3> QED
        BY <1>4, <3>1, <3>2, <3>3 DEF ObjectsKept, Erasing
    <2>2. CASE r \in Deleters
      <3>1. /\ pc'[r] = "idle"
            /\ \A d \in Deleters \ {r} : pc'[d] = pc[d] /\ target'[d] = target[d]
        BY <1>3, <2>2
      <3>2. \A d \in Deleters : pc[d] # "idle" => target[d] \in Files
        BY DEF IInv, TypeOK
      <3>3. \A d \in Deleters \ {r} : \A g \in Files :
               /\ file[g].by = d => file'[g] = file[g]
               /\ file'[g].by = d => file[g].by = d
        BY <1>4, <1>5
      <3> QED
        BY <1>4, <1>5, <3>1, <3>2, <3>3 DEF ObjectsKept, Erasing
    <2> QED
      BY <1>2, <2>1, <2>2
  <1>9. Held'
    BY <1>2, <1>3, <1>4 DEF ObjectsKept, Held
  <1> QED
    BY <1>6, <1>7, <1>8, <1>9 DEF ObjectsKept

\* A file that clients are shown is in storage, but for the deletion that is
\* about to commit, unless a teardown has begun, a request has broken off or a
\* scan has taken an upload for an orphan: the deadlocks of uploads and file
\* deletions with each other cost no object.
THEOREM UndisturbedFilesKeepObjects == Spec => []UndisturbedFilesAreStored
  <1>1. Init => (Untouched => ObjectsKept)
    <2> SUFFICES ASSUME Init PROVE ObjectsKept
      OBVIOUS
    <2>1. /\ \A r \in Requests : pc[r] = "idle"
          /\ \A f \in Files : file[f].saved = "ABSENT" /\ file[f].by = NoTx
      BY DEF Init, Clean
    <2> QED
      BY <2>1 DEF ObjectsKept, NobodyWipes, Uploaded, Erasing, Held
  <1>2. IInv /\ (Untouched => ObjectsKept) /\ [Next]_vars => (Untouched => ObjectsKept)'
    <2> SUFFICES ASSUME IInv, Untouched => ObjectsKept, [Next]_vars, Untouched'
                 PROVE  ObjectsKept'
      OBVIOUS
    <2>1. CASE \E f \in Files : UploadStep(f)
      <3>1. PICK f \in Files : UploadStep(f)
        BY <2>1
      <3>2. /\ UNCHANGED <<expired, faults, orphans>>
            /\ \A r \in Requests \ {f} : pc'[r] = pc[r]
        BY <3>1 DEF UploadStep, UploadBegin, UploadInsert, UploadOrphaned, SessionCommit, UploadPut,
                    UploadPutFails, ClaimQuota, ClaimRefused, UploadCommit,
                    CleanupFailedUpload, IInv, TypeOK
      <3> QED
        BY <3>1, <3>2, UploadKeepsObjects DEF Untouched
    <2>2. CASE \E d \in Deleters : DeleteServed(d) \/ \E f \in Files : DeleteBegin(d, f)
      <3>1. PICK d \in Deleters : DeleteServed(d) \/ \E f \in Files : DeleteBegin(d, f)
        BY <2>2
      <3>2. /\ UNCHANGED <<expired, faults, orphans>>
            /\ \A r \in Requests \ {d} : pc'[r] = pc[r]
        BY <3>1 DEF DeleteServed, DeleteBegin, DeleteMark, DeleteUncharge, DeleteObject,
                    DeleteCommit, IInv, TypeOK
      <3> QED
        BY <3>1, <3>2, DeleteKeepsObjects DEF Untouched
    <2>3. CASE \E w \in Workers : JobBegin(w)
      BY <2>3 DEF JobBegin, Untouched
    <2>4. CASE \E o \in OwnerDeletes : OwnerDeleteBegin(o)
      BY <2>4 DEF OwnerDeleteBegin, Untouched, IInv, TypeOK
    <2>5. CASE \E c \in Cleaners : CleanerStep(c)
      <3>1. PICK c \in Cleaners : CleanerStep(c)
        BY <2>5
      <3>2. /\ UNCHANGED <<expired, faults, orphans>> /\ pc[c] # "idle"
            /\ c \in OwnerDeletes => pc'[c] # "idle"
            /\ \A r \in Requests \ {c} : pc'[r] = pc[r]
        BY <3>1 DEF CleanerStep, MarkExpired, WipeLost, MarkDeleting, RemoveObject, DeleteRows,
                    DeleteRow, DeleteSessions, MarkDeleted, WipeCommit, IInv, TypeOK
      <3> QED
        BY <3>2 DEF Untouched, ObjectsKept, NobodyWipes
    <2>6. CASE \E r \in Requests : Fail(r)
      BY <2>6 DEF Fail, Untouched, IInv, TypeOK
    <2>7. CASE \E r \in Requests : DeadlockVictim(r)
      <3>1. PICK r \in Requests : DeadlockVictim(r)
        BY <2>7
      <3>2. /\ UNCHANGED <<expired, faults, orphans>>
            /\ r \in OwnerDeletes => pc'[r] = "over"
            /\ \A q \in Requests \ {r} : pc'[q] = pc[q]
        BY <3>1 DEF DeadlockVictim, Abort, IInv, TypeOK
      <3> QED
        BY <3>1, <3>2, VictimKeepsObjects DEF Untouched
    <2>8. CASE Expire \/ UNCHANGED vars
      BY <2>8 DEF Expire, vars, Untouched, ObjectsKept, NobodyWipes, Uploaded, Erasing, Held
    <2>9. CASE \E f \in Files : ScanOrphan(f) \/ SweepOrphan(f)
      BY <2>9 DEF ScanOrphan, SweepOrphan, Untouched
    <2> QED
      BY <2>1, <2>2, <2>3, <2>4, <2>5, <2>6, <2>7, <2>8, <2>9 DEF Next
  <1>3. (Untouched => ObjectsKept) => UndisturbedFilesAreStored
    BY DEF ObjectsKept, Held, UndisturbedFilesAreStored, Confirmed
  <1> QED
    BY <1>1, <1>2, <1>3, InvariantHolds, PTL DEF Spec
-----------------------------------------------------------------------------
(***************************************************************************)
(* The rows of upload sessions.  Their commit needs no lock of the room's  *)
(* row, so a teardown may have listed the rows before one appears.  It     *)
(* does not once the sessions of the room are deleted: that waits for      *)
(* every insert, and no insert finds a session afterwards.                 *)
(***************************************************************************)
\* Who has deleted the sessions holds their rows, until all of it is committed,
\* and no insert is left under way.
Seated ==
    /\ sessions.by # NoTx =>
          sessions.by \in Cleaners /\ pc[sessions.by] \in {"unseated", "emptied"}
    /\ sessions.by = NoTx => sessions.draft = sessions.saved
    /\ \A c \in Cleaners : pc[c] \in {"unseated", "emptied"} =>
          sessions.by = c /\ sessions.draft = "ABSENT" /\ Inserting = {}
    /\ room.saved.status = "DELETED" =>
          sessions.saved = "ABSENT" /\ sessions.by = NoTx /\ Inserting = {}

\* What is left of the rows at each step of a teardown, where no session has
\* been committed behind its back.
Gone ==
    /\ \A c \in Cleaners :
          /\ pc[c] = "rows" =>
                \A f \in Files : file[f].saved # "ABSENT" => f \in todo[c] \/ file[f].by = c
          /\ pc[c] \in {"unseated", "emptied"} =>
                \A f \in Files : file[f].saved # "ABSENT" => file[f].by = c
    /\ room.saved.status = "DELETED" => \A f \in Files : file[f].saved = "ABSENT"

\* No row of any file is left in a DELETED room.
WipedRoomHasNoRows ==
    room.saved.status = "DELETED" => \A f \in Files : file[f].saved = "ABSENT"

\* No upload session is committed while a teardown deletes the rows.
NoLateSession ==
    \A f \in Files : SessionCommit(f) => \A c \in Cleaners : pc[c] # "rows"

\* A commit of an upload or of a deletion needs the room's row, which a teardown
\* holds; one of a session leaves it alone.
LEMMA RoomStatusMoves ==
    ASSUME IInv, [Next]_vars, \A c \in Cleaners : ~WipeCommit(c)
    PROVE  room'.saved.status = room.saved.status
  <1>1. ASSUME NEW r \in Requests, RollbackAll(r)
        PROVE  room'.saved.status = room.saved.status
    BY <1>1, ReleasedByRollback
  <1>2. ASSUME NEW r \in Files \cup Deleters, CommitAll(r)
        PROVE  room'.saved.status = room.saved.status
    BY <1>2 DEF CommitAll, Commit, Clean, IInv, RoomStatusInv
  <1>3. CASE \E f \in Files : UploadStep(f)
    BY <1>1, <1>2, <1>3 DEF UploadStep, UploadBegin, UploadInsert, UploadOrphaned, SessionCommit,
       UploadPut, UploadPutFails, CleanupFailedUpload, ClaimQuota, ClaimRefused, UploadCommit, Write
  <1>4. CASE \E d \in Deleters : DeleteServed(d) \/ \E f \in Files : DeleteBegin(d, f)
    BY <1>2, <1>4 DEF DeleteServed, DeleteBegin, DeleteMark, DeleteUncharge, DeleteObject,
       DeleteCommit, Write
  <1>5. CASE \/ \E w \in Workers : JobBegin(w)
             \/ \E o \in OwnerDeletes : OwnerDeleteBegin(o)
             \/ \E c \in Cleaners : CleanerStep(c)
    BY <1>5 DEF JobBegin, OwnerDeleteBegin, CleanerStep, MarkExpired, WipeLost, MarkDeleting,
       DeleteRows, DeleteSessions, MarkDeleted, RemoveObject, DeleteRow, MarkRoom, Write
  <1>6. CASE \E r \in Requests : Fail(r) \/ DeadlockVictim(r)
    BY <1>1, <1>6 DEF Fail, DeadlockVictim, Abort
  <1>7. CASE \/ Expire \/ UNCHANGED vars
             \/ \E f \in Files : ScanOrphan(f) \/ SweepOrphan(f)
    BY <1>7 DEF Expire, ScanOrphan, SweepOrphan, vars
  <1> QED
    BY <1>3, <1>4, <1>5, <1>6, <1>7 DEF Next

LEMMA SeatedStep == IInv /\ Seated /\ [Next]_vars => Seated'
  <1> SUFFICES ASSUME IInv, Seated, [Next]_vars PROVE Seated'
    OBVIOUS
  <1>0. ASSUME UNCHANGED sessions, Inserting' \subseteq Inserting,
               \A c \in Cleaners : (pc[c] \in {"unseated", "emptied"}) <=>
                                   (pc'[c] \in {"unseated", "emptied"}),
               room'.saved.status = room.saved.status
        PROVE  Seated'
    BY <1>0 DEF Seated
  <1>1. CASE \E c \in Cleaners : WipeCommit(c)
    <2>1. PICK c \in Cleaners : WipeCommit(c)
      BY <1>1
    <2>2. /\ pc[c] = "emptied" /\ pc'[c] = "wiped"
          /\ \A r \in Requests \ {c} : pc'[r] = pc[r]
          /\ sessions' = Commit(sessions, c)
      BY <2>1 DEF WipeCommit, CommitAll, IInv, TypeOK
    <2>3. sessions.by = c /\ sessions.draft = "ABSENT" /\ Inserting = {}
      BY <2>2 DEF Seated
    <2>4. sessions' = Clean("ABSENT")
      BY <2>2, <2>3 DEF Commit
    <2>5. sessions'.by = NoTx /\ sessions'.saved = "ABSENT" /\ sessions'.draft = "ABSENT"
      BY <2>4 DEF Clean
    <2>6. Inserting' = {} /\ \A e \in Cleaners : pc'[e] \notin {"unseated", "emptied"}
      BY <2>2, <2>3, CleanerHolds DEF Inserting, HoldsRoom
    <2> QED
      BY <2>5, <2>6 DEF Seated
  <1> SUFFICES ASSUME \A c \in Cleaners : ~WipeCommit(c) PROVE Seated'
    BY <1>1
  <1>2. room'.saved.status = room.saved.status
    BY RoomStatusMoves
  <1>3. CASE \E f \in Files : UploadStep(f)
    <2>1. PICK f \in Files : UploadStep(f)
      BY <1>3
    <2>2. /\ \A c \in Cleaners : pc'[c] = pc[c]
          /\ \A g \in Files \ {f} : pc'[g] = pc[g]
      BY <2>1 DEF UploadStep, UploadBegin, UploadInsert, UploadOrphaned, SessionCommit, UploadPut,
         UploadPutFails, CleanupFailedUpload, ClaimQuota, ClaimRefused, UploadCommit, IInv, TypeOK
    <2>3. sessions.by # f
      BY DEF Seated
    <2>4. sessions' = sessions
      BY <2>1, <2>3 DEF UploadStep, UploadBegin, UploadInsert, UploadOrphaned, SessionCommit,
         UploadPut, UploadPutFails, CleanupFailedUpload, ClaimQuota, ClaimRefused, UploadCommit,
         CommitAll, RollbackAll, Commit, Rollback
    <2>5. CASE UploadInsert(f)
      <3>1. sessions.by = NoTx /\ sessions.saved = "LIVE"
        BY <2>3, <2>5 DEF UploadInsert, Lockable
      <3>2. /\ \A c \in Cleaners : pc[c] \notin {"unseated", "emptied"}
            /\ room.saved.status # "DELETED"
        BY <3>1 DEF Seated
      <3> QED
        BY <1>2, <2>2, <2>4, <3>1, <3>2 DEF Seated
    <2>6. CASE ~UploadInsert(f)
      <3>1. pc[f] \in {"streaming", "stored", "claimed"}
               \/ pc'[f] \notin {"streaming", "stored", "claimed"}
        BY <2>1, <2>6 DEF UploadStep, UploadBegin, UploadOrphaned, SessionCommit, UploadPut,
           UploadPutFails, CleanupFailedUpload, ClaimQuota, ClaimRefused, UploadCommit, IInv, TypeOK
      <3>2. Inserting' \subseteq Inserting
        BY <2>2, <3>1 DEF Inserting
      <3> QED
        BY <1>0, <1>2, <2>2, <2>4, <3>2
    <2> QED
      BY <2>5, <2>6
  <1>4. CASE \E d \in Deleters : DeleteServed(d) \/ \E f \in Files : DeleteBegin(d, f)
    <2>1. PICK d \in Deleters : DeleteServed(d) \/ \E f \in Files : DeleteBegin(d, f)
      BY <1>4
    <2>2. \A r \in Requests \ {d} : pc'[r] = pc[r]
      BY <2>1 DEF DeleteServed, DeleteBegin, DeleteMark, DeleteUncharge, DeleteObject,
         DeleteCommit, IInv, TypeOK
    <2>3. sessions.by # d
      BY DEF Seated
    <2>4. sessions' = sessions
      BY <2>1, <2>3 DEF DeleteServed, DeleteBegin, DeleteMark, DeleteUncharge, DeleteObject,
         DeleteCommit, CommitAll, Commit
    <2>5. Inserting' = Inserting
      BY <2>2 DEF Inserting
    <2> QED
      BY <1>0, <1>2, <2>2, <2>4, <2>5
  <1>5. CASE \E c \in Cleaners : DeleteSessions(c)
    <2>1. PICK c \in Cleaners : DeleteSessions(c)
      BY <1>5
    <2>2. /\ pc[c] = "rows" /\ pc'[c] = "unseated" /\ Inserting = {}
          /\ \A r \in Requests \ {c} : pc'[r] = pc[r]
          /\ sessions' = Write(sessions, c, "ABSENT")
      BY <2>1 DEF DeleteSessions, IInv, TypeOK
    <2>3. sessions'.by = c /\ sessions'.draft = "ABSENT"
      BY <2>2 DEF Write
    <2>4. Inserting' = {}
      BY <2>2 DEF Inserting
    <2>5. \A e \in Cleaners \ {c} : pc'[e] \notin {"unseated", "emptied"}
      BY <2>2, CleanerHolds DEF HoldsRoom
    <2>6. room'.saved.status # "DELETED" /\ c # NoTx
      BY <1>2, <2>2, CleanerHolds
    <2> QED
      BY <2>2, <2>3, <2>4, <2>5, <2>6 DEF Seated
  <1>6. CASE \/ \E w \in Workers : JobBegin(w)
             \/ \E o \in OwnerDeletes : OwnerDeleteBegin(o)
             \/ \E c \in Cleaners : CleanerStep(c) /\ ~DeleteSessions(c)
    <2>1. UNCHANGED sessions
      BY <1>6 DEF JobBegin, OwnerDeleteBegin, CleanerStep, MarkExpired, WipeLost, MarkDeleting,
         DeleteRows, MarkDeleted, RemoveObject, DeleteRow
    <2>2. /\ \A f \in Files : pc'[f] = pc[f]
          /\ \A c \in Cleaners : (pc[c] \in {"unseated", "emptied"}) <=>
                                 (pc'[c] \in {"unseated", "emptied"})
      BY <1>6 DEF JobBegin, OwnerDeleteBegin, CleanerStep, MarkExpired, WipeLost, MarkDeleting,
         DeleteRows, MarkDeleted, RemoveObject, DeleteRow, IInv, TypeOK
    <2>3. Inserting' = Inserting
      BY <2>2 DEF Inserting
    <2> QED
      BY <1>0, <1>2, <2>1, <2>2, <2>3
  <1>7. CASE \E r \in Requests : Fail(r) \/ DeadlockVictim(r)
    <2>1. PICK r \in Requests : Abort(r)
      BY <1>7 DEF Fail, DeadlockVictim
    <2>2. /\ pc'[r] \in {"failed", "over", "idle"}
          /\ \A q \in Requests \ {r} : pc'[q] = pc[q]
          /\ sessions' = Rollback(sessions, r)
      BY <2>1 DEF Abort, RollbackAll, IInv, TypeOK
    <2>3. Inserting' \subseteq Inserting
      BY <2>2 DEF Inserting
    <2>4. CASE sessions.by = r
      <3>1. sessions' = Clean(sessions.saved)
        BY <2>2, <2>4 DEF Rollback
      <3>2. sessions'.by = NoTx /\ sessions'.draft = sessions'.saved /\ sessions'.saved = sessions.saved
        BY <3>1 DEF Clean
      <3>3. r \in Cleaners /\ pc[r] \in {"unseated", "emptied"}
        BY <2>4 DEF Seated
      <3>4. /\ \A c \in Cleaners : pc'[c] \notin {"unseated", "emptied"}
            /\ room.saved.status # "DELETED"
        BY <2>2, <3>3, CleanerHolds DEF HoldsRoom
      <3> QED
        BY <1>2, <3>2, <3>4 DEF Seated
    <2>5. CASE sessions.by # r
      <3>1. sessions' = sessions
        BY <2>2, <2>5 DEF Rollback
      <3>2. r \in Cleaners => pc[r] \notin {"unseated", "emptied"}
        BY <2>5 DEF Seated
      <3> QED
        BY <1>0, <1>2, <2>2, <2>3, <3>1, <3>2
    <2> QED
      BY <2>4, <2>5
  <1>8. CASE \/ Expire \/ UNCHANGED vars
             \/ \E f \in Files : ScanOrphan(f) \/ SweepOrphan(f)
    <2>1. UNCHANGED <<sessions, pc>>
      BY <1>8 DEF Expire, ScanOrphan, SweepOrphan, vars
    <2> QED
      BY <1>0, <1>2, <2>1 DEF Inserting
  <1> QED
    BY <1>3, <1>4, <1>5, <1>6, <1>7, <1>8 DEF Next

\* A step that commits no row and leaves the teardown where it is.
LEMMA GoneStays ==
    ASSUME Gone, room'.saved.status = room.saved.status,
           \A f \in Files : file[f].saved = "ABSENT" => file'[f].saved = "ABSENT",
           \A c \in Cleaners : pc'[c] \in {"rows", "unseated", "emptied"} =>
              /\ pc'[c] = pc[c] \/ pc[c] = "unseated"
              /\ todo'[c] = todo[c]
              /\ \A f \in Files :
                    file[f].by = c /\ file'[f].saved # "ABSENT" => file'[f].by = c
    PROVE  Gone'
  BY DEF Gone

LEMMA GoneStep == IInv /\ Seated /\ Gone /\ NoLateSession /\ [Next]_vars => Gone'
  <1> SUFFICES ASSUME IInv, Seated, Gone, NoLateSession, [Next]_vars PROVE Gone'
    OBVIOUS
  <1>1. CASE \E c \in Cleaners : WipeCommit(c)
    <2>1. PICK c \in Cleaners : WipeCommit(c)
      BY <1>1
    <2>2. /\ pc[c] = "emptied" /\ pc'[c] = "wiped"
          /\ \A r \in Requests \ {c} : pc'[r] = pc[r]
          /\ \A g \in Files : file'[g] = Commit(file[g], c)
      BY <2>1 DEF WipeCommit, CommitAll, IInv, TypeOK
    <2>3. \A e \in Cleaners : pc'[e] \notin {"rows", "unseated", "emptied"}
      BY <2>2, CleanerHolds DEF HoldsRoom
    <2>4. ASSUME NEW g \in Files PROVE file'[g].saved = "ABSENT"
      <3>1. CASE file[g].by = c
        <4>1. file'[g] = Clean("ABSENT")
          BY <2>2, <3>1 DEF Commit, IInv, FileLock
        <4> QED
          BY <4>1 DEF Clean
      <3>2. CASE file[g].by # c
        BY <2>2, <3>2 DEF Commit, Gone
      <3> QED
        BY <3>1, <3>2
    <2> QED
      BY <2>3, <2>4 DEF Gone
  <1> SUFFICES ASSUME \A c \in Cleaners : ~WipeCommit(c) PROVE Gone'
    BY <1>1
  <1>2. room'.saved.status = room.saved.status
    BY RoomStatusMoves
  <1>3. ASSUME NEW f \in Files, UploadStep(f) PROVE Gone'
    <2>1. /\ \A c \in Cleaners : pc'[c] = pc[c]
          /\ todo' = todo
      BY <1>3 DEF UploadStep, UploadBegin, UploadInsert, UploadOrphaned, SessionCommit, UploadPut,
         UploadPutFails, CleanupFailedUpload, ClaimQuota, ClaimRefused, UploadCommit, IInv, TypeOK
    <2>2. CASE UploadCommit(f) \/ SessionCommit(f)
      <3>1. \A c \in Cleaners : pc[c] \notin {"rows", "unseated", "emptied"}
        <4>1. CASE UploadCommit(f)
          <5>1. HoldsRoom(f)
            BY <4>1 DEF UploadCommit, HoldsRoom
          <5> QED
            BY <5>1, CleanerHolds
        <4>2. CASE SessionCommit(f)
          <5>1. f \in Inserting
            BY <4>2 DEF SessionCommit, Inserting
          <5> QED
            BY <4>2, <5>1 DEF NoLateSession, Seated
        <4> QED
          BY <2>2, <4>1, <4>2
      <3>2. room.saved.status # "DELETED"
        BY <2>2 DEF UploadCommit, SessionCommit, Inserting, Seated
      <3> QED
        BY <1>2, <2>1, <3>1, <3>2 DEF Gone
    <2>3. CASE CleanupFailedUpload(f)
      <3>1. \A g \in Files : /\ file'[g].saved = file[g].saved
                             /\ \A c \in Cleaners : file[g].by = c => file'[g].by = c
        BY <2>3, ReleasedByRollback DEF CleanupFailedUpload
      <3> QED
        BY <1>2, <2>1, <3>1, GoneStays
    <2>4. CASE UploadInsert(f) \/ ClaimQuota(f)
      <3>1. /\ \A g \in Files \ {f} : file'[g] = file[g]
            /\ file'[f].saved = file[f].saved
        BY <2>4 DEF UploadInsert, ClaimQuota, Write, IInv, TypeOK
      <3>2. file[f].saved = "ABSENT"
        BY <2>4 DEF UploadInsert, ClaimQuota, IInv, FileLock
      <3> QED
        BY <1>2, <2>1, <3>1, <3>2, GoneStays
    <2>5. CASE UploadBegin(f) \/ UploadOrphaned(f) \/ UploadPut(f)
      <3>1. UNCHANGED file
        BY <2>5 DEF UploadBegin, UploadOrphaned, UploadPut
      <3> QED
        BY <1>2, <2>1, <3>1, GoneStays
    <2> QED
      BY <1>3, <2>2, <2>3, <2>4, <2>5 DEF UploadStep, UploadPutFails, ClaimRefused
  <1>4. ASSUME NEW d \in Deleters, DeleteServed(d) \/ \E f \in Files : DeleteBegin(d, f)
        PROVE  Gone'
    <2>1. /\ \A c \in Cleaners : pc'[c] = pc[c]
          /\ todo' = todo
      BY <1>4 DEF DeleteServed, DeleteBegin, DeleteMark, DeleteUncharge, DeleteObject,
         DeleteCommit, IInv, TypeOK
    <2>2. CASE DeleteCommit(d)
      <3>1. HoldsRoom(d)
        BY <2>2 DEF DeleteCommit, HoldsRoom
      <3>2. \A c \in Cleaners : pc[c] \notin {"rows", "unseated", "emptied"}
        BY <3>1, CleanerHolds
      <3>3. \A g \in Files : file[g].by = d => file[g].saved # "ABSENT"
        BY DEF IInv, FileLock
      <3>4. \A g \in Files : file[g].saved = "ABSENT" => file'[g] = file[g]
        BY <2>2, <3>3 DEF DeleteCommit, CommitAll, Commit
      <3> QED
        BY <1>2, <2>1, <3>2, <3>4, GoneStays
    <2>3. CASE DeleteMark(d)
      <3>1. target[d] \in Files
        BY <2>3 DEF DeleteMark, IInv, TypeOK
      <3>2. \A g \in Files : /\ file'[g].saved = file[g].saved
                             /\ \A c \in Cleaners : file[g].by = c => file'[g].by = c
        BY <2>3, <3>1 DEF DeleteMark, Lockable, Write, IInv, TypeOK
      <3> QED
        BY <1>2, <2>1, <3>2, GoneStays
    <2>4. CASE DeleteUncharge(d) \/ DeleteObject(d) \/ \E f \in Files : DeleteBegin(d, f)
      <3>1. UNCHANGED file
        BY <2>4 DEF DeleteUncharge, DeleteObject, DeleteBegin
      <3> QED
        BY <1>2, <2>1, <3>1, GoneStays
    <2> QED
      BY <1>4, <2>2, <2>3, <2>4 DEF DeleteServed
  <1>5. ASSUME NEW c \in Cleaners, CleanerStep(c) PROVE Gone'
    <2>1. /\ \A r \in Requests \ {c} : pc'[r] = pc[r]
          /\ \A e \in Cleaners \ {c} : todo'[e] = todo[e]
      BY <1>5 DEF CleanerStep, MarkExpired, WipeLost, MarkDeleting, DeleteRows,
         DeleteSessions, MarkDeleted, WipeCommit, RemoveObject, DeleteRow, IInv, TypeOK
    <2>2. CASE DeleteRows(c)
      <3>1. /\ pc[c] = "objects" /\ pc'[c] = "rows" /\ todo'[c] = VisibleFiles(c)
            /\ file' = file
        BY <2>2 DEF DeleteRows, IInv, TypeOK
      <3>2. \A e \in Cleaners \ {c} : pc[e] \notin {"rows", "unseated", "emptied"}
        BY <3>1, CleanerHolds DEF HoldsRoom
      <3>3. \A f \in Files : file[f].saved # "ABSENT" => f \in VisibleFiles(c)
        BY <3>1 DEF VisibleFiles, Sees, IInv, FileLock
      <3> QED
        BY <1>2, <2>1, <3>1, <3>2, <3>3 DEF Gone
    <2>3. CASE \E f \in Files : DeleteRow(c, f)
      <3>1. PICK f \in Files : DeleteRow(c, f)
        BY <2>3
      <3>2. /\ pc[c] = "rows" /\ pc' = pc /\ todo'[c] = todo[c] \ {f}
            /\ file'[f].by = c /\ file'[f].saved = file[f].saved
            /\ \A g \in Files \ {f} : file'[g] = file[g]
        BY <3>1 DEF DeleteRow, Write, IInv, TypeOK
      <3>3. \A e \in Cleaners \ {c} : pc[e] \notin {"rows", "unseated", "emptied"}
        BY <3>2, CleanerHolds DEF HoldsRoom
      <3> QED
        BY <1>2, <3>2, <3>3 DEF Gone
    <2>4. CASE DeleteSessions(c)
      <3>1. /\ pc[c] = "rows" /\ pc'[c] = "unseated" /\ todo[c] = {}
            /\ UNCHANGED <<file, todo>>
        BY <2>4 DEF DeleteSessions, IInv, TypeOK
      <3> QED
        BY <1>2, <2>1, <3>1 DEF Gone
    <2>5. CASE MarkExpired(c) \/ WipeLost(c) \/ MarkDeleting(c) \/ MarkDeleted(c)
               \/ \E f \in Files : RemoveObject(c, f)
      <3>1. /\ UNCHANGED file
            /\ pc'[c] \in {"rows", "unseated", "emptied"} =>
                  (pc'[c] = pc[c] \/ pc[c] = "unseated") /\ todo'[c] = todo[c]
        BY <2>5 DEF MarkExpired, WipeLost, MarkDeleting, MarkDeleted, RemoveObject, IInv, TypeOK
      <3> QED
        BY <1>2, <2>1, <3>1, GoneStays
    <2> QED
      BY <1>5, <2>2, <2>3, <2>4, <2>5 DEF CleanerStep
  <1>6. CASE \/ \E w \in Workers : JobBegin(w)
             \/ \E o \in OwnerDeletes : OwnerDeleteBegin(o)
    <2>1. /\ UNCHANGED <<file, todo>>
          /\ \A c \in Cleaners : pc'[c] = pc[c] \/ pc'[c] = "expire"
      BY <1>6 DEF JobBegin, OwnerDeleteBegin, IInv, TypeOK
    <2> QED
      BY <1>2, <2>1, GoneStays
  <1>7. CASE \E r \in Requests : Fail(r) \/ DeadlockVictim(r)
    <2>1. PICK r \in Requests : Abort(r)
      BY <1>7 DEF Fail, DeadlockVictim
    <2>2. /\ pc'[r] \in {"failed", "over", "idle"}
          /\ \A q \in Requests \ {r} : pc'[q] = pc[q]
          /\ \A c \in Cleaners \ {r} : todo'[c] = todo[c]
      BY <2>1 DEF Abort, IInv, TypeOK
    <2>3. \A g \in Files : /\ file'[g].saved = file[g].saved
                           /\ file[g].by # r => file'[g] = file[g]
      BY <2>1, ReleasedByRollback DEF Abort
    <2> QED
      BY <1>2, <2>2, <2>3, GoneStays
  <1>8. CASE \/ Expire \/ UNCHANGED vars
             \/ \E f \in Files : ScanOrphan(f) \/ SweepOrphan(f)
    <2>1. UNCHANGED <<file, pc, todo>>
      BY <1>8 DEF Expire, ScanOrphan, SweepOrphan, vars
    <2> QED
      BY <1>2, <2>1, GoneStays
  <1> QED
    BY <1>3, <1>4, <1>5, <1>6, <1>7, <1>8 DEF Next

\* The row of an upload session is committed between the teardown's DELETE of
\* the files and that of the sessions, or it does not survive the room: for any
\* number of uploads, deletions, teardowns, sweeps and failures.
THEOREM OnlyLateSessionsSurvive == Spec /\ [][NoLateSession]_vars => []WipedRoomHasNoRows
  <1>1. Init => Seated /\ Gone
    <2> SUFFICES ASSUME Init PROVE Seated /\ Gone
      OBVIOUS
    <2>1. /\ \A r \in Requests : pc[r] = "idle"
          /\ sessions.by = NoTx /\ sessions.draft = sessions.saved
          /\ room.saved.status = "ACTIVE"
      BY DEF Init, Clean
    <2> QED
      BY <2>1 DEF Seated, Gone
  <1>2. IInv /\ Seated /\ Gone /\ [Next]_vars /\ [NoLateSession]_vars => (Seated /\ Gone)'
    <2> SUFFICES ASSUME IInv, Seated, Gone, [Next]_vars, [NoLateSession]_vars
                 PROVE  (Seated /\ Gone)'
      OBVIOUS
    <2>1. CASE NoLateSession
      BY <2>1, SeatedStep, GoneStep
    <2>2. CASE UNCHANGED vars
      BY <2>2 DEF vars, Seated, Gone, Inserting
    <2> QED
      BY <2>1, <2>2
  <1>3. Gone => WipedRoomHasNoRows
    BY DEF Gone, WipedRoomHasNoRows
  <1> QED
    BY <1>1, <1>2, <1>3, InvariantHolds, PTL DEF Spec
=============================================================================
