------------------------- MODULE ChunkedUploadProofs -------------------------
(***************************************************************************)
(* Proofs about ChunkedUpload, for any number of requests of each kind, of *)
(* chunks and of places in the quota: its types, its charges, and its      *)
(* implementation of UploadContract.                                       *)
(***************************************************************************)
EXTENDS ChunkedUpload, TLAPS

USE RolesAssumption DEF Requests, Browser, Workers, Listers, history

-----------------------------------------------------------------------------
(***************************************************************************)
(* Types.                                                                  *)
(***************************************************************************)
PCTypes(p) ==
    /\ p \in [Requests \cup Sweepers ->
              SenderPC \cup CompleterPC \cup AborterPC \cup ExpirerPC \cup CleanerPC
                  \cup SweeperPC]
    /\ \A s \in Senders : p[s] \in SenderPC
    /\ \A c \in Completers : p[c] \in CompleterPC
    /\ \A a \in Aborters : p[a] \in AborterPC
    /\ \A e \in Expirers : p[e] \in ExpirerPC
    /\ \A k \in Cleaners : p[k] \in CleanerPC
    /\ \A w \in Sweepers : p[w] \in SweeperPC

\* Whether label v is one of the states of request or scan r.
Fitting(r, v) ==
    \/ r \in Senders /\ v \in SenderPC
    \/ r \in Completers /\ v \in CompleterPC
    \/ r \in Aborters /\ v \in AborterPC
    \/ r \in Expirers /\ v \in ExpirerPC
    \/ r \in Cleaners /\ v \in CleanerPC
    \/ r \in Sweepers /\ v \in SweeperPC

\* A step that moves one request to a state of its kind keeps pc well typed.
LEMMA Moves ==
    ASSUME TypeOK, NEW r \in Requests \cup Sweepers, NEW v, Goto(r, v), Fitting(r, v)
    PROVE  PCTypes(pc')
  BY DEF TypeOK, PCTypes, Goto, Fitting

\* A commit or a rollback (CommitAll, RollbackAll) leaves rows of their types.
LEMMA RowsEnd ==
    ASSUME TypeOK, NEW r, CommitAll(r) \/ RollbackAll(r)
    PROVE  upload' \in Row(UploadValue, Requests) /\ room' \in Row(RoomValue, Requests)
  <1>1. upload \in Row(UploadValue, Requests) /\ room \in Row(RoomValue, Requests)
    BY DEF TypeOK
  <1>2. /\ Commit(upload, r) \in Row(UploadValue, Requests)
        /\ Rollback(upload, r) \in Row(UploadValue, Requests)
        /\ Commit(room, r) \in Row(RoomValue, Requests)
        /\ Rollback(room, r) \in Row(RoomValue, Requests)
    BY <1>1, RowEnds
  <1> QED
    BY <1>2 DEF CommitAll, RollbackAll

\* Both versions of either row are values of its type.
LEMMA Versions ==
    ASSUME TypeOK
    PROVE  /\ upload.saved \in UploadValue /\ upload.draft \in UploadValue
           /\ room.saved \in RoomValue /\ room.draft \in RoomValue
  BY DEF TypeOK, Row

\* The state after create_upload_session is well typed.
LEMMA TypeInit == Init => TypeOK
  <1> SUFFICES ASSUME Init PROVE TypeOK
    OBVIOUS
  <1>1. upload \in Row(UploadValue, Requests)
    BY DEF Init, Clean, Row, UploadValue
  <1>2. room \in Row(RoomValue, Requests)
    BY SizesAssumption DEF Init, Clean, Row, RoomValue
  <1>3. PCTypes(pc)
    BY DEF Init, PCTypes, SenderPC, CompleterPC, AborterPC, ExpirerPC, CleanerPC, SweeperPC
  <1>4. faults \in 0 .. MaxFaults
    BY SizesAssumption DEF Init
  <1> QED
    BY <1>1, <1>2, <1>3, <1>4 DEF Init, TypeOK, PCTypes, Content

\* Deleting a key, whoever does it.
LEMMA DropType ==
    ASSUME TypeOK, NEW r \in Listers, NEW k, DropKey(r, k)
    PROVE  TypeOK'
  BY DEF DropKey, TypeOK, Content

\* Every step of store_chunk keeps the types.
LEMMA SendType ==
    ASSUME TypeOK, NEW s \in Senders, ChunkBegin(s) \/ SendStep(s)
    PROVE  TypeOK'
  <1>0. upload.saved.size \in Nat
    BY Versions DEF UploadValue
  <1>1. CASE ChunkBegin(s)
    <2>1. PCTypes(pc')
      BY <1>1, Moves DEF ChunkBegin, Fitting, SenderPC
    <2> QED
      BY <1>0, <1>1, <2>1 DEF ChunkBegin, TypeOK, PCTypes
  <1>2. CASE ChunkPut(s)
    <2>1. PCTypes(pc')
      BY <1>2, Moves DEF ChunkPut, Fitting, SenderPC
    <2>2. parts' \subseteq Indices
      BY <1>2, SizesAssumption DEF ChunkPut, TypeOK
    <2> QED
      BY <1>2, <2>1, <2>2 DEF ChunkPut, TypeOK, PCTypes, memory
  <1>3. CASE ChunkCount(s)
    <2>1. PCTypes(pc')
      BY <1>3, Moves DEF ChunkCount, Fitting, SenderPC
    <2>2. [upload.draft EXCEPT !.size = seen[s] + 1] \in UploadValue
      BY Versions DEF UploadValue, TypeOK
    <2>3. upload' \in Row(UploadValue, Requests)
      BY <1>3, <2>2, RowWrites DEF ChunkCount, TypeOK
    <2> QED
      BY <1>3, <2>1, <2>3 DEF ChunkCount, TypeOK, PCTypes, memory
  <1>4. CASE RowIsGone(s)
    <2>1. PCTypes(pc')
      BY <1>4, Moves DEF RowIsGone, Raise, Fitting, SenderPC
    <2>2. upload' \in Row(UploadValue, Requests) /\ room' \in Row(RoomValue, Requests)
      BY <1>4, RowsEnd DEF RowIsGone, Raise
    <2> QED
      BY <1>4, <2>1, <2>2 DEF RowIsGone, TypeOK, PCTypes, memory
  <1>5. CASE ChunkCommit(s)
    <2>1. PCTypes(pc')
      BY <1>5, Moves DEF ChunkCommit, Fitting, SenderPC
    <2>2. upload' \in Row(UploadValue, Requests) /\ room' \in Row(RoomValue, Requests)
      BY <1>5, RowsEnd DEF ChunkCommit
    <2> QED
      BY <1>5, <2>1, <2>2 DEF ChunkCommit, TypeOK, PCTypes, memory
  <1>6. CASE ChunkPutFails(s)
    <2>1. PCTypes(pc')
      BY <1>6, Moves DEF ChunkPutFails, Raise, Fitting, SenderPC
    <2>2. upload' \in Row(UploadValue, Requests) /\ room' \in Row(RoomValue, Requests)
      BY <1>6, RowsEnd DEF ChunkPutFails, Raise
    <2>3. parts' \subseteq Indices
      BY <1>6 DEF ChunkPutFails, TypeOK
    <2> QED
      BY <1>6, <2>1, <2>2, <2>3 DEF ChunkPutFails, TypeOK, PCTypes, memory
  <1> QED
    BY <1>1, <1>2, <1>3, <1>4, <1>5, <1>6 DEF SendStep

\* Every step of complete_upload_session keeps the types.
LEMMA CompleteType ==
    ASSUME TypeOK, NEW c \in Completers, CompleteBegin(c) \/ CompleteStep(c)
    PROVE  TypeOK'
  <1>0. upload.saved.size \in Nat /\ Indices \in SUBSET Keys
    BY Versions DEF UploadValue, Keys
  <1>1. CASE CompleteBegin(c)
    <2>1. PCTypes(pc')
      BY <1>1, Moves DEF CompleteBegin, Fitting, CompleterPC
    <2>2. crossed' \in BOOLEAN
      BY <1>1 DEF CompleteBegin, TypeOK
    <2> QED
      BY <1>0, <1>1, <2>1, <2>2 DEF CompleteBegin, TypeOK, PCTypes
  <1>2. CASE ListParts(c)
    <2>1. PCTypes(pc')
      BY <1>2, Moves DEF ListParts, Fitting, CompleterPC
    <2> QED
      BY <1>0, <1>2, <2>1 DEF ListParts, TypeOK, PCTypes
  <1>3. CASE \E k \in Indices : MergePart(c, k)
    BY <1>3 DEF MergePart, TypeOK
  <1>4. CASE PutMerged(c)
    <2>1. PCTypes(pc')
      BY <1>4, Moves DEF PutMerged, Fitting, CompleterPC
    <2> QED
      BY <1>4, <2>1 DEF PutMerged, TypeOK, PCTypes, memory, Content
  <1>5. CASE MergeFails(c) \/ RowIsGone(c) \/ CompleteCommit(c) \/ RefusedAnswer(c)
    <2>1. \E v \in {"done", "failed"} : Goto(c, v)
      BY <1>5 DEF MergeFails, RowIsGone, CompleteCommit, RefusedAnswer, Raise
    <2>2. PCTypes(pc')
      BY <2>1, Moves DEF Fitting, CompleterPC
    <2>3. CommitAll(c) \/ RollbackAll(c)
      BY <1>5 DEF MergeFails, RowIsGone, CompleteCommit, RefusedAnswer, Raise
    <2>4. upload' \in Row(UploadValue, Requests) /\ room' \in Row(RoomValue, Requests)
      BY <2>3, RowsEnd
    <2>5. /\ UNCHANGED <<parts, memory>>
          /\ object' \in Content
      BY <1>5 DEF MergeFails, RowIsGone, CompleteCommit, RefusedAnswer, TypeOK, Content
    <2> QED
      BY <2>2, <2>4, <2>5 DEF TypeOK, PCTypes, memory
  <1>6. CASE ClaimQuota(c)
    <2>1. PCTypes(pc')
      BY <1>6, Moves DEF ClaimQuota, Fitting, CompleterPC
    <2>2. [room.draft EXCEPT !.mine = @ + 1] \in RoomValue
      BY Versions DEF RoomValue
    <2>3. room' \in Row(RoomValue, Requests)
      BY <1>6, <2>2, RowWrites DEF ClaimQuota, TypeOK
    <2> QED
      BY <1>6, <2>1, <2>3 DEF ClaimQuota, TypeOK, PCTypes, memory
  <1>7. CASE ClaimRefused(c)
    <2>1. PCTypes(pc')
      BY <1>7, Moves DEF ClaimRefused, Fitting, CompleterPC
    <2> QED
      BY <1>0, <1>7, <2>1 DEF ClaimRefused, TypeOK, PCTypes, Content
  <1>8. CASE Confirm(c)
    <2>1. PCTypes(pc')
      BY <1>8, Moves DEF Confirm, Fitting, CompleterPC
    <2>2. ConfirmedValue(upload.draft, seen[c]) \in UploadValue
      BY Versions, SizesAssumption DEF ConfirmedValue, UploadValue
    <2>3. upload' \in Row(UploadValue, Requests)
      BY <1>8, <2>2, RowWrites DEF Confirm, TypeOK
    <2> QED
      BY <1>0, <1>8, <2>1, <2>3 DEF Confirm, TypeOK, PCTypes
  <1>9. CASE \E k \in Indices : DropKey(c, k)
    BY <1>9, DropType
  <1> QED
    BY <1>1, <1>2, <1>3, <1>4, <1>5, <1>6, <1>7, <1>8, <1>9 DEF CompleteStep

\* The deletion of the row and its commit, whoever deletes.
LEMMA DeleteType ==
    ASSUME TypeOK, NEW r \in Aborters \cup Workers, DeleteUpload(r) \/ DeleteCommit(r)
    PROVE  TypeOK'
  <1>1. CASE DeleteUpload(r)
    <2>1. PCTypes(pc')
      BY <1>1, Moves DEF DeleteUpload, Fitting, AborterPC, ExpirerPC, CleanerPC
    <2>2. Gone \in UploadValue
      BY DEF Gone, UploadValue
    <2>3. upload' \in Row(UploadValue, Requests)
      <3>1. r \in Requests /\ upload \in Row(UploadValue, Requests)
        BY DEF TypeOK
      <3>2. upload' = upload \/ upload' = Write(upload, r, Gone)
        BY <1>1 DEF DeleteUpload
      <3> QED
        BY <2>2, <3>1, <3>2, RowWrites
    <2> QED
      BY <1>1, <2>1, <2>3 DEF DeleteUpload, TypeOK, PCTypes, memory
  <1>2. CASE DeleteCommit(r)
    <2>1. PCTypes(pc')
      BY <1>2, Moves DEF DeleteCommit, Fitting, AborterPC, ExpirerPC, CleanerPC
    <2>2. upload' \in Row(UploadValue, Requests) /\ room' \in Row(RoomValue, Requests)
      BY <1>2, RowsEnd DEF DeleteCommit
    <2> QED
      BY <1>2, <2>1, <2>2 DEF DeleteCommit, TypeOK, PCTypes, memory
  <1> QED
    BY <1>1, <1>2

\* Every step of an abort or of EXPIRE_UPLOAD_SESSION keeps the types.
LEMMA AbandonType ==
    ASSUME TypeOK, NEW r \in Aborters \cup Expirers,
           \/ r \in Aborters /\ AbortBegin(r)
           \/ r \in Expirers /\ ExpireBegin(r)
           \/ AbandonStep(r)
    PROVE  TypeOK'
  <1>1. CASE \/ r \in Aborters /\ AbortBegin(r)
             \/ r \in Expirers /\ ExpireBegin(r)
    <2>1. PCTypes(pc')
      BY <1>1, Moves DEF AbortBegin, ExpireBegin, Fitting, AborterPC, ExpirerPC
    <2>2. crossed' \in BOOLEAN
      BY <1>1 DEF AbortBegin, ExpireBegin, TypeOK, memory
    <2> QED
      BY <1>1, <2>1, <2>2 DEF AbortBegin, ExpireBegin, TypeOK, PCTypes, memory
  <1>2. CASE CleanupParts(r)
    <2>1. PCTypes(pc')
      BY <1>2, Moves DEF CleanupParts, Fitting, AborterPC, ExpirerPC
    <2>2. parts \in SUBSET Keys
      BY DEF TypeOK, Keys
    <2> QED
      BY <1>2, <2>1, <2>2 DEF CleanupParts, TypeOK, PCTypes
  <1>3. CASE r \in Expirers /\ ExpireObject(r)
    <2>1. PCTypes(pc')
      BY <1>3, Moves DEF ExpireObject, Fitting, ExpirerPC
    <2> QED
      BY <1>3, <2>1 DEF ExpireObject, TypeOK, PCTypes, memory, Content
  <1>4. CASE DeleteUpload(r) \/ DeleteCommit(r)
    BY <1>4, DeleteType
  <1>6. CASE \E k \in Indices : DropKey(r, k)
    BY <1>6, DropType
  <1> QED
    BY <1>1, <1>2, <1>3, <1>4, <1>6 DEF AbandonStep

\* Every step of cleanup_room keeps the types.
LEMMA CleanType ==
    ASSUME TypeOK, NEW k \in Cleaners, CloseRoom(k) \/ CleanStep(k)
    PROVE  TypeOK'
  <1>1. CASE CloseRoom(k)
    <2>1. PCTypes(pc')
      BY <1>1, Moves DEF CloseRoom, Fitting, CleanerPC
    <2>2. [room.draft EXCEPT !.open = FALSE] \in RoomValue
      BY Versions DEF RoomValue
    <2>3. room' \in Row(RoomValue, Requests)
      BY <1>1, <2>2, RowWrites DEF CloseRoom, TypeOK
    <2> QED
      BY <1>1, <2>1, <2>3 DEF CloseRoom, TypeOK, PCTypes
  <1>2. CASE ListKeys(k)
    <2>1. PCTypes(pc')
      BY <1>2, Moves DEF ListKeys, Fitting, CleanerPC
    <2> QED
      BY <1>2, <2>1 DEF ListKeys, TypeOK, PCTypes, Keys
  <1>3. CASE DropKey(k, Final)
    BY <1>3, DropType
  <1>4. CASE DeleteUpload(k) \/ DeleteCommit(k)
    BY <1>4, DeleteType
  <1> QED
    BY <1>1, <1>2, <1>3, <1>4 DEF CleanStep

\* Every step of the orphan sweep keeps the types.
LEMMA SweepType ==
    ASSUME TypeOK, NEW w \in Sweepers, SweepStep(w)
    PROVE  TypeOK'
  <1>1. CASE KnownKeys(w)
    <2>1. PCTypes(pc')
      BY <1>1, Moves DEF KnownKeys, Fitting, SweeperPC
    <2> QED
      BY <1>1, <2>1 DEF KnownKeys, TypeOK, PCTypes
  <1>2. CASE ListOrphans(w)
    <2>1. PCTypes(pc')
      BY <1>2, Moves DEF ListOrphans, Fitting, SweeperPC
    <2>2. parts \cup Orphan(w) \in SUBSET Keys
      BY DEF TypeOK, Keys, Orphan
    <2> QED
      BY <1>2, <2>1, <2>2 DEF ListOrphans, TypeOK, PCTypes
  <1>3. CASE SweepEnd(w)
    <2>1. PCTypes(pc')
      BY <1>3, Moves DEF SweepEnd, Fitting, SweeperPC
    <2> QED
      BY <1>3, <2>1 DEF SweepEnd, TypeOK, PCTypes, memory
  <1>4. CASE \E k \in Keys : DropKey(w, k)
    BY <1>4, DropType
  <1> QED
    BY <1>1, <1>2, <1>3, <1>4 DEF SweepStep

\* Other files, the passing of a day and a request that breaks off keep the
\* types.
LEMMA RestType ==
    ASSUME TypeOK, OtherFiles \/ Day \/ \E r \in Requests : Fail(r)
    PROVE  TypeOK'
  <1>2. CASE OtherFiles
    <2>1. \A n \in 0 .. MaxOthers : [room.saved EXCEPT !.others = n] \in RoomValue
      BY Versions, SizesAssumption DEF RoomValue
    <2>2. room' \in Row(RoomValue, Requests)
      BY <1>2, <2>1 DEF OtherFiles, Clean, Row
    <2> QED
      BY <1>2, <2>2 DEF OtherFiles, TypeOK, memory
  <1>3. CASE Day
    BY <1>3 DEF Day, TypeOK
  <1>4. CASE \E r \in Requests : Fail(r)
    <2>1. PICK r \in Requests : Fail(r)
      BY <1>4
    <2>2. PCTypes(pc')
      BY <2>1, Moves
         DEF Fail, Fitting, SenderPC, CompleterPC, AborterPC, ExpirerPC, CleanerPC
    <2>3. upload' \in Row(UploadValue, Requests) /\ room' \in Row(RoomValue, Requests)
      BY <2>1, RowsEnd DEF Fail
    <2>4. faults' \in 0 .. MaxFaults
      BY <2>1, SizesAssumption DEF Fail, TypeOK
    <2> QED
      BY <2>1, <2>2, <2>3, <2>4 DEF Fail, TypeOK, PCTypes
  <1> QED
    BY <1>2, <1>3, <1>4

\* Every step keeps the types: the cases of Next.
LEMMA TypeStep == TypeOK /\ [Next]_vars => TypeOK'
  <1> SUFFICES ASSUME TypeOK, [Next]_vars PROVE TypeOK'
    OBVIOUS
  <1>1. CASE \E s \in Senders : ChunkBegin(s) \/ SendStep(s)
    BY <1>1, SendType
  <1>2. CASE \E c \in Completers : CompleteBegin(c) \/ CompleteStep(c)
    BY <1>2, CompleteType
  <1>3. CASE \/ \E a \in Aborters : AbortBegin(a)
             \/ \E e \in Expirers : ExpireBegin(e)
             \/ \E r \in Aborters \cup Expirers : AbandonStep(r)
    BY <1>3, AbandonType
  <1>4. CASE \E w \in Sweepers : SweepStep(w)
    BY <1>4, SweepType
  <1>5. CASE OtherFiles \/ Day \/ \E r \in Requests : Fail(r)
    BY <1>5, RestType
  <1>7. CASE \E k \in Cleaners : CloseRoom(k) \/ CleanStep(k)
    BY <1>7, CleanType
  <1>6. CASE UNCHANGED vars
    BY <1>6 DEF vars, TypeOK
  <1> QED
    BY <1>1, <1>2, <1>3, <1>4, <1>5, <1>6, <1>7 DEF Next, Serve

\* Whatever requests, jobs and scans do, every variable keeps its type: in
\* particular each of them only ever has keys of this upload left to delete.
THEOREM TypeCorrect == Spec => []TypeOK
  BY TypeInit, TypeStep, PTL DEF Spec

-----------------------------------------------------------------------------
(***************************************************************************)
(* Charges.  A completion holds the lock of the room's row from its claim  *)
(* to its end and a teardown from its beginning, so the room is read and   *)
(* written by one of them at a time, and the CONFIRMED status is committed *)
(* together with the claim.                                                *)
(***************************************************************************)
\* Whether request r holds the room's row when it stands at v.
Holding(r, v) ==
    \/ r \in Completers /\ v \in {"claimed", "confirmed"}
    \/ r \in Cleaners /\ v # "idle"

HoldsRoom(r) == Holding(r, pc[r])

RoomLock ==
    /\ room.by = NoTx => room.draft = room.saved
    /\ \A r \in Requests : room.by = r <=> HoldsRoom(r)

\* An open claim adds this upload to the version last committed, an open
\* teardown closes it.
OpenClaim ==
    /\ room.by \in Completers => room.draft = [room.saved EXCEPT !.mine = @ + 1]
    /\ room.by \in Cleaners => room.draft = [room.saved EXCEPT !.open = FALSE]

Quota ==
    /\ room.saved.mine + room.saved.others <= Slots
    /\ room.draft.mine + room.draft.others <= Slots

\* Only a completion confirms: senders keep the status, the others delete.
UploadLock ==
    /\ upload.by = NoTx => upload.draft = upload.saved
    /\ \A s \in Senders : upload.by = s => upload.draft.status = upload.saved.status
    /\ \A c \in Completers : upload.by = c => pc[c] = "confirmed"
    /\ \A r \in Aborters \cup Workers : upload.by = r => upload.draft.status = "ABSENT"

IInv ==
    TypeOK /\ RoomLock /\ OpenClaim /\ Quota /\ UploadLock /\ ConfirmedIsCharged

\* The invariant holds after create_upload_session.
LEMMA ChargeInit == Init => IInv
  <1> SUFFICES ASSUME Init PROVE IInv
    OBVIOUS
  <1>3. /\ upload.by = NoTx /\ upload.draft = upload.saved
        /\ room.by = NoTx /\ room.draft = room.saved
        /\ \A r \in Requests : pc[r] = "idle"
    BY DEF Init, Clean
  <1>1. RoomLock /\ OpenClaim /\ UploadLock
    <2>1. NoTx \notin Requests
      BY RolesAssumption
    <2> QED
      BY <1>3, <2>1 DEF RoomLock, HoldsRoom, Holding, OpenClaim, UploadLock
  <1>2. Quota
    BY SizesAssumption DEF Init, Clean, Quota
  <1> QED
    BY <1>1, <1>2, TypeInit DEF Init, Clean, IInv, ConfirmedIsCharged

\* A step that leaves both rows alone and moves one request, unless a completion
\* that holds the room's row, keeps the charges.
LEMMA ChargesKept ==
    ASSUME IInv, TypeOK', UNCHANGED <<upload, room>>,
           NEW r \in Requests \cup Sweepers, NEW v,
           \/ pc' = pc
           \/ /\ Goto(r, v)
              /\ Holding(r, v) <=> HoldsRoom(r)
              /\ r \in Completers => ~HoldsRoom(r)
    PROVE  IInv'
  <1>1. \A q \in Requests : HoldsRoom(q)' <=> HoldsRoom(q)
    BY DEF HoldsRoom, Holding, Goto, IInv, TypeOK
  <1>2. \A c \in Completers : pc[c] = "confirmed" => pc'[c] = "confirmed"
    BY DEF HoldsRoom, Holding, Goto, IInv, TypeOK
  <1> QED
    BY <1>1, <1>2 DEF IInv, RoomLock, OpenClaim, Quota, UploadLock, ConfirmedIsCharged

\* The end of a request, one way or the other.
LEMMA ChargesAtEnd ==
    ASSUME IInv, TypeOK', NEW r \in Requests,
           \/ RollbackAll(r)
           \/ CommitAll(r) /\ (r \in Completers => pc[r] = "confirmed"),
           NEW v, Goto(r, v), ~Holding(r, v),
           r \in Cleaners => HoldsRoom(r)
    PROVE  IInv'
  <1>0. /\ r # NoTx
        /\ room \in Row(RoomValue, Requests) /\ upload \in Row(UploadValue, Requests)
        /\ pc'[r] = v /\ \A q \in Requests : q # r => pc'[q] = pc[q]
    BY DEF IInv, TypeOK, Goto
  <1>1. RoomLock'
    <2>1. /\ room.by = r => room' \in {Clean(room.draft), Clean(room.saved)}
          /\ room.by # r => room' = room
      BY DEF RollbackAll, CommitAll, Rollback, Commit
    <2>2. ~HoldsRoom(r)' /\ \A q \in Requests \ {r} : HoldsRoom(q)' <=> HoldsRoom(q)
      BY <1>0 DEF HoldsRoom
    <2> QED
      BY <1>0, <2>1, <2>2 DEF IInv, RoomLock, Clean
  <1>2. OpenClaim' /\ Quota'
    <2>1. CASE room' = room
      BY <2>1 DEF IInv, OpenClaim, Quota
    <2>2. CASE room.by = r /\ room' \in {Clean(room.draft), Clean(room.saved)}
      <3>1. room'.by = NoTx /\ room'.saved = room'.draft
            /\ room'.saved \in {room.draft, room.saved}
        BY <2>2 DEF Clean
      <3> QED
        BY <3>1 DEF IInv, OpenClaim, Quota
    <2> QED
      BY <2>1, <2>2 DEF RollbackAll, CommitAll, Rollback, Commit
  <1>3. UploadLock'
    <2>1. /\ upload.by = r => upload' \in {Clean(upload.draft), Clean(upload.saved)}
          /\ upload.by # r => upload' = upload
      BY DEF RollbackAll, CommitAll, Rollback, Commit
    <2> QED
      BY <1>0, <2>1 DEF IInv, UploadLock, Clean
  <1>4. ConfirmedIsCharged'
    <2>1. CASE RollbackAll(r)
      BY <2>1 DEF IInv, ConfirmedIsCharged, RollbackAll, Rollback, Clean
    <2>2. CASE CommitAll(r) /\ r \in Completers /\ pc[r] = "confirmed"
      <3>1. room.by = r
        BY <2>2 DEF IInv, RoomLock, HoldsRoom, Holding
      <3>2. room' = Clean([room.saved EXCEPT !.mine = @ + 1])
        BY <1>0, <2>2, <3>1 DEF IInv, OpenClaim, CommitAll, Commit
      <3> QED
        BY <1>0, <3>2 DEF ConfirmedIsCharged, Clean, Row, RoomValue
    <2>4. CASE CommitAll(r) /\ r \in Cleaners
      <3>1. room' = Clean([room.saved EXCEPT !.open = FALSE])
        BY <2>4 DEF IInv, RoomLock, OpenClaim, CommitAll, Commit
      <3> QED
        BY <1>0, <3>1 DEF ConfirmedIsCharged, Clean, Row, RoomValue
    <2>3. CASE CommitAll(r) /\ r \notin Completers \cup Cleaners
      <3>1. room' = room
        BY <2>3 DEF IInv, RoomLock, HoldsRoom, Holding, CommitAll, Commit
      <3>2. upload'.saved.status \in {upload.saved.status, "ABSENT"}
        BY <2>3 DEF IInv, UploadLock, CommitAll, Commit, Clean
      <3> QED
        BY <3>1, <3>2 DEF IInv, ConfirmedIsCharged
    <2> QED
      BY <2>1, <2>2, <2>3, <2>4
  <1> QED
    BY <1>1, <1>2, <1>3, <1>4 DEF IInv

\* A write to the upload's row.
LEMMA UploadWritten ==
    ASSUME IInv, TypeOK', NEW r \in Requests, NEW v, NEW label,
           Lockable(upload, r), upload' = Write(upload, r, v), UNCHANGED room,
           Goto(r, label),
           r \in Senders => v.status = upload.draft.status,
           r \in Completers => pc[r] = "claimed" /\ label = "confirmed",
           r \in Aborters \cup Workers => v.status = "ABSENT",
           Holding(r, label) <=> HoldsRoom(r)
    PROVE  IInv'
  <1>0. /\ r # NoTx
        /\ pc'[r] = label /\ \A q \in Requests : q # r => pc'[q] = pc[q]
    BY DEF IInv, TypeOK, Goto
  <1>1. \A q \in Requests : HoldsRoom(q)' <=> HoldsRoom(q)
    BY <1>0 DEF HoldsRoom
  <1>2. UploadLock'
    BY <1>0 DEF IInv, UploadLock, Lockable, Write
  <1> QED
    BY <1>1, <1>2 DEF IInv, RoomLock, OpenClaim, Quota, ConfirmedIsCharged, Write

\* Every step of store_chunk keeps the invariant: it writes size_bytes only.
LEMMA SendCharges ==
    ASSUME IInv, NEW s \in Senders, ChunkBegin(s) \/ SendStep(s)
    PROVE  IInv'
  <1>0. TypeOK' /\ \A v : ~Holding(s, v)
    BY SendType DEF IInv, Holding
  <1>1. CASE ChunkBegin(s)
    BY <1>0, <1>1, ChargesKept DEF ChunkBegin, HoldsRoom
  <1>2. CASE ChunkPut(s)
    BY <1>0, <1>2, ChargesKept DEF ChunkPut, HoldsRoom
  <1>3. CASE ChunkCount(s)
    <2>1. [upload.draft EXCEPT !.size = seen[s] + 1].status = upload.draft.status
      BY Versions DEF UploadValue, IInv
    <2> QED
      BY <1>0, <1>3, <2>1, UploadWritten DEF ChunkCount, HoldsRoom
  <1>4. CASE RowIsGone(s) \/ ChunkPutFails(s)
    BY <1>0, <1>4, ChargesAtEnd DEF RowIsGone, ChunkPutFails, Raise
  <1>5. CASE ChunkCommit(s)
    BY <1>0, <1>5, ChargesAtEnd DEF ChunkCommit
  <1> QED
    BY <1>1, <1>2, <1>3, <1>4, <1>5 DEF SendStep

\* Every step of complete_upload_session keeps the invariant: it confirms what
\* it has claimed.
LEMMA CompleteCharges ==
    ASSUME IInv, NEW c \in Completers, CompleteBegin(c) \/ CompleteStep(c)
    PROVE  IInv'
  <1>0. TypeOK'
    BY CompleteType DEF IInv
  <1>1. CASE CompleteBegin(c)
    BY <1>0, <1>1, ChargesKept DEF CompleteBegin, HoldsRoom, Holding
  <1>2. CASE ListParts(c)
    BY <1>0, <1>2, ChargesKept DEF ListParts, HoldsRoom, Holding
  <1>3. CASE \E k \in Indices : MergePart(c, k) \/ DropKey(c, k)
    BY <1>0, <1>3, ChargesKept DEF MergePart, DropKey
  <1>4. CASE PutMerged(c)
    BY <1>0, <1>4, ChargesKept DEF PutMerged, HoldsRoom, Holding
  <1>5. CASE MergeFails(c) \/ RowIsGone(c) \/ RefusedAnswer(c)
    BY <1>0, <1>5, ChargesAtEnd DEF MergeFails, RowIsGone, RefusedAnswer, Raise, Holding
  <1>6. CASE CompleteCommit(c)
    BY <1>0, <1>6, ChargesAtEnd DEF CompleteCommit, Holding
  <1>7. CASE ClaimQuota(c)
    <2>1. ~HoldsRoom(c) /\ room.by = NoTx /\ room.draft = room.saved
      BY <1>7 DEF ClaimQuota, Lockable, HoldsRoom, Holding, IInv, RoomLock
    <2>2. /\ pc'[c] = "claimed"
          /\ \A q \in Requests : q # c => pc'[q] = pc[q]
      BY <1>7 DEF ClaimQuota, Goto, IInv, TypeOK
    <2>3. room' = Write(room, c, [room.saved EXCEPT !.mine = @ + 1])
      BY <1>7, <2>1 DEF ClaimQuota
    <2>4. RoomLock' /\ OpenClaim'
      BY <2>1, <2>2, <2>3 DEF IInv, RoomLock, OpenClaim, HoldsRoom, Holding, Write
    <2>5. Quota'
      <3>1. room.saved.mine + room.saved.others < Slots
        BY <1>7, <2>1 DEF ClaimQuota, ClaimHolds
      <3>2. room.saved \in RoomValue
        BY Versions DEF IInv
      <3> QED
        BY <2>3, <3>1, <3>2, SizesAssumption DEF IInv, Quota, Write, RoomValue
    <2> QED
      BY <1>0, <1>7, <2>2, <2>3, <2>4, <2>5
         DEF IInv, UploadLock, ConfirmedIsCharged, ClaimQuota, Write
  <1>8. CASE ClaimRefused(c)
    BY <1>0, <1>8, ChargesKept DEF ClaimRefused, HoldsRoom, Holding
  <1>9. CASE Confirm(c)
    BY <1>0, <1>9, UploadWritten DEF Confirm, ConfirmedValue, HoldsRoom, Holding
  <1> QED
    BY <1>1, <1>2, <1>3, <1>4, <1>5, <1>6, <1>7, <1>8, <1>9 DEF CompleteStep

\* Every step of an abort or of EXPIRE_UPLOAD_SESSION keeps the invariant.
LEMMA AbandonCharges ==
    ASSUME IInv, NEW r \in Aborters \cup Expirers,
           \/ r \in Aborters /\ AbortBegin(r)
           \/ r \in Expirers /\ ExpireBegin(r)
           \/ AbandonStep(r)
    PROVE  IInv'
  <1>0. TypeOK' /\ \A v : ~Holding(r, v)
    BY AbandonType DEF IInv, Holding
  <1>1. CASE \/ r \in Aborters /\ AbortBegin(r)
             \/ r \in Expirers /\ ExpireBegin(r)
    <2>1. \E v \in {"listing", "failed"} : Goto(r, v)
      BY <1>1 DEF AbortBegin, ExpireBegin
    <2> QED
      BY <1>0, <1>1, <2>1, ChargesKept DEF AbortBegin, ExpireBegin, HoldsRoom
  <1>2. CASE CleanupParts(r)
    BY <1>0, <1>2, ChargesKept DEF CleanupParts, HoldsRoom
  <1>3. CASE ExpireObject(r)
    BY <1>0, <1>3, ChargesKept DEF ExpireObject, HoldsRoom
  <1>4. CASE DeleteUpload(r)
    <2>1. CASE UNCHANGED upload
      BY <1>0, <1>4, <2>1, ChargesKept DEF DeleteUpload, HoldsRoom
    <2>2. CASE Lockable(upload, r) /\ upload' = Write(upload, r, Gone)
      BY <1>0, <1>4, <2>2, UploadWritten DEF DeleteUpload, Gone, HoldsRoom
    <2> QED
      BY <1>4, <2>1, <2>2 DEF DeleteUpload
  <1>5. CASE DeleteCommit(r)
    <2>1. \E v \in {"idle", "done"} : Goto(r, v)
      BY <1>5 DEF DeleteCommit
    <2> QED
      BY <1>0, <1>5, <2>1, ChargesAtEnd DEF DeleteCommit
  <1>6. CASE \E k \in Indices : DropKey(r, k)
    BY <1>0, <1>6, ChargesKept DEF DropKey
  <1> QED
    BY <1>1, <1>2, <1>3, <1>4, <1>5, <1>6 DEF AbandonStep

\* Every step of cleanup_room keeps the invariant: it holds the room's row.
LEMMA CleanCharges ==
    ASSUME IInv, NEW k \in Cleaners, CloseRoom(k) \/ CleanStep(k)
    PROVE  IInv'
  <1>0. /\ TypeOK'
        /\ \A v : Holding(k, v) <=> v # "idle"
        /\ k \notin Senders \cup Completers \cup Aborters \cup Expirers \cup Sweepers
    BY CleanType DEF IInv, Holding
  <1>1. CASE CloseRoom(k)
    <2>1. /\ room.by = NoTx /\ room.draft = room.saved
          /\ room' = Write(room, k, [room.draft EXCEPT !.open = FALSE])
          /\ UNCHANGED upload
      BY <1>0, <1>1 DEF CloseRoom, Lockable, HoldsRoom, IInv, RoomLock
    <2>2. /\ pc'[k] = "listing"
          /\ \A q \in Requests : q # k => pc'[q] = pc[q]
      BY <1>1 DEF CloseRoom, Goto, IInv, TypeOK
    <2>3. RoomLock' /\ OpenClaim'
      BY <1>0, <2>1, <2>2 DEF IInv, RoomLock, OpenClaim, HoldsRoom, Holding, Write
    <2>4. Quota'
      <3>1. room.saved \in RoomValue
        BY Versions DEF IInv
      <3> QED
        BY <2>1, <3>1 DEF IInv, Quota, Write, RoomValue
    <2> QED
      BY <1>0, <2>1, <2>2, <2>3, <2>4 DEF IInv, UploadLock, ConfirmedIsCharged, Write
  <1>2. CASE ListKeys(k)
    BY <1>0, <1>2, ChargesKept DEF ListKeys, HoldsRoom
  <1>3. CASE DropKey(k, Final)
    BY <1>0, <1>3, ChargesKept DEF DropKey
  <1>4. CASE DeleteUpload(k)
    <2>1. Holding(k, "deleted") /\ HoldsRoom(k)
      BY <1>0, <1>4 DEF DeleteUpload, HoldsRoom
    <2>2. CASE UNCHANGED upload
      BY <1>0, <1>4, <2>1, <2>2, ChargesKept DEF DeleteUpload
    <2>3. CASE Lockable(upload, k) /\ upload' = Write(upload, k, Gone)
      BY <1>0, <1>4, <2>1, <2>3, UploadWritten DEF DeleteUpload, Gone
    <2> QED
      BY <1>4, <2>2, <2>3 DEF DeleteUpload
  <1>5. CASE DeleteCommit(k)
    <2>1. HoldsRoom(k) /\ Goto(k, "idle") /\ ~Holding(k, "idle")
      BY <1>0, <1>5 DEF DeleteCommit, HoldsRoom
    <2> QED
      BY <1>0, <1>5, <2>1, ChargesAtEnd DEF DeleteCommit
  <1> QED
    BY <1>1, <1>2, <1>3, <1>4, <1>5 DEF CleanStep

\* The orphan sweep writes no row, so it keeps the invariant.
LEMMA SweepCharges ==
    ASSUME IInv, NEW w \in Sweepers, SweepStep(w)
    PROVE  IInv'
  <1>0. TypeOK' /\ \A v : ~Holding(w, v)
    BY SweepType DEF IInv, Holding
  <1>1. CASE KnownKeys(w) \/ ListOrphans(w) \/ SweepEnd(w)
    <2>1. \E v \in SweeperPC : Goto(w, v)
      BY <1>1 DEF KnownKeys, ListOrphans, SweepEnd, SweeperPC
    <2>2. UNCHANGED <<upload, room>>
      BY <1>1 DEF KnownKeys, ListOrphans, SweepEnd
    <2> QED
      BY <1>0, <2>1, <2>2, ChargesKept DEF SweeperPC, HoldsRoom
  <1>2. CASE \E k \in Keys : DropKey(w, k)
    BY <1>0, <1>2, ChargesKept DEF DropKey
  <1> QED
    BY <1>1, <1>2 DEF SweepStep

\* Other files, the passing of a day and a request that breaks off keep the
\* invariant.
LEMMA RestCharges ==
    ASSUME IInv, OtherFiles \/ Day \/ \E r \in Requests : Fail(r)
    PROVE  IInv'
  <1>0. TypeOK' /\ room.saved \in RoomValue
    BY RestType, Versions DEF IInv
  <1>2. CASE OtherFiles
    <2>1. \A r \in Requests : HoldsRoom(r)' <=> HoldsRoom(r)
      BY <1>2 DEF OtherFiles, HoldsRoom
    <2>2. PICK n \in 0 .. MaxOthers :
             /\ n <= room.saved.others \/ room.saved.mine + n <= Slots
             /\ room' = Clean([room.saved EXCEPT !.others = n])
      BY <1>2 DEF OtherFiles
    <2>3. room.by = NoTx /\ UNCHANGED <<upload, pc>>
      BY <1>2 DEF OtherFiles
    <2>4. Quota'
      BY <1>0, <2>2, SizesAssumption DEF IInv, Quota, Clean, RoomValue
    <2>5. NoTx \notin Requests
      BY RolesAssumption
    <2> QED
      BY <1>0, <2>1, <2>2, <2>3, <2>4, <2>5
         DEF IInv, RoomLock, OpenClaim, UploadLock, ConfirmedIsCharged, Clean, RoomValue
  <1>3. CASE Day
    BY <1>0, <1>3
       DEF Day, IInv, RoomLock, HoldsRoom, OpenClaim, Quota, UploadLock, ConfirmedIsCharged
  <1>4. CASE \E r \in Requests : Fail(r)
    <2>1. PICK r \in Requests : Fail(r)
      BY <1>4
    <2>2. PICK v : Goto(r, v) /\ ~Holding(r, v)
      BY <2>1 DEF Fail, Holding
    <2>3. r \in Cleaners => HoldsRoom(r)
      BY <2>1 DEF Fail, UnderWay, HoldsRoom, Holding
    <2> QED
      BY <1>0, <2>1, <2>2, <2>3, ChargesAtEnd DEF Fail
  <1> QED
    BY <1>2, <1>3, <1>4

\* Every step keeps the invariant: the cases of Next.
LEMMA ChargeStep == IInv /\ [Next]_vars => IInv'
  <1> SUFFICES ASSUME IInv, [Next]_vars PROVE IInv'
    OBVIOUS
  <1>1. CASE \E s \in Senders : ChunkBegin(s) \/ SendStep(s)
    BY <1>1, SendCharges
  <1>2. CASE \E c \in Completers : CompleteBegin(c) \/ CompleteStep(c)
    BY <1>2, CompleteCharges
  <1>3. CASE \/ \E a \in Aborters : AbortBegin(a)
             \/ \E e \in Expirers : ExpireBegin(e)
             \/ \E r \in Aborters \cup Expirers : AbandonStep(r)
    BY <1>3, AbandonCharges
  <1>4. CASE \E w \in Sweepers : SweepStep(w)
    BY <1>4, SweepCharges
  <1>5. CASE OtherFiles \/ Day \/ \E r \in Requests : Fail(r)
    BY <1>5, RestCharges
  <1>7. CASE \E k \in Cleaners : CloseRoom(k) \/ CleanStep(k)
    BY <1>7, CleanCharges
  <1>6. CASE UNCHANGED vars
    BY <1>6, TypeStep
       DEF vars, IInv, RoomLock, HoldsRoom, OpenClaim, Quota, UploadLock, ConfirmedIsCharged
  <1> QED
    BY <1>1, <1>2, <1>3, <1>4, <1>5, <1>6, <1>7 DEF Next, Serve

\* The invariant holds of every reachable state.
LEMMA ChargesInvariant == Spec => []IInv
  BY ChargeInit, ChargeStep, PTL DEF Spec

\* Any number of completions, repeated or concurrent, aborts and failures leave
\* no file that clients are shown in an open room without a charge.
THEOREM NoFileIsFree == Spec => []ConfirmedIsCharged
  <1>1. IInv => ConfirmedIsCharged
    BY DEF IInv
  <1> QED
    BY <1>1, ChargesInvariant, PTL

\* _claim_quota compares and adds under the lock of the room's row: completions
\* and other uploads never exceed the quota.
THEOREM QuotaIsNeverExceeded == Spec => []QuotaHolds
  <1>1. IInv => QuotaHolds
    BY DEF IInv, Quota, QuotaHolds
  <1> QED
    BY <1>1, ChargesInvariant, PTL

-----------------------------------------------------------------------------
(***************************************************************************)
(* The contract: why an upload session with one request to complete it     *)
(* implements UploadContract, whatever senders, jobs, scans and failures   *)
(* there are, as long as only what is given up is aborted.  The argument:  *)
(* what is merged stays, and a row that is CONFIRMED stays, unless a       *)
(* teardown has begun or the job for stale sessions has met the            *)
(* completion; and the committed status tells the charge.                  *)
(***************************************************************************)
OneCompleter == \A c, d \in Completers : c = d

OneCompletion == OneCompleter /\ Aborters = {}

\* No request to complete the upload is under way or has succeeded.
GivenUp == \A c \in Completers : pc[c] \in {"idle", "failed"}

\* An abort begins and goes on only when the upload is given up.
AbortsGivenUp == (\E a \in Aborters : AbortBegin(a) \/ AbandonStep(a)) => GivenUp

\* The job that has never met the completion runs on an unconfirmed upload.
ExpiryInv ==
    \/ crossed
    \/ \A e \in Expirers : pc[e] # "idle" =>
          /\ upload.saved.status # "CONFIRMED"
          /\ \A c \in Completers : ~UnderWay(c)

\* A scan takes the merged object for an orphan only when the row is gone.
SweepInv ==
    /\ \A r \in Completers \cup Expirers : Final \notin todo[r]
    /\ \A w \in Sweepers :
          \/ upload.saved.status = "ABSENT"
          \/ Final \notin todo[w] /\ (pc[w] = "listing" => w \in known)

\* A row that is gone stays so, and goes in the commit that closes its room.
GoneInv ==
    /\ upload.saved.status = "ABSENT" => upload.draft.status = "ABSENT"
    /\ ~room.saved.open => upload.saved.status = "ABSENT"
    /\ \A k \in Cleaners : pc[k] = "deleted" =>
          /\ upload.draft.status = "ABSENT"
          /\ upload.by = k \/ upload.saved.status = "ABSENT"
    /\ ~doomed => \A k \in Cleaners : pc[k] = "idle"

\* The object is there, or what has taken it is remembered.
Kept == object = "whole" \/ ((doomed \/ crossed) /\ object = "none")

\* What the completion has in its hands: the whole object, unless the row has
\* gone meanwhile, and at the end the row's lock.
MergeInv ==
    \A c \in Completers :
        /\ upload.saved.status = "CONFIRMED" => pc[c] = "done"
        /\ \/ pc[c] = "merged" /\ c \notin torn
           \/ pc[c] \in {"claimed", "confirmed"}
           => Kept \/ upload.saved.status = "ABSENT"
        /\ pc[c] = "confirmed" => upload.by = c /\ upload.draft.status = "CONFIRMED"

\* What the status says about object and charge.
StatusTells ==
    /\ upload.saved.status = "CONFIRMED" => Kept /\ Completers # {}
    /\ room.saved.open =>
          /\ upload.saved.status = "CONFIRMED" => room.saved.mine = 1
          /\ upload.saved.status = "PENDING" => room.saved.mine = 0
          /\ upload.saved.status = "ABSENT" /\ ~crossed => room.saved.mine = 0

CInv == IInv /\ ExpiryInv /\ SweepInv /\ GoneInv /\ MergeInv /\ StatusTells

\* The invariant holds after create_upload_session.
LEMMA ContractInit == Init => CInv
  <1> SUFFICES ASSUME Init PROVE CInv
    OBVIOUS
  <1>1. /\ upload = Clean([status |-> "PENDING", size |-> 0])
        /\ room.saved.open /\ room.saved.mine = 0
        /\ \A r \in Requests \cup Sweepers : pc[r] = "idle"
        /\ \A r \in Listers : todo[r] = {}
    BY DEF Init, Clean
  <1> QED
    BY <1>1, ChargeInit
       DEF CInv, ExpiryInv, SweepInv, GoneInv, MergeInv, StatusTells, Clean

\* A request that leaves the committed versions, the object and the lists alone
\* and is no completion moves nothing the contract speaks of.
LEMMA SendContract ==
    ASSUME OneCompleter, CInv, NEW s \in Senders, ChunkBegin(s) \/ SendStep(s)
    PROVE  CInv'
  <1>0. TypeOK /\ IInv'
    BY SendCharges DEF CInv, IInv
  <1>1. \A q \in (Requests \cup Sweepers) \ {s} : pc'[q] = pc[q]
    BY <1>0 DEF TypeOK, SendStep, ChunkBegin, ChunkPut, ChunkPutFails, ChunkCount, RowIsGone,
                ChunkCommit, Raise, Goto
  <1>2. UNCHANGED <<object, todo, torn, known, doomed, crossed>>
    BY DEF SendStep, ChunkBegin, ChunkPut, ChunkPutFails, ChunkCount, RowIsGone, ChunkCommit,
           memory
  <1>3. room' = room
    BY DEF SendStep, ChunkBegin, ChunkPut, ChunkPutFails, ChunkCount, RowIsGone, ChunkCommit,
           Raise, RollbackAll, CommitAll, Rollback, Commit, CInv, IInv, RoomLock, HoldsRoom,
           Holding
  <1>4. \/ upload' = upload
        \/ /\ upload.by \in {NoTx, s}
           /\ upload'.saved.status = upload.saved.status
           /\ upload.saved.status = "ABSENT" => upload'.draft.status = "ABSENT"
           /\ \/ upload.draft.status # "ABSENT"
              \/ upload'.draft.status = upload.saved.status
    <2>1. CASE ChunkCount(s)
      BY <2>1 DEF ChunkCount, Lockable, Write, CInv, GoneInv
    <2>2. CASE RowIsGone(s) \/ ChunkCommit(s) \/ ChunkPutFails(s)
      BY <2>2 DEF RowIsGone, ChunkCommit, ChunkPutFails, Raise, RollbackAll, CommitAll,
                  Rollback, Commit, Clean, CInv, IInv, UploadLock
    <2>3. CASE ChunkBegin(s) \/ ChunkPut(s)
      BY <2>3 DEF ChunkBegin, ChunkPut
    <2> QED
      BY <2>1, <2>2, <2>3 DEF SendStep
  <1>5. ExpiryInv' /\ SweepInv'
    BY <1>1, <1>2, <1>4 DEF CInv, ExpiryInv, SweepInv, UnderWay
  <1>6. GoneInv'
    BY <1>1, <1>2, <1>3, <1>4 DEF CInv, GoneInv
  <1>7. StatusTells'
    BY <1>2, <1>3, <1>4 DEF CInv, StatusTells, Kept
  <1>8. MergeInv'
    BY <1>1, <1>2, <1>4 DEF CInv, MergeInv, Kept
  <1> QED
    BY <1>0, <1>5, <1>6, <1>7, <1>8 DEF CInv

\* A completion confirms, in the end, what it has merged.
LEMMA CompleteContract ==
    ASSUME OneCompleter, CInv, NEW c \in Completers, CompleteBegin(c) \/ CompleteStep(c)
    PROVE  CInv'
  <1>0. TypeOK /\ IInv'
    BY CompleteCharges DEF CInv, IInv
  <1>1. \A q \in (Requests \cup Sweepers) \ {c} : pc'[q] = pc[q]
    BY <1>0 DEF TypeOK, CompleteStep, CompleteBegin, ListParts, MergePart, PutMerged,
                MergeFails, ClaimQuota, ClaimRefused, Confirm, RowIsGone, CompleteCommit,
                RefusedAnswer, DropKey, Raise, Goto
  <1>2. /\ UNCHANGED <<known, doomed>>
        /\ \A q \in Listers \ {c} : todo'[q] = todo[q]
        /\ Final \notin todo'[c]
    <2>1. /\ UNCHANGED <<known, doomed>>
          /\ \/ todo' = todo
             \/ todo' = [todo EXCEPT ![c] = Indices]
             \/ \E k : todo' = [todo EXCEPT ![c] = @ \ {k}]
      BY DEF CompleteStep, CompleteBegin, ListParts, MergePart, PutMerged,
             MergeFails, ClaimQuota, ClaimRefused, Confirm, RowIsGone, CompleteCommit,
             RefusedAnswer, DropKey, memory
    <2>2. Final \notin Indices /\ Final \notin todo[c]
      BY DEF Final, Indices, CInv, SweepInv
    <2> QED
      BY <1>0, <2>1, <2>2 DEF TypeOK
  <1>3. ExpiryInv' \/ upload'.saved.status = "CONFIRMED"
    <2>1. CASE CompleteBegin(c)
      BY <1>0, <1>1, <2>1 DEF CompleteBegin, UnderWay, Goto, TypeOK, CInv, ExpiryInv, ExpirerPC
    <2>2. CASE CompleteStep(c)
      <3>1. crossed' = crossed /\ UnderWay(c)
        BY <2>2 DEF CompleteStep, ListParts, MergePart, PutMerged, MergeFails, ClaimQuota,
                    ClaimRefused, Confirm, RowIsGone, CompleteCommit, RefusedAnswer, DropKey,
                    memory, UnderWay
      <3> QED
        BY <1>1, <3>1 DEF CInv, ExpiryInv
    <2> QED
      BY <2>1, <2>2
  <1>4. pc[c] # "done" /\ upload.saved.status # "CONFIRMED" /\ (crossed => crossed')
    <2>1. pc[c] # "done"
      BY DEF CompleteStep, CompleteBegin, ListParts, MergePart, PutMerged, MergeFails,
             ClaimQuota, ClaimRefused, Confirm, RowIsGone, CompleteCommit, RefusedAnswer,
             DropKey
    <2>2. crossed => crossed'
      BY DEF CompleteStep, CompleteBegin, ListParts, MergePart, PutMerged, MergeFails,
             ClaimQuota, ClaimRefused, Confirm, RowIsGone, CompleteCommit, RefusedAnswer,
             DropKey, memory
    <2> QED
      BY <2>1, <2>2 DEF CInv, MergeInv
  <1>5. CASE \/ CompleteBegin(c) \/ ListParts(c) \/ PutMerged(c)
             \/ \E k \in Indices : MergePart(c, k) \/ DropKey(c, k)
    <2>1. UNCHANGED <<upload, room>>
      BY <1>5 DEF CompleteBegin, ListParts, PutMerged, MergePart, DropKey
    <2>2. ExpiryInv' /\ SweepInv' /\ GoneInv' /\ StatusTells'
      BY <1>1, <1>2, <1>3, <1>4, <2>1 DEF CInv, SweepInv, GoneInv, StatusTells
    <2>3. MergeInv'
      <3>1. CASE PutMerged(c)
        BY <1>0, <1>4, <2>1, <3>1
           DEF PutMerged, Goto, TypeOK, CInv, MergeInv, OneCompleter, memory, Kept
      <3>2. CASE CompleteBegin(c) \/ ListParts(c) \/ \E k \in Indices : MergePart(c, k)
        <4>1. pc'[c] \notin {"merged", "claimed", "confirmed"}
          BY <1>0, <3>2 DEF CompleteBegin, ListParts, MergePart, Goto, TypeOK
        <4> QED
          BY <1>4, <2>1, <4>1 DEF MergeInv, OneCompleter
      <3>3. CASE \E k \in Indices : DropKey(c, k)
        <4>1. UNCHANGED <<object, pc, torn, doomed, crossed>>
          BY <3>3, SizesAssumption DEF DropKey, Final, Indices
        <4> QED
          BY <2>1, <4>1 DEF CInv, MergeInv, Kept
      <3> QED
        BY <1>5, <3>1, <3>2, <3>3
    <2> QED
      BY <1>0, <2>2, <2>3 DEF CInv
  <1>6. CASE MergeFails(c) \/ RowIsGone(c) \/ RefusedAnswer(c)
    <2>1. RollbackAll(c) /\ pc'[c] = "failed"
      BY <1>0, <1>6 DEF MergeFails, RowIsGone, RefusedAnswer, Raise, Goto, TypeOK
    <2>2. /\ upload'.saved = upload.saved /\ room'.saved = room.saved
          /\ upload'.draft \in {upload.saved, upload.draft}
      BY <2>1 DEF RollbackAll, Rollback, Clean
    <2>3. SweepInv' /\ StatusTells' /\ ExpiryInv'
      BY <1>0, <1>1, <1>2, <1>3, <1>4, <2>1, <2>2 DEF CInv, SweepInv, StatusTells
    <2>4. GoneInv'
      <3>1. c \notin Cleaners
        BY RolesAssumption
      <3>2. upload' = upload \/ (upload.by = c /\ upload'.draft = upload.saved)
        BY <2>1 DEF RollbackAll, Rollback, Clean
      <3> QED
        BY <1>1, <1>2, <2>2, <3>1, <3>2 DEF CInv, GoneInv
    <2>5. MergeInv'
      BY <1>0, <1>1, <1>4, <2>1, <2>2 DEF CInv, MergeInv, OneCompleter
    <2> QED
      BY <1>0, <2>3, <2>4, <2>5 DEF CInv
  <1>7. CASE ClaimQuota(c) \/ ClaimRefused(c)
    <2>1. /\ upload' = upload /\ room'.saved = room.saved
          /\ \/ pc'[c] = "claimed" /\ object' = object /\ pc[c] = "merged" /\ c \notin torn
             \/ pc'[c] = "refused"
          /\ crossed' = crossed
      BY <1>0, <1>7 DEF ClaimQuota, ClaimRefused, Write, Goto, TypeOK, SizeIsRight, memory
    <2> QED
      BY <1>0, <1>1, <1>2, <1>3, <1>4, <2>1
         DEF CInv, SweepInv, GoneInv, MergeInv, StatusTells, OneCompleter, Kept
  <1>8. CASE Confirm(c)
    <2>1. /\ upload'.saved = upload.saved /\ upload'.by = c
          /\ upload'.draft.status = "CONFIRMED"
          /\ upload.draft.status # "ABSENT"
          /\ UNCHANGED <<room, object, crossed>>
          /\ pc[c] = "claimed" /\ pc'[c] = "confirmed"
      BY <1>0, <1>8 DEF Confirm, ConfirmedValue, Write, Goto, TypeOK
    <2>2. GoneInv'
      <3>1. \A k \in Cleaners : pc'[k] # "deleted"
        BY <1>1, <2>1 DEF CInv, GoneInv
      <3> QED
        BY <1>1, <1>2, <2>1, <3>1 DEF CInv, GoneInv
    <2> QED
      BY <1>0, <1>1, <1>2, <1>3, <1>4, <2>1, <2>2
         DEF CInv, SweepInv, MergeInv, StatusTells, OneCompleter, Kept
  <1>9. CASE CompleteCommit(c)
    <2>1. /\ pc[c] = "confirmed" /\ pc'[c] = "done" /\ CommitAll(c)
          /\ UNCHANGED <<object, crossed>>
      BY <1>0, <1>9 DEF CompleteCommit, Goto, TypeOK, memory
    <2>2. /\ upload.by = c /\ upload.draft.status = "CONFIRMED"
          /\ upload.saved.status # "ABSENT" /\ Kept
          /\ room.saved.open
      BY <2>1 DEF CInv, MergeInv, GoneInv
    <2>3. upload'.saved = upload.draft /\ upload'.draft = upload.draft
      BY <2>1, <2>2 DEF CommitAll, Commit, Clean
    <2>4. room'.saved = [room.saved EXCEPT !.mine = @ + 1]
      BY <2>1 DEF CInv, IInv, RoomLock, HoldsRoom, Holding, OpenClaim, CommitAll, Commit, Clean
    <2>5. room'.saved.open /\ room'.saved.mine = 1
      <3>1. room.saved \in RoomValue /\ room.saved.mine = 0
        <4>1. upload.saved.status = "PENDING"
          BY <1>0, <1>4, <2>2, Versions DEF UploadValue
        <4> QED
          BY <1>0, <2>2, <4>1, Versions DEF CInv, StatusTells
      <3> QED
        BY <2>2, <2>4, <3>1 DEF RoomValue
    <2>6. ExpiryInv'
      <3>1. crossed \/ \A e \in Expirers : pc[e] = "idle"
        BY <2>1 DEF CInv, ExpiryInv, UnderWay
      <3> QED
        BY <1>1, <2>1, <3>1 DEF ExpiryInv
    <2>7. SweepInv' /\ StatusTells' /\ MergeInv'
      BY <1>0, <1>1, <1>2, <2>1, <2>2, <2>3, <2>5
         DEF CInv, SweepInv, MergeInv, StatusTells, OneCompleter, Kept
    <2>8. GoneInv'
      <3>1. \A k \in Cleaners : pc'[k] # "deleted"
        BY <1>1, <2>2 DEF CInv, GoneInv
      <3> QED
        BY <1>1, <1>2, <2>2, <2>3, <2>5, <3>1 DEF CInv, GoneInv
    <2> QED
      BY <1>0, <2>6, <2>7, <2>8 DEF CInv
  <1> QED
    BY <1>5, <1>6, <1>7, <1>8, <1>9 DEF CompleteStep

\* The job for stale sessions deletes a row that cannot be confirmed any more,
\* or it has met the completion.
LEMMA ExpireContract ==
    ASSUME OneCompleter, CInv, NEW e \in Expirers, ExpireBegin(e) \/ AbandonStep(e)
    PROVE  CInv'
  <1>0. TypeOK /\ IInv' /\ e \notin Completers \cup Cleaners
    BY AbandonCharges DEF CInv, IInv
  <1>1. \A q \in (Requests \cup Sweepers) \ {e} : pc'[q] = pc[q]
    BY <1>0 DEF TypeOK, ExpireBegin, AbandonStep, CleanupParts, ExpireObject, DeleteUpload,
                DeleteCommit, DropKey, Goto
  <1>2. /\ UNCHANGED <<torn, known, doomed>>
        /\ \A q \in Listers \ {e} : todo'[q] = todo[q]
        /\ Final \notin todo'[e]
    <2>1. /\ UNCHANGED <<torn, known, doomed>>
          /\ \/ todo' = todo
             \/ todo' = [todo EXCEPT ![e] = parts]
             \/ \E k : todo' = [todo EXCEPT ![e] = @ \ {k}]
      BY DEF ExpireBegin, AbandonStep, CleanupParts, ExpireObject, DeleteUpload,
             DeleteCommit, DropKey, memory
    <2>2. Final \notin parts /\ Final \notin todo[e]
      BY <1>0 DEF Final, Indices, CInv, SweepInv, TypeOK
    <2> QED
      BY <1>0, <2>1, <2>2 DEF TypeOK
  <1>3. /\ crossed => crossed'
        /\ \/ crossed'
           \/ /\ upload.saved.status # "CONFIRMED"
              /\ \A c \in Completers : ~UnderWay(c)
    <2>1. CASE ExpireBegin(e)
      <3>1. upload.saved.status = "PENDING"
        BY <2>1 DEF ExpireBegin, Status, Sees, CInv, IInv, UploadLock
      <3> QED
        BY <2>1, <3>1 DEF ExpireBegin
    <2>2. CASE AbandonStep(e)
      <3>1. pc[e] # "idle" /\ crossed' = crossed
        BY <2>2 DEF AbandonStep, CleanupParts, ExpireObject, DeleteUpload, DeleteCommit,
                    DropKey, memory
      <3> QED
        BY <3>1 DEF CInv, ExpiryInv
    <2> QED
      BY <2>1, <2>2
  <1>4. room' = room /\ object' \in {object, "none"} /\ (object' = object \/ pc[e] # "idle")
    BY <1>0 DEF ExpireBegin, AbandonStep, CleanupParts, ExpireObject, DeleteUpload,
           DeleteCommit, DropKey, CommitAll, Commit, CInv, IInv, RoomLock, HoldsRoom, Holding
  <1>5. /\ upload'.saved.status \in {upload.saved.status, "ABSENT"}
        /\ upload'.saved.status = "ABSENT" => upload'.draft.status = "ABSENT"
        /\ \/ upload' = upload
           \/ upload.by \in {NoTx, e} /\ upload'.draft.status = "ABSENT"
        /\ upload.by \notin {NoTx, e} => upload' = upload
        /\ upload.by = e => upload' = upload \/ upload'.saved.status = "ABSENT"
    BY DEF ExpireBegin, AbandonStep, CleanupParts, ExpireObject, DeleteUpload,
           DeleteCommit, DropKey, CommitAll, Commit, Write, Clean, Gone, Lockable,
           CInv, GoneInv, IInv, UploadLock
  <1>6. ExpiryInv' /\ SweepInv'
    BY <1>0, <1>1, <1>2, <1>3, <1>5 DEF CInv, ExpiryInv, SweepInv, UnderWay
  <1>7. GoneInv'
    BY <1>0, <1>1, <1>2, <1>4, <1>5 DEF CInv, GoneInv
  <1>8. MergeInv'
    <2>1. \A c \in Completers : pc'[c] = pc[c]
      BY <1>0, <1>1
    <2>2. CASE crossed'
      BY <1>0, <1>2, <1>3, <1>4, <1>5, <2>1, <2>2 DEF CInv, MergeInv, Kept
    <2>3. CASE ~crossed'
      <3>1. \A c \in Completers : pc[c] \in {"idle", "done", "failed"}
        BY <1>3, <2>3 DEF UnderWay
      <3> QED
        BY <1>3, <1>5, <2>1, <2>3, <3>1 DEF MergeInv
    <2> QED
      BY <2>2, <2>3
  <1>9. StatusTells'
    <2>1. upload.saved.status \in {"PENDING", "CONFIRMED", "ABSENT"}
      BY <1>0, Versions DEF UploadValue
    <2> QED
      BY <1>2, <1>3, <1>4, <1>5, <2>1 DEF CInv, StatusTells, Kept
  <1> QED
    BY <1>0, <1>6, <1>7, <1>8, <1>9 DEF CInv

\* A teardown takes the object after it has begun, and the row with the room:
\* it waits for the completion that holds the room's row.
LEMMA CleanContract ==
    ASSUME OneCompleter, CInv, NEW k \in Cleaners, CloseRoom(k) \/ CleanStep(k)
    PROVE  CInv'
  <1>0. /\ TypeOK /\ IInv'
        /\ k \notin Completers \cup Expirers \cup Sweepers
    BY CleanCharges DEF CInv, IInv
  <1>1. \A q \in (Requests \cup Sweepers) \ {k} : pc'[q] = pc[q]
    BY <1>0 DEF TypeOK, CloseRoom, CleanStep, ListKeys, DeleteUpload, DeleteCommit, DropKey,
                Goto
  <1>2. /\ UNCHANGED <<torn, known, crossed>> /\ doomed'
        /\ \A q \in Listers \ {k} : todo'[q] = todo[q]
        /\ object' \in {object, "none"}
    <2>1. UNCHANGED <<torn, known, crossed>> /\ object' \in {object, "none"}
      BY DEF CloseRoom, CleanStep, ListKeys, DeleteUpload, DeleteCommit, DropKey, memory
    <2>2. \A q \in Listers \ {k} : todo'[q] = todo[q]
      BY <1>0 DEF TypeOK, CloseRoom, CleanStep, ListKeys, DeleteUpload, DeleteCommit,
                  DropKey, memory
    <2>3. doomed'
      BY DEF CloseRoom, CleanStep, ListKeys, DeleteUpload, DeleteCommit, DropKey, memory,
             CInv, GoneInv
    <2> QED
      BY <2>1, <2>2, <2>3
  <1>3. CASE CloseRoom(k) \/ ListKeys(k) \/ DropKey(k, Final)
    <2>1. /\ upload' = upload /\ room'.saved = room.saved
          /\ pc'[k] # "deleted"
      BY <1>0, <1>3 DEF CloseRoom, ListKeys, DropKey, Write, Goto, TypeOK
    <2> QED
      BY <1>0, <1>1, <1>2, <2>1
         DEF CInv, ExpiryInv, SweepInv, GoneInv, MergeInv, StatusTells, Kept, UnderWay
  <1>4. CASE DeleteUpload(k)
    <2>1. /\ room' = room /\ upload'.saved = upload.saved
          /\ pc'[k] = "deleted" /\ upload'.draft.status = "ABSENT"
          /\ \/ upload' = upload /\ upload.saved.status = "ABSENT"
             \/ upload.by \in {NoTx, k} /\ upload'.by = k
      <3>1. pc'[k] = "deleted" /\ room' = room
        BY <1>0, <1>4 DEF DeleteUpload, Goto, TypeOK
      <3>2. CASE Status(k) = "ABSENT" /\ UNCHANGED upload
        <4>1. CASE upload.by = k
          BY <3>1, <3>2, <4>1 DEF Status, Sees
        <4>2. CASE upload.by # k
          BY <3>1, <3>2, <4>2 DEF Status, Sees, CInv, GoneInv
        <4> QED
          BY <4>1, <4>2
      <3>3. CASE Lockable(upload, k) /\ upload' = Write(upload, k, Gone)
        BY <3>1, <3>3 DEF Lockable, Write, Gone
      <3> QED
        BY <1>4, <3>2, <3>3 DEF DeleteUpload
    <2>2. \A j \in Cleaners \ {k} : pc[j] = "idle"
      BY <1>0, <1>4 DEF DeleteUpload, CInv, IInv, RoomLock, HoldsRoom, Holding
    <2> QED
      BY <1>0, <1>1, <1>2, <2>1, <2>2
         DEF CInv, ExpiryInv, SweepInv, GoneInv, MergeInv, StatusTells, Kept, UnderWay
  <1>5. CASE DeleteCommit(k)
    <2>1. /\ room.by = k
          /\ \A r \in Requests \ {k} : ~HoldsRoom(r)
          /\ pc[k] = "deleted" /\ pc'[k] = "idle"
      BY <1>0, <1>5 DEF DeleteCommit, Goto, TypeOK, CInv, IInv, RoomLock, HoldsRoom, Holding
    <2>2. ~room'.saved.open
      <3>1. room'.saved = [room.saved EXCEPT !.open = FALSE]
        BY <1>5, <2>1 DEF DeleteCommit, CommitAll, Commit, Clean, CInv, IInv, OpenClaim
      <3> QED
        BY <1>0, <3>1, Versions DEF RoomValue
    <2>3. upload'.saved.status = "ABSENT" /\ upload'.draft.status = "ABSENT"
      BY <1>5, <2>1 DEF DeleteCommit, CommitAll, Commit, Clean, CInv, GoneInv
    <2>4. \A c \in Completers : pc'[c] \notin {"claimed", "confirmed"}
      BY <1>0, <1>1, <2>1 DEF HoldsRoom, Holding
    <2> QED
      BY <1>0, <1>1, <1>2, <2>1, <2>2, <2>3, <2>4
         DEF CInv, ExpiryInv, SweepInv, GoneInv, MergeInv, StatusTells, UnderWay
  <1> QED
    BY <1>3, <1>4, <1>5 DEF CleanStep

\* A scan deletes parts, and the merged object once the row is gone.
LEMMA SweepContract ==
    ASSUME OneCompleter, CInv, NEW w \in Sweepers, SweepStep(w)
    PROVE  CInv'
  <1>0. TypeOK /\ IInv'
    BY SweepCharges DEF CInv, IInv
  <1>1. /\ UNCHANGED <<upload, room, torn, doomed, crossed>>
        /\ \A q \in Requests : pc'[q] = pc[q]
        /\ \A q \in Listers \ {w} : todo'[q] = todo[q]
    BY <1>0 DEF SweepStep, KnownKeys, ListOrphans, SweepEnd, DropKey, memory, Goto, TypeOK
  <1>2. object' = object \/ upload.saved.status = "ABSENT"
    BY DEF SweepStep, KnownKeys, ListOrphans, SweepEnd, DropKey, CInv, SweepInv
  <1>3. SweepInv'
    <2>1. CASE upload.saved.status = "ABSENT"
      BY <1>1, <2>1 DEF CInv, SweepInv
    <2>2. CASE upload.saved.status # "ABSENT"
      <3>1. /\ Final \notin todo'[w]
            /\ pc'[w] = "listing" => w \in known'
            /\ known \ {w} = known' \ {w}
        <4>1. CASE KnownKeys(w) \/ SweepEnd(w)
          BY <1>0, <2>2, <4>1 DEF KnownKeys, SweepEnd, Goto, TypeOK, CInv, SweepInv, memory
        <4>2. CASE ListOrphans(w)
          <5>1. w \in known /\ Final \notin parts
            BY <1>0, <2>2, <4>2 DEF ListOrphans, CInv, SweepInv, TypeOK, Final, Indices
          <5> QED
            BY <1>0, <4>2, <5>1 DEF ListOrphans, Orphan, Goto, TypeOK
        <4>3. CASE \E k \in Keys : DropKey(w, k)
          BY <1>0, <2>2, <4>3 DEF DropKey, TypeOK, CInv, SweepInv
        <4> QED
          BY <4>1, <4>2, <4>3 DEF SweepStep
      <3>2. \A v \in Sweepers \ {w} : pc'[v] = pc[v]
        BY <1>0 DEF SweepStep, KnownKeys, ListOrphans, SweepEnd, DropKey, Goto, TypeOK
      <3> QED
        BY <1>1, <2>2, <3>1, <3>2 DEF CInv, SweepInv
    <2> QED
      BY <2>1, <2>2
  <1>4. ExpiryInv' /\ GoneInv' /\ MergeInv' /\ StatusTells'
    BY <1>1, <1>2 DEF CInv, ExpiryInv, GoneInv, MergeInv, StatusTells, Kept, UnderWay
  <1> QED
    BY <1>0, <1>3, <1>4 DEF CInv

\* Other files, the passing of a day and a request that breaks off keep the
\* invariant.
LEMMA RestContract ==
    ASSUME OneCompleter, CInv, OtherFiles \/ Day \/ \E r \in Requests : Fail(r)
    PROVE  CInv'
  <1>0. TypeOK /\ IInv' /\ room.saved \in RoomValue
    BY RestCharges, Versions DEF CInv, IInv
  <1>2. CASE OtherFiles
    <2>1. PICK n \in 0 .. MaxOthers : room' = Clean([room.saved EXCEPT !.others = n])
      BY <1>2 DEF OtherFiles
    <2>2. room'.saved.open = room.saved.open /\ room'.saved.mine = room.saved.mine
      BY <1>0, <2>1 DEF Clean, RoomValue
    <2>3. UNCHANGED <<upload, object, pc, todo, torn, known, doomed, crossed>>
      BY <1>2 DEF OtherFiles, memory
    <2> QED
      BY <1>0, <2>2, <2>3
         DEF CInv, ExpiryInv, SweepInv, GoneInv, MergeInv, StatusTells, Kept, UnderWay
  <1>3. CASE Day
    BY <1>0, <1>3
       DEF Day, CInv, ExpiryInv, SweepInv, GoneInv, MergeInv, StatusTells, Kept, UnderWay
  <1>4. CASE \E r \in Requests : Fail(r)
    <2>1. PICK r \in Requests : Fail(r)
      BY <1>4
    <2>2. /\ upload'.saved = upload.saved /\ room'.saved = room.saved
          /\ \/ upload' = upload
             \/ upload.by = r /\ upload'.draft = upload.saved
          /\ UNCHANGED <<object, known, doomed, crossed>>
          /\ torn' = torn \ {r}
          /\ \A q \in Listers : todo'[q] = IF q = r THEN {} ELSE todo[q]
      BY <2>1 DEF Fail, RollbackAll, Rollback, Clean
    <2>3. /\ pc[r] # "done"
          /\ pc'[r] \in {"idle", "failed"}
          /\ \A q \in (Requests \cup Sweepers) \ {r} : pc'[q] = pc[q]
      BY <1>0, <2>1 DEF Fail, UnderWay, Goto, TypeOK
    <2>6. r \in Expirers => pc'[r] = "idle"
      BY <1>0, <2>1 DEF Fail, Goto, TypeOK
    <2>7. r \in Cleaners => pc'[r] = "idle"
      BY <1>0, <2>1 DEF Fail, Goto, TypeOK
    <2>8. ExpiryInv'
      BY <2>2, <2>3, <2>6 DEF CInv, ExpiryInv, UnderWay
    <2>4. SweepInv' /\ StatusTells'
      BY <2>2, <2>3 DEF CInv, SweepInv, StatusTells, Kept
    <2>9. GoneInv'
      BY <2>2, <2>3, <2>7 DEF CInv, GoneInv
    <2>5. MergeInv'
      BY <2>2, <2>3 DEF CInv, MergeInv, Kept
    <2> QED
      BY <1>0, <2>4, <2>5, <2>8, <2>9 DEF CInv
  <1> QED
    BY <1>2, <1>3, <1>4

\* An abort of an upload that is given up deletes its row, which cannot be
\* confirmed any more.
LEMMA AbortContract ==
    ASSUME OneCompleter, CInv, GivenUp, NEW a \in Aborters, AbortBegin(a) \/ AbandonStep(a)
    PROVE  CInv'
  <1>0. TypeOK /\ IInv' /\ a \notin Completers \cup Expirers \cup Cleaners \cup Sweepers
    BY AbandonCharges DEF CInv, IInv
  <1>1. \A q \in (Requests \cup Sweepers) \ {a} : pc'[q] = pc[q]
    BY <1>0 DEF TypeOK, AbortBegin, AbandonStep, CleanupParts, ExpireObject, DeleteUpload,
                DeleteCommit, DropKey, Goto
  <1>2. /\ UNCHANGED <<torn, known, doomed, crossed>>
        /\ \A q \in Listers \ {a} : todo'[q] = todo[q]
    BY DEF AbortBegin, AbandonStep, CleanupParts, ExpireObject, DeleteUpload,
           DeleteCommit, DropKey, memory, TypeOK, CInv, IInv
  <1>3. upload.saved.status \in {"PENDING", "ABSENT"}
    BY <1>0, Versions DEF GivenUp, CInv, MergeInv, StatusTells, UploadValue
  <1>5. room' = room
    BY <1>0 DEF AbortBegin, AbandonStep, CleanupParts, ExpireObject, DeleteUpload,
           DeleteCommit, DropKey, CommitAll, Commit, CInv, IInv, RoomLock, HoldsRoom, Holding
  <1>6. /\ upload'.saved.status \in {upload.saved.status, "ABSENT"}
        /\ upload'.saved.status = "ABSENT" => upload'.draft.status = "ABSENT"
        /\ \/ upload' = upload
           \/ upload.by \in {NoTx, a} /\ upload'.draft.status = "ABSENT"
        /\ upload.by = a => upload' = upload \/ upload'.saved.status = "ABSENT"
    BY DEF AbortBegin, AbandonStep, CleanupParts, ExpireObject, DeleteUpload,
           DeleteCommit, DropKey, CommitAll, Commit, Write, Clean, Gone, Lockable,
           CInv, GoneInv, IInv, UploadLock
  <1>7. ExpiryInv' /\ SweepInv' /\ StatusTells'
    BY <1>0, <1>1, <1>2, <1>3, <1>5, <1>6
       DEF CInv, ExpiryInv, SweepInv, StatusTells, UnderWay
  <1>9. GoneInv'
    BY <1>0, <1>1, <1>2, <1>5, <1>6 DEF CInv, GoneInv
  <1>8. MergeInv'
    BY <1>0, <1>1, <1>3, <1>6 DEF GivenUp, MergeInv
  <1> QED
    BY <1>0, <1>7, <1>8, <1>9 DEF CInv

\* Every step keeps the invariant, aborts of what is given up included: the
\* cases of Next.
LEMMA ContractStep ==
    ASSUME OneCompleter
    PROVE  CInv /\ AbortsGivenUp /\ [Next]_vars => CInv'
  <1> SUFFICES ASSUME CInv, AbortsGivenUp, [Next]_vars PROVE CInv'
    OBVIOUS
  <1>1. CASE \E s \in Senders : ChunkBegin(s) \/ SendStep(s)
    BY <1>1, SendContract
  <1>2. CASE \E c \in Completers : CompleteBegin(c) \/ CompleteStep(c)
    BY <1>2, CompleteContract
  <1>3. CASE \E e \in Expirers : ExpireBegin(e) \/ AbandonStep(e)
    BY <1>3, ExpireContract
  <1>4. CASE \E w \in Sweepers : SweepStep(w)
    BY <1>4, SweepContract
  <1>5. CASE OtherFiles \/ Day \/ \E r \in Requests : Fail(r)
    BY <1>5, RestContract
  <1>8. CASE \E k \in Cleaners : CloseRoom(k) \/ CleanStep(k)
    BY <1>8, CleanContract
  <1>7. CASE \E a \in Aborters : AbortBegin(a) \/ AbandonStep(a)
    BY <1>7, AbortContract DEF AbortsGivenUp
  <1>6. CASE UNCHANGED vars
    BY <1>6, ChargeStep
       DEF vars, CInv, ExpiryInv, SweepInv, GoneInv, MergeInv, StatusTells, Kept, UnderWay
  <1> QED
    BY <1>1, <1>2, <1>3, <1>4, <1>5, <1>6, <1>7, <1>8 DEF Next, Serve

-----------------------------------------------------------------------------
(***************************************************************************)
(* The refinement.                                                         *)
(***************************************************************************)
\* The state after create_upload_session is an initial state of UploadContract.
LEMMA ContractInitMaps == Init => UC!Init
  BY DEF Init, Clean, UC!Init, contentShown, chargeShown

\* Most steps commit nothing and take no object that is shown and unspoilt.
LEMMA QuietMaps ==
    ASSUME CInv,
           upload'.saved.status = upload.saved.status,
           room'.saved.open = room.saved.open, room'.saved.mine = room.saved.mine,
           UNCHANGED <<doomed, crossed>>,
           \/ object' = object
           \/ upload.saved.status # "CONFIRMED"
           \/ (doomed \/ crossed) /\ object' = "none"
    PROVE  [UC!Next]_contract
  <1>1. chargeShown' = chargeShown
    BY DEF chargeShown
  <1>2. CASE object' = object \/ upload.saved.status # "CONFIRMED"
    <2>1. contentShown' = contentShown
      BY <1>2 DEF contentShown
    <2> QED
      BY <1>1, <2>1 DEF contract
  <1>3. CASE /\ upload.saved.status = "CONFIRMED"
             /\ doomed \/ crossed
             /\ object' = "none"
    BY <1>1, <1>3 DEF contentShown, UC!Next, UC!Lose, UC!Spoilt
  <1> QED
    BY <1>2, <1>3

\* A step of store_chunk commits a size.
LEMMA SendMaps ==
    ASSUME CInv, NEW s \in Senders, ChunkBegin(s) \/ SendStep(s)
    PROVE  [UC!Next]_contract
  <1>1. UNCHANGED <<object, doomed, crossed>>
    BY DEF SendStep, ChunkBegin, ChunkPut, ChunkPutFails, ChunkCount, RowIsGone, ChunkCommit,
           memory
  <1>2. room' = room
    BY DEF SendStep, ChunkBegin, ChunkPut, ChunkPutFails, ChunkCount, RowIsGone, ChunkCommit,
           Raise, RollbackAll, CommitAll, Rollback, Commit, CInv, IInv, RoomLock, HoldsRoom,
           Holding
  <1>3. upload'.saved.status = upload.saved.status
    BY DEF SendStep, ChunkBegin, ChunkPut, ChunkPutFails, ChunkCount, RowIsGone, ChunkCommit,
           Raise, RollbackAll, CommitAll, Rollback, Commit, Write, Clean, CInv, IInv, UploadLock
  <1> QED
    BY <1>1, <1>2, <1>3, QuietMaps

\* A completion meets the job when it begins, and confirms when it commits.
LEMMA CompleteMaps ==
    ASSUME CInv, CInv', NEW c \in Completers, CompleteBegin(c) \/ CompleteStep(c)
    PROVE  [UC!Next]_contract
  <1>0. /\ upload.saved \in UploadValue /\ upload.saved.status # "CONFIRMED"
        /\ pc[c] # "done"
    <2>1. pc[c] # "done"
      BY DEF CompleteStep, CompleteBegin, ListParts, MergePart, PutMerged, MergeFails,
             ClaimQuota, ClaimRefused, Confirm, RowIsGone, CompleteCommit, RefusedAnswer,
             DropKey
    <2> QED
      BY <2>1, Versions DEF CInv, IInv, MergeInv
  <1>1. CASE CompleteBegin(c)
    <2>1. UNCHANGED <<upload, room, object, doomed>>
      BY <1>1 DEF CompleteBegin
    <2>2. UNCHANGED <<upload.saved.status, contentShown, chargeShown>>
      BY <2>1 DEF contentShown, chargeShown
    <2>3. CASE crossed' = crossed
      BY <2>1, <2>2, <2>3 DEF contract
    <2>4. CASE crossed' # crossed
      <3>1. upload.saved.status = "PENDING" /\ crossed' = TRUE
        BY <1>1, <2>4 DEF CompleteBegin, Status, Sees, CInv, IInv, UploadLock, TypeOK
      <3> QED
        BY <2>1, <2>2, <3>1 DEF UC!Next, UC!Cross
    <2> QED
      BY <2>3, <2>4
  <1>2. CASE CompleteCommit(c)
    <2>1. /\ upload.by = c /\ upload.draft.status = "CONFIRMED"
          /\ room.by = c /\ room.saved.open
          /\ upload.saved.status = "PENDING"
      BY <1>0, <1>2
         DEF CompleteCommit, CInv, MergeInv, GoneInv, UploadValue, IInv, RoomLock, HoldsRoom,
             Holding
    <2>2. /\ upload'.saved.status = "CONFIRMED"
          /\ room'.saved = [room.saved EXCEPT !.mine = @ + 1]
          /\ UNCHANGED <<object, doomed, crossed>>
      BY <1>2, <2>1
         DEF CompleteCommit, CommitAll, Commit, Clean, CInv, IInv, OpenClaim, memory
    <2>3. room'.saved.open /\ chargeShown' = 1
      <3>1. room'.saved.open
        BY <2>1, <2>2, Versions DEF CInv, IInv, RoomValue
      <3> QED
        BY <2>2, <3>1 DEF CInv, StatusTells, chargeShown
    <2>4. contentShown' = object /\ Kept
      BY <2>2 DEF CInv, StatusTells, contentShown, Kept
    <2> QED
      BY <2>1, <2>2, <2>3, <2>4 DEF UC!Next, UC!Confirm, UC!Spoilt, Kept
  <1>3. CASE CompleteStep(c) /\ ~CompleteCommit(c)
    <2>1. /\ UNCHANGED <<doomed, crossed>>
          /\ upload'.saved = upload.saved /\ room'.saved = room.saved
      BY <1>3
         DEF CompleteStep, ListParts, MergePart, PutMerged, MergeFails, ClaimQuota,
             ClaimRefused, Confirm, RowIsGone, RefusedAnswer, DropKey, Raise,
             RollbackAll, Rollback, Write, Clean, memory
    <2> QED
      BY <1>0, <2>1, QuietMaps
  <1> QED
    BY <1>1, <1>2, <1>3

\* An abort or the job gives up an upload that is not confirmed, or the job
\* deletes the row of one that it has met.
LEMMA AbandonMaps ==
    ASSUME CInv, NEW r \in Aborters \cup Expirers,
           \/ r \in Aborters /\ AbortBegin(r)
           \/ r \in Expirers /\ ExpireBegin(r)
           \/ AbandonStep(r),
           r \in Aborters => GivenUp
    PROVE  [UC!Next]_contract
  <1>0. upload.saved \in UploadValue /\ r \notin Completers \cup Cleaners
    BY Versions DEF CInv, IInv
  <1>1. room' = room /\ doomed' = doomed
    BY <1>0 DEF AbortBegin, ExpireBegin, AbandonStep, CleanupParts, ExpireObject, DeleteUpload,
           DeleteCommit, DropKey, CommitAll, Commit, CInv, IInv, RoomLock, HoldsRoom, Holding,
           memory
  <1>2. chargeShown' = chargeShown
    BY <1>1 DEF chargeShown
  <1>3. CASE ExpireBegin(r)
    <2>1. UNCHANGED <<upload, object>> /\ upload.saved.status = "PENDING"
      BY <1>3 DEF ExpireBegin, Status, Sees, CInv, IInv, UploadLock, TypeOK
    <2>2. contentShown' = contentShown
      BY <2>1 DEF contentShown
    <2>3. CASE crossed' = crossed
      BY <1>1, <1>2, <2>1, <2>2, <2>3 DEF contract
    <2>4. CASE crossed' # crossed
      <3>1. crossed' = TRUE
        BY <1>3, <2>4 DEF ExpireBegin, CInv, IInv, TypeOK
      <3> QED
        BY <1>1, <1>2, <2>1, <2>2, <3>1 DEF UC!Next, UC!Cross
    <2> QED
      BY <2>3, <2>4
  <1>4. CASE ~ExpireBegin(r)
    <2>1. crossed' = crossed
      BY <1>4 DEF AbortBegin, AbandonStep, CleanupParts, ExpireObject, DeleteUpload,
                  DeleteCommit, DropKey, memory
    <2>2. upload.saved.status = "CONFIRMED" => crossed
      <3>1. CASE r \in Aborters
        BY <3>1 DEF GivenUp, CInv, MergeInv, StatusTells
      <3>2. CASE r \in Expirers
        <4>1. pc[r] # "idle"
          BY <1>4, <3>2 DEF AbortBegin, AbandonStep, CleanupParts, ExpireObject, DeleteUpload,
                            DeleteCommit, DropKey
        <4> QED
          BY <3>2, <4>1 DEF CInv, ExpiryInv
      <3> QED
        BY <3>1, <3>2
    <2>3. upload'.saved.status \in {upload.saved.status, "ABSENT"}
      BY <1>4 DEF AbortBegin, AbandonStep, CleanupParts, ExpireObject, DeleteUpload,
             DeleteCommit, DropKey, CommitAll, Commit, Write, Clean, CInv, IInv, UploadLock
    <2>4. object' \in {object, "none"}
      BY <1>4 DEF AbortBegin, AbandonStep, CleanupParts, ExpireObject, DeleteUpload,
             DeleteCommit, DropKey, memory
    <2>5. CASE upload'.saved.status = upload.saved.status
      BY <1>1, <2>1, <2>2, <2>4, <2>5, QuietMaps
    <2>6. CASE upload.saved.status # "ABSENT" /\ upload'.saved.status = "ABSENT"
      <3>1. contentShown' = "none"
        BY <2>6 DEF contentShown
      <3>2. CASE upload.saved.status = "PENDING"
        <4>1. contentShown = "none"
          BY <3>2 DEF contentShown
        <4> QED
          BY <1>1, <1>2, <2>1, <2>6, <3>1, <3>2, <4>1 DEF UC!Next, UC!GiveUp
      <3>3. CASE upload.saved.status = "CONFIRMED"
        BY <1>1, <1>2, <2>1, <2>2, <2>6, <3>1, <3>3 DEF UC!Next, UC!Forget
      <3> QED
        BY <1>0, <2>6, <3>2, <3>3 DEF UploadValue
    <2> QED
      BY <2>3, <2>5, <2>6
  <1> QED
    BY <1>3, <1>4

\* A teardown dooms the room when it begins and wipes it when it commits.
LEMMA CleanMaps ==
    ASSUME CInv, NEW k \in Cleaners, CloseRoom(k) \/ CleanStep(k)
    PROVE  [UC!Next]_contract
  <1>0. k \notin Completers \cup Expirers \cup Aborters /\ Final \notin Indices
    BY DEF Final, Indices
  <1>1. CASE CloseRoom(k)
    <2>1. /\ UNCHANGED <<upload, object, crossed>> /\ room'.saved = room.saved
          /\ doomed' = TRUE
      BY <1>1 DEF CloseRoom, Write
    <2>2. UNCHANGED <<contentShown, chargeShown>>
      BY <2>1 DEF contentShown, chargeShown
    <2> QED
      BY <2>1, <2>2 DEF UC!Next, UC!Doom
  <1>2. CASE ListKeys(k) \/ DropKey(k, Final) \/ DeleteUpload(k)
    <2>1. /\ upload'.saved = upload.saved /\ room' = room
          /\ UNCHANGED <<doomed, crossed>>
          /\ object' \in {object, "none"}
      BY <1>2 DEF ListKeys, DropKey, DeleteUpload, Write, memory
    <2>2. doomed
      BY <1>2 DEF ListKeys, DropKey, DeleteUpload, CInv, GoneInv
    <2> QED
      BY <2>1, <2>2, QuietMaps
  <1>3. CASE DeleteCommit(k)
    <2>1. room.by = k /\ pc[k] = "deleted"
      BY <1>3 DEF DeleteCommit, CInv, IInv, RoomLock, HoldsRoom, Holding
    <2>2. ~room'.saved.open
      <3>1. room'.saved = [room.saved EXCEPT !.open = FALSE]
        BY <1>3, <2>1 DEF DeleteCommit, CommitAll, Commit, Clean, CInv, IInv, OpenClaim
      <3> QED
        BY <3>1, Versions DEF RoomValue, CInv, IInv
    <2>3. upload'.saved.status = "ABSENT"
      BY <1>3, <2>1 DEF DeleteCommit, CommitAll, Commit, Clean, CInv, GoneInv
    <2>4. doomed /\ UNCHANGED <<doomed, crossed>>
      BY <1>3, <2>1 DEF DeleteCommit, memory, CInv, GoneInv
    <2> QED
      BY <2>2, <2>3, <2>4 DEF contentShown, chargeShown, UC!Next, UC!Wipe
  <1> QED
    BY <1>1, <1>2, <1>3 DEF CleanStep

\* Scans, other files, days and failures commit nothing of the upload.
LEMMA RestMaps ==
    ASSUME CInv,
           \/ \E w \in Sweepers : SweepStep(w)
           \/ OtherFiles \/ Day \/ \E r \in Requests : Fail(r)
    PROVE  [UC!Next]_contract
  <1>1. CASE \E w \in Sweepers : SweepStep(w)
    <2>1. UNCHANGED <<upload, room, doomed, crossed>>
      BY <1>1 DEF SweepStep, KnownKeys, ListOrphans, SweepEnd, DropKey, memory
    <2>2. object' = object \/ upload.saved.status = "ABSENT"
      BY <1>1 DEF SweepStep, KnownKeys, ListOrphans, SweepEnd, DropKey, CInv, SweepInv
    <2> QED
      BY <2>1, <2>2, QuietMaps
  <1>2. CASE OtherFiles
    <2>1. /\ UNCHANGED <<upload, object, doomed, crossed>>
          /\ \E n : room' = Clean([room.saved EXCEPT !.others = n])
      BY <1>2 DEF OtherFiles, memory
    <2>2. room'.saved.open = room.saved.open /\ room'.saved.mine = room.saved.mine
      BY <2>1, Versions DEF Clean, RoomValue, CInv, IInv
    <2> QED
      BY <2>1, <2>2, QuietMaps
  <1>3. CASE Day \/ \E r \in Requests : Fail(r)
    <2>1. /\ UNCHANGED <<object, doomed, crossed>>
          /\ upload'.saved = upload.saved /\ room'.saved = room.saved
      BY <1>3 DEF Day, Fail, RollbackAll, Rollback, Clean
    <2> QED
      BY <2>1, QuietMaps
  <1> QED
    BY <1>1, <1>2, <1>3

\* Every step of a session, aborts of what is given up included, is a step of
\* UploadContract or leaves it unchanged: the cases of Next.
LEMMA ContractStepMaps ==
    CInv /\ CInv' /\ AbortsGivenUp /\ [Next]_vars => [UC!Next]_contract
  <1> SUFFICES ASSUME CInv, CInv', AbortsGivenUp, [Next]_vars
               PROVE  [UC!Next]_contract
    OBVIOUS
  <1>1. CASE \E s \in Senders : ChunkBegin(s) \/ SendStep(s)
    BY <1>1, SendMaps
  <1>2. CASE \E c \in Completers : CompleteBegin(c) \/ CompleteStep(c)
    BY <1>2, CompleteMaps
  <1>3. CASE \/ \E a \in Aborters : AbortBegin(a)
             \/ \E e \in Expirers : ExpireBegin(e)
             \/ \E r \in Aborters \cup Expirers : AbandonStep(r)
    BY <1>3, AbandonMaps DEF AbortsGivenUp
  <1>4. CASE \E k \in Cleaners : CloseRoom(k) \/ CleanStep(k)
    BY <1>4, CleanMaps
  <1>5. CASE \/ \E w \in Sweepers : SweepStep(w)
             \/ OtherFiles \/ Day \/ \E r \in Requests : Fail(r)
    BY <1>5, RestMaps
  <1>6. CASE UNCHANGED vars
    BY <1>6 DEF vars, contract, contentShown, chargeShown
  <1> QED
    BY <1>1, <1>2, <1>3, <1>4, <1>5, <1>6 DEF Next, Serve

\* With one request to complete it and none to abort it, an upload session
\* implements UploadContract for any number of chunks, senders, jobs, teardowns
\* and scans, whichever of them fail between any two steps: its file appears
\* once, never in part, and is charged once; it goes with the room and its
\* charge; before that only a teardown that has begun, or the job for stale
\* sessions where it met the completion, can take the content.
THEOREM SessionKeepsContract ==
    ASSUME OneCompletion
    PROVE  Spec => ImplementsContract
  <1>1. Init => CInv
    BY ContractInit
  <1> OneCompleter /\ AbortsGivenUp
    BY DEF OneCompletion, AbortsGivenUp
  <1>2. CInv /\ [Next]_vars => CInv'
    BY ContractStep
  <1>3. Init => UC!Init
    BY ContractInitMaps
  <1>4. CInv /\ CInv' /\ [Next]_vars => [UC!Next]_contract
    BY ContractStepMaps
  <1> QED
    BY <1>1, <1>2, <1>3, <1>4, PTL DEF Spec, ImplementsContract, UC!Spec, contract
=============================================================================
