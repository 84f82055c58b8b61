--------------------------- MODULE RoomQuotaProofs ---------------------------
(***************************************************************************)
(* Why the quota counters of a room are those of its files, and why the    *)
(* requests then implement RoomContract.  The argument: who has changed    *)
(* the counters holds the lock of the room's row until its commit, and     *)
(* commits the file it counted with them; so the uncommitted counters are  *)
(* the committed ones and one file.  It needs that no file is deleted      *)
(* twice at once, which delete_file does not exclude.                      *)
(***************************************************************************)
EXTENDS RoomFilesProofs, FiniteSetTheorems

USE NamesAssumption DEF Requests, Cleaners

-----------------------------------------------------------------------------
(***************************************************************************)
(* The inductive invariant.                                                *)
(***************************************************************************)
\* No two requests delete the same file at once.
NoDoubleDelete ==
    \A d, e \in Deleters : target[d] = target[e] /\ target[d] \in Files => d = e

IsOpen == room.saved.status = "ACTIVE"

\* The committed counters of an open room.
Charges ==
    IsOpen =>
        /\ IsFiniteSet(Confirmed) /\ IsFiniteSet(CC!Contents(Confirmed))
        /\ room.saved.count = Cardinality(Confirmed)
        /\ room.saved.used = CC!Bytes(Confirmed)

\* The uncommitted counters of an upload: those it found, with room for its
\* file, and its file.
Claims ==
    \A f \in Files : pc[f] = "claimed" =>
        /\ ClaimHolds(room.saved, f)
        /\ room.draft = Charged(room.saved, f)

\* A deleter's file is there while the room is, and is the one it writes and
\* gives back.
Deletions ==
    \A d \in Deleters :
        /\ \A f \in Files : file[f].by = d => f = target[d] /\ file[f].draft = "DELETED"
        /\ IsOpen /\ pc[d] # "idle" => file[target[d]].saved = "CONFIRMED"
        /\ IsOpen /\ pc[d] \in {"marked", "uncharged", "removed"} => file[target[d]].by = d
        /\ pc[d] \in {"uncharged", "removed"} => room.draft = Uncharged(room.saved, target[d])

QInv == IInv /\ Charges /\ Claims /\ Deletions
-----------------------------------------------------------------------------
(***************************************************************************)
(* Counting files and bytes.                                               *)
(***************************************************************************)
\* RoomContract counts as this module does.
LEMMA SameCardinality == ASSUME NEW S PROVE CC!Cardinality(S) = Cardinality(S)
  BY DEF CC!Cardinality, Cardinality

LEMMA BytesCounted == ASSUME NEW S PROVE CC!Bytes(S) = Cardinality(CC!Contents(S))
  BY SameCardinality DEF CC!Bytes

\* One more file counts one more, and its bytes.
LEMMA CountAdded ==
    ASSUME NEW S, IsFiniteSet(S), IsFiniteSet(CC!Contents(S)),
           NEW f \in Files, f \notin S
    PROVE  /\ IsFiniteSet(S \cup {f}) /\ IsFiniteSet(CC!Contents(S \cup {f}))
           /\ Cardinality(S \cup {f}) = Cardinality(S) + 1
           /\ CC!Bytes(S \cup {f}) = CC!Bytes(S) + Size[f]
  <1> DEFINE own == {f} \X (1 .. Size[f])
  <1>1. IsFiniteSet(S \cup {f}) /\ Cardinality(S \cup {f}) = Cardinality(S) + 1
    BY FS_AddElement
  <1>2. Size[f] \in Nat
    BY LimitsAssumption
  <1>3. IsFiniteSet(1 .. Size[f]) /\ Cardinality(1 .. Size[f]) = Size[f]
    BY <1>2, FS_Interval
  <1>4. IsFiniteSet({f}) /\ Cardinality({f}) = 1
    BY FS_Singleton
  <1>5. IsFiniteSet(own) /\ Cardinality(own) = Size[f]
    <2>1. IsFiniteSet(own) /\ Cardinality(own) = Cardinality({f}) * Cardinality(1 .. Size[f])
      BY <1>3, <1>4, FS_Product
    <2> QED
      BY <1>2, <1>3, <1>4, <2>1
  <1>6. CC!Contents(S \cup {f}) = CC!Contents(S) \cup own
    BY DEF CC!Contents
  <1>7. CC!Contents(S) \cap own = {}
    BY DEF CC!Contents
  <1>8. Cardinality(CC!Contents(S)) \in Nat
    BY FS_CardinalityType
  <1>9. Cardinality(CC!Contents(S) \cap own) = 0
    BY <1>7, FS_EmptySet
  <1>10. /\ IsFiniteSet(CC!Contents(S) \cup own)
         /\ Cardinality(CC!Contents(S) \cup own)
               = Cardinality(CC!Contents(S)) + Cardinality(own)
    <2>1. /\ IsFiniteSet(CC!Contents(S) \cup own)
          /\ Cardinality(CC!Contents(S) \cup own)
                = Cardinality(CC!Contents(S)) + Cardinality(own)
                     - Cardinality(CC!Contents(S) \cap own)
      BY <1>5, FS_Union
    <2> QED
      BY <1>2, <1>5, <1>8, <1>9, <2>1
  <1> QED
    BY <1>1, <1>5, <1>6, <1>10, BytesCounted

\* One file less counts one less, without its bytes.
LEMMA CountRemoved ==
    ASSUME NEW S, IsFiniteSet(S), IsFiniteSet(CC!Contents(S)),
           NEW f \in Files, f \in S
    PROVE  /\ IsFiniteSet(S \ {f}) /\ IsFiniteSet(CC!Contents(S \ {f}))
           /\ Cardinality(S \ {f}) = Cardinality(S) - 1
           /\ CC!Bytes(S \ {f}) = CC!Bytes(S) - Size[f]
  <1>1. IsFiniteSet(S \ {f}) /\ Cardinality(S \ {f}) = Cardinality(S) - 1
    BY FS_RemoveElement
  <1>2. CC!Contents(S \ {f}) \in SUBSET CC!Contents(S)
    BY DEF CC!Contents
  <1>3. IsFiniteSet(CC!Contents(S \ {f}))
    BY <1>2, FS_Subset
  <1>4. (S \ {f}) \cup {f} = S /\ f \notin S \ {f}
    OBVIOUS
  <1>5. CC!Bytes(S) = CC!Bytes(S \ {f}) + Size[f]
    BY <1>1, <1>3, <1>4, CountAdded
  <1>6. Size[f] \in Nat /\ CC!Bytes(S \ {f}) \in Nat
    BY <1>3, FS_CardinalityType, LimitsAssumption, BytesCounted
  <1> QED
    BY <1>1, <1>3, <1>5, <1>6

\* Nothing counts nothing.
LEMMA CountNone ==
    /\ IsFiniteSet({}) /\ IsFiniteSet(CC!Contents({}))
    /\ Cardinality({}) = 0 /\ CC!Bytes({}) = 0
  <1>1. CC!Contents({}) = {}
    BY DEF CC!Contents
  <1> QED
    BY <1>1, FS_EmptySet, BytesCounted

-----------------------------------------------------------------------------
(***************************************************************************)
(* Steps that commit nothing.                                              *)
(***************************************************************************)
\* The counters of a room created by create_room are those of no files.
LEMMA QuotaInit == Init => QInv
  <1> SUFFICES ASSUME Init PROVE QInv
    OBVIOUS
  <1>1. Confirmed = {}
    BY DEF Init, Clean, Confirmed
  <1>2. room.saved.count = 0 /\ room.saved.used = 0
    BY DEF Init, Clean
  <1>3. Charges
    BY <1>1, <1>2, CountNone DEF Charges
  <1>4. \A r \in Requests : pc[r] = "idle"
    BY DEF Init
  <1>5. \A f \in Files : file[f].by = NoTx
    BY DEF Init, Clean
  <1>6. Claims
    BY <1>4 DEF Claims
  <1>7. Deletions
    BY <1>4, <1>5 DEF Deletions
  <1> QED
    BY <1>3, <1>6, <1>7, InitIInv DEF QInv

\* What is committed of the files makes the set of those that clients see.
LEMMA ChargesStay ==
    ASSUME Charges, room'.saved = room.saved,
           \A f \in Files : file'[f].saved = file[f].saved
    PROVE  Charges'
  <1>1. Confirmed' = Confirmed
    BY DEF Confirmed
  <1> QED
    BY <1>1 DEF Charges, IsOpen, CC!Contents, CC!Bytes

\* A step that leaves the rows alone and is none of a deletion's that count.
LEMMA RowsStay ==
    ASSUME QInv, UNCHANGED <<room, file, target>>,
           \A f \in Files : pc'[f] = "claimed" => pc[f] = "claimed",
           \A d \in Deleters :
              \/ pc'[d] = pc[d]
              \/ pc[d] = "uncharged" /\ pc'[d] = "removed"
    PROVE  Charges' /\ Claims' /\ Deletions'
  <1>1. Charges'
    BY ChargesStay DEF QInv
  <1>2. Claims'
    BY DEF QInv, Claims
  <1>3. Deletions'
    BY DEF QInv, Deletions, IsOpen
  <1> QED
    BY <1>1, <1>2, <1>3

\* Those steps of upload_file.
LEMMA UploadWaitsCharges ==
    ASSUME QInv, NEW f \in Files, UploadBegin(f) \/ UploadOrphaned(f) \/ UploadPut(f)
    PROVE  Charges' /\ Claims' /\ Deletions'
  <1>1. /\ UNCHANGED <<room, file, target>>
        /\ pc'[f] # "claimed"
        /\ \A r \in Requests \ {f} : pc'[r] = pc[r]
    BY DEF UploadBegin, UploadOrphaned, UploadPut, QInv, IInv, TypeOK
  <1> QED
    BY <1>1, RowsStay

\* Those steps of cleanup_room.
LEMMA CleanerWaitsCharges ==
    ASSUME QInv, NEW c \in Cleaners,
           \/ c \in Workers /\ JobBegin(c)
           \/ c \in OwnerDeletes /\ OwnerDeleteBegin(c)
           \/ WipeLost(c) \/ DeleteRows(c) \/ DeleteSessions(c)
           \/ \E f \in Files : RemoveObject(c, f)
    PROVE  Charges' /\ Claims' /\ Deletions'
  <1>1. /\ UNCHANGED <<room, file, target>>
        /\ \A r \in Requests \ {c} : pc'[r] = pc[r]
    BY DEF JobBegin, OwnerDeleteBegin, WipeLost, DeleteRows, DeleteSessions, RemoveObject,
           QInv, IInv, TypeOK
  <1> QED
    BY <1>1, RowsStay

\* A row that is inserted is nobody's to delete yet.
LEMMA UploadInsertCharges ==
    ASSUME QInv, NEW f \in Files, UploadInsert(f)
    PROVE  Charges' /\ Claims' /\ Deletions'
  <1>1. /\ pc'[f] = "streaming"
        /\ \A r \in Requests \ {f} : pc'[r] = pc[r]
        /\ UNCHANGED <<room, target>>
    BY DEF UploadInsert, QInv, IInv, TypeOK
  <1>2. /\ file'[f].saved = file[f].saved /\ file'[f].by = f
        /\ \A g \in Files \ {f} : file'[g] = file[g]
        /\ file[f].by \notin Deleters
    BY DEF UploadInsert, Write, QInv, IInv, TypeOK, FileLock
  <1>3. Charges'
    BY <1>1, <1>2, ChargesStay DEF QInv
  <1>4. Claims'
    BY <1>1 DEF QInv, Claims
  <1>5. \A d \in Deleters : pc[d] # "idle" => target[d] \in Files
    BY DEF QInv, IInv, TypeOK
  <1>6. Deletions'
    BY <1>1, <1>2, <1>5 DEF QInv, Deletions, IsOpen
  <1> QED
    BY <1>3, <1>4, <1>6

\* The charge of an upload is not committed, and is what its holder adds.
LEMMA ClaimQuotaCharges ==
    ASSUME QInv, NEW f \in Files, ClaimQuota(f)
    PROVE  Charges' /\ Claims' /\ Deletions'
  <1>1. /\ pc'[f] = "claimed"
        /\ \A r \in Requests \ {f} : pc'[r] = pc[r]
        /\ target' = target
    BY DEF ClaimQuota, QInv, IInv, TypeOK
  <1>2. /\ room.by = NoTx /\ room.draft = room.saved
        /\ ClaimHolds(room.saved, f)
        /\ \A r \in Requests : ~HoldsRoom(r)
    BY DEF ClaimQuota, Lockable, QInv, IInv, RoomLock, HoldsRoom
  <1>3. room'.saved = room.saved /\ room'.draft = Charged(room.saved, f)
    BY <1>2 DEF ClaimQuota, Write
  <1>4. /\ file'[f].saved = file[f].saved /\ file'[f].by = f /\ file[f].by = f
        /\ \A g \in Files \ {f} : file'[g] = file[g]
    BY DEF ClaimQuota, Write, QInv, IInv, TypeOK, FileLock
  <1>5. Charges'
    BY <1>3, <1>4, ChargesStay DEF QInv
  <1>6. Claims'
    BY <1>1, <1>2, <1>3 DEF Claims, HoldsRoom
  <1>7. \A d \in Deleters : pc[d] # "idle" => target[d] \in Files
    BY DEF QInv, IInv, TypeOK
  <1>8. Deletions'
    BY <1>1, <1>2, <1>3, <1>4, <1>7 DEF QInv, Deletions, IsOpen, HoldsRoom
  <1> QED
    BY <1>5, <1>6, <1>8

\* What the commit of an upload session changes: its row, which clients are not
\* shown.
LEMMA SessionCommitCounts ==
    ASSUME QInv, NEW f \in Files, SessionCommit(f)
    PROVE  /\ room' = room /\ Confirmed' = Confirmed
           /\ \A g \in Files \ {f} : file'[g] = file[g]
           /\ file'[f].by = NoTx /\ file[f].by = f
  <1>1. pc[f] = "streaming"
    BY DEF SessionCommit
  <1>2. room' = room
    BY <1>1 DEF SessionCommit, CommitAll, Commit, QInv, IInv, RoomLock, HoldsRoom
  <1>3. /\ file[f].by = f /\ file[f].draft = "PENDING" /\ file[f].saved = "ABSENT"
        /\ \A g \in Files \ {f} : file[g].by # f
    BY <1>1 DEF QInv, IInv, FileLock
  <1>4. file'[f] = Clean("PENDING") /\ \A g \in Files \ {f} : file'[g] = file[g]
    BY <1>3 DEF SessionCommit, CommitAll, Commit
  <1>5. file'[f].by = NoTx /\ file'[f].saved = "PENDING"
    BY <1>4 DEF Clean
  <1> QED
    BY <1>2, <1>3, <1>4, <1>5 DEF Confirmed

LEMMA SessionCommitCharges ==
    ASSUME QInv, NEW f \in Files, SessionCommit(f)
    PROVE  Charges' /\ Claims' /\ Deletions'
  <1>1. /\ room' = room /\ Confirmed' = Confirmed
        /\ \A g \in Files \ {f} : file'[g] = file[g]
        /\ file'[f].by = NoTx
    BY SessionCommitCounts
  <1>2. /\ pc[f] = "streaming" /\ pc'[f] = "open"
        /\ \A r \in Requests \ {f} : pc'[r] = pc[r]
        /\ UNCHANGED target
    BY DEF SessionCommit, QInv, IInv, TypeOK
  <1>3. Charges'
    BY <1>1 DEF QInv, Charges, IsOpen, CC!Contents, CC!Bytes
  <1>4. Claims'
    BY <1>1, <1>2 DEF QInv, Claims
  <1>5. \A d \in Deleters : pc[d] # "idle" => target[d] \in Files \ {f}
    BY <1>2 DEF QInv, IInv, TypeOK, Targets
  <1>6. Deletions'
    BY <1>1, <1>2, <1>5 DEF QInv, Deletions, IsOpen
  <1> QED
    BY <1>3, <1>4, <1>6

\* A deletion begins with a file that is there.
LEMMA DeleteBeginCharges ==
    ASSUME QInv, NEW d \in Deleters, NEW f \in Files, DeleteBegin(d, f)
    PROVE  Charges' /\ Claims' /\ Deletions'
  <1>1. /\ pc[d] = "idle" /\ pc'[d] = "found" /\ target'[d] = f
        /\ \A r \in Requests \ {d} : pc'[r] = pc[r]
        /\ \A e \in Deleters \ {d} : target'[e] = target[e]
        /\ UNCHANGED <<room, file>>
    BY DEF DeleteBegin, QInv, IInv, TypeOK
  <1>2. \A g \in Files : file[g].by # d
    BY <1>1 DEF QInv, IInv, FileLock
  <1>3. file[f].saved = "CONFIRMED"
    BY <1>2 DEF DeleteBegin, Sees
  <1>4. Charges'
    BY <1>1, ChargesStay DEF QInv
  <1>5. Claims'
    BY <1>1 DEF QInv, Claims
  <1>6. Deletions'
    BY <1>1, <1>2, <1>3 DEF QInv, Deletions, IsOpen
  <1> QED
    BY <1>4, <1>5, <1>6

\* Who marks a file in an open room finds its row, and locks it.
LEMMA DeleteMarkCharges ==
    ASSUME QInv, NEW d \in Deleters, DeleteMark(d)
    PROVE  Charges' /\ Claims' /\ Deletions'
  <1> DEFINE f == target[d]
  <1>1. /\ pc[d] = "found" /\ pc'[d] = "marked" /\ f \in Files
        /\ \A r \in Requests \ {d} : pc'[r] = pc[r]
        /\ UNCHANGED <<room, target>>
    BY DEF DeleteMark, QInv, IInv, TypeOK
  <1>2. \A g \in Files : file[g].by # d
    BY <1>1 DEF QInv, IInv, FileLock
  <1>3. Claims'
    BY <1>1 DEF QInv, Claims
  <1>4. \A e \in Deleters : pc[e] # "idle" => target[e] \in Files
    BY DEF QInv, IInv, TypeOK
  <1>5. CASE Sees(file[f], d) = "ABSENT" /\ UNCHANGED file
    <2>1. ~IsOpen
      BY <1>1, <1>2, <1>5 DEF Sees, QInv, Deletions
    <2>2. Charges'
      BY <1>1, <1>5, ChargesStay DEF QInv
    <2>3. Deletions'
      BY <1>1, <1>2, <1>5, <2>1 DEF QInv, Deletions, IsOpen
    <2> QED
      BY <1>3, <2>2, <2>3
  <1>6. CASE /\ Lockable(file[f], d)
             /\ file' = [file EXCEPT ![f] = Write(@, d, "DELETED")]
    <2>1. /\ file[f].by = NoTx
          /\ file'[f].by = d /\ file'[f].saved = file[f].saved /\ file'[f].draft = "DELETED"
          /\ \A g \in Files \ {f} : file'[g] = file[g]
      BY <1>1, <1>2, <1>6 DEF Lockable, Write, QInv, IInv, TypeOK
    <2>2. Charges'
      BY <1>1, <2>1, ChargesStay DEF QInv
    <2>3. Deletions'
      BY <1>1, <1>2, <1>4, <2>1 DEF QInv, Deletions, IsOpen
    <2> QED
      BY <1>3, <2>2, <2>3
  <1> QED
    BY <1>5, <1>6 DEF DeleteMark

\* What a deletion gives back is not committed, and is what its holder takes
\* from the counters.
LEMMA DeleteUnchargeCharges ==
    ASSUME QInv, NEW d \in Deleters, DeleteUncharge(d)
    PROVE  Charges' /\ Claims' /\ Deletions'
  <1>1. /\ pc[d] = "marked" /\ pc'[d] = "uncharged"
        /\ \A r \in Requests \ {d} : pc'[r] = pc[r]
        /\ UNCHANGED <<file, target>>
    BY DEF DeleteUncharge, QInv, IInv, TypeOK
  <1>2. /\ room.by = NoTx /\ room.draft = room.saved
        /\ \A r \in Requests : ~HoldsRoom(r)
    BY DEF DeleteUncharge, Lockable, QInv, IInv, RoomLock, HoldsRoom
  <1>3. room'.saved = room.saved /\ room'.draft = Uncharged(room.saved, target[d])
    BY <1>2 DEF DeleteUncharge, Write
  <1>4. Charges'
    BY <1>1, <1>3, ChargesStay DEF QInv
  <1>5. Claims'
    BY <1>1, <1>2, <1>3 DEF Claims, HoldsRoom
  <1>6. Deletions'
    BY <1>1, <1>2, <1>3 DEF QInv, Deletions, IsOpen, HoldsRoom
  <1> QED
    BY <1>4, <1>5, <1>6

\* A transition of the room's status, which no upload and no deletion has
\* locked.
LEMMA MarkRoomCharges ==
    ASSUME QInv, NEW c \in Cleaners, MarkExpired(c) \/ MarkDeleting(c) \/ MarkDeleted(c)
    PROVE  Charges' /\ Claims' /\ Deletions'
  <1>1. /\ \A r \in Requests \ {c} : pc'[r] = pc[r]
        /\ UNCHANGED <<file, target>>
    BY DEF MarkExpired, MarkDeleting, MarkDeleted, QInv, IInv, TypeOK
  <1>2. room.by \in {NoTx, c} /\ room'.saved = room.saved
    BY DEF MarkExpired, MarkDeleting, MarkDeleted, MarkRoom, Lockable, Write
  <1>3. \A r \in Requests \ {c} : ~HoldsRoom(r)
    BY <1>2 DEF QInv, IInv, RoomLock
  <1>4. Charges'
    BY <1>1, <1>2, ChargesStay DEF QInv
  <1>5. Claims'
    BY <1>1, <1>3 DEF Claims, HoldsRoom
  <1>6. Deletions'
    BY <1>1, <1>2, <1>3 DEF QInv, Deletions, IsOpen, HoldsRoom
  <1> QED
    BY <1>4, <1>5, <1>6

\* delete_file_records waits for the rows that deleters have locked.
LEMMA DeleteRowCharges ==
    ASSUME QInv, NEW c \in Cleaners, NEW f \in Files, DeleteRow(c, f)
    PROVE  Charges' /\ Claims' /\ Deletions'
  <1>1. UNCHANGED <<room, pc, target>>
    BY DEF DeleteRow
  <1>2. /\ file[f].by \in {NoTx, c}
        /\ file'[f].by = c /\ file'[f].saved = file[f].saved
        /\ \A g \in Files \ {f} : file'[g] = file[g]
    BY DEF DeleteRow, Lockable, Write, QInv, IInv, TypeOK
  <1>3. Charges'
    BY <1>1, <1>2, ChargesStay DEF QInv
  <1>4. Claims'
    BY <1>1 DEF QInv, Claims
  <1>5. \A d \in Deleters : pc[d] # "idle" => target[d] \in Files
    BY DEF QInv, IInv, TypeOK
  <1>6. Deletions'
    BY <1>1, <1>2, <1>5 DEF QInv, Deletions, IsOpen
  <1> QED
    BY <1>3, <1>4, <1>6

\* A rollback takes the lock of the room's row and the counters with it.
LEMMA RollbackCharges ==
    ASSUME QInv, NEW r \in Requests, RollbackAll(r),
           \A q \in Requests \ {r} : pc'[q] = pc[q],
           pc'[r] # "claimed", r \in Deleters => pc'[r] = "idle",
           \A d \in Deleters \ {r} : target'[d] = target[d]
    PROVE  Charges' /\ Claims' /\ Deletions'
  <1>1. /\ room'.saved = room.saved
        /\ room.by # r => room' = room
        /\ \A f \in Files : /\ file'[f].saved = file[f].saved
                            /\ file[f].by = r => file'[f] = Clean(file[f].saved)
                            /\ file[f].by # r => file'[f] = file[f]
    BY ReleasedByRollback DEF QInv
  <1>2. \A f \in Files : file[f].by = r => file'[f].by = NoTx
    <2> TAKE f \in Files
    <2> HAVE file[f].by = r
    <2>1. file'[f] = Clean(file[f].saved)
      BY <1>1
    <2> QED
      BY <2>1 DEF Clean
  <1>3. Charges'
    BY <1>1, ChargesStay DEF QInv
  <1>4. \A q \in Requests \ {r} : HoldsRoom(q) => room' = room
    BY <1>1 DEF QInv, IInv, RoomLock
  <1>5. Claims'
    BY <1>4 DEF QInv, Claims, HoldsRoom
  <1>6. \A d \in Deleters : pc[d] # "idle" => target[d] \in Files
    BY DEF QInv, IInv, TypeOK
  <1>7. ASSUME NEW d \in Deleters \ {r}
        PROVE  /\ \A f \in Files : file'[f].by = d => f = target'[d] /\ file'[f].draft = "DELETED"
               /\ IsOpen' /\ pc'[d] # "idle" => file'[target'[d]].saved = "CONFIRMED"
               /\ IsOpen' /\ pc'[d] \in {"marked", "uncharged", "removed"}
                     => file'[target'[d]].by = d
               /\ pc'[d] \in {"uncharged", "removed"}
                     => room'.draft = Uncharged(room'.saved, target'[d])
    <2>1. pc'[d] = pc[d] /\ target'[d] = target[d] /\ IsOpen' = IsOpen
      BY <1>1 DEF IsOpen
    <2>2. \A f \in Files : file'[f].by = d <=> file[f].by = d
      BY <1>1, <1>2
    <2>3. \A f \in Files : file[f].by = d => file'[f] = file[f]
      BY <1>1
    <2>4. pc[d] \in {"uncharged", "removed"} => room' = room
      BY <1>4 DEF HoldsRoom
    <2> QED
      BY <1>1, <1>6, <2>1, <2>2, <2>3, <2>4 DEF QInv, Deletions
  <1>8. \A f \in Files : file'[f].by # r
    BY <1>1, <1>2
  <1>9. Deletions'
    BY <1>7, <1>8 DEF Deletions
  <1> QED
    BY <1>3, <1>5, <1>9

\* An upload that fails is not charged.
LEMMA CleanupFailedUploadCharges ==
    ASSUME QInv, NEW f \in Files, CleanupFailedUpload(f)
    PROVE  Charges' /\ Claims' /\ Deletions'
  <1>1. /\ pc'[f] = "failed" /\ RollbackAll(f)
        /\ \A r \in Requests \ {f} : pc'[r] = pc[r]
        /\ UNCHANGED target
    BY DEF CleanupFailedUpload, QInv, IInv, TypeOK
  <1> QED
    BY <1>1, RollbackCharges

\* A request that breaks off leaves the counters as it found them.
LEMMA AbortCharges ==
    ASSUME QInv, NEW r \in Requests, Abort(r)
    PROVE  Charges' /\ Claims' /\ Deletions'
  <1>1. /\ pc'[r] \in {"failed", "over", "idle"}
        /\ r \in Deleters => pc'[r] = "idle"
        /\ \A s \in Requests \ {r} : pc'[s] = pc[s]
        /\ \A d \in Deleters \ {r} : target'[d] = target[d]
        /\ RollbackAll(r)
    BY DEF Abort, QInv, IInv, TypeOK
  <1> QED
    BY <1>1, RollbackCharges

-----------------------------------------------------------------------------
(***************************************************************************)
(* Steps that commit.                                                      *)
(***************************************************************************)
\* What the commit of an upload changes: one file more, and its charge.
LEMMA UploadCommitCounts ==
    ASSUME QInv, NEW f \in Files, UploadCommit(f)
    PROVE  /\ IsOpen /\ IsOpen' /\ f \notin Confirmed
           /\ Confirmed' = Confirmed \cup {f}
           /\ ClaimHolds(room.saved, f)
           /\ room'.saved = Charged(room.saved, f)
           /\ \A r \in Requests : HoldsRoom(r) => r = f
           /\ \A g \in Files \ {f} : file'[g] = file[g]
           /\ file'[f].by = NoTx /\ file'[f].saved = "CONFIRMED"
  <1>1. pc[f] = "claimed"
    BY DEF UploadCommit
  <1>2. /\ room.by = f /\ IsOpen
        /\ \A r \in Requests : HoldsRoom(r) => r = f
    BY <1>1 DEF QInv, IInv, RoomLock, RoomStatusInv, HoldsRoom, IsOpen
  <1>3. ClaimHolds(room.saved, f) /\ room.draft = Charged(room.saved, f)
    BY <1>1 DEF QInv, Claims
  <1>4. room' = Clean(room.draft)
    BY <1>2 DEF UploadCommit, CommitAll, Commit
  <1>5. room'.saved = Charged(room.saved, f) /\ IsOpen'
    BY <1>2, <1>3, <1>4 DEF Clean, Charged, IsOpen
  <1>6. \A g \in Files : file[g].by = f <=> g = f
    BY <1>1 DEF QInv, IInv, FileLock
  <1>7. file[f].saved = "ABSENT" /\ file[f].draft = "CONFIRMED"
    BY <1>1 DEF QInv, IInv, FileLock
  <1>8. file'[f] = Clean("CONFIRMED") /\ \A g \in Files \ {f} : file'[g] = file[g]
    BY <1>6, <1>7 DEF UploadCommit, CommitAll, Commit
  <1>9. file'[f].by = NoTx /\ file'[f].saved = "CONFIRMED"
    BY <1>8 DEF Clean
  <1>10. Confirmed' = Confirmed \cup {f} /\ f \notin Confirmed
    BY <1>7, <1>8, <1>9 DEF Confirmed
  <1> QED
    BY <1>2, <1>3, <1>5, <1>8, <1>9, <1>10

LEMMA UploadCommitCharges ==
    ASSUME QInv, NEW f \in Files, UploadCommit(f)
    PROVE  Charges' /\ Claims' /\ Deletions'
  <1>1. /\ IsOpen /\ f \notin Confirmed
        /\ Confirmed' = Confirmed \cup {f}
        /\ room'.saved = Charged(room.saved, f)
        /\ \A r \in Requests : HoldsRoom(r) => r = f
        /\ \A g \in Files \ {f} : file'[g] = file[g]
        /\ file'[f].by = NoTx /\ file'[f].saved = "CONFIRMED"
    BY UploadCommitCounts
  <1>2. /\ pc'[f] = "done" /\ \A r \in Requests \ {f} : pc'[r] = pc[r]
        /\ UNCHANGED target
    BY DEF UploadCommit, QInv, IInv, TypeOK
  <1>3. /\ room'.saved.count = room.saved.count + 1
        /\ room'.saved.used = room.saved.used + Size[f]
    BY <1>1 DEF Charged
  <1>4. /\ IsFiniteSet(Confirmed) /\ IsFiniteSet(CC!Contents(Confirmed))
        /\ room.saved.count = Cardinality(Confirmed)
        /\ room.saved.used = CC!Bytes(Confirmed)
    BY <1>1 DEF QInv, Charges
  <1>5. /\ IsFiniteSet(Confirmed \cup {f}) /\ IsFiniteSet(CC!Contents(Confirmed \cup {f}))
        /\ Cardinality(Confirmed \cup {f}) = Cardinality(Confirmed) + 1
        /\ CC!Bytes(Confirmed \cup {f}) = CC!Bytes(Confirmed) + Size[f]
    BY <1>1, <1>4, CountAdded
  <1>6. /\ IsFiniteSet(Confirmed') /\ IsFiniteSet(CC!Contents(Confirmed'))
        /\ room'.saved.count = Cardinality(Confirmed')
        /\ room'.saved.used = CC!Bytes(Confirmed')
    BY <1>1, <1>3, <1>4, <1>5
  <1>7. Charges'
    BY <1>6 DEF Charges, CC!Contents, CC!Bytes
  <1>8. Claims'
    BY <1>1, <1>2 DEF Claims, HoldsRoom
  <1>9. \A d \in Deleters : pc[d] # "idle" => target[d] \in Files
    BY DEF QInv, IInv, TypeOK
  <1>10. file[f].by = f
    BY DEF UploadCommit, QInv, IInv, FileLock
  <1>11. Deletions'
    BY <1>1, <1>2, <1>9, <1>10 DEF QInv, Deletions, HoldsRoom, Confirmed
  <1> QED
    BY <1>7, <1>8, <1>11

\* What the commit of a deletion changes in an open room: one file less, and
\* what was charged for it.
LEMMA DeleteCommitCounts ==
    ASSUME QInv, NEW d \in Deleters, DeleteCommit(d)
    PROVE  /\ IsOpen' = IsOpen /\ target[d] \in Files
           /\ room'.saved = Uncharged(room.saved, target[d])
           /\ \A r \in Requests : HoldsRoom(r) => r = d
           /\ \A g \in Files \ {target[d]} : file'[g] = file[g]
           /\ file'[target[d]].by # d
           /\ file[target[d]].by # d => file'[target[d]] = file[target[d]]
           /\ IsOpen => /\ target[d] \in Confirmed
                        /\ Confirmed' = Confirmed \ {target[d]}
           /\ ~IsOpen => Confirmed' = Confirmed
  <1> DEFINE f == target[d]
  <1>1. pc[d] = "removed" /\ f \in Files
    BY DEF DeleteCommit, QInv, IInv, TypeOK
  <1>2. /\ room.by = d /\ room.draft.status = room.saved.status
        /\ \A r \in Requests : HoldsRoom(r) => r = d
    BY <1>1 DEF QInv, IInv, RoomLock, RoomStatusInv, HoldsRoom
  <1>3. room.draft = Uncharged(room.saved, f)
    BY <1>1 DEF QInv, Deletions
  <1>4. room' = Clean(room.draft)
    BY <1>2 DEF DeleteCommit, CommitAll, Commit
  <1>5. room'.saved = Uncharged(room.saved, f) /\ IsOpen' = IsOpen
    BY <1>2, <1>3, <1>4 DEF Clean, IsOpen
  <1>6. \A g \in Files : file[g].by = d => g = f /\ file[g].draft = "DELETED"
    BY DEF QInv, Deletions
  <1>7. \A g \in Files : /\ file[g].by = d => file'[g] = Clean(file[g].draft)
                         /\ file[g].by # d => file'[g] = file[g]
    BY DEF DeleteCommit, CommitAll, Commit
  <1>8. file[f].by = d => file'[f].by = NoTx /\ file'[f].saved = "DELETED"
    <2> HAVE file[f].by = d
    <2>1. file'[f] = Clean("DELETED")
      BY <1>1, <1>6, <1>7
    <2> QED
      BY <2>1 DEF Clean
  <1>9. file'[f].by # d
    BY <1>1, <1>7, <1>8
  <1>10. IsOpen => file[f].by = d /\ file[f].saved = "CONFIRMED"
    BY <1>1 DEF QInv, Deletions
  <1>11. IsOpen => f \in Confirmed /\ Confirmed' = Confirmed \ {f}
    BY <1>1, <1>6, <1>7, <1>8, <1>10 DEF Confirmed
  <1>12. ~IsOpen => Confirmed' = Confirmed
    <2> HAVE ~IsOpen
    <2>1. room.saved.status = "DELETED"
      BY DEF QInv, IInv, RoomStatusInv, IsOpen
    <2>2. file[f].by # d
      BY <1>1, <2>1 DEF QInv, IInv, Wiped, Answered, FileLock
    <2> QED
      BY <1>6, <1>7, <2>2 DEF Confirmed
  <1> QED
    BY <1>1, <1>2, <1>5, <1>6, <1>7, <1>9, <1>11, <1>12

\* Nobody else is deleting that file.
LEMMA DeleteCommitCharges ==
    ASSUME QInv, NoDoubleDelete, NEW d \in Deleters, DeleteCommit(d)
    PROVE  Charges' /\ Claims' /\ Deletions'
  <1> DEFINE f == target[d]
  <1>1. /\ IsOpen' = IsOpen /\ f \in Files
        /\ room'.saved = Uncharged(room.saved, f)
        /\ \A r \in Requests : HoldsRoom(r) => r = d
        /\ \A g \in Files \ {f} : file'[g] = file[g]
        /\ file'[f].by # d
        /\ file[f].by # d => file'[f] = file[f]
        /\ IsOpen => f \in Confirmed /\ Confirmed' = Confirmed \ {f}
    BY DeleteCommitCounts
  <1>2. /\ pc'[d] = "idle" /\ \A r \in Requests \ {d} : pc'[r] = pc[r]
        /\ \A e \in Deleters \ {d} : target'[e] = target[e]
    BY DEF DeleteCommit, QInv, IInv, TypeOK
  <1>3. Charges'
    <2> SUFFICES ASSUME IsOpen
                 PROVE  /\ IsFiniteSet(Confirmed') /\ IsFiniteSet(CC!Contents(Confirmed'))
                        /\ room'.saved.count = Cardinality(Confirmed')
                        /\ room'.saved.used = CC!Bytes(Confirmed')
      BY <1>1 DEF Charges, CC!Contents, CC!Bytes
    <2>1. /\ room'.saved.count = room.saved.count - 1
          /\ room'.saved.used = room.saved.used - Size[f]
      BY <1>1 DEF Uncharged
    <2>2. /\ IsFiniteSet(Confirmed) /\ IsFiniteSet(CC!Contents(Confirmed))
          /\ room.saved.count = Cardinality(Confirmed)
          /\ room.saved.used = CC!Bytes(Confirmed)
      BY DEF QInv, Charges
    <2>3. /\ IsFiniteSet(Confirmed \ {f}) /\ IsFiniteSet(CC!Contents(Confirmed \ {f}))
          /\ Cardinality(Confirmed \ {f}) = Cardinality(Confirmed) - 1
          /\ CC!Bytes(Confirmed \ {f}) = CC!Bytes(Confirmed) - Size[f]
      BY <1>1, <2>2, CountRemoved
    <2> QED
      BY <1>1, <2>1, <2>2, <2>3
  <1>4. Claims'
    BY <1>1, <1>2 DEF Claims, HoldsRoom
  <1>5. \A e \in Deleters \ {d} : pc[e] # "idle" => target[e] \in Files \ {f}
    BY <1>1 DEF QInv, IInv, TypeOK, NoDoubleDelete
  <1>6. \A g \in Files : file'[g].by # d
    BY <1>1 DEF QInv, Deletions
  <1>7. \A e \in Deleters \ {d}, g \in Files : file'[g].by = e => file[g].by = e /\ file'[g] = file[g]
    <2> TAKE e \in Deleters \ {d}, g \in Files
    <2> HAVE file'[g].by = e
    <2>1. file[g].by = d => file'[g].by = NoTx
      BY DEF DeleteCommit, CommitAll, Commit, Clean
    <2> QED
      BY <1>1, <2>1
  <1>8. Deletions'
    BY <1>1, <1>2, <1>5, <1>6, <1>7 DEF QInv, Deletions, HoldsRoom
  <1> QED
    BY <1>3, <1>4, <1>8

\* A teardown closes the room.
LEMMA WipeCommitCharges ==
    ASSUME QInv, NEW c \in Cleaners, WipeCommit(c)
    PROVE  /\ Charges' /\ Claims' /\ Deletions'
           /\ IsOpen /\ ~IsOpen' /\ Confirmed' = {}
  <1>1. /\ pc[c] = "emptied"
        /\ \A r \in Requests \ {c} : pc'[r] = pc[r]
        /\ UNCHANGED target
    BY DEF WipeCommit, QInv, IInv, TypeOK
  <1>2. /\ room.by = c /\ IsOpen /\ room.draft.status = "DELETED"
        /\ \A r \in Requests : HoldsRoom(r) => r = c
    BY <1>1 DEF QInv, IInv, RoomLock, RoomStatusInv, HoldsRoom, IsOpen
  <1>3. ~IsOpen' /\ room'.saved.status = "DELETED"
    BY <1>2 DEF WipeCommit, CommitAll, Commit, Clean, IsOpen
  <1>4. \A f \in Files : file'[f] = file[f] \/ file'[f].by = NoTx
    BY DEF WipeCommit, CommitAll, Commit, Clean
  <1>5. Charges' /\ Claims'
    BY <1>1, <1>2, <1>3 DEF Charges, Claims, HoldsRoom
  <1>6. \A d \in Deleters : pc'[d] \notin {"uncharged", "removed"}
    BY <1>1, <1>2 DEF HoldsRoom
  <1>7. \A f \in Files, d \in Deleters : file'[f].by = d => file'[f] = file[f]
    BY <1>4
  <1>8. Deletions'
    BY <1>1, <1>3, <1>6, <1>7 DEF QInv, Deletions
  <1>9. Wiped' /\ FileLock'
    BY WipeCommitIInv DEF QInv
  <1>10. Confirmed' = {}
    BY <1>3, <1>9 DEF Wiped, Answered, FileLock, Confirmed
  <1> QED
    BY <1>2, <1>3, <1>5, <1>8, <1>10

-----------------------------------------------------------------------------
(***************************************************************************)
(* Every step.                                                             *)
(***************************************************************************)
\* Every step of upload_file keeps the counters right.
LEMMA UploadCharges ==
    ASSUME QInv, NEW f \in Files, UploadStep(f)
    PROVE  Charges' /\ Claims' /\ Deletions'
  BY UploadWaitsCharges, UploadInsertCharges, SessionCommitCharges,
     CleanupFailedUploadCharges, ClaimQuotaCharges, UploadCommitCharges
  DEF UploadStep, UploadPutFails, ClaimRefused

\* So does every step of delete_file.
LEMMA DeleteCharges ==
    ASSUME QInv, NoDoubleDelete, NEW d \in Deleters,
           DeleteServed(d) \/ \E f \in Files : DeleteBegin(d, f)
    PROVE  Charges' /\ Claims' /\ Deletions'
  <1>1. CASE DeleteObject(d)
    <2>1. /\ UNCHANGED <<room, file, target>>
          /\ pc[d] = "uncharged" /\ pc'[d] = "removed"
          /\ \A r \in Requests \ {d} : pc'[r] = pc[r]
      BY <1>1 DEF DeleteObject, QInv, IInv, TypeOK
    <2> QED
      BY <2>1, RowsStay
  <1> QED
    BY <1>1, DeleteBeginCharges, DeleteMarkCharges, DeleteUnchargeCharges,
       DeleteCommitCharges
    DEF DeleteServed

\* So does every step of cleanup_room.
LEMMA CleanerCharges ==
    ASSUME QInv, NEW c \in Cleaners, CleanerStep(c)
    PROVE  Charges' /\ Claims' /\ Deletions'
  BY CleanerWaitsCharges, MarkRoomCharges, DeleteRowCharges, WipeCommitCharges
  DEF CleanerStep

\* The cases of Next.
LEMMA QuotaStep == QInv /\ NoDoubleDelete /\ [Next]_vars => QInv'
  <1> SUFFICES ASSUME QInv, NoDoubleDelete, [Next]_vars PROVE QInv'
    OBVIOUS
  <1>0. IInv'
    BY StepIInv DEF QInv
  <1> SUFFICES Charges' /\ Claims' /\ Deletions'
    BY <1>0 DEF QInv
  <1>1. CASE \E f \in Files : UploadStep(f)
    BY <1>1, UploadCharges
  <1>2. CASE \E d \in Deleters : DeleteServed(d) \/ \E f \in Files : DeleteBegin(d, f)
    BY <1>2, DeleteCharges
  <1>3. CASE \/ \E w \in Workers : JobBegin(w)
             \/ \E o \in OwnerDeletes : OwnerDeleteBegin(o)
    BY <1>3, CleanerWaitsCharges
  <1>4. CASE \E c \in Cleaners : CleanerStep(c)
    BY <1>4, CleanerCharges
  <1>5. CASE \E r \in Requests : Fail(r) \/ DeadlockVictim(r)
    BY <1>5, AbortCharges DEF Fail, DeadlockVictim
  <1>6. CASE \/ Expire \/ UNCHANGED vars
             \/ \E f \in Files : ScanOrphan(f) \/ SweepOrphan(f)
    <2>1. UNCHANGED <<room, file, target, pc>>
      BY <1>6 DEF Expire, ScanOrphan, SweepOrphan, vars
    <2> QED
      BY <2>1, RowsStay
  <1> QED
    BY <1>1, <1>2, <1>3, <1>4, <1>5, <1>6 DEF Next

\* The invariant holds as long as no file is deleted twice at once.
LEMMA QuotaInvariant == Spec /\ []NoDoubleDelete => []QInv
  BY QuotaInit, QuotaStep, PTL DEF Spec

\* While no two requests delete one file at once the quota counters of an open
\* room are those of its files, whatever uploads, deletions of other files and
\* teardowns run and whoever breaks off: a failed upload is not charged, and a
\* deleted file is given back once.
THEOREM CountersAreExact == Spec /\ []NoDoubleDelete => []ChargesMatchFiles
  <1>1. QInv => ChargesMatchFiles
    BY DEF QInv, Charges, IsOpen, ChargesMatchFiles
  <1> QED
    BY <1>1, QuotaInvariant, PTL

-----------------------------------------------------------------------------
(***************************************************************************)
(* RoomContract.                                                           *)
(***************************************************************************)
\* The one way for a request to change what others see of the rooms' and the
\* files' rows is to commit.
LEMMA OthersSeeCommits ==
    ASSUME QInv, [Next]_vars,
           \A f \in Files : ~UploadCommit(f),
           \A d \in Deleters : ~DeleteCommit(d),
           \A c \in Cleaners : ~WipeCommit(c)
    PROVE  IsOpen' = IsOpen /\ Confirmed' = Confirmed
  <1> DEFINE Still == /\ room'.saved = room.saved
                      /\ \A f \in Files : file'[f].saved = file[f].saved
  <1>0. ASSUME Still PROVE IsOpen' = IsOpen /\ Confirmed' = Confirmed
    BY <1>0 DEF IsOpen, Confirmed
  <1>01. CASE \E f \in Files : SessionCommit(f)
    BY <1>01, SessionCommitCounts DEF IsOpen
  <1> SUFFICES ASSUME \A f \in Files : ~SessionCommit(f) PROVE Still
    BY <1>0, <1>01
  <1>1. ASSUME NEW r \in Requests, RollbackAll(r) PROVE Still
    BY <1>1, ReleasedByRollback DEF QInv
  <1>2. CASE \E f \in Files : UploadStep(f)
    <2>1. PICK f \in Files : UploadStep(f)
      BY <1>2
    <2>2. CASE CleanupFailedUpload(f)
      BY <1>1, <2>2 DEF CleanupFailedUpload
    <2>3. CASE UploadBegin(f) \/ UploadOrphaned(f) \/ UploadPut(f)
      BY <2>3 DEF UploadBegin, UploadOrphaned, UploadPut
    <2>4. CASE UploadInsert(f)
      BY <2>4 DEF UploadInsert, Write, QInv, IInv, TypeOK
    <2>5. CASE ClaimQuota(f)
      BY <2>5 DEF ClaimQuota, Write, QInv, IInv, TypeOK
    <2> QED
      BY <2>1, <2>2, <2>3, <2>4, <2>5 DEF UploadStep, UploadPutFails, ClaimRefused
  <1>3. CASE \E d \in Deleters : DeleteServed(d) \/ \E f \in Files : DeleteBegin(d, f)
    <2>1. PICK d \in Deleters : DeleteServed(d) \/ \E f \in Files : DeleteBegin(d, f)
      BY <1>3
    <2>2. CASE DeleteMark(d)
      <3>1. target[d] \in Files
        BY <2>2 DEF DeleteMark, QInv, IInv, TypeOK
      <3> QED
        BY <2>2, <3>1 DEF DeleteMark, Write, QInv, IInv, TypeOK
    <2>3. CASE DeleteUncharge(d)
      BY <2>3 DEF DeleteUncharge, Write
    <2>4. CASE DeleteObject(d) \/ \E f \in Files : DeleteBegin(d, f)
      BY <2>4 DEF DeleteObject, DeleteBegin
    <2> QED
      BY <2>1, <2>2, <2>3, <2>4 DEF DeleteServed
  <1>4. CASE \/ \E w \in Workers : JobBegin(w)
             \/ \E o \in OwnerDeletes : OwnerDeleteBegin(o)
    BY <1>4 DEF JobBegin, OwnerDeleteBegin
  <1>5. CASE \E c \in Cleaners : CleanerStep(c)
    <2>1. PICK c \in Cleaners : CleanerStep(c)
      BY <1>5
    <2>2. CASE MarkExpired(c) \/ MarkDeleting(c) \/ MarkDeleted(c)
      BY <2>2 DEF MarkExpired, MarkDeleting, MarkDeleted, MarkRoom, Write
    <2>3. CASE \E f \in Files : DeleteRow(c, f)
      BY <2>3 DEF DeleteRow, Write, QInv, IInv, TypeOK
    <2>4. CASE \/ WipeLost(c) \/ DeleteRows(c) \/ DeleteSessions(c)
               \/ \E f \in Files : RemoveObject(c, f)
      BY <2>4 DEF WipeLost, DeleteRows, DeleteSessions, RemoveObject
    <2> QED
      BY <2>1, <2>2, <2>3, <2>4 DEF CleanerStep
  <1>6. CASE \E r \in Requests : Fail(r) \/ DeadlockVictim(r)
    BY <1>1, <1>6 DEF Fail, DeadlockVictim, Abort
  <1>7. CASE \/ Expire \/ UNCHANGED vars
             \/ \E f \in Files : ScanOrphan(f) \/ SweepOrphan(f)
    BY <1>7 DEF Expire, ScanOrphan, SweepOrphan, vars
  <1> QED
    BY <1>2, <1>3, <1>4, <1>5, <1>6, <1>7 DEF Next

\* What clients see of the room: RoomContract's state.
shown == <<room.saved.status = "ACTIVE", {f \in Files : file[f].saved = "CONFIRMED"}>>

\* Every step is a step of RoomContract or shows nothing: the three commits.
LEMMA QuotaStepMaps == QInv /\ [Next]_vars => [CC!Next]_shown
  <1> SUFFICES ASSUME QInv, [Next]_vars PROVE [CC!Next]_shown
    OBVIOUS
  <1>1. CASE \E f \in Files : UploadCommit(f)
    <2>1. PICK f \in Files : UploadCommit(f)
      BY <1>1
    <2>2. /\ IsOpen /\ IsOpen' /\ f \notin Confirmed
          /\ Confirmed' = Confirmed \cup {f}
          /\ ClaimHolds(room.saved, f)
      BY <2>1, UploadCommitCounts
    <2>3. /\ IsFiniteSet(Confirmed) /\ IsFiniteSet(CC!Contents(Confirmed))
          /\ room.saved.count = Cardinality(Confirmed)
          /\ room.saved.used = CC!Bytes(Confirmed)
      BY <2>2 DEF QInv, Charges
    <2>4. /\ Cardinality(Confirmed \cup {f}) = Cardinality(Confirmed) + 1
          /\ CC!Bytes(Confirmed \cup {f}) = CC!Bytes(Confirmed) + Size[f]
      BY <2>2, <2>3, CountAdded
    <2>5. Cardinality(Confirmed) \in Nat
      BY <2>3, FS_CardinalityType
    <2>6. CC!Cardinality(Confirmed \cup {f}) <= MaxFiles
      BY <2>2, <2>3, <2>4, <2>5, SameCardinality, LimitsAssumption DEF ClaimHolds
    <2>7. CC!Fits(Confirmed \cup {f})
      BY <2>2, <2>3, <2>4, <2>6 DEF CC!Fits, ClaimHolds
    <2>8. CC!Add(f)
      BY <2>2, <2>7 DEF CC!Add, IsOpen, Confirmed
    <2> QED
      BY <2>8 DEF CC!Next
  <1>2. CASE \E d \in Deleters : DeleteCommit(d)
    <2>1. PICK d \in Deleters : DeleteCommit(d)
      BY <1>2
    <2>2. /\ IsOpen' = IsOpen /\ target[d] \in Files
          /\ IsOpen => /\ target[d] \in Confirmed
                       /\ Confirmed' = Confirmed \ {target[d]}
          /\ ~IsOpen => Confirmed' = Confirmed
      BY <2>1, DeleteCommitCounts
    <2>3. CASE IsOpen
      <3>1. PICK f \in Files : f = target[d]
        BY <2>2
      <3>2. CC!Remove(f)
        BY <2>2, <2>3, <3>1 DEF CC!Remove, IsOpen, Confirmed
      <3> QED
        BY <3>2 DEF CC!Next
    <2>4. CASE ~IsOpen
      BY <2>2, <2>4 DEF shown, IsOpen, Confirmed
    <2> QED
      BY <2>3, <2>4
  <1>3. CASE \E c \in Cleaners : WipeCommit(c)
    <2>1. IsOpen /\ ~IsOpen' /\ Confirmed' = {}
      BY <1>3, WipeCommitCharges
    <2>2. CC!Close
      BY <2>1 DEF CC!Close, IsOpen, Confirmed
    <2> QED
      BY <2>2 DEF CC!Next
  <1>4. CASE /\ \A f \in Files : ~UploadCommit(f)
             /\ \A d \in Deleters : ~DeleteCommit(d)
             /\ \A c \in Cleaners : ~WipeCommit(c)
    BY <1>4, OthersSeeCommits DEF shown, IsOpen, Confirmed
  <1> QED
    BY <1>1, <1>2, <1>3, <1>4

\* While no two requests delete one file at once the requests implement
\* RoomContract, for any number of them: each file appears and goes in one
\* step, within the room's limits, and the room closes once, with all of them.
THEOREM RoomKeepsContract == Spec /\ []NoDoubleDelete => ImplementsContract
  <1>1. Init => CC!Init
    BY DEF Init, Clean, CC!Init
  <1>2. QInv /\ [Next]_vars => [CC!Next]_shown
    BY QuotaStepMaps
  <1> QED
    BY <1>1, <1>2, QuotaInvariant, PTL DEF Spec, ImplementsContract, CC!Spec, shown

\* So a room never shows more files or bytes than its limits allow; where
\* FilesWithinLimits fails, a file was deleted twice at once.
THEOREM LimitsHold == Spec /\ []NoDoubleDelete => []FilesWithinLimits
  <1>1. Init => FilesWithinLimits
    <2> SUFFICES ASSUME Init PROVE FilesWithinLimits
      OBVIOUS
    <2>1. Confirmed = {}
      BY DEF Init, Clean, Confirmed
    <2> QED
      BY <2>1, CountNone, SameCardinality, LimitsAssumption DEF FilesWithinLimits, CC!Fits
  <1>2. QInv /\ FilesWithinLimits /\ [CC!Next]_shown => FilesWithinLimits'
    <2> SUFFICES ASSUME QInv, FilesWithinLimits, [CC!Next]_shown PROVE CC!Fits(Confirmed')
      BY DEF FilesWithinLimits, CC!Fits, CC!Bytes, CC!Contents
    <2>1. CASE \E f \in Files : CC!Add(f)
      BY <2>1 DEF CC!Add, Confirmed
    <2>2. CASE \E f \in Files : CC!Remove(f)
      <3>1. PICK f \in Files : f \in Confirmed /\ Confirmed' = Confirmed \ {f}
        BY <2>2 DEF CC!Remove, Confirmed
      <3>2. IsOpen
        BY <3>1 DEF QInv, IInv, RoomStatusInv, FileLock, Wiped, Answered, IsOpen, Confirmed
      <3>3. IsFiniteSet(Confirmed) /\ IsFiniteSet(CC!Contents(Confirmed))
        BY <3>2 DEF QInv, Charges
      <3>4. /\ Cardinality(Confirmed) \in Nat
            /\ CC!Bytes(Confirmed) \in Nat /\ Size[f] \in Nat
        BY <3>3, FS_CardinalityType, BytesCounted, LimitsAssumption
      <3>5. /\ Cardinality(Confirmed \ {f}) = Cardinality(Confirmed) - 1
            /\ CC!Bytes(Confirmed \ {f}) = CC!Bytes(Confirmed) - Size[f]
        BY <3>1, <3>3, CountRemoved
      <3>6. Cardinality(Confirmed) <= MaxFiles /\ CC!Bytes(Confirmed) <= MaxStorage
        BY SameCardinality DEF FilesWithinLimits, CC!Fits
      <3>7. Cardinality(Confirmed \ {f}) <= MaxFiles /\ CC!Bytes(Confirmed \ {f}) <= MaxStorage
        BY <3>4, <3>5, <3>6, LimitsAssumption
      <3> QED
        BY <3>1, <3>7, SameCardinality DEF CC!Fits
    <2>3. CASE CC!Close
      <3>1. Confirmed' = {}
        BY <2>3 DEF CC!Close, Confirmed
      <3> QED
        BY <3>1, CountNone, SameCardinality, LimitsAssumption DEF CC!Fits
    <2>4. CASE UNCHANGED shown
      <3>1. Confirmed' = Confirmed
        BY <2>4 DEF shown, Confirmed
      <3> QED
        BY <3>1 DEF FilesWithinLimits
    <2> QED
      BY <2>1, <2>2, <2>3, <2>4 DEF CC!Next
  <1>3. QInv /\ [Next]_vars => [CC!Next]_shown
    BY QuotaStepMaps
  <1> QED
    BY <1>1, <1>2, <1>3, QuotaInvariant, PTL DEF Spec

\* A room whose owner's browser sends one delete request at a time needs no
\* such condition.
COROLLARY OneDeleterIsEnough ==
    ASSUME \A d, e \in Deleters : d = e
    PROVE  Spec => []ChargesMatchFiles /\ []FilesWithinLimits /\ ImplementsContract
  <1>1. NoDoubleDelete
    BY DEF NoDoubleDelete
  <1> QED
    BY <1>1, CountersAreExact, RoomKeepsContract, LimitsHold, PTL
=============================================================================
