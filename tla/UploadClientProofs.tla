-------------------------- MODULE UploadClientProofs --------------------------
(***************************************************************************)
(* Proofs about UploadClient, for any number of chunks, jobs and scans.    *)
(* The argument: the page has one request under way at a time, so the size *)
(* that a request computes from the row it loaded is still right when it   *)
(* is written; and as long as no answer is lost the page aborts only when  *)
(* its completion is not, and never will be, under way.                    *)
(***************************************************************************)
EXTENDS UploadClient, ChunkedUploadProofs, FiniteSetTheorems

USE RolesAssumption DEF Requests, Browser, Workers, Listers, history

-----------------------------------------------------------------------------
(***************************************************************************)
(* The inductive invariants.                                               *)
(***************************************************************************)
\* What the page has heard is done; it sends a chunk when those before it are
\* answered, and asks to complete when all are.
Sequential ==
    /\ answered \subseteq {r \in Senders \cup Completers : pc[r] = "done"}
    /\ \A s, t \in Senders : pc[s] # "idle" /\ ChunkOf[t] < ChunkOf[s] => t \in answered
    /\ \A c \in Completers : pc[c] # "idle" => Senders \subseteq answered

\* The page aborts once, after it has stopped to upload; without a lost answer
\* only what is given up.
PageInv ==
    /\ lost \in Nat
    /\ \A a \in Aborters : pc[a] # "idle" => page = "over"
    /\ lost = 0 /\ (page = "aborting" \/ \E a \in Aborters : pc[a] # "idle") => GivenUp

Arrived == {s \in Senders : pc[s] = "done"}

\* The committed size.
SizeSaved ==
    /\ IsFiniteSet(Arrived)
    /\ upload.saved.status = "PENDING" => upload.saved.size = Cardinality(Arrived)
    /\ upload.saved.status = "CONFIRMED" => upload.saved.size = N
    /\ upload.saved.status = "ABSENT" => upload.saved.size = 0

\* The size a sender loaded, and what it writes.
SizeSent ==
    \A s \in Senders :
        /\ pc[s] \in {"storing", "stored", "counted"} /\ upload.saved.status = "PENDING"
              => seen[s] = upload.saved.size
        /\ upload.by = s <=> pc[s] = "counted"
        /\ pc[s] = "counted" =>
              upload.saved.status = "PENDING" /\ upload.draft.size = seen[s] + 1

\* The size a completion loaded, and what it writes.
SizeMerged ==
    \A c \in Completers :
        /\ pc[c] \notin {"idle", "done", "failed"} /\ upload.saved.status = "PENDING"
              => seen[c] = upload.saved.size
        /\ upload.saved.status = "CONFIRMED" => pc[c] = "done"
        /\ pc[c] = "confirmed" =>
              upload.by = c /\ upload.draft = [status |-> "CONFIRMED", size |-> N]

SizeLeft == \A r \in Aborters \cup Workers : upload.by = r => upload.draft = Gone

SizeInv == SizeSaved /\ SizeSent /\ SizeMerged /\ SizeLeft

-----------------------------------------------------------------------------
(***************************************************************************)
(* The page.                                                               *)
(***************************************************************************)
\* Whatever happens to page and server together is a step of the server, or
\* leaves it alone.
LEMMA ServerSteps == [ClientNext]_<<vars, client>> => [Next]_vars
  BY DEF ClientNext, AskChunk, AskComplete, Hear, Catch, LoseAnswer, AskAbort, Next

\* The page makes one request to complete.
LEMMA ClientAsksOnce ==
    /\ OneCompleter
    /\ Completers # {}
    /\ \A s, t \in Senders : s # t => ChunkOf[s] < ChunkOf[t] \/ ChunkOf[t] < ChunkOf[s]
  <1>1. \A s \in Senders : ChunkOf[s] \in Nat
    BY SizesAssumption DEF Indices
  <1>2. \A s, t \in Senders : s # t => ChunkOf[s] # ChunkOf[t]
    BY ClientAssumption
  <1>3. \A s, t \in Senders : s # t => ChunkOf[s] < ChunkOf[t] \/ ChunkOf[t] < ChunkOf[s]
    BY <1>1, <1>2
  <1> QED
    BY <1>3, ClientAssumption DEF OneCompleter

\* Of its own accord the server neither starts a browser's request nor goes on
\* with one that it has answered.
LEMMA ServeGoesOn ==
    ASSUME TypeOK, Serve, NEW r \in Browser, pc[r] \in {"idle", "done", "failed"}
    PROVE  pc'[r] = pc[r]
  <1> USE DEF Goto
  <1>1. CASE \E s \in Senders : SendStep(s)
    BY <1>1 DEF SendStep, ChunkPut, ChunkPutFails, ChunkCount, RowIsGone, ChunkCommit, Raise,
                TypeOK
  <1>2. CASE \E c \in Completers : CompleteStep(c)
    BY <1>2 DEF CompleteStep, ListParts, MergePart, PutMerged, MergeFails, ClaimQuota,
                ClaimRefused, Confirm, RowIsGone, CompleteCommit, RefusedAnswer, DropKey,
                Raise, TypeOK
  <1>3. CASE \E q \in Aborters \cup Expirers : AbandonStep(q)
    BY <1>3 DEF AbandonStep, CleanupParts, ExpireObject, DeleteUpload, DeleteCommit, DropKey,
                TypeOK
  <1>4. CASE \E e \in Expirers : ExpireBegin(e)
    BY <1>4 DEF ExpireBegin, TypeOK
  <1>5. CASE \E w \in Sweepers : SweepStep(w)
    BY <1>5 DEF SweepStep, KnownKeys, ListOrphans, SweepEnd, DropKey, TypeOK
  <1>6. CASE \E q \in Requests : Fail(q)
    BY <1>6 DEF Fail, UnderWay, TypeOK
  <1>7. CASE OtherFiles \/ Day
    BY <1>7 DEF OtherFiles, Day
  <1>8. CASE \E k \in Cleaners : CloseRoom(k) \/ CleanStep(k)
    BY <1>8 DEF CloseRoom, CleanStep, ListKeys, DeleteUpload, DeleteCommit, DropKey, TypeOK
  <1> QED
    BY <1>1, <1>2, <1>3, <1>4, <1>5, <1>6, <1>7, <1>8 DEF Serve

\* The order in which the page makes its requests, kept by every step.
LEMMA SequentialStep ==
    ASSUME TypeOK, Sequential, [ClientNext]_<<vars, client>>
    PROVE  Sequential'
  <1>1. CASE \E s \in Senders : AskChunk(s)
    <2>1. PICK s \in Senders : AskChunk(s)
      BY <1>1
    <2>2. /\ \A q \in Browser \ {s} : pc'[q] = pc[q]
          /\ pc[s] = "idle" /\ answered' = answered
          /\ \A t \in Senders : ChunkOf[t] < ChunkOf[s] => t \in answered
      BY <2>1 DEF AskChunk, ChunkBegin, Goto, TypeOK, client
    <2> QED
      BY <2>2 DEF Sequential
  <1>2. CASE \E c \in Completers : AskComplete(c)
    <2>1. PICK c \in Completers : AskComplete(c)
      BY <1>2
    <2>2. /\ \A q \in Browser \ {c} : pc'[q] = pc[q]
          /\ pc[c] = "idle" /\ answered' = answered /\ Senders \subseteq answered
      BY <2>1 DEF AskComplete, CompleteBegin, Goto, TypeOK, client
    <2> QED
      BY <2>2 DEF Sequential
  <1>3. CASE \E r \in Senders \cup Completers : Hear(r) \/ Catch(r) \/ LoseAnswer(r)
    BY <1>3 DEF Hear, Catch, LoseAnswer, vars, Sequential
  <1>4. CASE \E a \in Aborters : AskAbort(a)
    <2>1. /\ \A q \in Senders \cup Completers : pc'[q] = pc[q]
          /\ answered' = answered
      BY <1>4 DEF AskAbort, AbortBegin, Goto, TypeOK
    <2> QED
      BY <2>1 DEF Sequential
  <1>5. CASE Serve /\ UNCHANGED client
    <2>1. \A q \in Senders \cup Completers :
             pc[q] \in {"idle", "done"} => pc'[q] = pc[q]
      BY <1>5, ServeGoesOn
    <2> QED
      BY <1>5, <2>1 DEF Sequential, client
  <1>6. CASE UNCHANGED <<vars, client>>
    BY <1>6 DEF vars, client, Sequential
  <1> QED
    BY <1>1, <1>2, <1>3, <1>4, <1>5, <1>6 DEF ClientNext

\* Once the page has stopped to upload, what is given up stays so; and without
\* a lost answer it stops only when it has caught an error.
LEMMA PageStep ==
    ASSUME TypeOK, Sequential, PageInv, [ClientNext]_<<vars, client>>
    PROVE  PageInv'
  <1>1. CASE \/ \E s \in Senders : AskChunk(s)
             \/ \E c \in Completers : AskComplete(c)
    <2>1. /\ page = "uploading" /\ UNCHANGED client
          /\ \A a \in Aborters : pc'[a] = pc[a]
      BY <1>1 DEF AskChunk, ChunkBegin, AskComplete, CompleteBegin, Goto, TypeOK
    <2> QED
      BY <2>1 DEF PageInv, client
  <1>2. CASE \E r \in Senders \cup Completers : Hear(r)
    BY <1>2 DEF Hear, PageInv, vars
  <1>3. CASE \E r \in Senders \cup Completers : Catch(r)
    <2>1. PICK r \in Senders \cup Completers : Catch(r)
      BY <1>3
    <2>2. GivenUp
      BY <2>1, ClientAsksOnce DEF Catch, Sequential, GivenUp, OneCompleter
    <2> QED
      BY <2>1, <2>2 DEF Catch, PageInv, vars, GivenUp
  <1>4. CASE \E r \in Senders \cup Completers : LoseAnswer(r)
    <2>1. lost' \in Nat /\ lost' # 0
      BY <1>4 DEF LoseAnswer, PageInv
    <2> QED
      BY <1>4, <2>1 DEF LoseAnswer, PageInv, vars
  <1>5. CASE \E a \in Aborters : AskAbort(a)
    <2>1. /\ page = "aborting" /\ page' = "over" /\ lost' = lost
          /\ \A c \in Completers : pc'[c] = pc[c]
      BY <1>5 DEF AskAbort, AbortBegin, Goto, TypeOK
    <2> QED
      BY <2>1 DEF PageInv, GivenUp
  <1>6. CASE Serve /\ UNCHANGED client
    <2>1. /\ \A a \in Aborters : pc[a] = "idle" => pc'[a] = "idle"
          /\ GivenUp => GivenUp'
      BY <1>6, ServeGoesOn DEF GivenUp
    <2> QED
      BY <1>6, <2>1 DEF PageInv, client
  <1>7. CASE UNCHANGED <<vars, client>>
    BY <1>7 DEF vars, client, PageInv, GivenUp
  <1> QED
    BY <1>1, <1>2, <1>3, <1>4, <1>5, <1>6, <1>7 DEF ClientNext

\* The page starts with an upload nobody has asked anything of.
LEMMA PageInit == ClientInit => IInv /\ CInv /\ Sequential /\ PageInv
  <1> SUFFICES ASSUME ClientInit PROVE IInv /\ CInv /\ Sequential /\ PageInv
    OBVIOUS
  <1>1. \A r \in Requests : pc[r] = "idle"
    BY DEF ClientInit, Init
  <1> QED
    BY <1>1, ChargeInit, ContractInit DEF ClientInit, Sequential, PageInv

\* The page and the charges it relies on, in every reachable state.
LEMMA PageInvariant == ClientSpec => [](IInv /\ Sequential /\ PageInv)
  <1>1. IInv /\ Sequential /\ PageInv /\ [ClientNext]_<<vars, client>>
           => (IInv /\ Sequential /\ PageInv)'
    BY ChargeStep, ServerSteps, SequentialStep, PageStep DEF IInv
  <1> QED
    BY <1>1, PageInit, PTL DEF ClientSpec

-----------------------------------------------------------------------------
(***************************************************************************)
(* The contract.                                                           *)
(***************************************************************************)
\* As long as no answer is lost, an abort begins and goes on only for what is
\* given up: were it otherwise, the page would be wrong after the step.
LEMMA AbortsOnlyGivenUp ==
    ASSUME TypeOK, PageInv, PageInv', lost = 0, lost' = 0
    PROVE  AbortsGivenUp
  <1> SUFFICES ASSUME NEW a \in Aborters, AbortBegin(a) \/ AbandonStep(a) PROVE GivenUp
    BY DEF AbortsGivenUp
  <1>1. CASE AbandonStep(a)
    BY <1>1 DEF AbandonStep, CleanupParts, ExpireObject, DeleteUpload, DeleteCommit, DropKey,
                PageInv
  <1>2. CASE AbortBegin(a)
    <2>1. pc'[a] # "idle" /\ \A c \in Completers : pc'[c] = pc[c]
      BY <1>2 DEF AbortBegin, Goto, TypeOK
    <2> QED
      BY <2>1 DEF PageInv, GivenUp
  <1> QED
    BY <1>1, <1>2

\* A step that loses an answer leaves the server alone; no answer that is lost
\* is found again.
LEMMA AnswersLost ==
    ASSUME PageInv, [ClientNext]_<<vars, client>>
    PROVE  /\ lost' = 0 => lost = 0
           /\ lost' = 0 \/ UNCHANGED vars \/ lost # 0
  BY DEF PageInv, ClientNext, AskChunk, AskComplete, Hear, Catch, LoseAnswer, AskAbort,
         client, vars

\* The invariant of the contract, as long as no answer is lost.
LEMMA HeardStep ==
    ASSUME IInv, Sequential, PageInv, lost = 0 => CInv, [ClientNext]_<<vars, client>>
    PROVE  lost' = 0 => CInv'
  <1> SUFFICES ASSUME lost' = 0 PROVE CInv'
    OBVIOUS
  <1>1. lost = 0 /\ PageInv' /\ [Next]_vars
    BY AnswersLost, PageStep, ServerSteps DEF IInv
  <1>2. AbortsGivenUp
    BY <1>1, AbortsOnlyGivenUp DEF IInv
  <1> QED
    BY <1>1, <1>2, ContractStep, ClientAsksOnce

\* Every step before an answer is lost is one of UploadContract.
LEMMA HeardStepMaps ==
    ASSUME IInv, Sequential, PageInv, lost = 0 => CInv, lost' = 0 => CInv',
           [ClientNext]_<<vars, client>>
    PROVE  lost = 0 => UC!Next \/ UNCHANGED contract
  <1> SUFFICES ASSUME lost = 0 PROVE UC!Next \/ UNCHANGED contract
    OBVIOUS
  <1>1. CASE lost' = 0
    <2>1. AbortsGivenUp
      BY <1>1, PageStep, AbortsOnlyGivenUp DEF IInv
    <2> QED
      BY <1>1, <2>1, ServerSteps, ContractStepMaps
  <1>2. CASE lost' # 0
    <2>1. UNCHANGED vars
      BY <1>2, AnswersLost
    <2> QED
      BY <2>1 DEF vars, contract, contentShown, chargeShown
  <1> QED
    BY <1>1, <1>2

\* A page that hears every answer keeps the contract of its upload, whatever
\* the order in which its requests, the jobs and the sweep run and whatever
\* breaks off, for any number of chunks, jobs and scans: it aborts only what
\* has failed, and by then nothing can confirm it any more.
THEOREM PageEndsItsUpload == ClientSpec => PageKeepsContract
  <1>1. ClientInit => (lost = 0 => CInv) /\ UC!Init
    BY PageInit, ContractInitMaps DEF ClientInit
  <1>2. /\ IInv /\ Sequential /\ PageInv /\ (lost = 0 => CInv)
        /\ [ClientNext]_<<vars, client>>
        => (lost = 0 => CInv)'
    BY HeardStep
  <1>3. /\ IInv /\ Sequential /\ PageInv /\ (lost = 0 => CInv) /\ (lost = 0 => CInv)'
        /\ [ClientNext]_<<vars, client>>
        => (lost = 0 => UC!Next \/ UNCHANGED contract)
    BY HeardStepMaps
  <1> QED
    BY <1>1, <1>2, <1>3, PageInvariant, PTL DEF ClientSpec, PageKeepsContract

\* As long as the page hears every answer and the job for stale sessions never
\* meets the completion, the room is charged for this upload exactly while its
\* file is there: a deleted file that stays charged follows a lost answer or
\* such a meeting, and nothing else leads to one.
THEOREM HeardPagesPayOnce == ClientSpec => [](lost = 0 /\ ~crossed => ChargesMatchUpload)
  <1>1. ClientInit => (lost = 0 => CInv)
    BY PageInit DEF ClientInit
  <1>2. /\ IInv /\ Sequential /\ PageInv /\ (lost = 0 => CInv)
        /\ [ClientNext]_<<vars, client>>
        => (lost = 0 => CInv)'
    BY HeardStep
  <1>3. (lost = 0 => CInv) => (lost = 0 /\ ~crossed => ChargesMatchUpload)
    <2> SUFFICES ASSUME CInv, ~crossed PROVE ChargesMatchUpload
      OBVIOUS
    <2>1. upload.saved.status \in {"PENDING", "CONFIRMED", "ABSENT"}
      BY Versions DEF CInv, IInv, UploadValue
    <2> QED
      BY <2>1 DEF CInv, StatusTells, ChargesMatchUpload
  <1> QED
    BY <1>1, <1>2, <1>3, PageInvariant, PTL DEF ClientSpec

-----------------------------------------------------------------------------
(***************************************************************************)
(* The size.  One chunk is under way at a time, so what its request loaded *)
(* is the committed size until it writes; nothing is under way when the    *)
(* page asks to complete.                                                  *)
(***************************************************************************)
Working == {"storing", "stored", "counted"}
Over == {"idle", "done", "failed"}

\* While a chunk is under way no other is and no completion has begun; while a
\* completion is, no chunk is.
LEMMA OneAtATime ==
    ASSUME Sequential
    PROVE  /\ \A s, t \in Senders : pc[s] \in Working /\ s # t => pc[t] \notin Working
           /\ \A s \in Senders, c \in Completers : pc[s] \in {"idle"} \cup Working => pc[c] = "idle"
  <1>1. \A s \in answered : pc[s] = "done"
    BY DEF Sequential
  <1>2. \A s, t \in Senders : pc[s] \in Working /\ s # t => pc[t] \notin Working
    BY <1>1, ClientAsksOnce DEF Sequential, Working
  <1>3. \A s \in Senders, c \in Completers : pc[s] \in {"idle"} \cup Working => pc[c] = "idle"
    BY <1>1 DEF Sequential, Working
  <1> QED
    BY <1>2, <1>3

\* A step that leaves the row alone, ends no chunk and starts to hold no lock;
\* what a request loads it loads from the committed row.
LEMMA SizeKept ==
    ASSUME SizeInv, upload' = upload,
           \A s \in Senders :
              /\ pc'[s] = "done" <=> pc[s] = "done"
              /\ pc'[s] = "counted" <=> pc[s] = "counted"
              /\ \/ seen'[s] = seen[s] /\ (pc'[s] \in Working => pc[s] \in Working)
                 \/ seen'[s] = upload.saved.size /\ pc[s] \notin Working,
           \A c \in Completers :
              /\ pc[c] = "done" => pc'[c] = "done"
              /\ pc'[c] = "confirmed" => pc[c] = "confirmed"
              /\ \/ seen'[c] = seen[c] /\ (pc'[c] \notin Over => pc[c] \notin Over)
                 \/ seen'[c] = upload.saved.size
    PROVE  SizeInv'
  <1>1. Arrived' = Arrived
    BY DEF Arrived
  <1>2. SizeSaved' /\ SizeLeft'
    BY <1>1 DEF SizeInv, SizeSaved, SizeLeft
  <1>3. SizeSent'
    BY DEF SizeInv, SizeSent, Working
  <1>4. SizeMerged'
    BY DEF SizeInv, SizeMerged, Over
  <1> QED
    BY <1>2, <1>3, <1>4 DEF SizeInv

\* A request that is rolled back, or that has written nothing to the row.
LEMMA SizeRolledBack ==
    ASSUME TypeOK, SizeInv, NEW r \in Requests, pc[r] # "done",
           \/ upload' = Rollback(upload, r)
           \/ upload' = Commit(upload, r) /\ upload.by # r,
           seen' = seen, NEW v \in {"idle", "failed"}, Goto(r, v)
    PROVE  SizeInv'
  <1>1. /\ pc'[r] = v
        /\ \A q \in Requests \ {r} : pc'[q] = pc[q]
    BY DEF Goto, TypeOK
  <1>2. /\ upload'.saved = upload.saved
        /\ upload.by = r => upload'.by = NoTx
        /\ upload.by # r => upload' = upload
    BY DEF Rollback, Commit, Clean
  <1>3. Arrived' = Arrived
    BY <1>1 DEF Arrived
  <1>4. SizeSaved'
    BY <1>2, <1>3 DEF SizeInv, SizeSaved
  <1>5. SizeSent' /\ SizeLeft'
    BY <1>1, <1>2 DEF SizeInv, SizeSent, SizeLeft
  <1>6. SizeMerged'
    BY <1>1, <1>2 DEF SizeInv, SizeMerged
  <1> QED
    BY <1>4, <1>5, <1>6 DEF SizeInv

\* The row goes.
LEMMA SizeGone ==
    ASSUME TypeOK, SizeInv, upload' = Clean(Gone), seen' = seen,
           upload.by \notin Senders \cup Completers,
           \A q \in Senders \cup Completers : pc'[q] = pc[q]
    PROVE  SizeInv'
  <1>1. /\ upload'.saved = Gone /\ upload'.by = NoTx
    BY DEF Clean
  <1>2. Arrived' = Arrived
    BY DEF Arrived
  <1>3. SizeSaved'
    BY <1>1, <1>2 DEF SizeInv, SizeSaved, Gone
  <1>4. SizeSent' /\ SizeLeft'
    BY <1>1 DEF SizeInv, SizeSent, SizeLeft, Gone
  <1>5. SizeMerged'
    BY <1>1 DEF SizeInv, SizeMerged, Gone
  <1> QED
    BY <1>3, <1>4, <1>5 DEF SizeInv

\* store_chunk adds one to the size when one more chunk has arrived.
LEMMA SendSizes ==
    ASSUME IInv, Sequential, SizeInv, NEW s \in Senders, ChunkBegin(s) \/ SendStep(s)
    PROVE  SizeInv'
  <1>0. TypeOK /\ s # NoTx /\ \A c \in Completers : pc[c] = "idle"
    <2>1. pc[s] \in {"idle"} \cup Working
      BY DEF SendStep, ChunkBegin, ChunkPut, ChunkPutFails, ChunkCount, RowIsGone,
             ChunkCommit, Working, IInv, TypeOK, SenderPC
    <2> QED
      BY <2>1, OneAtATime DEF IInv
  <1>1. \A q \in Requests \ {s} : pc'[q] = pc[q]
    BY <1>0 DEF TypeOK, SendStep, ChunkBegin, ChunkPut, ChunkPutFails, ChunkCount, RowIsGone,
                ChunkCommit, Raise, Goto
  <1>2. CASE ChunkBegin(s)
    <2>1. /\ pc[s] = "idle" /\ pc'[s] \in {"storing", "failed"} /\ upload' = upload
          /\ \/ seen' = [seen EXCEPT ![s] = upload.saved.size]
             \/ seen' = seen /\ pc'[s] = "failed"
      BY <1>0, <1>2 DEF ChunkBegin, Goto, TypeOK
    <2> QED
      BY <1>0, <1>1, <2>1, SizeKept DEF Working, Over, TypeOK
  <1>3. CASE ChunkPut(s)
    <2>1. pc[s] = "storing" /\ pc'[s] = "stored" /\ upload' = upload /\ seen' = seen
      BY <1>0, <1>3 DEF ChunkPut, Goto, TypeOK, memory
    <2> QED
      BY <1>1, <2>1, SizeKept DEF Working
  <1>4. CASE ChunkCount(s)
    <2>1. /\ pc[s] = "stored" /\ pc'[s] = "counted" /\ seen' = seen
          /\ upload.by = NoTx /\ upload.draft = upload.saved
      BY <1>0, <1>4 DEF ChunkCount, Goto, TypeOK, memory, Lockable, SizeInv, SizeSent, IInv,
                        UploadLock
    <2>2. upload.saved.status = "PENDING"
      <3>1. upload.saved.status \in {"PENDING", "CONFIRMED", "ABSENT"}
        BY <1>0, Versions DEF UploadValue
      <3>2. upload.saved.status # "CONFIRMED"
        BY <1>0, ClientAsksOnce DEF SizeInv, SizeMerged
      <3> QED
        BY <1>4, <2>1, <3>1, <3>2 DEF ChunkCount
    <2>3. /\ upload'.saved = upload.saved /\ upload'.by = s
          /\ upload'.draft.size = seen[s] + 1
      BY <1>0, <1>4, Versions DEF ChunkCount, Write, UploadValue
    <2>4. Arrived' = Arrived
      BY <1>1, <2>1 DEF Arrived
    <2>5. SizeSaved' /\ SizeLeft'
      BY <2>3, <2>4 DEF SizeInv, SizeSaved, SizeLeft
    <2>6. SizeSent'
      BY <1>0, <1>1, <2>1, <2>2, <2>3 DEF SizeInv, SizeSent
    <2>7. SizeMerged'
      BY <1>0, <1>1, <2>2, <2>3 DEF SizeMerged
    <2> QED
      BY <2>5, <2>6, <2>7 DEF SizeInv
  <1>5. CASE RowIsGone(s) \/ ChunkPutFails(s)
    <2>1. upload' = Rollback(upload, s) /\ pc[s] # "done" /\ seen' = seen /\ Goto(s, "failed")
      BY <1>5 DEF RowIsGone, ChunkPutFails, Raise, RollbackAll, memory
    <2> QED
      BY <1>0, <2>1, SizeRolledBack
  <1>6. CASE ChunkCommit(s)
    <2>1. /\ pc[s] = "counted" /\ pc'[s] = "done" /\ seen' = seen
          /\ upload.by = s /\ upload' = Clean(upload.draft)
      BY <1>0, <1>6
         DEF ChunkCommit, CommitAll, Commit, Goto, TypeOK, memory, SizeInv, SizeSent
    <2>2. /\ upload.saved.status = "PENDING" /\ upload.draft.status = "PENDING"
          /\ upload.draft.size = upload.saved.size + 1
      BY <2>1 DEF SizeInv, SizeSent, IInv, UploadLock
    <2>3. Arrived' = Arrived \cup {s} /\ s \notin Arrived
      BY <1>1, <2>1 DEF Arrived
    <2>4. IsFiniteSet(Arrived') /\ Cardinality(Arrived') = Cardinality(Arrived) + 1
      BY <2>3, FS_AddElement DEF SizeInv, SizeSaved
    <2>5. upload'.saved = upload.draft /\ upload'.by = NoTx
      BY <2>1 DEF Clean
    <2>6. SizeSaved'
      BY <2>2, <2>4, <2>5 DEF SizeInv, SizeSaved
    <2>7. SizeSent'
      <3>1. \A t \in Senders \ {s} : pc[t] \notin Working
        BY <2>1, OneAtATime DEF Working
      <3> QED
        BY <1>0, <1>1, <2>1, <2>5, <3>1 DEF SizeSent, Working
    <2>8. SizeMerged' /\ SizeLeft'
      BY <1>0, <1>1, <2>2, <2>5 DEF SizeMerged, SizeLeft
    <2> QED
      BY <2>6, <2>7, <2>8 DEF SizeInv
  <1> QED
    BY <1>2, <1>3, <1>4, <1>5, <1>6 DEF SendStep

\* complete_upload_session leaves the size it found, or writes the announced
\* one, which after the last chunk is the same.
LEMMA CompleteSizes ==
    ASSUME IInv, Sequential, SizeInv, NEW c \in Completers, CompleteBegin(c) \/ CompleteStep(c)
    PROVE  SizeInv'
  <1>0. TypeOK /\ c # NoTx /\ c \in Requests
    BY DEF IInv
  <1>1. \A q \in Requests \ {c} : pc'[q] = pc[q]
    BY <1>0 DEF TypeOK, CompleteStep, CompleteBegin, ListParts, MergePart, PutMerged,
                MergeFails, ClaimQuota, ClaimRefused, Confirm, RowIsGone, CompleteCommit,
                RefusedAnswer, DropKey, Raise, Goto
  <1>2. \A d \in Completers : d = c
    BY ClientAsksOnce DEF OneCompleter
  <1>3. CASE CompleteBegin(c)
    <2>1. /\ pc[c] = "idle" /\ pc'[c] \in {"listing", "failed"} /\ upload' = upload
          /\ \/ seen' = [seen EXCEPT ![c] = upload.saved.size]
             \/ seen' = seen /\ pc'[c] = "failed"
      BY <1>0, <1>3 DEF CompleteBegin, Goto, TypeOK
    <2>2. \A s \in Senders : seen'[s] = seen[s]
      BY <1>0, <2>1 DEF TypeOK
    <2>3. seen'[c] = upload.saved.size \/ (seen'[c] = seen[c] /\ pc'[c] = "failed")
      BY <1>0, <2>1 DEF TypeOK
    <2> QED
      BY <1>1, <1>2, <2>1, <2>2, <2>3, SizeKept DEF Over
  <1>4. CASE \/ ListParts(c) \/ PutMerged(c) \/ ClaimQuota(c) \/ ClaimRefused(c)
             \/ \E k \in Indices : MergePart(c, k) \/ DropKey(c, k)
    <2>1. /\ pc[c] \notin Over /\ pc'[c] # "done"
          /\ pc'[c] = "confirmed" => pc[c] = "confirmed"
          /\ upload' = upload /\ seen' = seen
      BY <1>0, <1>4 DEF ListParts, PutMerged, ClaimQuota, ClaimRefused, MergePart, DropKey, Goto,
                        TypeOK, memory, Over
    <2> QED
      BY <1>1, <1>2, <2>1, SizeKept DEF Over
  <1>5. CASE MergeFails(c) \/ RowIsGone(c) \/ RefusedAnswer(c)
    <2>1. upload' = Rollback(upload, c) /\ pc[c] # "done" /\ seen' = seen /\ Goto(c, "failed")
      BY <1>5 DEF MergeFails, RowIsGone, RefusedAnswer, Raise, RollbackAll, memory
    <2> QED
      BY <1>0, <2>1, SizeRolledBack
  <1>6. CASE Confirm(c)
    <2>1. /\ pc[c] = "claimed" /\ pc'[c] = "confirmed" /\ seen' = seen
          /\ upload.by = NoTx /\ upload.draft = upload.saved
      BY <1>0, <1>6 DEF Confirm, Goto, TypeOK, Lockable, IInv, UploadLock
    <2>2. upload.saved.status = "PENDING" /\ seen[c] = upload.saved.size
      <3>1. upload.saved.status \in {"PENDING", "CONFIRMED", "ABSENT"}
        BY <1>0, Versions DEF UploadValue
      <3> QED
        BY <1>6, <2>1, <3>1 DEF Confirm, SizeInv, SizeMerged
    <2>3. upload' = Write(upload, c, [status |-> "CONFIRMED", size |-> N])
      BY <1>6, <2>1, <2>2 DEF Confirm, ConfirmedValue
    <2>4. /\ upload'.saved = upload.saved /\ upload'.by = c
          /\ upload'.draft = [status |-> "CONFIRMED", size |-> N]
      BY <2>3 DEF Write
    <2>5. Arrived' = Arrived
      BY <1>1 DEF Arrived
    <2>6. SizeSaved' /\ SizeLeft'
      BY <2>4, <2>5 DEF SizeInv, SizeSaved, SizeLeft
    <2>7. SizeSent'
      BY <1>0, <1>1, <2>1, <2>4 DEF SizeInv, SizeSent
    <2>8. SizeMerged'
      BY <1>2, <2>1, <2>2, <2>4 DEF SizeInv, SizeMerged
    <2> QED
      BY <2>6, <2>7, <2>8 DEF SizeInv
  <1>7. CASE CompleteCommit(c)
    <2>1. /\ pc[c] = "confirmed" /\ pc'[c] = "done" /\ seen' = seen
          /\ upload.by = c /\ upload' = Clean([status |-> "CONFIRMED", size |-> N])
      BY <1>0, <1>7 DEF CompleteCommit, CommitAll, Commit, Goto, TypeOK, memory, SizeInv,
                        SizeMerged
    <2>2. upload'.saved.status = "CONFIRMED" /\ upload'.saved.size = N /\ upload'.by = NoTx
      BY <2>1 DEF Clean
    <2>3. Arrived' = Arrived
      BY <1>1 DEF Arrived
    <2>4. SizeSaved' /\ SizeLeft'
      BY <2>2, <2>3 DEF SizeInv, SizeSaved, SizeLeft
    <2>5. SizeSent'
      BY <1>0, <1>1, <2>1, <2>2 DEF SizeInv, SizeSent
    <2>6. SizeMerged'
      BY <1>2, <2>1, <2>2 DEF SizeMerged
    <2> QED
      BY <2>4, <2>5, <2>6 DEF SizeInv
  <1> QED
    BY <1>3, <1>4, <1>5, <1>6, <1>7 DEF CompleteStep

\* An abort, a job or a teardown writes only that the row is gone.
LEMMA AbandonSizes ==
    ASSUME IInv, SizeInv, NEW r \in Aborters \cup Workers,
           \/ r \in Aborters /\ AbortBegin(r)
           \/ r \in Expirers /\ ExpireBegin(r)
           \/ r \in Aborters \cup Expirers /\ AbandonStep(r)
           \/ r \in Cleaners /\ (CloseRoom(r) \/ CleanStep(r))
    PROVE  SizeInv'
  <1>0. TypeOK /\ r \in Requests /\ r \notin Senders \cup Completers
    BY DEF IInv
  <1>1. /\ seen' = seen
        /\ \A q \in Senders \cup Completers : pc'[q] = pc[q]
    BY <1>0 DEF TypeOK, AbortBegin, ExpireBegin, AbandonStep, CleanupParts, ExpireObject,
                DeleteUpload, DeleteCommit, DropKey, CloseRoom, CleanStep, ListKeys, Goto,
                memory
  <1>2. CASE upload' = upload
    BY <1>1, <1>2, SizeKept
  <1>3. CASE DeleteUpload(r) /\ upload' = Write(upload, r, Gone)
    <2>1. /\ upload.by \in {NoTx, r} /\ upload'.by = r /\ upload'.draft = Gone
          /\ upload'.saved = upload.saved
      BY <1>3 DEF DeleteUpload, Lockable, Write
    <2>2. Arrived' = Arrived
      BY <1>1 DEF Arrived
    <2>3. SizeSaved'
      BY <2>1, <2>2 DEF SizeInv, SizeSaved
    <2>4. SizeSent' /\ SizeLeft'
      BY <1>0, <1>1, <2>1 DEF SizeInv, SizeSent, SizeLeft
    <2>5. SizeMerged'
      BY <1>0, <1>1, <2>1 DEF SizeInv, SizeMerged
    <2> QED
      BY <2>3, <2>4, <2>5 DEF SizeInv
  <1>4. CASE DeleteCommit(r) /\ upload.by = r
    <2>1. upload' = Clean(Gone)
      BY <1>0, <1>4 DEF DeleteCommit, CommitAll, Commit, SizeInv, SizeLeft
    <2> QED
      BY <1>0, <1>1, <1>4, <2>1, SizeGone
  <1> QED
    BY <1>2, <1>3, <1>4
       DEF AbortBegin, ExpireBegin, AbandonStep, CleanupParts, ExpireObject, DeleteUpload,
           DeleteCommit, DropKey, CloseRoom, CleanStep, ListKeys, CommitAll, Commit

\* A scan writes no row, and neither does the passing of a day; what breaks off
\* takes back what it wrote.
LEMMA RestSizes ==
    ASSUME IInv, SizeInv,
           \/ \E w \in Sweepers : SweepStep(w)
           \/ OtherFiles \/ Day \/ \E r \in Requests : Fail(r)
    PROVE  SizeInv'
  <1>0. TypeOK
    BY DEF IInv
  <1>1. CASE OtherFiles \/ Day \/ \E w \in Sweepers : SweepStep(w)
    <2>1. /\ upload' = upload /\ seen' = seen
          /\ \A q \in Senders \cup Completers : pc'[q] = pc[q]
      BY <1>0, <1>1 DEF OtherFiles, Day, SweepStep, KnownKeys, ListOrphans, SweepEnd, DropKey,
                        Goto, TypeOK, memory
    <2> QED
      BY <2>1, SizeKept
  <1>2. CASE \E r \in Requests : Fail(r)
    <2>1. PICK r \in Requests : Fail(r)
      BY <1>2
    <2>2. /\ upload' = Rollback(upload, r) /\ pc[r] # "done" /\ seen' = seen
          /\ \E v \in {"idle", "failed"} : Goto(r, v)
      BY <2>1 DEF Fail, UnderWay, RollbackAll
    <2> QED
      BY <1>0, <2>2, SizeRolledBack
  <1> QED
    BY <1>1, <1>2

\* Every step of the server that the page allows keeps the sizes: the cases of
\* Next.
LEMMA SizeStep == IInv /\ Sequential /\ SizeInv /\ [Next]_vars => SizeInv'
  <1> SUFFICES ASSUME IInv, Sequential, SizeInv, [Next]_vars PROVE SizeInv'
    OBVIOUS
  <1>1. CASE \E s \in Senders : ChunkBegin(s) \/ SendStep(s)
    BY <1>1, SendSizes
  <1>2. CASE \E c \in Completers : CompleteBegin(c) \/ CompleteStep(c)
    BY <1>2, CompleteSizes
  <1>3. CASE \/ \E a \in Aborters : AbortBegin(a)
             \/ \E e \in Expirers : ExpireBegin(e)
             \/ \E r \in Aborters \cup Expirers : AbandonStep(r)
             \/ \E k \in Cleaners : CloseRoom(k) \/ CleanStep(k)
    BY <1>3, AbandonSizes
  <1>4. CASE \/ \E w \in Sweepers : SweepStep(w)
             \/ OtherFiles \/ Day \/ \E r \in Requests : Fail(r)
    BY <1>4, RestSizes
  <1>5. CASE UNCHANGED vars
    BY <1>5, SizeKept DEF vars
  <1> QED
    BY <1>1, <1>2, <1>3, <1>4, <1>5 DEF Next, Serve

\* A new session has received nothing.
LEMMA SizeStart == Init => SizeInv
  <1> SUFFICES ASSUME Init PROVE SizeInv
    OBVIOUS
  <1>1. /\ upload.saved = [status |-> "PENDING", size |-> 0] /\ upload.by = NoTx
        /\ \A r \in Requests : pc[r] = "idle"
    BY DEF Init, Clean
  <1>2. Arrived = {}
    BY <1>1 DEF Arrived
  <1>3. SizeSaved
    BY <1>1, <1>2, FS_EmptySet DEF SizeSaved
  <1>4. SizeSent /\ SizeLeft
    BY <1>1 DEF SizeSent, SizeLeft
  <1>5. SizeMerged
    BY <1>1 DEF SizeMerged
  <1> QED
    BY <1>3, <1>4, <1>5 DEF SizeInv

\* While chunks arrive, size_bytes counts them, and the confirmed size is the
\* announced one, although every request writes a size computed from the row it
\* loaded: for any number of chunks, jobs, teardowns, scans and lost
\* answers.
THEOREM SizeCountsChunks == ClientSpec => []SizeIsWhatArrived
  <1>1. ClientInit => SizeInv
    BY SizeStart DEF ClientInit
  <1>2. IInv /\ Sequential /\ SizeInv /\ [ClientNext]_<<vars, client>> => SizeInv'
    BY SizeStep, ServerSteps
  <1>3. IInv /\ SizeInv => SizeIsWhatArrived
    <2> SUFFICES ASSUME IInv, SizeInv PROVE SizeIsWhatArrived
      OBVIOUS
    <2>1. upload.saved.status \in {"PENDING", "CONFIRMED", "ABSENT"}
      BY Versions DEF IInv, UploadValue
    <2> QED
      BY <2>1 DEF SizeInv, SizeSaved, SizeIsWhatArrived, Arrived
  <1> QED
    BY <1>1, <1>2, <1>3, PageInvariant, PTL DEF ClientSpec

-----------------------------------------------------------------------------
(***************************************************************************)
(* The chunks.  A part that was stored is deleted by whoever completes or  *)
(* gives up the upload, by the job for stale sessions, and by scans; so    *)
(* without scans the parts of an upload under way are all there.           *)
(***************************************************************************)
\* No request to complete or to abort has begun, and no job may.
Undisturbed ==
    /\ ~stale
    /\ \A r \in Completers \cup Aborters : pc[r] = "idle"

JobsWait == ~stale => \A e \in Expirers : pc[e] = "idle"

Sent == {s \in Senders : pc[s] \in {"stored", "counted", "done"}}

PartsKept == Undisturbed => \A s \in Sent : ChunkOf[s] \in parts

\* An upload that is undisturbed after a step was so before it, the step has
\* deleted no part that was sent, and whose chunk it has sent, that part it has
\* stored.
LEMMA PartsStay ==
    ASSUME TypeOK, Sweepers = {}, JobsWait, Next
    PROVE  /\ JobsWait'
           /\ Undisturbed' =>
                 /\ Undisturbed
                 /\ \A s \in Sent : ChunkOf[s] \in parts => ChunkOf[s] \in parts'
           /\ \A s \in Sent' : s \in Sent \/ ChunkOf[s] \in parts'
  <1> USE DEF Goto
  <1>1. CASE \E s \in Senders : ChunkBegin(s) \/ SendStep(s)
    <2>1. PICK s \in Senders : ChunkBegin(s) \/ SendStep(s)
      BY <1>1
    <2>2. /\ \A r \in (Requests \cup Sweepers) \ {s} : pc'[r] = pc[r]
          /\ stale' = stale
          /\ s \in Sent' => s \in Sent \/ ChunkOf[s] \in parts'
          /\ \/ parts \subseteq parts'
             \/ s \notin Sent /\ parts \ {ChunkOf[s]} \subseteq parts'
      BY <2>1 DEF SendStep, ChunkBegin, ChunkPut, ChunkPutFails, ChunkCount, RowIsGone,
                  ChunkCommit, Raise, memory, TypeOK, Sent
    <2>3. \A t \in Sent : ChunkOf[t] \in parts => ChunkOf[t] \in parts'
      BY <2>2, ClientAssumption DEF Sent
    <2> QED
      BY <2>2, <2>3 DEF JobsWait, Undisturbed, Sent
  <1>2. CASE \E c \in Completers : CompleteBegin(c) \/ CompleteStep(c)
    <2>1. PICK c \in Completers : CompleteBegin(c) \/ CompleteStep(c)
      BY <1>2
    <2>2. /\ \A r \in (Requests \cup Sweepers) \ {c} : pc'[r] = pc[r]
          /\ stale' = stale /\ pc'[c] # "idle"
      BY <2>1 DEF CompleteBegin, CompleteStep, ListParts, MergePart, PutMerged, MergeFails,
                  ClaimQuota, ClaimRefused, Confirm, RowIsGone, CompleteCommit, RefusedAnswer,
                  DropKey, Raise, memory, TypeOK
    <2> QED
      BY <2>2 DEF JobsWait, Undisturbed, Sent
  <1>3. CASE \E a \in Aborters : AbortBegin(a)
    <2>1. PICK a \in Aborters : AbortBegin(a)
      BY <1>3
    <2>2. /\ \A r \in (Requests \cup Sweepers) \ {a} : pc'[r] = pc[r]
          /\ stale' = stale /\ pc'[a] # "idle"
      BY <2>1 DEF AbortBegin, memory, TypeOK
    <2> QED
      BY <2>2 DEF JobsWait, Undisturbed, Sent
  <1>4. CASE \E r \in Aborters \cup Expirers : AbandonStep(r)
    <2>1. PICK r \in Aborters \cup Expirers : AbandonStep(r)
      BY <1>4
    <2>2. /\ \A q \in (Requests \cup Sweepers) \ {r} : pc'[q] = pc[q]
          /\ stale' = stale /\ pc[r] # "idle" /\ (r \in Aborters => pc'[r] # "idle")
      BY <2>1 DEF AbandonStep, CleanupParts, ExpireObject, DeleteUpload, DeleteCommit, DropKey,
                  memory, TypeOK
    <2> QED
      BY <2>2 DEF JobsWait, Undisturbed, Sent
  <1>5. CASE \E e \in Expirers : ExpireBegin(e)
    <2>1. stale /\ stale' = stale /\ \A q \in Senders : pc'[q] = pc[q]
      BY <1>5 DEF ExpireBegin, memory, TypeOK
    <2> QED
      BY <2>1 DEF JobsWait, Undisturbed, Sent
  <1>6. CASE \E r \in Requests : Fail(r)
    <2>1. PICK r \in Requests : Fail(r)
      BY <1>6
    <2>2. /\ \A q \in (Requests \cup Sweepers) \ {r} : pc'[q] = pc[q]
          /\ pc'[r] = IF r \in Workers THEN "idle" ELSE "failed"
          /\ pc[r] # "idle" /\ parts' = parts /\ stale' = stale
      BY <2>1 DEF Fail, UnderWay, TypeOK
    <2> QED
      BY <2>2 DEF JobsWait, Undisturbed, Sent
  <1>7. CASE OtherFiles \/ Day
    <2>1. pc' = pc /\ parts' = parts /\ (stale => stale')
      BY <1>7 DEF OtherFiles, Day, memory
    <2> QED
      BY <2>1 DEF JobsWait, Undisturbed, Sent
  <1>8. CASE \E k \in Cleaners : CloseRoom(k) \/ CleanStep(k)
    <2>1. PICK k \in Cleaners : CloseRoom(k) \/ CleanStep(k)
      BY <1>8
    <2>2. /\ \A q \in (Requests \cup Sweepers) \ {k} : pc'[q] = pc[q]
          /\ stale' = stale
      BY <2>1 DEF CloseRoom, CleanStep, ListKeys, DeleteUpload, DeleteCommit, DropKey, memory,
                  TypeOK
    <2>3. parts' = parts
      <3>1. Final \notin parts
        BY DEF TypeOK, Final, Indices
      <3> QED
        BY <2>1, <3>1 DEF CloseRoom, CleanStep, ListKeys, DeleteUpload, DeleteCommit, DropKey
    <2> QED
      BY <2>2, <2>3 DEF JobsWait, Undisturbed, Sent
  <1> QED
    BY <1>1, <1>2, <1>3, <1>4, <1>5, <1>6, <1>7, <1>8 DEF Next, Serve

\* Without scans for orphans the chunks that a page has sent stay until its
\* upload is completed, given up or stale, so that it could send only the rest
\* ("If chunk 37 fails, the client retries chunk 37", Plan.md): it is the scans that take
\* them, for no row knows their keys.
THEOREM ChunksStayUntilSwept ==
    ASSUME Sweepers = {}
    PROVE  Spec => []ChunksSurvive
  <1>1. Init => JobsWait /\ PartsKept
    BY DEF Init, JobsWait, PartsKept, Sent
  <1>2. TypeOK /\ JobsWait /\ PartsKept /\ [Next]_vars => (JobsWait /\ PartsKept)'
    <2> SUFFICES ASSUME TypeOK, JobsWait, PartsKept, [Next]_vars PROVE (JobsWait /\ PartsKept)'
      OBVIOUS
    <2>1. CASE UNCHANGED vars
      BY <2>1 DEF vars, JobsWait, PartsKept, Undisturbed, Sent
    <2>2. CASE Next
      BY <2>2, PartsStay DEF PartsKept
    <2> QED
      BY <2>1, <2>2
  <1>3. PartsKept => ChunksSurvive
    BY DEF PartsKept, Undisturbed, Sent, ChunksSurvive
  <1> QED
    BY <1>1, <1>2, <1>3, TypeCorrect, PTL DEF Spec
=============================================================================
