--------------------------- MODULE JobQueueProofs ---------------------------
(***************************************************************************)
(* Proofs about JobQueue, for any number of items, workers and attempts.   *)
(***************************************************************************)
EXTENDS JobQueue, SequenceTheorems, FiniteSetTheorems, TLAPS

NoSentinel == \A i \in 1..Len(queue) : queue[i] # Stop
OnlySentinels == \A i \in 1..Len(queue) : queue[i] = Stop

\* A worker has an item exactly while it runs it or waits to run it again.
WorkersHoldItems == \A w \in Workers :
    IF worker[w].pc \in {"running", "backoff"} THEN worker[w].item \in Items /\ worker[w].attempt >= 1
                                               ELSE worker[w].item = NoItem

\* What holds of the workers, the scheduler and the queue in each phase of the
\* process.
Phases ==
    /\ server \in {"up", "halting"} =>
          NoSentinel /\ \A w \in Workers : worker[w].pc \notin {"off", "returned"}
    /\ server = "draining" =>
          scheduler = "off" /\ \A w \in Workers : worker[w].pc # "off"
    /\ server = "down" =>
          scheduler = "off" /\ OnlySentinels /\ \A w \in Workers : worker[w].pc \in {"off", "returned"}

\* A worker that has returned has left no job behind.
ReturnedLast == \A w \in Workers : worker[w].pc = "returned" => OnlySentinels

\* A job sleeps only if it has an attempt left.
BackoffIsShort == \A w \in Workers :
    worker[w].pc = "backoff" => worker[w].attempt < MaxAttempts

IInv ==
    /\ TypeOK
    /\ SentinelsAreLast
    /\ WorkersHoldItems
    /\ Phases
    /\ ReturnedLast
    /\ BackoffIsShort

-----------------------------------------------------------------------------
(***************************************************************************)
(* The queue.                                                              *)
(***************************************************************************)
\* Sentinels is a sequence of Stop.
LEMMA SentinelsStop ==
    /\ Sentinels \in Seq(Items \cup {Stop})
    /\ \A i \in 1..Len(Sentinels) : Sentinels[i] = Stop
  <1>1. Cardinality(Workers) \in Nat
    BY JobsAssumption, FS_CardinalityType
  <1>2. Sentinels \in [1..Cardinality(Workers) -> Items \cup {Stop}]
    BY DEF Sentinels
  <1>3. Sentinels \in Seq(Items \cup {Stop}) /\ Len(Sentinels) = Cardinality(Workers)
    BY <1>1, <1>2
  <1> QED
    BY <1>3 DEF Sentinels

\* A job appended to a queue without sentinels leaves it without.
LEMMA EnqueueKeeps ==
    ASSUME TypeOK, NEW i \in Items, NoSentinel, queue' = Append(queue, i)
    PROVE  /\ queue' \in Seq(Items \cup {Stop})
           /\ NoSentinel'
           /\ SentinelsAreLast'
  <1>1. /\ queue \in Seq(Items \cup {Stop}) /\ queue' \in Seq(Items \cup {Stop})
        /\ i # Stop
    BY JobsAssumption DEF TypeOK
  <1>2. /\ Len(queue') = Len(queue) + 1
        /\ \A k \in 1..Len(queue) : queue'[k] = queue[k]
        /\ queue'[Len(queue) + 1] = i
    BY <1>1
  <1>3. NoSentinel'
    <2> SUFFICES ASSUME NEW k \in 1..Len(queue') PROVE queue'[k] # Stop
      BY DEF NoSentinel
    <2>1. CASE k \in 1..Len(queue)
      BY <2>1, <1>2 DEF NoSentinel
    <2>2. CASE k = Len(queue) + 1
      BY <2>2, <1>1, <1>2
    <2> QED
      BY <2>1, <2>2, <1>1, <1>2
  <1> QED
    BY <1>1, <1>3 DEF NoSentinel, SentinelsAreLast

\* Taking the head of the queue keeps what holds of the order of the rest, and
\* a sentinel has only sentinels behind it.
LEMMA TakeKeeps ==
    ASSUME TypeOK, SentinelsAreLast, queue # <<>>, queue' = Tail(queue)
    PROVE  /\ queue' \in Seq(Items \cup {Stop})
           /\ Head(queue) \in Items \cup {Stop}
           /\ SentinelsAreLast'
           /\ NoSentinel => NoSentinel' /\ Head(queue) # Stop
           /\ OnlySentinels => OnlySentinels' /\ Head(queue) = Stop
           /\ Head(queue) = Stop => OnlySentinels'
  <1>1. queue \in Seq(Items \cup {Stop})
    BY DEF TypeOK
  <1>2. /\ queue' \in Seq(Items \cup {Stop})
        /\ Head(queue) \in Items \cup {Stop}
        /\ Head(queue) = queue[1]
        /\ Len(queue) \in Nat \ {0}
        /\ Len(queue') = Len(queue) - 1
        /\ \A k \in 1..Len(queue') : queue'[k] = queue[k + 1]
    BY <1>1, HeadTailProperties, EmptySeq
  <1>3. \A k \in 1..Len(queue') : k + 1 \in 1..Len(queue) /\ 1 < k + 1
    BY <1>2
  <1>4. SentinelsAreLast'
    <2> SUFFICES ASSUME NEW i \in 1..Len(queue'), NEW j \in 1..Len(queue'), i < j,
                        queue'[i] = Stop
                 PROVE  queue'[j] = Stop
      BY DEF SentinelsAreLast
    <2>1. queue[i + 1] = Stop /\ i + 1 < j + 1
      BY <1>2
    <2> QED
      BY <2>1, <1>2, <1>3 DEF SentinelsAreLast
  <1>5. 1 \in 1..Len(queue)
    BY <1>2
  <1>6. NoSentinel => NoSentinel' /\ Head(queue) # Stop
    BY <1>2, <1>3, <1>5 DEF NoSentinel
  <1>7. OnlySentinels => OnlySentinels' /\ Head(queue) = Stop
    BY <1>2, <1>3, <1>5 DEF OnlySentinels
  <1>8. Head(queue) = Stop => OnlySentinels'
    BY <1>2, <1>3, <1>5 DEF SentinelsAreLast, OnlySentinels
  <1> QED
    BY <1>2, <1>4, <1>6, <1>7, <1>8

\* Sentinels put behind a queue of jobs are last.
LEMMA StopKeeps ==
    ASSUME TypeOK, NoSentinel, queue' = queue \o Sentinels
    PROVE  queue' \in Seq(Items \cup {Stop}) /\ SentinelsAreLast'
  <1>1. queue \in Seq(Items \cup {Stop}) /\ Sentinels \in Seq(Items \cup {Stop})
    BY SentinelsStop DEF TypeOK
  <1>2. /\ queue' \in Seq(Items \cup {Stop})
        /\ Len(queue) \in Nat /\ Len(Sentinels) \in Nat
        /\ Len(queue') = Len(queue) + Len(Sentinels)
        /\ \A k \in 1..Len(queue') : queue'[k] = IF k <= Len(queue) THEN queue[k]
                                                 ELSE Sentinels[k - Len(queue)]
    BY <1>1, ConcatProperties, LenProperties
  <1>3. ASSUME NEW i \in 1..Len(queue'), NEW j \in 1..Len(queue'), i < j, queue'[i] = Stop
        PROVE  queue'[j] = Stop
    <2>1. ~ (i <= Len(queue))
      <3>1. SUFFICES ASSUME i <= Len(queue) PROVE FALSE
        OBVIOUS
      <3>2. i \in 1..Len(queue) /\ queue'[i] = queue[i]
        BY <3>1, <1>2
      <3> QED
        BY <3>2, <1>3 DEF NoSentinel
    <2>2. j - Len(queue) \in 1..Len(Sentinels) /\ queue'[j] = Sentinels[j - Len(queue)]
      BY <2>1, <1>2, <1>3
    <2> QED
      BY <2>2, SentinelsStop
  <1> QED
    BY <1>2, <1>3 DEF SentinelsAreLast

-----------------------------------------------------------------------------
(***************************************************************************)
(* The inductive invariant.                                                *)
(***************************************************************************)
LEMMA InitInv == Init => IInv
  <1> SUFFICES ASSUME Init PROVE IInv
    OBVIOUS
  <1>1. TypeOK
    BY JobsAssumption DEF Init, TypeOK, AllAt, Task, TaskPC
  <1>2. OnlySentinels /\ SentinelsAreLast
    BY DEF Init, OnlySentinels, SentinelsAreLast
  <1> QED
    BY <1>1, <1>2 DEF Init, IInv, WorkersHoldItems, Phases, ReturnedLast, BackoffIsShort,
                      AllAt, Task

\* A step that leaves the queue alone leaves its properties alone.
LEMMA SameQueue ==
    ASSUME queue' = queue
    PROVE  /\ SentinelsAreLast' <=> SentinelsAreLast
           /\ NoSentinel' <=> NoSentinel
           /\ OnlySentinels' <=> OnlySentinels
  BY DEF SentinelsAreLast, NoSentinel, OnlySentinels

\* So do the scans, which put jobs only into a queue that is not being stopped.
LEMMA ScanStep == ASSUME IInv, Scan PROVE IInv'
  <1>1. CASE \E i \in Items : Enqueue(i)
    <2> PICK i \in Items : Enqueue(i)
      BY <1>1
    <2>1. NoSentinel /\ server \in {"up", "halting"}
      BY DEF Enqueue, IInv, Phases, TypeOK
    <2>2. queue' \in Seq(Items \cup {Stop}) /\ NoSentinel' /\ SentinelsAreLast'
      BY <2>1, EnqueueKeeps DEF Enqueue, IInv
    <2> QED
      BY <2>1, <2>2 DEF Enqueue, IInv, TypeOK, WorkersHoldItems, Phases, ReturnedLast, BackoffIsShort
  <1>2. CASE ScanBegin \/ ScanEnd \/ ScanFails \/ SchedulerOff
    <2>1. UNCHANGED <<queue, worker, server>>
      BY <1>2 DEF ScanBegin, ScanEnd, ScanFails, SchedulerOff
    <2>2. TypeOK'
      BY <1>2, JobsAssumption DEF ScanBegin, ScanEnd, ScanFails, SchedulerOff, IInv, TypeOK
    <2>3. Phases'
      BY <1>2, <2>1, SameQueue DEF ScanBegin, ScanEnd, ScanFails, SchedulerOff, IInv, Phases
    <2> QED
      BY <2>1, <2>2, <2>3, SameQueue DEF IInv, WorkersHoldItems, ReturnedLast, BackoffIsShort
  <1> QED
    BY <1>1, <1>2 DEF Scan

LEMMA TakeStep == ASSUME IInv, NEW w \in Workers, Take(w) PROVE IInv'
  <1>1. /\ queue' \in Seq(Items \cup {Stop})
        /\ Head(queue) \in Items \cup {Stop}
        /\ SentinelsAreLast'
        /\ NoSentinel => NoSentinel' /\ Head(queue) # Stop
        /\ OnlySentinels => OnlySentinels' /\ Head(queue) = Stop
        /\ Head(queue) = Stop => OnlySentinels'
    BY TakeKeeps DEF Take, IInv
  <1>2. server # "down" /\ UNCHANGED <<server, scheduler>>
    BY DEF Take, IInv, Phases
  <1>3. \A u \in Workers : u # w => worker'[u] = worker[u]
    BY DEF Take, IInv, TypeOK
  <1>4. CASE Head(queue) = Stop
    <2>1. worker'[w] = Task("returned", NoItem, 0)
      BY <1>4 DEF Take, IInv, TypeOK
    <2>2. TypeOK'
      BY <1>1, <1>4, JobsAssumption DEF Take, IInv, TypeOK, Task, TaskPC
    <2>3. OnlySentinels' /\ ~NoSentinel
      BY <1>1, <1>4
    <2>4. WorkersHoldItems' /\ BackoffIsShort'
      BY <1>3, <2>1 DEF IInv, WorkersHoldItems, BackoffIsShort, Task
    <2>5. server = "draining"
      BY <1>2, <2>3 DEF IInv, TypeOK, Phases
    <2>6. Phases'
      BY <1>2, <1>3, <2>1, <2>5 DEF IInv, Phases, Task
    <2> QED
      BY <1>1, <2>2, <2>3, <2>4, <2>6 DEF IInv, ReturnedLast
  <1>5. CASE Head(queue) # Stop
    <2>1. worker'[w] = Task("running", Head(queue), 1) /\ Head(queue) \in Items
      BY <1>1, <1>5 DEF Take, IInv, TypeOK
    <2>2. TypeOK'
      BY <1>1, <1>5, <2>1, JobsAssumption DEF Take, IInv, TypeOK, Task, TaskPC
    <2>3. WorkersHoldItems' /\ BackoffIsShort'
      BY <1>3, <2>1 DEF IInv, WorkersHoldItems, BackoffIsShort, Task
    <2>4. Phases' /\ ReturnedLast'
      BY <1>1, <1>2, <1>3, <1>5, <2>1 DEF IInv, Phases, ReturnedLast, Task
    <2> QED
      BY <1>1, <2>2, <2>3, <2>4 DEF IInv
  <1> QED
    BY <1>4, <1>5

LEMMA WorkStep == ASSUME IInv, NEW w \in Workers, Work(w) PROVE IInv'
  <1>1. CASE Take(w)
    BY <1>1, TakeStep
  <1>2. CASE Succeed(w) \/ Raise(w) \/ Retry(w)
    <2>1. /\ UNCHANGED <<queue, server, scheduler, due, found, stops>>
          /\ worker[w].pc \in {"running", "backoff"}
          /\ worker[w].item \in Items /\ worker[w].attempt \in 1..MaxAttempts
          /\ \A u \in Workers : u # w => worker'[u] = worker[u]
      BY <1>2 DEF Succeed, Raise, Retry, IInv, TypeOK, WorkersHoldItems
    <2>2. \/ worker'[w] = Task("idle", NoItem, 0)
          \/ /\ worker'[w] = Task("backoff", worker[w].item, worker[w].attempt)
             /\ worker[w].attempt < MaxAttempts
          \/ /\ worker'[w] = Task("running", worker[w].item, worker[w].attempt + 1)
             /\ worker[w].attempt < MaxAttempts
      BY <1>2, <2>1, JobsAssumption DEF Succeed, Raise, Retry, GivesUp, IInv, TypeOK, BackoffIsShort
    <2>3. done' \subseteq Items /\ failures' \in 0..MaxFailures
      BY <1>2, <2>1, JobsAssumption DEF Succeed, Raise, Retry, IInv, TypeOK
    <2>4. worker'[w] \in [pc : TaskPC, item : Items \cup {NoItem}, attempt : 0..MaxAttempts]
      BY <2>1, <2>2, JobsAssumption DEF Task, TaskPC
    <2>5. worker' = [worker EXCEPT ![w] = worker'[w]]
      BY <1>2 DEF Succeed, Raise, Retry, IInv, TypeOK
    <2>6. TypeOK'
      BY <2>1, <2>3, <2>4, <2>5 DEF IInv, TypeOK
    <2>7. WorkersHoldItems' /\ BackoffIsShort'
      BY <2>1, <2>2 DEF IInv, WorkersHoldItems, BackoffIsShort, Task
    <2>8. Phases' /\ ReturnedLast'
      BY <2>1, <2>2, SameQueue DEF IInv, Phases, ReturnedLast, Task
    <2> QED
      BY <2>1, <2>6, <2>7, <2>8, SameQueue DEF IInv
  <1> QED
    BY <1>1, <1>2 DEF Work

\* The queue is empty where the process starts and where it is killed; what a
\* shutdown that ended by itself has left are sentinels.
LEMMA LifespanStep == ASSUME IInv, Lifespan \/ Shutdown \/ Kill PROVE IInv'
  <1>1. CASE Start \/ Kill
    <2>1. queue' = <<>> /\ \E l \in {"idle", "off"} : worker' = AllAt(l)
      BY <1>1 DEF Start, Kill
    <2>2. TypeOK'
      <3>1. worker' \in [Workers -> [pc : TaskPC, item : Items \cup {NoItem}, attempt : 0..MaxAttempts]]
        BY <2>1, JobsAssumption DEF AllAt, Task, TaskPC
      <3>2. stops' \in 0..MaxStops
        BY <1>1, JobsAssumption DEF Start, Kill, IInv, TypeOK
      <3> QED
        BY <1>1, <2>1, <3>1, <3>2 DEF Start, Kill, IInv, TypeOK
    <2>3. SentinelsAreLast' /\ NoSentinel' /\ OnlySentinels'
      BY <2>1 DEF SentinelsAreLast, NoSentinel, OnlySentinels
    <2>4. WorkersHoldItems' /\ BackoffIsShort' /\ ReturnedLast'
      BY <2>1 DEF AllAt, Task, WorkersHoldItems, BackoffIsShort, ReturnedLast
    <2>5. Phases'
      BY <1>1, <2>3 DEF Start, Kill, AllAt, Task, Phases
    <2> QED
      BY <2>2, <2>3, <2>4, <2>5 DEF IInv
  <1>2. CASE StopQueue
    <2>1. NoSentinel /\ \A w \in Workers : worker[w].pc \notin {"off", "returned"}
      BY <1>2 DEF StopQueue, IInv, Phases
    <2>2. queue' \in Seq(Items \cup {Stop}) /\ SentinelsAreLast'
      BY <1>2, <2>1, StopKeeps DEF StopQueue, IInv
    <2> QED
      BY <1>2, <2>1, <2>2
      DEF StopQueue, IInv, TypeOK, WorkersHoldItems, Phases, ReturnedLast, BackoffIsShort
  <1>3. CASE Exit
    <2>1. OnlySentinels
      BY <1>3, JobsAssumption DEF Exit, IInv, ReturnedLast
    <2> QED
      BY <1>3, <2>1, SameQueue
      DEF Exit, IInv, TypeOK, WorkersHoldItems, Phases, ReturnedLast, BackoffIsShort
  <1>4. CASE Shutdown
    BY <1>4, SameQueue, JobsAssumption
    DEF Shutdown, IInv, TypeOK, WorkersHoldItems, Phases, ReturnedLast, BackoffIsShort
  <1> QED
    BY <1>1, <1>2, <1>3, <1>4 DEF Lifespan

LEMMA StepInv == IInv /\ [Next]_vars => IInv'
  <1> SUFFICES ASSUME IInv, [Next]_vars PROVE IInv'
    OBVIOUS
  <1>1. CASE \E i \in Items : BecomeDue(i)
    <2>1. /\ due' \subseteq Items
          /\ UNCHANGED <<done, queue, worker, scheduler, found, server, failures, stops>>
      BY <1>1 DEF BecomeDue, IInv, TypeOK
    <2> QED
      BY <2>1, SameQueue
      DEF IInv, TypeOK, WorkersHoldItems, Phases, ReturnedLast, BackoffIsShort
  <1>2. CASE UNCHANGED vars
    BY <1>2, SameQueue
    DEF vars, IInv, TypeOK, WorkersHoldItems, Phases, ReturnedLast, BackoffIsShort
  <1> QED
    BY <1>1, <1>2, ScanStep, WorkStep, LifespanStep DEF Next

-----------------------------------------------------------------------------
(***************************************************************************)
(* The theorems.                                                           *)
(***************************************************************************)
LEMMA AlwaysInv == Spec => []IInv
  BY InitInv, StepInv, PTL DEF Spec

\* Every state is well typed: a job is tried at most MaxAttempts times
\* (_run_with_retries).
THEOREM QueueTypes == Spec => []TypeOK
  BY AlwaysInv, PTL DEF IInv

\* No job is ever enqueued behind a sentinel of stop (JobQueue.stop, lifespan).
THEOREM NoJobBehindSentinel == Spec => []SentinelsAreLast
  BY AlwaysInv, PTL DEF IInv

\* A process that has ended by itself has left no job in its queue and none
\* half done, for any number of workers and jobs (JobQueue.stop).
THEOREM ShutdownDrains == Spec => []ShutdownLosesNoJob
  <1>1. IInv => ShutdownLosesNoJob
    BY DEF IInv, Phases, WorkersHoldItems, OnlySentinels, ShutdownLosesNoJob
  <1> QED
    BY <1>1, AlwaysInv, PTL
=============================================================================
