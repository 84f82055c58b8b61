------------------------------ MODULE JobQueue ------------------------------
(***************************************************************************)
(* The job queue, its workers, the cleanup scheduler that fills it and the *)
(* lifespan of the server process that starts and stops them.              *)
(*                                                                         *)
(* Everything lives in one event loop: a step is what runs between two     *)
(* awaits.  The queue is in memory and goes with the process; what is due  *)
(* and what is done is in the database and in object storage and stays.    *)
(***************************************************************************)
EXTENDS Integers, Sequences, FiniteSets

CONSTANTS
    Items,          \* pieces of cleanup work: a room, an upload session, an object
    Workers,        \* the worker tasks of the queue
    MaxAttempts,    \* settings.job_max_attempts
    Stop,           \* the sentinel that makes a worker return (None)
    NoItem,         \* what a worker without a job works on
    MaxQueue,       \* bound: a scan enqueues only into a shorter queue
    MaxFailures,    \* bound: how many handler runs and scans raise
    MaxStops        \* bound: how often the process stops or is killed

ASSUME JobsAssumption ==
    /\ Stop \notin Items /\ NoItem \notin Items
    /\ IsFiniteSet(Workers) /\ Workers # {}
    /\ MaxAttempts \in Nat \ {0}
    /\ MaxQueue \in Nat \ {0} /\ MaxFailures \in Nat /\ MaxStops \in Nat

VARIABLES
    due,            \* the items whose time has come
    done,           \* the items whose handler has succeeded
    queue,          \* asyncio.Queue: jobs, each as its item, and sentinels
    worker,         \* worker[w]: what worker task w does
    scheduler,      \* "off", "waiting" for the next scan, or "scanning"
    found,          \* the items of the running scan that are not enqueued yet
    server,         \* "down", "up", or which of its two stops a shutdown awaits
    failures,       \* how many handler runs and scans have raised
    stops           \* how often the process has stopped or been killed

vars == <<due, done, queue, worker, scheduler, found, server, failures, stops>>

TaskPC == {"off", "idle", "running", "backoff", "returned"}
Task(l, i, n) == [pc |-> l, item |-> i, attempt |-> n]
AllAt(l) == [w \in Workers |-> Task(l, NoItem, 0)]

\* One sentinel for every worker task.
Sentinels == [k \in 1..Cardinality(Workers) |-> Stop]

\* A room expires, an upload session goes stale, an object loses its row.
BecomeDue(i) ==
    /\ i \notin due
    /\ due' = due \cup {i}
    /\ UNCHANGED <<done, queue, worker, scheduler, found, server, failures, stops>>

-----------------------------------------------------------------------------
(***************************************************************************)
(* CleanupScheduler                                                        *)
(***************************************************************************)
\* The queries of _scan_once find whatever is due and not done, enqueued before
\* or not.
ScanBegin ==
    /\ scheduler = "waiting"
    /\ server \in {"up", "halting"}
    /\ scheduler' = "scanning"
    /\ found' = due \ done
    /\ UNCHANGED <<due, done, queue, worker, server, failures, stops>>

\* enqueue, one item after the other: the scan awaits the storage in between.
Enqueue(i) ==
    /\ scheduler = "scanning" /\ i \in found
    /\ Len(queue) < MaxQueue
    /\ queue' = Append(queue, i)
    /\ found' = found \ {i}
    /\ UNCHANGED <<due, done, worker, scheduler, server, failures, stops>>

ScanEnd ==
    /\ scheduler = "scanning" /\ found = {}
    /\ scheduler' = "waiting"
    /\ UNCHANGED <<due, done, queue, worker, found, server, failures, stops>>

\* Variant: the exception ends the scheduler's task.
ScanFailsForGood ==
    /\ scheduler = "scanning"
    /\ failures < MaxFailures /\ failures' = failures + 1
    /\ scheduler' = "off"
    /\ found' = {}
    /\ UNCHANGED <<due, done, queue, worker, server, stops>>

\* A query or the storage raises, which ends the scan and is logged.
ScanFails ==
    /\ scheduler = "scanning"
    /\ failures < MaxFailures /\ failures' = failures + 1
    /\ scheduler' = "waiting"
    /\ found' = {}
    /\ UNCHANGED <<due, done, queue, worker, server, stops>>

\* The task sees the stop event in its wait, or ten seconds have passed and it
\* is cancelled in the middle of a scan, whose queries may have been under way
\* when the stop came (see ScanBegin).
SchedulerOff ==
    /\ server = "halting"
    /\ scheduler \in {"waiting", "scanning"}
    /\ scheduler' = "off"
    /\ found' = {}
    /\ UNCHANGED <<due, done, queue, worker, server, failures, stops>>

-----------------------------------------------------------------------------
(***************************************************************************)
(* JobQueue._worker and _run_with_retries                                  *)
(***************************************************************************)
Take(w) ==
    /\ worker[w].pc = "idle"
    /\ queue # <<>>
    /\ queue' = Tail(queue)
    /\ worker' = [worker EXCEPT ![w] = IF Head(queue) = Stop
                                         THEN Task("returned", NoItem, 0)
                                         ELSE Task("running", Head(queue), 1)]
    /\ UNCHANGED <<due, done, scheduler, found, server, failures, stops>>

Succeed(w) ==
    /\ worker[w].pc = "running"
    /\ done' = done \cup {worker[w].item}
    /\ worker' = [worker EXCEPT ![w] = Task("idle", NoItem, 0)]
    /\ UNCHANGED <<due, queue, scheduler, found, server, failures, stops>>

\* Variant: the attempts are compared after the next one has been counted.
GivesUpLate(n) == n > MaxAttempts

GivesUp(n) == n >= MaxAttempts

\* The handler raises: the job is dropped after its last attempt and sleeps
\* before another one.
Raise(w) ==
    /\ worker[w].pc = "running"
    /\ failures < MaxFailures /\ failures' = failures + 1
    /\ worker' = [worker EXCEPT ![w] = IF GivesUp(@.attempt) THEN Task("idle", NoItem, 0)
                                       ELSE Task("backoff", @.item, @.attempt)]
    /\ UNCHANGED <<due, done, queue, scheduler, found, server, stops>>

Retry(w) ==
    /\ worker[w].pc = "backoff"
    /\ worker' = [worker EXCEPT ![w] = Task("running", @.item, @.attempt + 1)]
    /\ UNCHANGED <<due, done, queue, scheduler, found, server, failures, stops>>

-----------------------------------------------------------------------------
(***************************************************************************)
(* lifespan                                                                *)
(***************************************************************************)
\* A new process: an empty queue, its workers and the scheduler.
Start ==
    /\ server = "down"
    /\ server' = "up"
    /\ queue' = <<>>
    /\ worker' = AllAt("idle")
    /\ scheduler' = "waiting"
    /\ found' = {}
    /\ UNCHANGED <<due, done, failures, stops>>

\* Variant: the queue is stopped first, and the scheduler while it drains.
ShutdownQueueFirst ==
    /\ server = "up"
    /\ stops < MaxStops /\ stops' = stops + 1
    /\ queue' = queue \o Sentinels
    /\ server' = "halting"
    /\ UNCHANGED <<due, done, worker, scheduler, found, failures>>

\* scheduler.stop sets the stop event and waits for the scheduler's task.
Shutdown ==
    /\ server = "up"
    /\ stops < MaxStops /\ stops' = stops + 1
    /\ server' = "halting"
    /\ UNCHANGED <<due, done, queue, worker, scheduler, found, failures>>

\* Variant: one sentinel, which one worker takes.
StopQueueOnce ==
    /\ server = "halting" /\ scheduler = "off"
    /\ queue' = Append(queue, Stop)
    /\ server' = "draining"
    /\ UNCHANGED <<due, done, worker, scheduler, found, failures, stops>>

\* Variant: the sentinels go before the jobs that wait.
StopQueueAhead ==
    /\ server = "halting" /\ scheduler = "off"
    /\ queue' = Sentinels \o queue
    /\ server' = "draining"
    /\ UNCHANGED <<due, done, worker, scheduler, found, failures, stops>>

\* JobQueue.stop puts the sentinels and waits for the workers, ...
StopQueue ==
    /\ server = "halting" /\ scheduler = "off"
    /\ queue' = queue \o Sentinels
    /\ server' = "draining"
    /\ UNCHANGED <<due, done, worker, scheduler, found, failures, stops>>

\* ... and the process ends.
Exit ==
    /\ server = "draining"
    /\ \A w \in Workers : worker[w].pc = "returned"
    /\ server' = "down"
    /\ UNCHANGED <<due, done, queue, worker, scheduler, found, failures, stops>>

\* The process is killed.
Kill ==
    /\ server # "down"
    /\ stops < MaxStops /\ stops' = stops + 1
    /\ server' = "down"
    /\ queue' = <<>>
    /\ worker' = AllAt("off")
    /\ scheduler' = "off"
    /\ found' = {}
    /\ UNCHANGED <<due, done, failures>>

Init ==
    /\ due = {} /\ done = {}
    /\ queue = <<>> /\ worker = AllAt("off")
    /\ scheduler = "off" /\ found = {}
    /\ server = "down"
    /\ failures = 0 /\ stops = 0

Scan == ScanBegin \/ (\E i \in Items : Enqueue(i)) \/ ScanEnd \/ ScanFails \/ SchedulerOff
Work(w) == Take(w) \/ Succeed(w) \/ Raise(w) \/ Retry(w)
Lifespan == Start \/ StopQueue \/ Exit

Next ==
    \/ \E i \in Items : BecomeDue(i)
    \/ Scan
    \/ \E w \in Workers : Work(w)
    \/ Lifespan
    \/ Shutdown \/ Kill

Spec == Init /\ [][Next]_vars

\* The event loop runs every task that is ready, timers fire, and a handler ends
\* one way or the other.  Nothing makes an item due, starts or stops the process.
FairSpec ==
    /\ Spec
    /\ WF_vars(Scan) /\ WF_vars(SchedulerOff) /\ WF_vars(StopQueue \/ Exit)
    /\ \A w \in Workers : WF_vars(Work(w))

-----------------------------------------------------------------------------
(***************************************************************************)
(* Properties                                                              *)
(***************************************************************************)
\* The state is well typed; no job is tried more than MaxAttempts times.
TypeOK ==
    /\ due \subseteq Items /\ done \subseteq Items /\ found \subseteq Items
    /\ queue \in Seq(Items \cup {Stop})
    /\ worker \in [Workers -> [pc : TaskPC, item : Items \cup {NoItem}, attempt : 0..MaxAttempts]]
    /\ scheduler \in {"off", "waiting", "scanning"}
    /\ server \in {"down", "up", "halting", "draining"}
    /\ failures \in 0..MaxFailures /\ stops \in 0..MaxStops

\* No job is ever behind a sentinel, where no worker would be left to take it:
\* lifespan stops the scheduler before the queue.
SentinelsAreLast ==
    \A i, j \in 1..Len(queue) : i < j /\ queue[i] = Stop => queue[j] = Stop

\* A shutdown that ends by itself has run every job that was enqueued: no job
\* is left in the queue and no worker is at work on one.
ShutdownLosesNoJob ==
    server = "down" =>
        /\ \A i \in 1..Len(queue) : queue[i] = Stop
        /\ \A w \in Workers : worker[w].item = NoItem

\* If somebody starts the server whenever it is down, every item that is due is
\* done at last, although jobs are dropped after MaxAttempts and a killed process
\* forgets its queue: scans find it again.
DueIsDone == []<>(server = "up") => \A i \in Items : i \in due ~> i \in done

\* A shutdown ends: every worker gets a sentinel and no job keeps one forever
\* (JobQueue.stop).
ShutdownEnds == server \in {"halting", "draining"} ~> server = "down"
=============================================================================
