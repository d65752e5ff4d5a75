---------------------------- MODULE AsyncExecutor ----------------------------
(***************************************************************************)
(* executor/src/async_executor.cpp: a queue of jobs, one worker thread and *)
(* a table of request snapshots, shared by any number of calling threads   *)
(* under one mutex.                                                        *)
(*                                                                         *)
(* A step of the model is one critical section of mutex_, or one call made *)
(* outside it (the handler, the access log, a notification of a condition  *)
(* variable).  Whatever the code does between two critical sections can    *)
(* interleave with the other threads, so the window between an unlock and  *)
(* the notify that follows it is part of the model, as is a spurious       *)
(* wakeup of either condition variable.                                    *)
(*                                                                         *)
(* Abstracted: the SQL text and the answer's text (a job is its id and the *)
(* client it came from; an answer is the fact that the handler returned or *)
(* threw), submittedAt and the handler's sequence number, which only reach *)
(* the log and the JSON, and wall-clock time but for the finishedAt        *)
(* stamps.  These are readings of system_clock, which may be set back: a   *)
(* later one need not be greater.                                          *)
(***************************************************************************)
EXTENDS Integers, Sequences, FiniteSets

CONSTANTS
    RequestIds,  \* the GUIDs generateRequestId() may draw
    Threads,     \* threads that call submit and waitUntilFinished
    MaxStored,   \* maxStoredRequests_
    Readings     \* what system_clock::now() may return, in no order

ASSUME StoredAssumption == MaxStored \in Nat

ASSUME ReadingsAssumption == Readings \subseteq Nat

VARIABLES
    snapshots,   \* snapshots_; an id without an entry has status "absent"
    queue,       \* queue_, head first
    stop,        \* stop_
    worker,      \* the worker thread: where it is, its job, what came of it
    thread,      \* the calling threads: where each is, and its last wait
    dtor,        \* progress of ~AsyncExecutor
    accepted,    \* (history) the jobs in the order submit took them
    accessLog    \* the entries AccessLogger wrote, oldest first

vars == <<snapshots, queue, stop, worker, thread, dtor, accepted, accessLog>>

Statuses == {"absent", "pending", "running", "completed", "failed"}
Finished == {"completed", "failed"}

Job == [id : RequestIds, client : Threads]

NoJob == [id |-> "none", client |-> "none"]

Absent == [status |-> "absent", finishedAt |-> 0]

\* A mistake for Pending: a sentinel where finishedAt is not set.
PendingWithSentinel == [status |-> "pending", finishedAt |-> -1]

Pending == [status |-> "pending", finishedAt |-> 0]

Running == [status |-> "running", finishedAt |-> 0]

Stored == {i \in RequestIds : snapshots[i].status # "absent"}

FinishedIds == {i \in RequestIds : snapshots[i].status \in Finished}

AcceptedIds == {accepted[k].id : k \in 1..Len(accepted)}

-----------------------------------------------------------------------------
(* What a caller can read.  Both run in one critical section and change     *)
(* nothing, so they are functions of the state.                             *)

\* A mistake for QueuePosition: counting from the tail.
QueuePositionFromTail(id) ==
    {Len(queue) - k : k \in {j \in DOMAIN queue : queue[j].id = id}}

\* Number of jobs ahead of id, as a set: empty when id is not queued.
QueuePosition(id) == {k - 1 : k \in {j \in 1..Len(queue) : queue[j].id = id}}

GetStatus(id) ==
    [found    |-> id \in Stored,
     status   |-> snapshots[id].status,
     position |-> IF snapshots[id].status = "pending" THEN QueuePosition(id) ELSE {}]

\* ready is what the JSON shows; ok tells the result from the error text.
GetResult(id) ==
    [found |-> id \in Stored,
     ready |-> snapshots[id].status \in Finished,
     ok    |-> snapshots[id].status = "completed"]

\* A mistake for WaitIsOver: a request that started counts as finished.
WaitIsOverOnceStarted(id) == snapshots[id].status # "pending"

\* The predicate waitUntilFinished sleeps on: true of an unknown id as well.
WaitIsOver(id) == snapshots[id].status \in Finished \cup {"absent"}

-----------------------------------------------------------------------------
Init ==
    /\ snapshots = [i \in RequestIds |-> Absent]
    /\ queue = <<>>
    /\ stop = FALSE
    /\ worker = [pc |-> "testing", job |-> NoJob, ok |-> FALSE]
    /\ thread = [t \in Threads |-> [pc |-> "idle", id |-> "none", answer |-> "none"]]
    /\ dtor = "none"
    /\ accepted = <<>>
    /\ accessLog = <<>>

\* A mistake for WakeWorker: the notification is missing.
WakeNobody == UNCHANGED worker

\* cv_.notify_one / notify_all: there is one worker to wake.
WakeWorker == worker' = [worker EXCEPT !.pc = IF @ = "blocked" THEN "testing" ELSE @]

-----------------------------------------------------------------------------
(* Calls made by the other threads.                                         *)

\* Two mistakes for PruneVictims: forgetting to skip unfinished requests, and
\* erasing the newest finished one.
PruneVictimsOfAnyStatus ==
    IF Cardinality(Stored) < MaxStored
    THEN {}
    ELSE {i \in Stored : \A j \in Stored : snapshots[i].finishedAt <= snapshots[j].finishedAt}

PruneVictimsNewest ==
    IF Cardinality(Stored) < MaxStored
    THEN {}
    ELSE {i \in FinishedIds :
            \A j \in FinishedIds : snapshots[i].finishedAt >= snapshots[j].finishedAt}

\* The snapshots pruneOldSnapshotsLocked may erase: none below the limit,
\* else one of the finished snapshots with the smallest finishedAt (which of
\* them, where two are equal, depends on the hash table's order).
PruneVictims ==
    IF Cardinality(Stored) < MaxStored
    THEN {}
    ELSE {i \in FinishedIds :
            \A j \in FinishedIds : snapshots[i].finishedAt <= snapshots[j].finishedAt}

\* What one call of pruneOldSnapshotsLocked can erase: one victim if there is one.
Pruned == IF PruneVictims = {} THEN {{}} ELSE {{v} : v \in PruneVictims}

Submit(t) ==
    /\ dtor = "none"
    /\ thread[t].pc = "idle"
    /\ \E id \in RequestIds \ AcceptedIds, erased \in Pruned :
         /\ snapshots' = [i \in RequestIds |->
                            IF i = id THEN Pending
                            ELSE IF i \in erased THEN Absent ELSE snapshots[i]]
         /\ queue' = Append(queue, [id |-> id, client |-> t])
         /\ accepted' = Append(accepted, [id |-> id, client |-> t])
    /\ thread' = [thread EXCEPT ![t].pc = "notifying"]
    /\ UNCHANGED <<stop, worker, dtor, accessLog>>

\* submit's cv_.notify_one(), after the lock is gone.
NotifyWorker(t) ==
    /\ thread[t].pc = "notifying"
    /\ thread' = [thread EXCEPT ![t].pc = "idle"]
    /\ WakeWorker
    /\ UNCHANGED <<snapshots, queue, stop, dtor, accepted, accessLog>>

\* Callers wait for an id that submit handed out.
BeginWait(t) ==
    /\ dtor = "none"
    /\ thread[t].pc = "idle"
    /\ \E id \in AcceptedIds :
         thread' = [thread EXCEPT ![t] = [pc |-> "testing", id |-> id, answer |-> "none"]]
    /\ UNCHANGED <<snapshots, queue, stop, worker, dtor, accepted, accessLog>>

\* wait_for evaluates the predicate under the lock: return, or go to sleep.
TestWait(t) ==
    /\ thread[t].pc = "testing"
    /\ thread' = [thread EXCEPT ![t] =
                    IF WaitIsOver(@.id)
                    THEN [pc |-> "idle", id |-> @.id, answer |-> "true"]
                    ELSE [@ EXCEPT !.pc = "blocked"]]
    /\ UNCHANGED <<snapshots, queue, stop, worker, dtor, accepted, accessLog>>

\* The timeout passed: wait_for returns the predicate's value.
WaitTimesOut(t) ==
    /\ thread[t].pc = "blocked"
    /\ thread' = [thread EXCEPT ![t] =
                    [pc |-> "idle", id |-> @.id,
                     answer |-> IF WaitIsOver(@.id) THEN "true" ELSE "false"]]
    /\ UNCHANGED <<snapshots, queue, stop, worker, dtor, accepted, accessLog>>

SpuriousWaitWakeup(t) ==
    /\ thread[t].pc = "blocked"
    /\ thread' = [thread EXCEPT ![t].pc = "testing"]
    /\ UNCHANGED <<snapshots, queue, stop, worker, dtor, accepted, accessLog>>

-----------------------------------------------------------------------------
(* The worker thread: workerLoop and processJob.                            *)

\* cv_.wait found its predicate false and sleeps.
WorkerSleep ==
    /\ worker.pc = "testing"
    /\ ~stop /\ queue = <<>>
    /\ worker' = [worker EXCEPT !.pc = "blocked"]
    /\ UNCHANGED <<snapshots, queue, stop, thread, dtor, accepted, accessLog>>

SpuriousWorkerWakeup ==
    /\ worker.pc = "blocked"
    /\ worker' = [worker EXCEPT !.pc = "testing"]
    /\ UNCHANGED <<snapshots, queue, stop, thread, dtor, accepted, accessLog>>

\* A mistake for WorkerExit: stop_ alone ends the loop.
WorkerExitAtOnce ==
    /\ worker.pc = "testing"
    /\ stop
    /\ worker' = [worker EXCEPT !.pc = "exited"]
    /\ UNCHANGED <<snapshots, queue, stop, thread, dtor, accepted, accessLog>>

WorkerExit ==
    /\ worker.pc = "testing"
    /\ stop /\ queue = <<>>
    /\ worker' = [worker EXCEPT !.pc = "exited"]
    /\ UNCHANGED <<snapshots, queue, stop, thread, dtor, accepted, accessLog>>

\* A mistake for WorkerPop: a stack instead of a queue.
WorkerPopNewest ==
    /\ worker.pc = "testing"
    /\ queue # <<>>
    /\ worker' = [pc |-> "popped", job |-> queue[Len(queue)], ok |-> FALSE]
    /\ queue' = SubSeq(queue, 1, Len(queue) - 1)
    /\ UNCHANGED <<snapshots, stop, thread, dtor, accepted, accessLog>>

WorkerPop ==
    /\ worker.pc = "testing"
    /\ queue # <<>>
    /\ worker' = [pc |-> "popped", job |-> Head(queue), ok |-> FALSE]
    /\ queue' = Tail(queue)
    /\ UNCHANGED <<snapshots, stop, thread, dtor, accepted, accessLog>>

\* updateSnapshot(.., Running, ..) at the head of processJob.
StartJob ==
    /\ worker.pc = "popped"
    /\ snapshots' = [snapshots EXCEPT ![worker.job.id] = Running]
    /\ worker' = [worker EXCEPT !.pc = "handling"]
    /\ UNCHANGED <<queue, stop, thread, dtor, accepted, accessLog>>

\* handler_(job.query) returns a result or throws.
HandlerReturns ==
    /\ worker.pc = "handling"
    /\ \E ok \in BOOLEAN : worker' = [pc |-> "handled", job |-> worker.job, ok |-> ok]
    /\ UNCHANGED <<snapshots, queue, stop, thread, dtor, accepted, accessLog>>

\* updateSnapshot(.., Completed or Failed, ..).
PublishOutcome ==
    /\ worker.pc = "handled"
    /\ \E now \in Readings :
         snapshots' = [snapshots EXCEPT ![worker.job.id] =
                         [status     |-> IF worker.ok THEN "completed" ELSE "failed",
                          finishedAt |-> now]]
    /\ worker' = [worker EXCEPT !.pc = "logging"]
    /\ UNCHANGED <<queue, stop, thread, dtor, accepted, accessLog>>

WriteLog ==
    /\ worker.pc = "logging"
    /\ accessLog' = Append(accessLog, [job |-> worker.job, ok |-> worker.ok])
    /\ worker' = [worker EXCEPT !.pc = "announcing"]
    /\ UNCHANGED <<snapshots, queue, stop, thread, dtor, accepted>>

\* A mistake for NotifyWaiters: notify_one instead of notify_all.
NotifyOneWaiter ==
    /\ worker.pc = "announcing"
    /\ LET Asleep == {t \in Threads : thread[t].pc = "blocked"}
       IN  IF Asleep = {} THEN UNCHANGED thread
           ELSE \E t \in Asleep : thread' = [thread EXCEPT ![t].pc = "testing"]
    /\ worker' = [pc |-> "testing", job |-> NoJob, ok |-> FALSE]
    /\ UNCHANGED <<snapshots, queue, stop, dtor, accepted, accessLog>>

\* finishedCv_.notify_all(), then back to the head of workerLoop.
NotifyWaiters ==
    /\ worker.pc = "announcing"
    /\ thread' = [t \in Threads |->
                    [thread[t] EXCEPT !.pc = IF @ = "blocked" THEN "testing" ELSE @]]
    /\ worker' = [pc |-> "testing", job |-> NoJob, ok |-> FALSE]
    /\ UNCHANGED <<snapshots, queue, stop, dtor, accepted, accessLog>>

-----------------------------------------------------------------------------
(* ~AsyncExecutor.  C++ lets it run only when no thread is inside a call.    *)

BeginDestroy ==
    /\ dtor = "none"
    /\ \A t \in Threads : thread[t].pc = "idle"
    /\ stop' = TRUE
    /\ dtor' = "notifying"
    /\ UNCHANGED <<snapshots, queue, worker, thread, accepted, accessLog>>

DestroyNotify ==
    /\ dtor = "notifying"
    /\ dtor' = "joining"
    /\ WakeWorker
    /\ UNCHANGED <<snapshots, queue, stop, thread, accepted, accessLog>>

DestroyJoin ==
    /\ dtor = "joining"
    /\ worker.pc = "exited"
    /\ dtor' = "done"
    /\ UNCHANGED <<snapshots, queue, stop, worker, thread, accepted, accessLog>>

\* The object is gone: nothing happens any more.
Destroyed == dtor = "done" /\ UNCHANGED vars

-----------------------------------------------------------------------------
WorkerStep ==
    \/ WorkerSleep \/ WorkerExit \/ WorkerPop \/ StartJob \/ HandlerReturns
    \/ PublishOutcome \/ WriteLog \/ NotifyWaiters

CallerStep(t) ==
    \/ Submit(t) \/ NotifyWorker(t) \/ BeginWait(t) \/ TestWait(t)
    \/ WaitTimesOut(t) \/ SpuriousWaitWakeup(t)

DestroyStep == BeginDestroy \/ DestroyNotify \/ DestroyJoin

Next ==
    \/ WorkerStep
    \/ SpuriousWorkerWakeup
    \/ \E t \in Threads : CallerStep(t)
    \/ DestroyStep
    \/ Destroyed

Spec == Init /\ [][Next]_vars

(* A thread that is not asleep keeps running and the handler returns: the   *)
(* scheduler and a terminating query.  Nobody has to call anything, no       *)
(* timeout has to pass and no wakeup has to be spurious.                     *)
Fairness ==
    /\ WF_vars(WorkerStep)
    /\ \A t \in Threads : WF_vars(NotifyWorker(t)) /\ WF_vars(TestWait(t))
    /\ WF_vars(DestroyNotify) /\ WF_vars(DestroyJoin)

FairSpec == Spec /\ Fairness

-----------------------------------------------------------------------------
TypeOK ==
    /\ snapshots \in [RequestIds -> [status : Statuses, finishedAt : Nat]]
    /\ queue \in Seq(Job)
    /\ stop \in BOOLEAN
    /\ worker \in [pc : {"testing", "blocked", "popped", "handling", "handled",
                         "logging", "announcing", "exited"},
                   job : Job \cup {NoJob}, ok : BOOLEAN]
    /\ thread \in [Threads -> [pc : {"idle", "notifying", "testing", "blocked"},
                               id : RequestIds \cup {"none"},
                               answer : {"none", "true", "false"}]]
    /\ dtor \in {"none", "notifying", "joining", "done"}
    /\ accepted \in Seq(Job)
    /\ accessLog \in Seq([job : Job, ok : BOOLEAN])

-----------------------------------------------------------------------------
(* What should hold of it.                                                  *)

\* The worker has a job whose log line is still to be written.
InHand == worker.pc \in {"popped", "handling", "handled", "logging"}

InHandCount == IF InHand THEN 1 ELSE 0

\* Every accepted job is, exactly once and in the order submit took them,
\* logged, in the worker's hand or in the queue: no interleaving of submit,
\* workerLoop and the destructor loses, repeats or reorders a job.
JobsInOrder ==
    /\ Len(accepted) = Len(accessLog) + InHandCount + Len(queue)
    /\ \A k \in 1..Len(accessLog) : accessLog[k].job = accepted[k]
    /\ InHand => worker.job = accepted[Len(accessLog) + 1]
    /\ \A k \in 1..Len(queue) : queue[k] = accepted[Len(accessLog) + InHandCount + k]

\* The snapshot a caller reads agrees with where the job is: pending until
\* the worker takes it, running while the handler works, then the handler's
\* own outcome or nothing.  In particular pruneOldSnapshotsLocked, run by a
\* submitting thread at any moment, never erases a request that still has to
\* finish (processJob would then resurrect it through snapshots_[id]).
SnapshotsFollowJobs ==
    /\ \A k \in 1..Len(queue) : snapshots[queue[k].id].status = "pending"
    /\ worker.pc = "popped" => snapshots[worker.job.id].status = "pending"
    /\ worker.pc \in {"handling", "handled"} => snapshots[worker.job.id].status = "running"
    /\ worker.pc = "logging" =>
         snapshots[worker.job.id].status
            \in {"absent", IF worker.ok THEN "completed" ELSE "failed"}
    /\ \A k \in 1..Len(accessLog) :
         snapshots[accessLog[k].job.id].status
            \in {"absent", IF accessLog[k].ok THEN "completed" ELSE "failed"}
    /\ \A i \in RequestIds \ AcceptedIds : snapshots[i].status = "absent"

\* How many of the accepted jobs have their outcome published.
SettledCount == Len(accessLog) + (IF worker.pc = "logging" THEN 1 ELSE 0)

\* waitUntilFinished says true only of a request whose outcome is settled,
\* although its predicate is also true of an id that has no snapshot.
WaitAnswersSound ==
    \A t \in Threads : thread[t].answer = "true" =>
        \E k \in 1..SettledCount : accepted[k].id = thread[t].id

\* ~AsyncExecutor returns only after every job accepted before it was handled
\* and logged: the worker leaves its loop on stop_ only with an empty queue.
DrainedWhenDestroyed ==
    dtor = "done" => queue = <<>> /\ Len(accessLog) = Len(accepted)

\* Request k finished, by system_clock, after every earlier request that is
\* still stored.
StampedAfterEarlier(k) ==
    \A j \in 1..(k - 1) : {accepted[j].id, accepted[k].id} \subseteq FinishedIds =>
        snapshots[accepted[j].id].finishedAt < snapshots[accepted[k].id].finishedAt

\* What a client polling GET RESULT depends on: submit erases no snapshot that
\* fewer than MaxStored accepted requests have come after, unless the clock was
\* not ahead, when the request finished, of an earlier finish still stored.
RecentResultsKept ==
    [][\A k \in 1..Len(accepted) :
         accepted[k].id \in Stored /\ Len(accepted') - k < MaxStored /\ StampedAfterEarlier(k)
            => accepted[k].id \in Stored']_vars

\* "Maximum of stored snapshots of finished/active requests (protection
\* against a memory leak)", executor_service.h:26.
SnapshotsBounded == Cardinality(Stored) <= MaxStored

AnswersFinal ==
    \A i \in AcceptedIds :
        /\ GetResult(i).ready => GetResult(i)' = GetResult(i) \/ ~GetResult(i)'.found
        /\ ~GetResult(i).found => ~GetResult(i)'.found

\* A result once ready is the answer for good: later reads give the same one
\* or "not found", and a request that was forgotten does not come back.
OutcomeIsFinal == [][AnswersFinal]_vars

\* The queue position getStatus reports only goes down, and a request that
\* has left the queue never has one again.
PositionOnlyAdvances ==
    [][\A i \in AcceptedIds :
         \A p \in GetStatus(i)'.position : \E q \in GetStatus(i).position : p <= q]_vars

\* Every request that was given an id is handled, whatever the other threads
\* do (no wakeup of the worker is lost), the destructor included.
EveryRequestFinishes ==
    \A i \in RequestIds :
        i \in AcceptedIds ~> \E k \in 1..Len(accessLog) : accessLog[k].job.id = i

\* A thread in waitUntilFinished does not sleep on after its request finished:
\* the notification that follows the publication reaches it, no timeout needed.
WaitersReleased ==
    \A t \in Threads :
        thread[t].pc = "blocked" /\ WaitIsOver(thread[t].id) ~> thread[t].pc # "blocked"

\* The destructor's join comes back.
DestructorReturns == stop ~> dtor = "done"

-----------------------------------------------------------------------------
(* The executor implements the lifecycle promised to callers.  A job the     *)
(* worker has popped still reads as pending, and waits until it is started.  *)

LifecycleState ==
    [i \in RequestIds |->
        IF snapshots[i].status # "absent" THEN snapshots[i].status
        ELSE IF i \in AcceptedIds THEN "forgotten" ELSE "new"]

LifecycleWaiting ==
    [k \in 1..(Len(queue) + IF worker.pc = "popped" THEN 1 ELSE 0) |->
        IF worker.pc # "popped" THEN queue[k].id
        ELSE IF k = 1 THEN worker.job.id ELSE queue[k - 1].id]

Lifecycle == INSTANCE RequestLifecycle WITH state <- LifecycleState, waiting <- LifecycleWaiting

\* Every step of the threads is one step of the promised lifecycle, or none,
\* and with the scheduler's fairness service goes on as promised.
ImplementsFairLifecycle == Lifecycle!FairSpec

=============================================================================
