------------------------- MODULE AsyncExecutorProofs -------------------------
(***************************************************************************)
(* Proofs about AsyncExecutor, for any set of ids and calling threads, any *)
(* limit of stored snapshots and a clock that may be set back at any time. *)
(*                                                                         *)
(* The inductive invariant says where every accepted job is (JobsInOrder), *)
(* that ids are not reused, what each snapshot reads as in each of those   *)
(* places (SnapshotsFollowJobs), that a waiting thread waits for an        *)
(* accepted request, and how far the destructor and the worker's exit have *)
(* gone.  The rest follows from it.                                        *)
(***************************************************************************)
EXTENDS AsyncExecutor, FiniteSetTheorems, SequenceTheorems, TLAPS

\* Ids are not reused: generateRequestId draws a fresh GUID.
IdsDistinct ==
    \A a, b \in 1..Len(accepted) : accepted[a].id = accepted[b].id => a = b

\* A thread inside waitUntilFinished waits for a request submit accepted.
WaitersKnown ==
    \A t \in Threads : thread[t].pc \in {"testing", "blocked"} => thread[t].id \in AcceptedIds

\* The worker leaves only after stop_ and an empty queue; the destructor is
\* done only after the worker left; stop_ is set exactly while it runs.
ExitInOrder ==
    /\ stop <=> dtor # "none"
    /\ worker.pc = "exited" => stop /\ queue = <<>>
    /\ dtor = "done" => worker.pc = "exited"

IInv ==
    /\ TypeOK
    /\ IdsDistinct
    /\ JobsInOrder
    /\ SnapshotsFollowJobs
    /\ WaitersKnown
    /\ ExitInOrder
    /\ WaitAnswersSound

-----------------------------------------------------------------------------
\* The state a new AsyncExecutor starts in has the invariant.
LEMMA InitIInv == Init => IInv
  <1> SUFFICES ASSUME Init PROVE IInv
    OBVIOUS
  <1> USE DEF Init, Absent, NoJob
  <1>1. TypeOK
    <2>1. <<>> \in Seq(Job) /\ <<>> \in Seq([job : Job, ok : BOOLEAN])
      OBVIOUS
    <2>2. snapshots \in [RequestIds -> [status : Statuses, finishedAt : Nat]]
      BY DEF Statuses
    <2> QED
      BY <2>1, <2>2 DEF TypeOK
  <1>2. IdsDistinct /\ JobsInOrder
    BY DEF IdsDistinct, JobsInOrder, InHand, InHandCount
  <1>3. SnapshotsFollowJobs
    BY DEF SnapshotsFollowJobs
  <1>4. WaitersKnown /\ ExitInOrder /\ WaitAnswersSound
    BY DEF WaitersKnown, ExitInOrder, WaitAnswersSound
  <1> QED
    BY <1>1, <1>2, <1>3, <1>4 DEF IInv

\* Every step of every thread keeps the variables in their types.
LEMMA TypeStep == TypeOK /\ JobsInOrder /\ [Next]_vars => TypeOK'
  <1> SUFFICES ASSUME TypeOK, JobsInOrder, [Next]_vars PROVE TypeOK'
    OBVIOUS
  <1> USE DEF TypeOK
  <1>1. ASSUME NEW t \in Threads, Submit(t) PROVE TypeOK'
    <2>1. PICK id \in RequestIds \ AcceptedIds, erased \in Pruned :
             /\ snapshots' = [i \in RequestIds |->
                                IF i = id THEN Pending
                                ELSE IF i \in erased THEN Absent ELSE snapshots[i]]
             /\ queue' = Append(queue, [id |-> id, client |-> t])
             /\ accepted' = Append(accepted, [id |-> id, client |-> t])
      BY <1>1 DEF Submit
    <2>2. [id |-> id, client |-> t] \in Job
      BY DEF Job
    <2>3. queue' \in Seq(Job) /\ accepted' \in Seq(Job)
      BY <2>1, <2>2
    <2>4. snapshots' \in [RequestIds -> [status : Statuses, finishedAt : Nat]]
      BY <2>1 DEF Pending, Absent, Statuses
    <2>5. thread' = [thread EXCEPT ![t].pc = "notifying"]
      BY <1>1 DEF Submit
    <2>6. thread' \in [Threads -> [pc : {"idle", "notifying", "testing", "blocked"},
                                   id : RequestIds \cup {"none"},
                                   answer : {"none", "true", "false"}]]
      BY <2>5
    <2> QED
      BY <1>1, <2>3, <2>4, <2>6 DEF Submit
  <1>2. ASSUME NEW t \in Threads, NotifyWorker(t) PROVE TypeOK'
    <2>1. worker' = [worker EXCEPT !.pc = IF @ = "blocked" THEN "testing" ELSE @]
      BY <1>2 DEF NotifyWorker, WakeWorker
    <2>2. worker' \in [pc : {"testing", "blocked", "popped", "handling", "handled",
                            "logging", "announcing", "exited"},
                      job : Job \cup {NoJob}, ok : BOOLEAN]
      BY <2>1
    <2>3. thread' = [thread EXCEPT ![t].pc = "idle"]
      BY <1>2 DEF NotifyWorker
    <2>4. thread' \in [Threads -> [pc : {"idle", "notifying", "testing", "blocked"},
                                   id : RequestIds \cup {"none"},
                                   answer : {"none", "true", "false"}]]
      BY <2>3
    <2> QED
      BY <1>2, <2>2, <2>4 DEF NotifyWorker
  <1>3. ASSUME NEW t \in Threads, BeginWait(t) PROVE TypeOK'
    <2>1. AcceptedIds \subseteq RequestIds
      <3>1. \A k \in 1..Len(accepted) : accepted[k] \in Job
        OBVIOUS
      <3> QED
        BY <3>1 DEF AcceptedIds, Job
    <2> QED
      BY <1>3, <2>1 DEF BeginWait
  <1>4. ASSUME NEW t \in Threads, TestWait(t) \/ WaitTimesOut(t) \/ SpuriousWaitWakeup(t)
        PROVE TypeOK'
    <2>1. CASE TestWait(t)
      <3>1. thread' = [thread EXCEPT ![t] =
                          IF WaitIsOver(@.id)
                          THEN [pc |-> "idle", id |-> @.id, answer |-> "true"]
                          ELSE [@ EXCEPT !.pc = "blocked"]]
        BY <2>1 DEF TestWait
      <3>2. thread' \in [Threads -> [pc : {"idle", "notifying", "testing", "blocked"},
                                     id : RequestIds \cup {"none"},
                                     answer : {"none", "true", "false"}]]
        BY <3>1
      <3> QED
        BY <2>1, <3>2 DEF TestWait
    <2>2. CASE WaitTimesOut(t)
      BY <2>2 DEF WaitTimesOut
    <2>3. CASE SpuriousWaitWakeup(t)
      BY <2>3 DEF SpuriousWaitWakeup
    <2> QED
      BY <1>4, <2>1, <2>2, <2>3
  <1>5. CASE WorkerSleep \/ SpuriousWorkerWakeup \/ WorkerExit
    BY <1>5 DEF WorkerSleep, SpuriousWorkerWakeup, WorkerExit
  <1>6. CASE WorkerPop
    <2>1. Head(queue) \in Job /\ Tail(queue) \in Seq(Job)
      BY <1>6 DEF WorkerPop
    <2>2. worker' = [pc |-> "popped", job |-> Head(queue), ok |-> FALSE]
      BY <1>6 DEF WorkerPop
    <2> QED
      BY <1>6, <2>1, <2>2 DEF WorkerPop
  <1>7. CASE StartJob
    BY <1>7 DEF StartJob, Running, Statuses
  <1>8. CASE HandlerReturns
    BY <1>8 DEF HandlerReturns
  <1>9. CASE PublishOutcome
    <2>1. PICK now \in Readings :
             snapshots' = [snapshots EXCEPT ![worker.job.id] =
                             [status     |-> IF worker.ok THEN "completed" ELSE "failed",
                              finishedAt |-> now]]
      BY <1>9 DEF PublishOutcome
    <2>2. now \in Nat
      BY ReadingsAssumption
    <2>3. snapshots' \in [RequestIds -> [status : Statuses, finishedAt : Nat]]
      BY <2>1, <2>2 DEF Statuses
    <2> QED
      BY <1>9, <2>1, <2>2, <2>3 DEF PublishOutcome
  <1>10. CASE WriteLog
    <2>1. worker.job \in Job
      BY <1>10 DEF WriteLog, JobsInOrder, InHand, InHandCount
    <2>2. [job |-> worker.job, ok |-> worker.ok] \in [job : Job, ok : BOOLEAN]
      BY <2>1
    <2>3. accessLog' \in Seq([job : Job, ok : BOOLEAN])
      BY <1>10, <2>2 DEF WriteLog
    <2> QED
      BY <1>10, <2>3 DEF WriteLog
  <1>12. CASE NotifyWaiters
    BY <1>12 DEF NotifyWaiters
  <1>13. CASE DestroyStep \/ Destroyed \/ UNCHANGED vars
    BY <1>13 DEF DestroyStep, BeginDestroy, DestroyNotify, DestroyJoin, Destroyed, WakeWorker, vars
  <1> QED
    BY <1>1, <1>2, <1>3, <1>4, <1>5, <1>6, <1>7, <1>8, <1>9, <1>10, <1>12, <1>13
    DEF Next, WorkerStep, CallerStep

-----------------------------------------------------------------------------
\* No step loses, repeats or reorders a job, and no id is used twice.
LEMMA JobsStep ==
    TypeOK /\ JobsInOrder /\ IdsDistinct /\ [Next]_vars => JobsInOrder' /\ IdsDistinct'
  <1> SUFFICES ASSUME TypeOK, JobsInOrder, IdsDistinct, [Next]_vars
               PROVE  JobsInOrder' /\ IdsDistinct'
    OBVIOUS
  <1>a. /\ queue \in Seq(Job) /\ accepted \in Seq(Job)
        /\ accessLog \in Seq([job : Job, ok : BOOLEAN])
    BY DEF TypeOK
  <1>b. /\ InHandCount \in 0..1 /\ (InHand <=> InHandCount = 1)
        /\ InHandCount' \in 0..1 /\ (InHand' <=> InHandCount' = 1)
    BY DEF InHandCount
  <1>c. Len(queue) \in Nat /\ Len(accepted) \in Nat /\ Len(accessLog) \in Nat
    BY <1>a, LenProperties
  <1>d. Len(accepted) = Len(accessLog) + InHandCount + Len(queue)
    BY DEF JobsInOrder
  <1> USE <1>a, <1>b, <1>c
  <1>1. ASSUME NEW t \in Threads, Submit(t) PROVE JobsInOrder' /\ IdsDistinct'
    <2>1. PICK id \in RequestIds \ AcceptedIds :
             /\ queue' = Append(queue, [id |-> id, client |-> t])
             /\ accepted' = Append(accepted, [id |-> id, client |-> t])
      BY <1>1 DEF Submit
    <2> DEFINE job == [id |-> id, client |-> t]
    <2>2. \A k \in 1..Len(accepted) : accepted[k].id # id
      BY <2>1 DEF AcceptedIds
    <2>3. job \in Job /\ job.id = id
      BY DEF Job
    <2> HIDE DEF job
    <2>4. /\ queue' \in Seq(Job)
          /\ Len(queue') = Len(queue) + 1
          /\ \A k \in 1..Len(queue) : queue'[k] = queue[k]
          /\ queue'[Len(queue) + 1] = job
      BY <2>1, <2>3, AppendProperties DEF job
    <2>5. /\ accepted' \in Seq(Job)
          /\ Len(accepted') = Len(accepted) + 1
          /\ \A k \in 1..Len(accepted) : accepted'[k] = accepted[k]
          /\ accepted'[Len(accepted) + 1] = job
      BY <2>1, <2>3, AppendProperties DEF job
    <2>6. worker' = worker /\ accessLog' = accessLog /\ InHandCount' = InHandCount
      BY <1>1 DEF Submit, InHandCount, InHand
    <2>7. IdsDistinct'
      <3>1. SUFFICES ASSUME NEW a \in 1..Len(accepted'), NEW b \in 1..Len(accepted'),
                            accepted'[a].id = accepted'[b].id
                     PROVE  a = b
        BY DEF IdsDistinct
      <3> QED
        BY <2>2, <2>3, <2>5, <3>1 DEF IdsDistinct
    <2>8. JobsInOrder'
      <3>1. Len(accepted') = Len(accessLog') + InHandCount' + Len(queue')
        BY <2>4, <2>5, <2>6 DEF JobsInOrder
      <3>2. \A k \in 1..Len(accessLog') : accessLog'[k].job = accepted'[k]
        BY <2>5, <2>6 DEF JobsInOrder
      <3>3. InHand' => worker'.job = accepted'[Len(accessLog') + 1]
        BY <2>5, <2>6 DEF JobsInOrder
      <3>4. \A k \in 1..Len(queue') : queue'[k] = accepted'[Len(accessLog') + InHandCount' + k]
        <4> TAKE k \in 1..Len(queue')
        <4>1. CASE k = Len(queue) + 1
          BY <2>4, <2>5, <2>6, <4>1 DEF JobsInOrder
        <4>2. CASE k \in 1..Len(queue)
          <5>1. Len(accessLog) + InHandCount + k \in 1..Len(accepted)
            BY <4>2 DEF JobsInOrder
          <5> QED
            BY <2>4, <2>5, <2>6, <4>2, <5>1 DEF JobsInOrder
        <4> QED
          BY <2>4, <4>1, <4>2
      <3> QED
        BY <3>1, <3>2, <3>3, <3>4 DEF JobsInOrder
    <2> QED
      BY <2>7, <2>8
  <1>2. CASE WorkerPop
    <2>1. /\ queue # <<>> /\ queue' = Tail(queue)
          /\ worker.pc = "testing"
          /\ worker' = [pc |-> "popped", job |-> Head(queue), ok |-> FALSE]
          /\ accepted' = accepted /\ accessLog' = accessLog
      BY <1>2 DEF WorkerPop
    <2>2. worker'.job = queue[1] /\ InHandCount = 0 /\ InHandCount' = 1
      BY <2>1 DEF TypeOK, InHandCount, InHand
    <2>3. /\ queue' \in Seq(Job)
          /\ Len(queue') = Len(queue) - 1
          /\ Len(queue) > 0
          /\ \A k \in 1..Len(queue') : queue'[k] = queue[k + 1]
      BY <2>1, HeadTailProperties
    <2>4. \A k \in 1..Len(queue') : queue'[k] = accepted[Len(accessLog) + 1 + k]
      <3> TAKE k \in 1..Len(queue')
      <3>1. queue[k + 1] = accepted[Len(accessLog) + (k + 1)]
        BY <2>2, <2>3 DEF JobsInOrder
      <3> QED
        BY <2>3, <3>1
    <2>5. queue[1] = accepted[Len(accessLog) + 1]
      BY <2>2, <2>3 DEF JobsInOrder
    <2>6. JobsInOrder'
      <3>1. Len(accepted') = Len(accessLog') + InHandCount' + Len(queue')
        <4>1. Len(accepted') = Len(accepted) /\ Len(accessLog') = Len(accessLog)
          BY <2>1
        <4> QED
          BY <1>d, <2>2, <2>3, <4>1
      <3>2. \A k \in 1..Len(accessLog') : accessLog'[k].job = accepted'[k]
        BY <2>1 DEF JobsInOrder
      <3>3. worker'.job = accepted'[Len(accessLog') + 1]
        BY <2>1, <2>2, <2>5
      <3>4. \A k \in 1..Len(queue') : queue'[k] = accepted'[Len(accessLog') + InHandCount' + k]
        BY <2>1, <2>2, <2>4
      <3> QED
        BY <3>1, <3>2, <3>3, <3>4 DEF JobsInOrder
    <2> QED
      BY <2>1, <2>6 DEF IdsDistinct
  <1>3. CASE WriteLog
    <2>1. /\ worker.pc = "logging" /\ worker'.pc = "announcing"
          /\ accessLog' = Append(accessLog, [job |-> worker.job, ok |-> worker.ok])
          /\ UNCHANGED <<accepted, queue>>
      BY <1>3 DEF WriteLog
    <2>2. InHandCount = 1 /\ InHandCount' = 0 /\ worker.job = accepted[Len(accessLog) + 1]
      BY <2>1 DEF JobsInOrder, InHand
    <2>3. /\ accessLog' \in Seq([job : Job, ok : BOOLEAN])
          /\ Len(accessLog') = Len(accessLog) + 1
          /\ \A k \in 1..Len(accessLog) : accessLog'[k] = accessLog[k]
          /\ accessLog'[Len(accessLog) + 1].job = worker.job
      <3>1. [job |-> worker.job, ok |-> worker.ok] \in [job : Job, ok : BOOLEAN]
        BY <2>2, ElementOfSeq DEF TypeOK, JobsInOrder
      <3> DEFINE entry == [job |-> worker.job, ok |-> worker.ok]
      <3>2. entry.job = worker.job /\ entry \in [job : Job, ok : BOOLEAN]
        BY <3>1
      <3>3. accessLog' = Append(accessLog, entry)
        BY <2>1
      <3> HIDE DEF entry
      <3> QED
        BY <3>2, <3>3, AppendProperties
    <2>4. \A k \in 1..Len(accessLog') : accessLog'[k].job = accepted[k]
      <3> TAKE k \in 1..Len(accessLog')
      <3>1. CASE k = Len(accessLog) + 1
        BY <2>2, <2>3, <3>1
      <3>2. CASE k \in 1..Len(accessLog)
        BY <2>3, <3>2 DEF JobsInOrder
      <3> QED
        BY <2>3, <3>1, <3>2
    <2>5. \A k \in 1..Len(queue) : queue[k] = accepted[Len(accessLog') + k]
      BY <2>2, <2>3 DEF JobsInOrder
    <2>6. JobsInOrder'
      <3>1. Len(accepted') = Len(accessLog') + InHandCount' + Len(queue')
        BY <1>d, <2>1, <2>2, <2>3
      <3>2. \A k \in 1..Len(queue') : queue'[k] = accepted'[Len(accessLog') + InHandCount' + k]
        <4> TAKE k \in 1..Len(queue')
        <4>1. Len(accessLog') + InHandCount' + k = Len(accessLog') + k
          BY <2>2, <2>3
        <4> QED
          BY <2>1, <2>5, <4>1
      <3> QED
        BY <2>1, <2>2, <2>4, <3>1, <3>2 DEF JobsInOrder
    <2> QED
      BY <2>1, <2>6 DEF IdsDistinct
  <1>4. CASE /\ UNCHANGED <<accepted, queue, accessLog>>
             /\ InHand' <=> InHand
             /\ InHand => worker'.job = worker.job
    BY <1>4 DEF IdsDistinct, JobsInOrder
  <1>5. CASE \/ WorkerSleep \/ SpuriousWorkerWakeup \/ WorkerExit \/ StartJob
             \/ HandlerReturns \/ PublishOutcome \/ NotifyWaiters
    BY <1>4, <1>5
    DEF WorkerSleep, SpuriousWorkerWakeup, WorkerExit, StartJob, HandlerReturns,
        PublishOutcome, NotifyWaiters, TypeOK, InHand
  <1>6. ASSUME NEW t \in Threads,
               \/ NotifyWorker(t) \/ BeginWait(t) \/ TestWait(t)
               \/ WaitTimesOut(t) \/ SpuriousWaitWakeup(t)
        PROVE JobsInOrder' /\ IdsDistinct'
    BY <1>4, <1>6
    DEF NotifyWorker, WakeWorker, BeginWait, TestWait, WaitTimesOut, SpuriousWaitWakeup, TypeOK, InHand
  <1>7. CASE DestroyStep \/ Destroyed \/ UNCHANGED vars
    BY <1>4, <1>7
    DEF DestroyStep, BeginDestroy, DestroyNotify, DestroyJoin, Destroyed, WakeWorker, vars, TypeOK, InHand
  <1> QED
    BY <1>1, <1>2, <1>3, <1>5, <1>6, <1>7 DEF Next, WorkerStep, CallerStep

-----------------------------------------------------------------------------
\* Where a job is tells its id apart from the ids of the jobs elsewhere.
LEMMA IdPlaces ==
    ASSUME TypeOK, JobsInOrder, IdsDistinct
    PROVE  /\ \A k \in 1..Len(queue) : queue[k].id \in RequestIds /\ queue[k].id \in AcceptedIds
           /\ \A k \in 1..Len(accessLog) :
                 accessLog[k].job.id \in RequestIds /\ accessLog[k].job.id \in AcceptedIds
           /\ InHand =>
                /\ worker.job \in Job
                /\ worker.job.id \in RequestIds
                /\ worker.job.id \in AcceptedIds
                /\ \A k \in 1..Len(queue) : queue[k].id # worker.job.id
                /\ \A k \in 1..Len(accessLog) : accessLog[k].job.id # worker.job.id
  <1>1. /\ Len(queue) \in Nat /\ Len(accessLog) \in Nat /\ Len(accepted) \in Nat
        /\ Len(accepted) = Len(accessLog) + InHandCount + Len(queue)
        /\ InHandCount \in 0..1 /\ (InHand <=> InHandCount = 1)
    BY DEF TypeOK, JobsInOrder, InHandCount
  <1>2. \A k \in 1..Len(accepted) :
           accepted[k] \in Job /\ accepted[k].id \in RequestIds /\ accepted[k].id \in AcceptedIds
    <2>1. \A k \in 1..Len(accepted) : accepted[k] \in Job
      BY ElementOfSeq DEF TypeOK
    <2> QED
      BY <2>1 DEF Job, AcceptedIds
  <1>3. \A k \in 1..Len(accessLog) : accessLog[k].job = accepted[k] /\ k \in 1..Len(accepted)
    BY <1>1 DEF JobsInOrder
  <1>4. \A k \in 1..Len(queue) : /\ queue[k] = accepted[Len(accessLog) + InHandCount + k]
                                /\ Len(accessLog) + InHandCount + k \in 1..Len(accepted)
    BY <1>1 DEF JobsInOrder
  <1>5. InHand => /\ worker.job = accepted[Len(accessLog) + 1]
                  /\ Len(accessLog) + 1 \in 1..Len(accepted)
    BY <1>1 DEF JobsInOrder
  <1>6. ASSUME InHand, NEW k \in 1..Len(queue) PROVE queue[k].id # worker.job.id
    BY <1>1, <1>4, <1>5, <1>6 DEF IdsDistinct
  <1>7. ASSUME InHand, NEW k \in 1..Len(accessLog) PROVE accessLog[k].job.id # worker.job.id
    BY <1>1, <1>3, <1>5, <1>7 DEF IdsDistinct
  <1> QED
    BY <1>2, <1>3, <1>4, <1>5, <1>6, <1>7

\* Pruning erases finished requests only.
LEMMA PruneErasesFinished == \A erased \in Pruned : erased \subseteq FinishedIds
  BY DEF Pruned, PruneVictims

\* No step makes a snapshot disagree with where its job is.
LEMMA SnapshotsStep ==
    TypeOK /\ JobsInOrder /\ IdsDistinct /\ SnapshotsFollowJobs /\ [Next]_vars
        => SnapshotsFollowJobs'
  <1> SUFFICES ASSUME TypeOK, JobsInOrder, IdsDistinct, SnapshotsFollowJobs, [Next]_vars
               PROVE  SnapshotsFollowJobs'
    OBVIOUS
  <1>a. /\ queue \in Seq(Job) /\ accepted \in Seq(Job)
        /\ accessLog \in Seq([job : Job, ok : BOOLEAN])
        /\ Len(queue) \in Nat /\ Len(accepted) \in Nat /\ Len(accessLog) \in Nat
        /\ snapshots \in [RequestIds -> [status : Statuses, finishedAt : Nat]]
    BY DEF TypeOK
  <1>1. ASSUME NEW t \in Threads, Submit(t) PROVE SnapshotsFollowJobs'
    <2>1. PICK id \in RequestIds \ AcceptedIds, erased \in Pruned :
             /\ snapshots' = [i \in RequestIds |->
                                IF i = id THEN Pending
                                ELSE IF i \in erased THEN Absent ELSE snapshots[i]]
             /\ queue' = Append(queue, [id |-> id, client |-> t])
             /\ accepted' = Append(accepted, [id |-> id, client |-> t])
      BY <1>1 DEF Submit
    <2>2. worker' = worker /\ accessLog' = accessLog
      BY <1>1 DEF Submit
    <2> DEFINE job == [id |-> id, client |-> t]
    <2>3. job \in Job /\ job.id = id
      BY DEF Job
    <2> HIDE DEF job
    <2>4. /\ Len(queue') = Len(queue) + 1
          /\ \A k \in 1..Len(queue) : queue'[k] = queue[k]
          /\ queue'[Len(queue) + 1] = job
      BY <1>a, <2>1, <2>3, AppendProperties DEF job
    <2>5. AcceptedIds' = AcceptedIds \cup {id}
      <3>1. /\ Len(accepted') = Len(accepted) + 1
            /\ \A k \in 1..Len(accepted) : accepted'[k] = accepted[k]
            /\ accepted'[Len(accepted) + 1] = job
        BY <1>a, <2>1, <2>3, AppendProperties DEF job
      <3>2. ASSUME NEW k \in 1..Len(accepted') PROVE accepted'[k].id \in AcceptedIds \cup {id}
        <4>1. CASE k = Len(accepted) + 1
          BY <2>3, <3>1, <4>1
        <4>2. CASE k \in 1..Len(accepted)
          BY <3>1, <4>2 DEF AcceptedIds
        <4> QED
          BY <1>a, <3>1, <4>1, <4>2
      <3>3. id \in AcceptedIds'
        BY <1>a, <2>3, <3>1 DEF AcceptedIds
      <3>4. ASSUME NEW k \in 1..Len(accepted) PROVE accepted[k].id \in AcceptedIds'
        BY <1>a, <3>1 DEF AcceptedIds
      <3> QED
        BY <3>2, <3>3, <3>4 DEF AcceptedIds
    <2>6. snapshots'[id].status = "pending"
      BY <2>1 DEF Pending
    <2>7. ASSUME NEW i \in RequestIds, i # id
          PROVE  \/ snapshots'[i].status = snapshots[i].status
                 \/ snapshots[i].status \in Finished /\ snapshots'[i].status = "absent"
      BY <2>1, <2>7, PruneErasesFinished DEF Absent, FinishedIds
    <2>8. \A k \in 1..Len(queue') : snapshots'[queue'[k].id].status = "pending"
      <3> TAKE k \in 1..Len(queue')
      <3>1. CASE k = Len(queue) + 1
        BY <2>3, <2>4, <2>6, <3>1
      <3>2. CASE k \in 1..Len(queue)
        BY <2>4, <2>7, <3>2, IdPlaces DEF SnapshotsFollowJobs, Finished
      <3> QED
        BY <1>a, <2>4, <3>1, <3>2
    <2>9. InHand => \/ snapshots'[worker.job.id].status = snapshots[worker.job.id].status
                    \/ /\ snapshots[worker.job.id].status \in Finished
                       /\ snapshots'[worker.job.id].status = "absent"
      BY <2>7, IdPlaces
    <2>10. \A k \in 1..Len(accessLog) :
              snapshots'[accessLog[k].job.id].status
                 \in {"absent", IF accessLog[k].ok THEN "completed" ELSE "failed"}
      <3> TAKE k \in 1..Len(accessLog)
      <3>1. accessLog[k].job.id \in RequestIds \ {id}
        BY IdPlaces
      <3> QED
        BY <2>7, <3>1 DEF SnapshotsFollowJobs
    <2>11. \A i \in RequestIds \ AcceptedIds' : snapshots'[i].status = "absent"
      BY <2>5, <2>7 DEF SnapshotsFollowJobs, Finished
    <2> QED
      BY <2>2, <2>8, <2>9, <2>10, <2>11 DEF SnapshotsFollowJobs, InHand, Finished
  <1>2. CASE WorkerPop
    <2>1. /\ Len(queue') = Len(queue) - 1 /\ Len(queue) > 0
          /\ \A k \in 1..Len(queue') : queue'[k] = queue[k + 1]
      BY <1>2, <1>a, HeadTailProperties DEF WorkerPop
    <2>2. worker'.pc = "popped" /\ worker'.job = queue[1]
      BY <1>2, <1>a DEF WorkerPop
    <2>3. snapshots' = snapshots /\ accessLog' = accessLog /\ AcceptedIds' = AcceptedIds
      BY <1>2 DEF WorkerPop, AcceptedIds
    <2> QED
      BY <1>a, <2>1, <2>2, <2>3 DEF SnapshotsFollowJobs
  <1>3. CASE StartJob
    <2>1. InHand /\ worker'.pc = "handling" /\ worker'.job = worker.job
      BY <1>3 DEF StartJob, InHand, TypeOK
    <2>2. snapshots'[worker.job.id].status = "running"
      BY <1>3, <1>a, <2>1, IdPlaces DEF StartJob, Running
    <2>3. \A i \in RequestIds : i # worker.job.id => snapshots'[i] = snapshots[i]
      BY <1>3, <1>a DEF StartJob
    <2>4. queue' = queue /\ accessLog' = accessLog /\ AcceptedIds' = AcceptedIds
      BY <1>3 DEF StartJob, AcceptedIds
    <2> QED
      BY <2>1, <2>2, <2>3, <2>4, IdPlaces DEF SnapshotsFollowJobs
  <1>4. CASE PublishOutcome
    <2>1. /\ InHand /\ worker'.pc = "logging" /\ worker'.job = worker.job
          /\ worker'.ok = worker.ok
      BY <1>4 DEF PublishOutcome, InHand, TypeOK
    <2>2. snapshots'[worker.job.id].status = IF worker.ok THEN "completed" ELSE "failed"
      <3>1. PICK now \in Readings :
               snapshots' = [snapshots EXCEPT ![worker.job.id] =
                               [status     |-> IF worker.ok THEN "completed" ELSE "failed",
                                finishedAt |-> now]]
        BY <1>4 DEF PublishOutcome
      <3> QED
        BY <1>a, <2>1, <3>1, IdPlaces
    <2>3. \A i \in RequestIds : i # worker.job.id => snapshots'[i] = snapshots[i]
      BY <1>4, <1>a DEF PublishOutcome
    <2>4. queue' = queue /\ accessLog' = accessLog /\ AcceptedIds' = AcceptedIds
      BY <1>4 DEF PublishOutcome, AcceptedIds
    <2> QED
      BY <2>1, <2>2, <2>3, <2>4, IdPlaces DEF SnapshotsFollowJobs
  <1>5. CASE WriteLog
    <2>1. worker.pc = "logging" /\ worker'.pc = "announcing" /\ InHand
      BY <1>5 DEF WriteLog, InHand, TypeOK
    <2> DEFINE entry == [job |-> worker.job, ok |-> worker.ok]
    <2>2. /\ entry \in [job : Job, ok : BOOLEAN]
          /\ entry.job = worker.job /\ entry.ok = worker.ok
      BY <2>1, IdPlaces DEF TypeOK
    <2>3. accessLog' = Append(accessLog, entry)
      BY <1>5 DEF WriteLog
    <2> HIDE DEF entry
    <2>4. /\ Len(accessLog') = Len(accessLog) + 1
          /\ \A k \in 1..Len(accessLog) : accessLog'[k] = accessLog[k]
          /\ accessLog'[Len(accessLog) + 1] = entry
      BY <1>a, <2>2, <2>3, AppendProperties
    <2>5. snapshots' = snapshots /\ queue' = queue /\ AcceptedIds' = AcceptedIds
      BY <1>5 DEF WriteLog, AcceptedIds
    <2>6. \A k \in 1..Len(accessLog') :
             snapshots[accessLog'[k].job.id].status
                \in {"absent", IF accessLog'[k].ok THEN "completed" ELSE "failed"}
      <3> TAKE k \in 1..Len(accessLog')
      <3>1. CASE k = Len(accessLog) + 1
        BY <2>1, <2>2, <2>4, <3>1 DEF SnapshotsFollowJobs
      <3>2. CASE k \in 1..Len(accessLog)
        BY <2>4, <3>2 DEF SnapshotsFollowJobs
      <3> QED
        BY <1>a, <2>4, <3>1, <3>2
    <2> QED
      BY <2>1, <2>5, <2>6 DEF SnapshotsFollowJobs
  <1>6. CASE HandlerReturns
    <2>1. worker.pc = "handling" /\ worker'.pc = "handled" /\ worker'.job = worker.job
      BY <1>6 DEF HandlerReturns
    <2>2. UNCHANGED <<snapshots, queue, accepted, accessLog>>
      BY <1>6 DEF HandlerReturns
    <2> QED
      BY <2>1, <2>2 DEF SnapshotsFollowJobs, AcceptedIds
  <1>7. CASE /\ UNCHANGED <<snapshots, queue, accepted, accessLog>>
             /\ \/ worker' = worker
                \/ worker'.pc \in {"testing", "blocked", "exited"}
    BY <1>7 DEF SnapshotsFollowJobs, AcceptedIds
  <1>8. CASE WorkerSleep \/ SpuriousWorkerWakeup \/ WorkerExit \/ NotifyWaiters
    BY <1>7, <1>8 DEF WorkerSleep, SpuriousWorkerWakeup, WorkerExit, NotifyWaiters, TypeOK
  <1>9. CASE WakeWorker /\ UNCHANGED <<snapshots, queue, accepted, accessLog>>
    <2>1. worker' = worker \/ worker'.pc = "testing"
      BY <1>9 DEF WakeWorker, TypeOK
    <2> QED
      BY <1>7, <1>9, <2>1
  <1>10. ASSUME NEW t \in Threads,
                \/ NotifyWorker(t) \/ BeginWait(t) \/ TestWait(t)
                \/ WaitTimesOut(t) \/ SpuriousWaitWakeup(t)
         PROVE  SnapshotsFollowJobs'
    BY <1>7, <1>9, <1>10 DEF NotifyWorker, BeginWait, TestWait, WaitTimesOut, SpuriousWaitWakeup
  <1>11. CASE DestroyStep \/ Destroyed \/ UNCHANGED vars
    BY <1>7, <1>9, <1>11
    DEF DestroyStep, BeginDestroy, DestroyNotify, DestroyJoin, Destroyed, vars
  <1> QED
    BY <1>1, <1>2, <1>3, <1>4, <1>5, <1>6, <1>8, <1>10, <1>11 DEF Next, WorkerStep, CallerStep

-----------------------------------------------------------------------------
\* Threads in waitUntilFinished keep waiting for accepted requests.
LEMMA WaitersStep ==
    TypeOK /\ WaitersKnown /\ [Next]_vars => WaitersKnown'
  <1> SUFFICES ASSUME TypeOK, WaitersKnown, [Next]_vars PROVE WaitersKnown'
    OBVIOUS
  <1>1. AcceptedIds \subseteq AcceptedIds'
    <2>1. CASE accepted' = accepted
      BY <2>1 DEF AcceptedIds
    <2>2. ASSUME NEW t \in Threads, Submit(t) PROVE AcceptedIds \subseteq AcceptedIds'
      <3>1. PICK id \in RequestIds : accepted' = Append(accepted, [id |-> id, client |-> t])
        BY <2>2 DEF Submit
      <3>2. [id |-> id, client |-> t] \in Job
        BY DEF Job
      <3>3. /\ Len(accepted') = Len(accepted) + 1 /\ Len(accepted) \in Nat
            /\ \A k \in 1..Len(accepted) : accepted'[k] = accepted[k]
        BY <3>1, <3>2, AppendProperties DEF TypeOK
      <3>4. ASSUME NEW k \in 1..Len(accepted) PROVE accepted[k].id \in AcceptedIds'
        BY <3>3 DEF AcceptedIds
      <3> QED
        BY <3>4 DEF AcceptedIds
    <2> QED
      BY <2>1, <2>2
      DEF Next, WorkerStep, CallerStep, DestroyStep, vars, NotifyWorker, BeginWait, TestWait,
          WaitTimesOut, SpuriousWaitWakeup, WorkerSleep, SpuriousWorkerWakeup, WorkerExit,
          WorkerPop, StartJob, HandlerReturns, PublishOutcome, WriteLog, NotifyWaiters,
          BeginDestroy, DestroyNotify, DestroyJoin, Destroyed
  <1>2. CASE \A t \in Threads :
               \/ thread'[t].pc \in {"idle", "notifying"}
               \/ thread'[t].id = thread[t].id /\ thread[t].pc \in {"testing", "blocked"}
               \/ thread'[t].id \in AcceptedIds
    BY <1>1, <1>2 DEF WaitersKnown
  <1>3. CASE thread' = thread
    BY <1>1, <1>3 DEF WaitersKnown
  <1>4. ASSUME NEW t \in Threads, CallerStep(t) PROVE WaitersKnown'
    <2>1. \A u \in Threads \ {t} : thread'[u] = thread[u]
      BY <1>4 DEF CallerStep, Submit, NotifyWorker, BeginWait, TestWait, WaitTimesOut,
                  SpuriousWaitWakeup, TypeOK
    <2>2. \/ thread'[t].pc \in {"idle", "notifying"}
          \/ thread'[t].id = thread[t].id /\ thread[t].pc \in {"testing", "blocked"}
          \/ thread'[t].id \in AcceptedIds
      BY <1>4 DEF CallerStep, Submit, NotifyWorker, BeginWait, TestWait, WaitTimesOut,
                  SpuriousWaitWakeup, TypeOK
    <2> QED
      BY <1>1, <2>1, <2>2 DEF WaitersKnown
  <1>5. CASE NotifyWaiters
    <2>1. /\ thread \in [Threads -> [pc : {"idle", "notifying", "testing", "blocked"},
                                     id : RequestIds \cup {"none"},
                                     answer : {"none", "true", "false"}]]
          /\ thread' = [t \in Threads |->
                          [thread[t] EXCEPT !.pc = IF @ = "blocked" THEN "testing" ELSE @]]
      BY <1>5 DEF NotifyWaiters, TypeOK
    <2>2. \A t \in Threads :
            /\ thread'[t].id = thread[t].id
            /\ thread'[t].pc \in {"testing", "blocked"} => thread[t].pc \in {"testing", "blocked"}
      BY <2>1
    <2> QED
      BY <1>1, <2>2 DEF WaitersKnown
  <1> QED
    BY <1>3, <1>4, <1>5
    DEF Next, WorkerStep, DestroyStep, vars, WorkerSleep, SpuriousWorkerWakeup, WorkerExit,
        WorkerPop, StartJob, HandlerReturns, PublishOutcome, WriteLog, BeginDestroy,
        DestroyNotify, DestroyJoin, Destroyed

\* The worker's exit and the destructor's return come in their order.
LEMMA ExitStep ==
    TypeOK /\ ExitInOrder /\ [Next]_vars => ExitInOrder'
  <1> SUFFICES ASSUME TypeOK, ExitInOrder, [Next]_vars PROVE ExitInOrder'
    OBVIOUS
  <1> USE DEF ExitInOrder
  <1>1. ASSUME NEW t \in Threads, CallerStep(t) PROVE ExitInOrder'
    BY <1>1 DEF CallerStep, Submit, NotifyWorker, BeginWait, TestWait, WaitTimesOut,
                SpuriousWaitWakeup, WakeWorker, TypeOK
  <1>2. CASE WorkerStep \/ SpuriousWorkerWakeup
    BY <1>2 DEF WorkerStep, WorkerSleep, SpuriousWorkerWakeup, WorkerExit, WorkerPop, StartJob,
                HandlerReturns, PublishOutcome, WriteLog, NotifyWaiters, TypeOK
  <1>3. CASE DestroyStep \/ Destroyed \/ UNCHANGED vars
    BY <1>3 DEF DestroyStep, BeginDestroy, DestroyNotify, DestroyJoin, Destroyed, vars,
                WakeWorker, TypeOK
  <1> QED
    BY <1>1, <1>2, <1>3 DEF Next

-----------------------------------------------------------------------------
\* An accepted request that needs no more waiting has its outcome published.
LEMMA OverIsSettled ==
    ASSUME TypeOK, JobsInOrder, SnapshotsFollowJobs,
           NEW i \in AcceptedIds, WaitIsOver(i)
    PROVE  \E k \in 1..SettledCount : accepted[k].id = i
  <1>1. PICK k \in 1..Len(accepted) : accepted[k].id = i
    BY DEF AcceptedIds
  <1>2. /\ Len(queue) \in Nat /\ Len(accessLog) \in Nat /\ Len(accepted) \in Nat
        /\ Len(accepted) = Len(accessLog) + InHandCount + Len(queue)
        /\ InHandCount \in 0..1 /\ (InHand <=> InHandCount = 1)
    BY DEF TypeOK, JobsInOrder, InHandCount
  <1>3. SettledCount = Len(accessLog) \/ SettledCount = Len(accessLog) + 1
    BY <1>2 DEF SettledCount
  <1>4. CASE k \in 1..Len(accessLog)
    BY <1>1, <1>2, <1>3, <1>4
  <1>5. CASE InHand /\ k = Len(accessLog) + 1
    <2>1. worker.job.id = i
      BY <1>1, <1>5 DEF JobsInOrder
    <2>2. worker.pc = "logging"
      BY <1>5, <2>1 DEF SnapshotsFollowJobs, WaitIsOver, Finished, InHand
    <2> QED
      BY <1>1, <1>2, <1>5, <2>2 DEF SettledCount
  <1>6. CASE k > Len(accessLog) + InHandCount
    <2>1. k - Len(accessLog) - InHandCount \in 1..Len(queue)
      BY <1>2, <1>6
    <2>2. queue[k - Len(accessLog) - InHandCount] = accepted[k]
      BY <1>2, <2>1 DEF JobsInOrder
    <2> QED
      BY <1>1, <2>1, <2>2 DEF SnapshotsFollowJobs, WaitIsOver, Finished
  <1> QED
    BY <1>1, <1>2, <1>4, <1>5, <1>6

\* A published outcome stays published, and jobs keep their place in line.
LEMMA SettledGrows ==
    ASSUME TypeOK, JobsInOrder, [Next]_vars
    PROVE  /\ SettledCount \in Nat /\ SettledCount' \in Nat /\ SettledCount <= SettledCount'
           /\ SettledCount <= Len(accepted)
           /\ \A k \in 1..Len(accepted) : accepted'[k] = accepted[k]
  <1>1. /\ Len(queue) \in Nat /\ Len(accessLog) \in Nat /\ Len(accepted) \in Nat
        /\ Len(accepted) = Len(accessLog) + InHandCount + Len(queue)
        /\ InHandCount \in 0..1 /\ (InHand <=> InHandCount = 1)
    BY DEF TypeOK, JobsInOrder, InHandCount
  <1>2. SettledCount \in Nat /\ SettledCount <= Len(accepted)
    BY <1>1 DEF SettledCount, InHand
  <1>3. \A k \in 1..Len(accepted) : accepted'[k] = accepted[k]
    <2>1. ASSUME NEW t \in Threads, Submit(t)
          PROVE  \A k \in 1..Len(accepted) : accepted'[k] = accepted[k]
      <3>1. PICK id \in RequestIds : accepted' = Append(accepted, [id |-> id, client |-> t])
        BY <2>1 DEF Submit
      <3>2. [id |-> id, client |-> t] \in Job
        BY DEF Job
      <3> QED
        BY <3>1, <3>2, AppendProperties DEF TypeOK
    <2>2. (\E t \in Threads : Submit(t)) \/ accepted' = accepted
      BY DEF Next, WorkerStep, CallerStep, DestroyStep, vars, NotifyWorker, BeginWait, TestWait,
             WaitTimesOut, SpuriousWaitWakeup, WorkerSleep, SpuriousWorkerWakeup, WorkerExit,
             WorkerPop, StartJob, HandlerReturns, PublishOutcome, WriteLog, NotifyWaiters,
             BeginDestroy, DestroyNotify, DestroyJoin, Destroyed
    <2> QED
      BY <2>1, <2>2
  <1>4. SettledCount' \in Nat /\ SettledCount <= SettledCount'
    <2>1. CASE WriteLog
      <3>1. InHand
        BY <2>1 DEF WriteLog, InHand
      <3>2. [job |-> worker.job, ok |-> worker.ok] \in [job : Job, ok : BOOLEAN]
        <4>1. worker.job = accepted[Len(accessLog) + 1] /\ Len(accessLog) + 1 \in 1..Len(accepted)
          BY <1>1, <3>1 DEF JobsInOrder
        <4> QED
          BY <4>1, ElementOfSeq DEF TypeOK
      <3>3. Len(accessLog') = Len(accessLog) + 1
        BY <2>1, <3>2, AppendProperties DEF WriteLog, TypeOK
      <3> QED
        BY <1>1, <2>1, <3>3 DEF WriteLog, SettledCount, TypeOK
    <2>2. CASE accessLog' = accessLog /\ (worker.pc = "logging" => worker'.pc = "logging")
      BY <1>1, <2>2 DEF SettledCount
    <2>3. CASE WorkerStep /\ ~WriteLog
      BY <2>2, <2>3 DEF WorkerStep, WorkerSleep, WorkerExit, WorkerPop, StartJob, HandlerReturns,
                        PublishOutcome, NotifyWaiters, TypeOK
    <2>4. CASE SpuriousWorkerWakeup \/ DestroyStep \/ Destroyed \/ UNCHANGED vars
      BY <2>2, <2>4 DEF SpuriousWorkerWakeup, DestroyStep, BeginDestroy, DestroyNotify,
                        DestroyJoin, Destroyed, vars, WakeWorker, TypeOK
    <2>5. ASSUME NEW t \in Threads, CallerStep(t)
          PROVE  SettledCount' \in Nat /\ SettledCount <= SettledCount'
      BY <2>2, <2>5 DEF CallerStep, Submit, NotifyWorker, BeginWait, TestWait, WaitTimesOut,
                        SpuriousWaitWakeup, WakeWorker, TypeOK
    <2> QED
      BY <2>1, <2>3, <2>4, <2>5 DEF Next
  <1> QED
    BY <1>2, <1>3, <1>4

\* No step makes waitUntilFinished's true an answer about an unsettled request.
LEMMA AnswersStep ==
    ASSUME TypeOK, JobsInOrder, SnapshotsFollowJobs, WaitersKnown, WaitAnswersSound, [Next]_vars
    PROVE  WaitAnswersSound'
  <1> SUFFICES ASSUME NEW t \in Threads, thread'[t].answer = "true"
               PROVE  \E k \in 1..SettledCount' : accepted'[k].id = thread'[t].id
    BY DEF WaitAnswersSound
  <1>1. \E k \in 1..SettledCount : accepted[k].id = thread'[t].id
    <2>1. CASE thread'[t].id = thread[t].id /\ thread[t].answer = "true"
      BY <2>1 DEF WaitAnswersSound
    <2>2. CASE TestWait(t) \/ WaitTimesOut(t)
      <3>1. /\ thread'[t].id = thread[t].id /\ thread[t].pc \in {"testing", "blocked"}
            /\ WaitIsOver(thread[t].id) \/ thread[t].answer = "true"
        BY <2>2 DEF TestWait, WaitTimesOut, TypeOK
      <3> QED
        BY <3>1, OverIsSettled DEF WaitersKnown, WaitAnswersSound
    <2>3. ASSUME NEW u \in Threads, u # t, CallerStep(u) PROVE thread'[t] = thread[t]
      BY <2>3 DEF CallerStep, Submit, NotifyWorker, BeginWait, TestWait, WaitTimesOut,
                  SpuriousWaitWakeup, TypeOK
    <2>4. CASE CallerStep(t) /\ ~TestWait(t) /\ ~WaitTimesOut(t)
      BY <2>1, <2>4 DEF CallerStep, Submit, NotifyWorker, BeginWait, SpuriousWaitWakeup, TypeOK
    <2>5. CASE NotifyWaiters
      BY <2>1, <2>5 DEF NotifyWaiters, TypeOK
    <2>6. CASE thread' = thread
      BY <2>1, <2>6
    <2>7. CASE WorkerStep \/ SpuriousWorkerWakeup \/ DestroyStep \/ Destroyed \/ UNCHANGED vars
      BY <2>5, <2>6, <2>7
      DEF WorkerStep, WorkerSleep, WorkerExit, WorkerPop, StartJob, HandlerReturns, PublishOutcome,
          WriteLog, SpuriousWorkerWakeup, DestroyStep, BeginDestroy, DestroyNotify, DestroyJoin,
          Destroyed, vars
    <2> QED
      BY <2>1, <2>2, <2>3, <2>4, <2>7 DEF Next
  <1>2. PICK k \in 1..SettledCount : accepted[k].id = thread'[t].id
    BY <1>1
  <1>3. k \in 1..SettledCount' /\ accepted'[k] = accepted[k]
    BY SettledGrows
  <1> QED
    BY <1>2, <1>3

-----------------------------------------------------------------------------
\* The invariant is inductive.
LEMMA StepIInv == IInv /\ [Next]_vars => IInv'
  BY TypeStep, JobsStep, SnapshotsStep, WaitersStep, ExitStep, AnswersStep DEF IInv

THEOREM Invariance == Spec => []IInv
  BY InitIInv, StepIInv, PTL DEF Spec

\* The variables of the executor keep their types.
THEOREM TypeCorrect == Spec => []TypeOK
  <1>1. IInv => TypeOK
    BY DEF IInv
  <1> QED
    BY <1>1, Invariance, PTL

\* No interleaving of submit, the worker and the destructor loses, repeats or
\* reorders a job.
THEOREM NoJobLost == Spec => []JobsInOrder
  <1>1. IInv => JobsInOrder
    BY DEF IInv
  <1> QED
    BY <1>1, Invariance, PTL

\* What getStatus and getResult read always agrees with where the job is, and
\* pruning never takes the snapshot of a request that has not finished.
THEOREM SnapshotsAgree == Spec => []SnapshotsFollowJobs
  <1>1. IInv => SnapshotsFollowJobs
    BY DEF IInv
  <1> QED
    BY <1>1, Invariance, PTL

\* waitUntilFinished answers true only of a request whose outcome is published.
THEOREM WaitsAreSound == Spec => []WaitAnswersSound
  <1>1. IInv => WaitAnswersSound
    BY DEF IInv
  <1> QED
    BY <1>1, Invariance, PTL

\* ~AsyncExecutor returns with every accepted job handled and logged.
THEOREM DestructorDrains == Spec => []DrainedWhenDestroyed
  <1>1. IInv => DrainedWhenDestroyed
    BY DEF IInv, ExitInOrder, JobsInOrder, InHand, InHandCount, DrainedWhenDestroyed, TypeOK
  <1> QED
    BY <1>1, Invariance, PTL

\* A ready result is never changed, and a forgotten request never comes back:
\* the snapshots that a step rewrites are those of an unfinished job.
THEOREM ReadyIsFinal == Spec => OutcomeIsFinal
  <1>1. IInv /\ [Next]_vars => [AnswersFinal]_vars
    <2> SUFFICES ASSUME IInv, [Next]_vars, NEW i \in AcceptedIds
                 PROVE  /\ GetResult(i).ready => GetResult(i)' = GetResult(i) \/ ~GetResult(i)'.found
                        /\ ~GetResult(i).found => ~GetResult(i)'.found
      BY DEF AnswersFinal
    <2>1. i \in RequestIds
      <3>1. PICK k \in 1..Len(accepted) : accepted[k].id = i
        BY DEF AcceptedIds
      <3>2. accepted[k] \in Job
        BY ElementOfSeq DEF IInv, TypeOK
      <3> QED
        BY <3>1, <3>2 DEF Job
    <2>a. /\ GetResult(i).ready <=> snapshots[i].status \in Finished
          /\ GetResult(i).found <=> snapshots[i].status # "absent"
          /\ GetResult(i)'.found <=> snapshots'[i].status # "absent"
      BY <2>1 DEF GetResult, Stored
    <2>2. CASE snapshots'[i].status = snapshots[i].status
      <3>1. /\ (i \in Stored)' = (i \in Stored)
            /\ (snapshots[i].status \in Finished)' = (snapshots[i].status \in Finished)
            /\ (snapshots[i].status = "completed")' = (snapshots[i].status = "completed")
        BY <2>1, <2>2 DEF Stored
      <3>2. GetResult(i)' = GetResult(i)
        BY <3>1, Zenon DEF GetResult
      <3> QED
        BY <2>2, <2>a, <3>2
    <2>3. CASE snapshots[i].status \in Finished /\ snapshots'[i].status = "absent"
      BY <2>a, <2>3 DEF Finished
    <2>4. ASSUME NEW t \in Threads, Submit(t)
          PROVE  /\ GetResult(i).ready => GetResult(i)' = GetResult(i) \/ ~GetResult(i)'.found
                 /\ ~GetResult(i).found => ~GetResult(i)'.found
      <3>1. PICK id \in RequestIds \ AcceptedIds, erased \in Pruned :
               snapshots' = [j \in RequestIds |->
                               IF j = id THEN Pending
                               ELSE IF j \in erased THEN Absent ELSE snapshots[j]]
        BY <2>4 DEF Submit
      <3>2. \/ snapshots'[i].status = snapshots[i].status
            \/ snapshots[i].status \in Finished /\ snapshots'[i].status = "absent"
        BY <2>1, <3>1, PruneErasesFinished DEF Absent, FinishedIds
      <3> QED
        BY <2>2, <2>3, <3>2
    <2>5. CASE StartJob \/ PublishOutcome
      <3>1. InHand /\ snapshots[worker.job.id].status \in {"pending", "running"}
        BY <2>5 DEF StartJob, PublishOutcome, InHand, IInv, SnapshotsFollowJobs
      <3>2. CASE i = worker.job.id
        <4>1. snapshots[i].status \in {"pending", "running"}
          BY <3>1, <3>2
        <4> QED
          BY <2>a, <4>1 DEF Finished
      <3>3. CASE i # worker.job.id
        BY <2>1, <2>2, <2>5, <3>3 DEF StartJob, PublishOutcome, IInv, TypeOK
      <3> QED
        BY <3>2, <3>3
    <2>6. CASE snapshots' = snapshots
      BY <2>2, <2>6
    <2> QED
      BY <2>4, <2>5, <2>6
      DEF Next, WorkerStep, CallerStep, DestroyStep, vars, NotifyWorker, BeginWait, TestWait,
          WaitTimesOut, SpuriousWaitWakeup, WorkerSleep, SpuriousWorkerWakeup, WorkerExit,
          WorkerPop, HandlerReturns, WriteLog, NotifyWaiters, BeginDestroy, DestroyNotify,
          DestroyJoin, Destroyed
  <1> QED
    BY <1>1, Invariance, PTL DEF OutcomeIsFinal, Spec

\* The position getStatus reports never grows: jobs leave the queue at its
\* head and join it at its tail, and no id joins it twice.
THEOREM PositionsAdvance == Spec => PositionOnlyAdvances
  <1> DEFINE Advances == \A i \in AcceptedIds :
                \A p \in GetStatus(i)'.position : \E q \in GetStatus(i).position : p <= q
  <1>1. IInv /\ [Next]_vars => Advances
    <2> SUFFICES ASSUME IInv, [Next]_vars, NEW i \in AcceptedIds, NEW p \in GetStatus(i)'.position
                 PROVE  \E q \in GetStatus(i).position : p <= q
      OBVIOUS
    <2>1. PICK k \in 1..Len(queue') : queue'[k].id = i /\ p = k - 1
      BY DEF GetStatus, QueuePosition
    <2>2. /\ queue \in Seq(Job) /\ Len(queue) \in Nat
          /\ \A m \in 1..Len(queue) : snapshots[queue[m].id].status = "pending"
      BY DEF IInv, TypeOK, SnapshotsFollowJobs
    <2>3. ASSUME NEW m \in 1..Len(queue), queue[m].id = i, k <= m
          PROVE  \E q \in GetStatus(i).position : p <= q
      <3>1. snapshots[i].status = "pending"
        BY <2>2, <2>3
      <3>2. GetStatus(i).position = QueuePosition(i)
        BY <3>1 DEF GetStatus
      <3>3. m - 1 \in QueuePosition(i)
        BY <2>3 DEF QueuePosition
      <3> QED
        BY <2>1, <2>2, <2>3, <3>2, <3>3
    <2>4. ASSUME NEW t \in Threads, Submit(t)
          PROVE  \E q \in GetStatus(i).position : p <= q
      <3>1. PICK id \in RequestIds \ AcceptedIds : queue' = Append(queue, [id |-> id, client |-> t])
        BY <2>4 DEF Submit
      <3>2. k \in 1..Len(queue) /\ queue'[k] = queue[k]
        <4>1. Len(queue') = Len(queue) + 1 /\ queue'[Len(queue) + 1].id = id
          BY <2>2, <3>1
        <4>2. k # Len(queue) + 1
          BY <2>1, <3>1, <4>1
        <4>3. k \in 1..Len(queue)
          BY <2>2, <4>1, <4>2
        <4> QED
          BY <2>2, <3>1, <4>3
      <3> QED
        BY <2>1, <2>2, <2>3, <3>2
    <2>5. CASE WorkerPop
      <3>1. Len(queue') = Len(queue) - 1 /\ queue'[k] = queue[k + 1] /\ k + 1 \in 1..Len(queue)
        BY <2>2, <2>5 DEF WorkerPop
      <3> QED
        BY <2>1, <2>2, <2>3, <3>1
    <2>6. CASE queue' = queue
      BY <2>1, <2>2, <2>3, <2>6
    <2> QED
      BY <2>4, <2>5, <2>6
      DEF Next, WorkerStep, CallerStep, DestroyStep, vars, NotifyWorker, BeginWait, TestWait,
          WaitTimesOut, SpuriousWaitWakeup, WorkerSleep, SpuriousWorkerWakeup, WorkerExit, StartJob,
          PublishOutcome, HandlerReturns, WriteLog, NotifyWaiters, BeginDestroy, DestroyNotify,
          DestroyJoin, Destroyed
  <1>2. IInv /\ [Next]_vars => [Advances]_vars
    BY <1>1
  <1> QED
    BY <1>2, Invariance, PTL DEF PositionOnlyAdvances, Spec

-----------------------------------------------------------------------------
\* Where a job is in line tells what its snapshot reads as.
LEMMA JobPlaces ==
    ASSUME TypeOK, JobsInOrder, SnapshotsFollowJobs, NEW k \in 1..Len(accepted)
    PROVE  /\ accepted[k].id \in RequestIds
           /\ SettledCount \in Nat
           /\ k <= SettledCount => snapshots[accepted[k].id].status \in {"absent", "completed", "failed"}
           /\ k > SettledCount => snapshots[accepted[k].id].status \in {"pending", "running"}
           /\ snapshots[accepted[k].id].status = "running" =>
                worker.pc \in {"handling", "handled"} /\ k = Len(accessLog) + 1
  <1>1. /\ Len(queue) \in Nat /\ Len(accessLog) \in Nat /\ Len(accepted) \in Nat
        /\ Len(accepted) = Len(accessLog) + InHandCount + Len(queue)
        /\ InHandCount \in 0..1 /\ (InHand <=> InHandCount = 1)
    BY DEF TypeOK, JobsInOrder, InHandCount
  <1>2. accepted[k].id \in RequestIds
    <2>1. accepted[k] \in Job
      BY ElementOfSeq DEF TypeOK
    <2> QED
      BY <2>1 DEF Job
  <1>3. SettledCount = IF worker.pc = "logging" THEN Len(accessLog) + 1 ELSE Len(accessLog)
    BY <1>1 DEF SettledCount
  <1>4. CASE k \in 1..Len(accessLog)
    <2>1. snapshots[accepted[k].id].status \in {"absent", "completed", "failed"}
      BY <1>4 DEF JobsInOrder, SnapshotsFollowJobs
    <2> QED
      BY <1>1, <1>2, <1>3, <1>4, <2>1
  <1>5. CASE InHand /\ k = Len(accessLog) + 1
    <2>1. worker.job = accepted[k]
      BY <1>5 DEF JobsInOrder
    <2>2. CASE worker.pc = "logging"
      <3>1. snapshots[accepted[k].id].status \in {"absent", "completed", "failed"}
        BY <2>1, <2>2 DEF SnapshotsFollowJobs
      <3> QED
        BY <1>1, <1>2, <1>3, <1>5, <2>2, <3>1
    <2>3. CASE worker.pc = "popped"
      <3>1. snapshots[accepted[k].id].status = "pending"
        BY <2>1, <2>3 DEF SnapshotsFollowJobs
      <3> QED
        BY <1>1, <1>2, <1>3, <1>5, <2>3, <3>1
    <2>4. CASE worker.pc \in {"handling", "handled"}
      <3>1. snapshots[accepted[k].id].status = "running"
        BY <2>1, <2>4 DEF SnapshotsFollowJobs
      <3> QED
        BY <1>1, <1>2, <1>3, <1>5, <2>4, <3>1
    <2> QED
      BY <1>5, <2>2, <2>3, <2>4 DEF InHand
  <1>6. CASE k > Len(accessLog) + InHandCount
    <2>1. k - Len(accessLog) - InHandCount \in 1..Len(queue)
      BY <1>1, <1>6
    <2>2. queue[k - Len(accessLog) - InHandCount] = accepted[k]
      BY <1>1, <2>1 DEF JobsInOrder
    <2>3. snapshots[accepted[k].id].status = "pending"
      BY <2>1, <2>2 DEF SnapshotsFollowJobs
    <2>4. k > SettledCount
      BY <1>1, <1>3, <1>6 DEF InHand
    <2> QED
      BY <1>1, <1>2, <1>3, <2>3, <2>4
  <1> QED
    BY <1>1, <1>4, <1>5, <1>6

-----------------------------------------------------------------------------
(* Pruning.  One worker finishes the requests in the order they were        *)
(* accepted, so a victim stamped after every earlier request that is still   *)
(* stored is itself the oldest of all snapshots.                             *)

\* If what pruneOldSnapshotsLocked erases finished after all earlier requests,
\* at least maxStoredRequests - 1 requests were accepted after it.
LEMMA VictimIsOldest ==
    ASSUME IInv, NEW k \in 1..Len(accepted), accepted[k].id \in PruneVictims, StampedAfterEarlier(k)
    PROVE  Len(accepted) - k + 1 >= MaxStored
  <1> DEFINE v == accepted[k].id
             places == {m \in k..Len(accepted) : accepted[m].id \in Stored}
             place == [m \in places |-> accepted[m].id]
  <1>1. /\ ~(Cardinality(Stored) < MaxStored) /\ v \in FinishedIds
        /\ \A j \in FinishedIds : snapshots[v].finishedAt <= snapshots[j].finishedAt
    BY DEF PruneVictims
  <1>2. Len(accepted) \in Nat
    BY DEF IInv, TypeOK
  <1>3. v \in RequestIds /\ k <= SettledCount /\ SettledCount \in Nat
    BY <1>1, <1>2, JobPlaces DEF IInv, FinishedIds, Finished
  <1>4. ASSUME NEW s \in Stored PROVE \E m \in places : accepted[m].id = s
    <2>1. s \in AcceptedIds
      BY DEF Stored, IInv, SnapshotsFollowJobs
    <2>2. PICK m \in 1..Len(accepted) : accepted[m].id = s
      BY <2>1 DEF AcceptedIds
    <2>3. m >= k
      <3> SUFFICES ASSUME m < k PROVE FALSE
        BY <1>2
      <3>1. s \in FinishedIds
        <4>1. m <= SettledCount
          BY <1>2, <1>3
        <4>2. snapshots[s].status \in {"absent", "completed", "failed"}
          BY <2>2, <4>1, JobPlaces DEF IInv
        <4> QED
          BY <4>2 DEF Stored, FinishedIds, Finished
      <3>2. snapshots[s].finishedAt < snapshots[v].finishedAt
        <4>1. m \in 1..(k - 1)
          BY <1>2, <2>2
        <4> QED
          BY <1>1, <2>2, <3>1, <4>1 DEF StampedAfterEarlier
      <3>3. snapshots[s].finishedAt \in Nat /\ snapshots[v].finishedAt \in Nat
        BY <1>3, <3>1 DEF FinishedIds, IInv, TypeOK
      <3> QED
        BY <1>1, <3>1, <3>2, <3>3
    <2> QED
      BY <1>2, <2>2, <2>3
  <1>5. place \in Surjection(places, Stored)
    BY <1>4 DEF Surjection
  <1>6. /\ IsFiniteSet(k..Len(accepted))
        /\ Cardinality(k..Len(accepted)) = Len(accepted) - k + 1
    BY <1>2, FS_Interval
  <1>7. IsFiniteSet(places) /\ Cardinality(places) <= Cardinality(k..Len(accepted))
    BY <1>6, FS_Subset
  <1>8. IsFiniteSet(Stored) /\ Cardinality(Stored) <= Cardinality(places)
    BY <1>5, <1>7, FS_Surjection
  <1>9. Cardinality(Stored) \in Nat /\ Cardinality(places) \in Nat
    BY <1>7, <1>8, FS_CardinalityType
  <1> QED
    BY <1>1, <1>2, <1>6, <1>7, <1>8, <1>9, StoredAssumption

\* submit keeps what RecentResultsKept names, and no other step erases a snapshot.
LEMMA RecentStep ==
    ASSUME IInv, [Next]_vars, NEW k \in 1..Len(accepted),
           accepted[k].id \in Stored, Len(accepted') - k < MaxStored, StampedAfterEarlier(k)
    PROVE  accepted[k].id \in Stored'
  <1>1. /\ Len(accepted) \in Nat /\ accepted[k].id \in RequestIds /\ accepted[k].id \in AcceptedIds
        /\ snapshots \in [RequestIds -> [status : Statuses, finishedAt : Nat]]
    BY JobPlaces DEF IInv, TypeOK, AcceptedIds
  <1>2. ASSUME NEW t \in Threads, Submit(t) PROVE accepted[k].id \in Stored'
    <2>1. PICK id \in RequestIds \ AcceptedIds, erased \in Pruned :
             /\ snapshots' = [i \in RequestIds |->
                                IF i = id THEN Pending
                                ELSE IF i \in erased THEN Absent ELSE snapshots[i]]
             /\ accepted' = Append(accepted, [id |-> id, client |-> t])
      BY <1>2 DEF Submit
    <2>2. Len(accepted') = Len(accepted) + 1
      <3>1. [id |-> id, client |-> t] \in Job
        BY DEF Job
      <3> QED
        BY <2>1, <3>1, AppendProperties DEF IInv, TypeOK
    <2>3. accepted[k].id \notin PruneVictims
      BY <1>1, <2>2, VictimIsOldest, StoredAssumption
    <2>4. accepted[k].id \notin erased
      BY <2>3 DEF Pruned
    <2> QED
      BY <1>1, <2>1, <2>4 DEF Stored
  <1>3. CASE StartJob
    BY <1>1, <1>3 DEF StartJob, Stored, Running
  <1>4. CASE PublishOutcome
    <2>1. PICK now \in Readings :
             snapshots' = [snapshots EXCEPT ![worker.job.id] =
                             [status     |-> IF worker.ok THEN "completed" ELSE "failed",
                              finishedAt |-> now]]
      BY <1>4 DEF PublishOutcome
    <2> QED
      BY <1>1, <2>1 DEF Stored
  <1>5. CASE UNCHANGED snapshots
    BY <1>5 DEF Stored
  <1> QED
    BY <1>2, <1>3, <1>4, <1>5
    DEF Next, WorkerStep, CallerStep, DestroyStep, vars, NotifyWorker, BeginWait, TestWait,
        WaitTimesOut, SpuriousWaitWakeup, WorkerSleep, SpuriousWorkerWakeup, WorkerExit, WorkerPop,
        HandlerReturns, WriteLog, NotifyWaiters, BeginDestroy, DestroyNotify, DestroyJoin, Destroyed

\* However system_clock is set, pruneOldSnapshotsLocked takes none of the last
\* maxStoredRequests requests that finished, by the clock, after every earlier
\* request still stored; and no other step erases anything.
THEOREM RecentAreKept == Spec => RecentResultsKept
  <1>1. IInv /\ [Next]_vars =>
          [\A k \in 1..Len(accepted) :
             accepted[k].id \in Stored /\ Len(accepted') - k < MaxStored /\ StampedAfterEarlier(k)
                => accepted[k].id \in Stored']_vars
    BY RecentStep
  <1> QED
    BY <1>1, Invariance, PTL DEF Spec, RecentResultsKept

\* What system_clock does while nobody sets it back and no two requests finish
\* at one reading: a request finishes later than all that finished before it.
ClockAdvances ==
    \A i \in FinishedIds' \ FinishedIds, j \in FinishedIds :
        snapshots[j].finishedAt < snapshots'[i].finishedAt

\* Then the finish times are in the order of acceptance,
FinishTimesInOrder == \A k \in 1..Len(accepted) : StampedAfterEarlier(k)

\* ... and the last maxStoredRequests requests are stored, finished or not.
LastRequestsStored ==
    \A k \in 1..Len(accepted) : Len(accepted) - k < MaxStored => accepted[k].id \in Stored

\* A step that appends to the requests or finishes one keeps the times in order.
LEMMA InOrderStep ==
    ASSUME IInv, FinishTimesInOrder, [Next]_vars, [ClockAdvances]_vars
    PROVE  FinishTimesInOrder'
  <1>1. /\ Len(accepted) \in Nat
        /\ snapshots \in [RequestIds -> [status : Statuses, finishedAt : Nat]]
        /\ \A k \in 1..Len(accepted) : accepted[k].id \in RequestIds /\ accepted[k].id \in AcceptedIds
    BY JobPlaces DEF IInv, TypeOK, AcceptedIds
  <1>2. ASSUME NEW t \in Threads, Submit(t) PROVE FinishTimesInOrder'
    <2>1. PICK id \in RequestIds \ AcceptedIds, erased \in Pruned :
             /\ snapshots' = [i \in RequestIds |->
                                IF i = id THEN Pending
                                ELSE IF i \in erased THEN Absent ELSE snapshots[i]]
             /\ accepted' = Append(accepted, [id |-> id, client |-> t])
      BY <1>2 DEF Submit
    <2>2. [id |-> id, client |-> t] \in Job
      BY DEF Job
    <2>3. /\ Len(accepted') = Len(accepted) + 1
          /\ \A k \in 1..Len(accepted) : accepted'[k] = accepted[k]
          /\ accepted'[Len(accepted) + 1].id = id
      BY <2>1, <2>2, AppendProperties DEF IInv, TypeOK
    <2>4. \A i \in FinishedIds' : i \in FinishedIds /\ i # id /\ snapshots'[i] = snapshots[i]
      BY <2>1 DEF FinishedIds, Finished, Pending, Absent
    <2>5. ASSUME NEW k \in 1..Len(accepted'), NEW j \in 1..(k - 1),
                 accepted'[j].id \in FinishedIds', accepted'[k].id \in FinishedIds'
          PROVE  snapshots'[accepted'[j].id].finishedAt < snapshots'[accepted'[k].id].finishedAt
      <3>1. k \in 1..Len(accepted) /\ j \in 1..Len(accepted)
        BY <1>1, <2>3, <2>4, <2>5
      <3>2. accepted[j].id \in FinishedIds /\ accepted[k].id \in FinishedIds
        BY <2>3, <2>4, <2>5, <3>1
      <3>3. snapshots[accepted[j].id].finishedAt < snapshots[accepted[k].id].finishedAt
        BY <3>1, <3>2 DEF FinishTimesInOrder, StampedAfterEarlier
      <3> QED
        BY <2>3, <2>4, <2>5, <3>1, <3>3
    <2> QED
      BY <2>5 DEF FinishTimesInOrder, StampedAfterEarlier
  <1>3. CASE StartJob
    <2>1. snapshots' = [snapshots EXCEPT ![worker.job.id] = Running] /\ accepted' = accepted
      BY <1>3 DEF StartJob
    <2>2. \A i \in FinishedIds' : i \in FinishedIds /\ snapshots'[i] = snapshots[i]
      BY <1>1, <2>1 DEF FinishedIds, Finished, Running
    <2> QED
      BY <2>1, <2>2 DEF FinishTimesInOrder, StampedAfterEarlier
  <1>4. CASE PublishOutcome
    <2> DEFINE job == worker.job.id
    <2>1. PICK now \in Readings :
             snapshots' = [snapshots EXCEPT ![job] =
                             [status     |-> IF worker.ok THEN "completed" ELSE "failed",
                              finishedAt |-> now]]
      BY <1>4 DEF PublishOutcome
    <2>2. accepted' = accepted /\ worker.pc = "handled" /\ worker'.pc = "logging"
      BY <1>4 DEF PublishOutcome, IInv, TypeOK
    <2>3. /\ snapshots[job].status = "running" /\ job \in RequestIds
          /\ accepted[Len(accessLog) + 1].id = job /\ Len(accessLog) + 1 \in 1..Len(accepted)
          /\ SettledCount = Len(accessLog) /\ Len(accessLog) \in Nat
      <3>1. InHand
        BY <2>2 DEF InHand
      <3> QED
        BY <2>2, <3>1, IdPlaces DEF IInv, SnapshotsFollowJobs, JobsInOrder, InHandCount, SettledCount, TypeOK
    <2>4. \A i \in RequestIds : i # job => snapshots'[i] = snapshots[i]
      BY <1>1, <2>1
    <2>5. FinishedIds' = FinishedIds \cup {job} /\ job \notin FinishedIds
      <3>1. snapshots'[job].status \in Finished
        BY <1>1, <2>1, <2>3 DEF Finished
      <3> QED
        BY <2>3, <2>4, <3>1 DEF FinishedIds, Finished
    <2>6. \A i \in FinishedIds : i \in RequestIds
      BY DEF FinishedIds
    <2>7. \A i \in FinishedIds : snapshots[i].finishedAt < snapshots'[job].finishedAt
      <3>1. worker' # worker
        BY <2>2
      <3>2. ClockAdvances
        BY <3>1 DEF vars
      <3> QED
        BY <2>5, <3>2 DEF ClockAdvances
    <2> HIDE DEF job
    <2>8. ASSUME NEW k \in 1..Len(accepted), NEW j \in 1..(k - 1),
                 accepted[j].id \in FinishedIds', accepted[k].id \in FinishedIds'
          PROVE  snapshots'[accepted[j].id].finishedAt < snapshots'[accepted[k].id].finishedAt
      <3>0. j \in 1..Len(accepted) /\ j < k
        BY <1>1
      <3>1. CASE accepted[k].id = job
        <4>1. accepted[j].id # job
          BY <3>0, <3>1 DEF IInv, IdsDistinct
        <4>2. accepted[j].id \in FinishedIds
          BY <2>5, <2>8, <4>1
        <4> QED
          BY <2>4, <2>6, <2>7, <3>1, <4>1, <4>2
      <3>2. CASE accepted[k].id # job /\ accepted[j].id = job
        <4>1. j = Len(accessLog) + 1
          BY <2>3, <3>0, <3>2 DEF IInv, IdsDistinct
        <4>2. k > SettledCount
          BY <2>3, <3>0, <4>1
        <4>3. snapshots[accepted[k].id].status \notin Finished
          BY <4>2, JobPlaces DEF IInv, Finished
        <4> QED
          BY <2>5, <2>8, <3>2, <4>3 DEF FinishedIds
      <3>3. CASE accepted[k].id # job /\ accepted[j].id # job
        <4>1. accepted[j].id \in FinishedIds /\ accepted[k].id \in FinishedIds
          BY <2>5, <2>8, <3>3
        <4>2. snapshots[accepted[j].id].finishedAt < snapshots[accepted[k].id].finishedAt
          BY <4>1 DEF FinishTimesInOrder, StampedAfterEarlier
        <4> QED
          BY <2>4, <2>6, <3>3, <4>1, <4>2
      <3> QED
        BY <3>1, <3>2, <3>3
    <2> QED
      BY <2>2, <2>8 DEF FinishTimesInOrder, StampedAfterEarlier
  <1>5. CASE UNCHANGED <<snapshots, accepted>>
    BY <1>5 DEF FinishTimesInOrder, StampedAfterEarlier, FinishedIds
  <1> QED
    BY <1>2, <1>3, <1>4, <1>5
    DEF Next, WorkerStep, CallerStep, DestroyStep, vars, NotifyWorker, BeginWait, TestWait,
        WaitTimesOut, SpuriousWaitWakeup, WorkerSleep, SpuriousWorkerWakeup, WorkerExit, WorkerPop,
        HandlerReturns, WriteLog, NotifyWaiters, BeginDestroy, DestroyNotify, DestroyJoin, Destroyed

\* What a step leaves of the last requests, with what it adds to them.
LEMMA LastStoredStep ==
    ASSUME IInv, FinishTimesInOrder, LastRequestsStored, [Next]_vars
    PROVE  LastRequestsStored'
  <1>1. Len(accepted) \in Nat
    BY DEF IInv, TypeOK
  <1>2. ASSUME NEW k \in 1..Len(accepted), Len(accepted') - k < MaxStored, Len(accepted) <= Len(accepted'),
               Len(accepted') \in Nat
        PROVE  accepted[k].id \in Stored'
    <2>1. accepted[k].id \in Stored
      BY <1>1, <1>2, StoredAssumption DEF LastRequestsStored
    <2>2. StampedAfterEarlier(k)
      BY DEF FinishTimesInOrder
    <2> QED
      BY <1>2, <2>1, <2>2, RecentStep
  <1>3. ASSUME NEW t \in Threads, Submit(t) PROVE LastRequestsStored'
    <2>1. PICK id \in RequestIds \ AcceptedIds, erased \in Pruned :
             /\ snapshots' = [i \in RequestIds |->
                                IF i = id THEN Pending
                                ELSE IF i \in erased THEN Absent ELSE snapshots[i]]
             /\ accepted' = Append(accepted, [id |-> id, client |-> t])
      BY <1>3 DEF Submit
    <2>2. [id |-> id, client |-> t] \in Job
      BY DEF Job
    <2>3. /\ Len(accepted') = Len(accepted) + 1
          /\ \A k \in 1..Len(accepted) : accepted'[k] = accepted[k]
          /\ accepted'[Len(accepted) + 1].id = id
      BY <2>1, <2>2, AppendProperties DEF IInv, TypeOK
    <2>4. id \in Stored'
      BY <2>1 DEF Stored, Pending
    <2>5. ASSUME NEW k \in 1..Len(accepted'), Len(accepted') - k < MaxStored
          PROVE  accepted'[k].id \in Stored'
      <3>1. CASE k = Len(accepted) + 1
        BY <2>3, <2>4, <3>1
      <3>2. CASE k \in 1..Len(accepted)
        BY <1>1, <1>2, <2>3, <2>5, <3>2
      <3> QED
        BY <1>1, <2>3, <3>1, <3>2
    <2> QED
      BY <2>5 DEF LastRequestsStored
  <1>4. CASE accepted' = accepted
    BY <1>1, <1>2, <1>4 DEF LastRequestsStored
  <1> QED
    BY <1>3, <1>4
    DEF Next, WorkerStep, CallerStep, DestroyStep, vars, NotifyWorker, BeginWait, TestWait,
        WaitTimesOut, SpuriousWaitWakeup, WorkerSleep, SpuriousWorkerWakeup, WorkerExit, WorkerPop,
        StartJob, HandlerReturns, PublishOutcome, WriteLog, NotifyWaiters, BeginDestroy,
        DestroyNotify, DestroyJoin, Destroyed

\* As long as system_clock is not set back and gives each finish a time of its
\* own, the last maxStoredRequests requests can all be fetched.
THEOREM LastRequestsAreStored ==
    Spec /\ [][ClockAdvances]_vars => []LastRequestsStored
  <1>1. Init => FinishTimesInOrder /\ LastRequestsStored
    BY DEF Init, FinishTimesInOrder, LastRequestsStored
  <1>2. IInv /\ FinishTimesInOrder /\ LastRequestsStored /\ [Next]_vars /\ [ClockAdvances]_vars
          => FinishTimesInOrder' /\ LastRequestsStored'
    BY InOrderStep, LastStoredStep
  <1> QED
    BY <1>1, <1>2, Invariance, PTL DEF Spec

-----------------------------------------------------------------------------
(* The executor implements the lifecycle it promises (without fairness).    *)

\* What the promised lifecycle calls waiting, entry by entry.
LEMMA WaitingEntries ==
    ASSUME TypeOK
    PROVE  /\ worker.pc # "popped" =>
                /\ Len(LifecycleWaiting) = Len(queue)
                /\ \A k \in 1..Len(queue) : LifecycleWaiting[k] = queue[k].id
           /\ worker.pc = "popped" =>
                /\ Len(LifecycleWaiting) = Len(queue) + 1
                /\ LifecycleWaiting[1] = worker.job.id
                /\ \A k \in 1..Len(queue) : LifecycleWaiting[k + 1] = queue[k].id
           /\ \A S : (worker.pc = "popped" => worker.job.id \in S) /\ (\A k \in 1..Len(queue) : queue[k].id \in S)
                       => LifecycleWaiting \in Seq(S)
  <1>1. Len(queue) \in Nat
    BY DEF TypeOK
  <1>2. CASE worker.pc # "popped"
    <2>1. LifecycleWaiting = [k \in 1..Len(queue) |-> queue[k].id]
      BY <1>1, <1>2 DEF LifecycleWaiting
    <2> QED
      BY <1>1, <1>2, <2>1
  <1>3. CASE worker.pc = "popped"
    <2> DEFINE n == Len(queue) + 1
    <2>1. /\ LifecycleWaiting = [k \in 1..n |-> IF k = 1 THEN worker.job.id ELSE queue[k - 1].id]
          /\ n \in Nat
      BY <1>1, <1>3 DEF LifecycleWaiting
    <2>2. \A k \in 1..Len(queue) : k + 1 \in 1..n /\ k + 1 # 1 /\ (k + 1) - 1 = k
      BY <1>1
    <2>3. \A k \in 1..n : k = 1 \/ k - 1 \in 1..Len(queue)
      BY <1>1
    <2>4. 1 \in 1..n
      BY <1>1
    <2> HIDE DEF n
    <2>5. Len(LifecycleWaiting) = n /\ LifecycleWaiting[1] = worker.job.id
      BY <2>1, <2>4
    <2>6. \A k \in 1..Len(queue) : LifecycleWaiting[k + 1] = queue[k].id
      BY <2>1, <2>2
    <2>7. ASSUME NEW S, worker.job.id \in S, \A k \in 1..Len(queue) : queue[k].id \in S
          PROVE  LifecycleWaiting \in Seq(S)
      BY <2>1, <2>3, <2>7
    <2> QED
      BY <1>3, <2>5, <2>6, <2>7 DEF n
  <1> QED
    BY <1>2, <1>3

\* A step that neither accepts, starts nor finishes a request is hidden.
LEMMA HiddenStep ==
    ASSUME UNCHANGED <<snapshots, queue, accepted>>,
           worker'.pc = "popped" <=> worker.pc = "popped",
           worker.pc = "popped" => worker'.job = worker.job
    PROVE  UNCHANGED Lifecycle!vars
  <1>1. LifecycleState' = LifecycleState
    BY DEF LifecycleState, AcceptedIds
  <1>2. LifecycleWaiting' = LifecycleWaiting
    <2>1. CASE worker.pc = "popped"
      BY <2>1 DEF LifecycleWaiting
    <2>2. CASE worker.pc # "popped"
      BY <2>2 DEF LifecycleWaiting
    <2> QED
      BY <2>1, <2>2
  <1> QED
    BY <1>1, <1>2 DEF Lifecycle!vars

\* submit is the acceptance of its request, pruning the forgetting of another.
LEMMA SubmitAccepts ==
    ASSUME IInv, IInv', NEW t \in Threads, Submit(t)
    PROVE  \E id \in RequestIds : Lifecycle!Accept(id)
  <1>1. PICK id \in RequestIds \ AcceptedIds, erased \in Pruned :
           /\ snapshots' = [i \in RequestIds |->
                              IF i = id THEN Pending
                              ELSE IF i \in erased THEN Absent ELSE snapshots[i]]
           /\ queue' = Append(queue, [id |-> id, client |-> t])
           /\ accepted' = Append(accepted, [id |-> id, client |-> t])
    BY DEF Submit
  <1>2. worker' = worker
    BY DEF Submit
  <1>3. [id |-> id, client |-> t] \in Job
    BY DEF Job
  <1>4. /\ Len(queue) \in Nat /\ Len(queue') = Len(queue) + 1
        /\ \A k \in 1..Len(queue) : queue'[k] = queue[k]
        /\ queue'[Len(queue) + 1].id = id
    BY <1>1, <1>3, AppendProperties DEF IInv, TypeOK
  <1>5. AcceptedIds' = AcceptedIds \cup {id}
    <2>1. /\ Len(accepted') = Len(accepted) + 1 /\ Len(accepted) \in Nat
          /\ \A k \in 1..Len(accepted) : accepted'[k] = accepted[k]
          /\ accepted'[Len(accepted) + 1].id = id
      BY <1>1, <1>3, AppendProperties DEF IInv, TypeOK
    <2>2. \A k \in 1..Len(accepted') : k \in 1..Len(accepted) \/ k = Len(accepted) + 1
      BY <2>1
    <2>3. \A k \in 1..Len(accepted) : k \in 1..Len(accepted')
      BY <2>1
    <2>4. Len(accepted) + 1 \in 1..Len(accepted')
      BY <2>1
    <2>5. ASSUME NEW i \in AcceptedIds' PROVE i \in AcceptedIds \cup {id}
      BY <2>1, <2>2, <2>5 DEF AcceptedIds
    <2>6. ASSUME NEW i \in AcceptedIds PROVE i \in AcceptedIds'
      BY <2>1, <2>3, <2>6 DEF AcceptedIds
    <2>7. id \in AcceptedIds'
      BY <2>1, <2>4 DEF AcceptedIds
    <2> QED
      BY <2>5, <2>6, <2>7
  <1>6. LifecycleState[id] = "new"
    BY <1>1 DEF LifecycleState, IInv, SnapshotsFollowJobs
  <1>7. LifecycleWaiting' = Append(LifecycleWaiting, id)
    <2> DEFINE W == LifecycleWaiting
    <2>1. W \in Seq(RequestIds)
      BY WaitingEntries, IdPlaces DEF IInv, InHand
    <2>2. W' \in Seq(RequestIds)
      <3>1. /\ worker'.pc = "popped" => worker'.job.id \in RequestIds
            /\ \A k \in 1..Len(queue') : queue'[k].id \in RequestIds
        <4>1. worker.pc = "popped" => worker.job.id \in RequestIds
          BY IdPlaces DEF IInv, InHand
        <4>2. \A k \in 1..Len(queue') : queue'[k] \in Job
          BY DEF IInv, TypeOK
        <4> QED
          BY <1>2, <4>1, <4>2 DEF Job
      <3>2. CASE worker.pc # "popped"
        <4>1. W' = [k \in 1..Len(queue') |-> queue'[k].id]
          BY <1>2, <1>4, <3>2 DEF LifecycleWaiting
        <4> QED
          BY <1>4, <3>1, <4>1
      <3>3. CASE worker.pc = "popped"
        <4>1. W' = [k \in 1..(Len(queue') + 1) |-> IF k = 1 THEN worker.job.id ELSE queue'[k - 1].id]
          BY <1>2, <3>3 DEF LifecycleWaiting
        <4>2. \A k \in 1..(Len(queue') + 1) : k = 1 \/ k - 1 \in 1..Len(queue')
          BY <1>4
        <4> QED
          BY <1>2, <1>4, <3>1, <3>3, <4>1, <4>2
      <3> QED
        BY <3>2, <3>3
    <2>3. Len(W') = Len(W) + 1 /\ W'[Len(W) + 1] = id /\ \A k \in 1..Len(W) : W'[k] = W[k]
      <3>1. CASE worker.pc # "popped"
        <4>1. W' = [k \in 1..Len(queue') |-> queue'[k].id] /\ W = [k \in 1..Len(queue) |-> queue[k].id]
          BY <1>2, <1>4, <3>1 DEF LifecycleWaiting
        <4> QED
          BY <1>4, <4>1
      <3>2. CASE worker.pc = "popped"
        <4>1. /\ W' = [k \in 1..(Len(queue') + 1) |-> IF k = 1 THEN worker.job.id ELSE queue'[k - 1].id]
              /\ W = [k \in 1..(Len(queue) + 1) |-> IF k = 1 THEN worker.job.id ELSE queue[k - 1].id]
          BY <1>2, <3>2 DEF LifecycleWaiting
        <4>2. Len(W') = Len(queue') + 1 /\ Len(W) = Len(queue) + 1
          BY <1>4, <4>1
        <4>3. W'[Len(W) + 1] = queue'[Len(queue) + 1].id
          BY <1>4, <4>1, <4>2
        <4>4. ASSUME NEW k \in 1..Len(W) PROVE W'[k] = W[k]
          <5>1. k = 1 \/ k - 1 \in 1..Len(queue)
            BY <1>4, <4>2
          <5>2. k \in 1..(Len(queue') + 1) /\ k \in 1..(Len(queue) + 1)
            BY <1>4, <4>2
          <5> QED
            BY <1>4, <4>1, <5>1, <5>2
        <4> QED
          BY <1>4, <4>2, <4>3, <4>4
      <3> QED
        BY <3>1, <3>2
    <2>4. W' \in Seq(RequestIds) /\ Append(W, id) \in Seq(RequestIds)
      BY <2>1, <2>2
    <2> HIDE DEF W
    <2>5. Len(Append(W, id)) = Len(W) + 1 /\ \A k \in 1..Len(Append(W, id)) : W'[k] = Append(W, id)[k]
      BY <2>1, <2>3, AppendProperties
    <2>6. W' = Append(W, id)
      BY <2>3, <2>4, <2>5, SeqEqual
    <2> QED
      BY <2>6 DEF W
  <1>8. \A j \in erased : j \in FinishedIds
    BY PruneErasesFinished
  <1>9. \A j, k \in erased : j = k
    BY DEF Pruned
  <1>10. /\ erased \in SUBSET {j \in RequestIds : LifecycleState[j] \in {"completed", "failed"}}
         /\ LifecycleState' = [j \in RequestIds |->
                                 IF j = id THEN "pending"
                                 ELSE IF j \in erased THEN "forgotten" ELSE LifecycleState[j]]
    <2>1. erased \in SUBSET {j \in RequestIds : LifecycleState[j] \in {"completed", "failed"}}
      BY <1>8 DEF LifecycleState, FinishedIds, Finished
    <2>2. \A j \in erased : j \in AcceptedIds
      BY <1>8 DEF FinishedIds, Finished, IInv, SnapshotsFollowJobs
    <2>3. LifecycleState' = [j \in RequestIds |->
                                IF snapshots'[j].status # "absent" THEN snapshots'[j].status
                                ELSE IF j \in AcceptedIds \cup {id} THEN "forgotten" ELSE "new"]
      BY <1>5 DEF LifecycleState
    <2>4. \A j \in RequestIds :
            snapshots'[j] = IF j = id THEN Pending ELSE IF j \in erased THEN Absent ELSE snapshots[j]
      BY <1>1
    <2>5. ASSUME NEW j \in RequestIds
          PROVE  (IF snapshots'[j].status # "absent" THEN snapshots'[j].status
                  ELSE IF j \in AcceptedIds \cup {id} THEN "forgotten" ELSE "new")
                 = IF j = id THEN "pending"
                   ELSE IF j \in erased THEN "forgotten" ELSE LifecycleState[j]
      BY <2>2, <2>4 DEF Pending, Absent, LifecycleState
    <2> QED
      BY <2>1, <2>3, <2>5
  <1> QED
    BY <1>6, <1>7, <1>9, <1>10 DEF Lifecycle!Accept

\* Popping a job is hidden: it still reads as pending.
LEMMA PopIsHidden == ASSUME IInv, WorkerPop PROVE UNCHANGED Lifecycle!vars
  <1>1. /\ worker.pc = "testing" /\ worker'.pc = "popped" /\ worker'.job = queue[1]
        /\ Len(queue) \in Nat /\ Len(queue) >= 1 /\ Len(queue') = Len(queue) - 1
        /\ \A k \in 1..Len(queue') : queue'[k] = queue[k + 1]
        /\ UNCHANGED <<snapshots, accepted>>
    BY HeadTailProperties DEF WorkerPop, IInv, TypeOK
  <1>2. LifecycleState' = LifecycleState
    BY <1>1 DEF LifecycleState, AcceptedIds
  <1>3. LifecycleWaiting' = [k \in 1..Len(queue) |-> IF k = 1 THEN queue[1].id ELSE queue'[k - 1].id]
    BY <1>1 DEF LifecycleWaiting
  <1>4. LifecycleWaiting = [k \in 1..Len(queue) |-> queue[k].id]
    BY <1>1 DEF LifecycleWaiting
  <1>5. ASSUME NEW k \in 1..Len(queue), k # 1 PROVE queue'[k - 1] = queue[k]
    <2>1. k - 1 \in 1..Len(queue') /\ (k - 1) + 1 = k
      BY <1>1, <1>5
    <2> QED
      BY <1>1, <2>1
  <1> QED
    BY <1>2, <1>3, <1>4, <1>5 DEF Lifecycle!vars

\* A snapshot that changes for an accepted job shows only in its own state.
LEMMA OneSnapshot ==
    ASSUME NEW i \in RequestIds, i \in AcceptedIds, NEW snap, snap.status # "absent",
           TypeOK, snapshots' = [snapshots EXCEPT ![i] = snap], accepted' = accepted
    PROVE  LifecycleState' = [LifecycleState EXCEPT ![i] = snap.status]
  <1>1. AcceptedIds' = AcceptedIds
    BY DEF AcceptedIds
  <1>2. \A j \in RequestIds : snapshots'[j] = IF j = i THEN snap ELSE snapshots[j]
    BY DEF TypeOK
  <1>3. LifecycleState' = [j \in RequestIds |->
                              IF snapshots'[j].status # "absent" THEN snapshots'[j].status
                              ELSE IF j \in AcceptedIds THEN "forgotten" ELSE "new"]
    BY <1>1 DEF LifecycleState
  <1>4. ASSUME NEW j \in RequestIds
        PROVE  (IF snapshots'[j].status # "absent" THEN snapshots'[j].status
                ELSE IF j \in AcceptedIds THEN "forgotten" ELSE "new")
               = IF j = i THEN snap.status ELSE LifecycleState[j]
    <2>1. CASE j = i
      BY <1>2, <2>1
    <2>2. CASE j # i
      BY <1>2, <2>2 DEF LifecycleState
    <2> QED
      BY <2>1, <2>2
  <1>5. [LifecycleState EXCEPT ![i] = snap.status]
          = [j \in RequestIds |-> IF j = i THEN snap.status ELSE LifecycleState[j]]
    BY DEF LifecycleState
  <1> QED
    BY <1>3, <1>4, <1>5

\* The start of processJob is the start of the oldest waiting request.
LEMMA StartIsStart == ASSUME IInv, StartJob PROVE Lifecycle!Start
  <1> DEFINE i == worker.job.id
  <1>1. /\ worker.pc = "popped" /\ worker'.pc = "handling"
        /\ snapshots' = [snapshots EXCEPT ![i] = Running]
        /\ UNCHANGED <<queue, accepted>>
    BY DEF StartJob, IInv, TypeOK
  <1>2. i \in RequestIds /\ i \in AcceptedIds
    BY <1>1, IdPlaces DEF IInv, InHand
  <1>3. LifecycleState' = [LifecycleState EXCEPT ![i] = "running"]
    <2>1. Running.status = "running"
      BY DEF Running
    <2>2. LifecycleState' = [LifecycleState EXCEPT ![i] = Running.status]
      BY <1>1, <1>2, <2>1, OneSnapshot DEF IInv
    <2> QED
      BY <2>1, <2>2
  <1>4. /\ Len(queue) \in Nat
        /\ Len(LifecycleWaiting) = Len(queue) + 1 /\ LifecycleWaiting[1] = i
        /\ \A k \in 1..Len(queue) : LifecycleWaiting[k + 1] = queue[k].id
        /\ LifecycleWaiting \in Seq(RequestIds)
    <2>1. Len(queue) \in Nat /\ \A k \in 1..Len(queue) : queue[k].id \in RequestIds
      BY IdPlaces DEF IInv, TypeOK
    <2>2. LifecycleWaiting \in Seq(RequestIds)
      BY <1>2, <2>1, WaitingEntries DEF IInv
    <2> QED
      BY <1>1, <2>1, <2>2, WaitingEntries DEF IInv
  <1>5. LifecycleWaiting' = [k \in 1..Len(queue) |-> queue[k].id]
    BY <1>1, <1>4 DEF LifecycleWaiting
  <1> DEFINE W == LifecycleWaiting
             W1 == [k \in 1..Len(queue) |-> queue[k].id]
  <1>6. W # <<>> /\ Head(W) = i
    BY <1>4
  <1>7. Tail(W) = W1
    <2>1. W1 \in Seq(RequestIds) /\ Len(W1) = Len(queue)
      BY <1>4, IdPlaces DEF IInv
    <2>2. Tail(W) \in Seq(RequestIds) /\ Len(Tail(W)) = Len(queue)
      BY <1>4, <1>6, HeadTailProperties
    <2>3. ASSUME NEW k \in 1..Len(queue) PROVE Tail(W)[k] = W1[k]
      <3>1. Tail(W)[k] = W[k + 1]
        BY <1>4, <1>6, <2>2, HeadTailProperties
      <3> QED
        BY <1>4, <3>1
    <2> HIDE DEF W, W1
    <2> QED
      BY <2>1, <2>2, <2>3, SeqEqual
  <1>8. ASSUME NEW j \in RequestIds PROVE LifecycleState[j] # "running"
    <2> SUFFICES ASSUME snapshots[j].status = "running" PROVE FALSE
      BY DEF LifecycleState
    <2>1. j \in AcceptedIds
      BY DEF IInv, SnapshotsFollowJobs
    <2>2. PICK k \in 1..Len(accepted) : accepted[k].id = j
      BY <2>1 DEF AcceptedIds
    <2> QED
      BY <1>1, <2>2, JobPlaces DEF IInv
  <1> QED
    BY <1>3, <1>5, <1>6, <1>7, <1>8 DEF Lifecycle!Start

\* Publishing the handler's outcome is the finish of the running request.
LEMMA PublishIsFinish ==
    ASSUME IInv, PublishOutcome PROVE \E i \in RequestIds : Lifecycle!Finish(i)
  <1> DEFINE i == worker.job.id
  <1>1. /\ worker.pc = "handled" /\ worker'.pc = "logging" /\ worker.ok \in BOOLEAN
        /\ UNCHANGED <<queue, accepted>>
    BY DEF PublishOutcome, IInv, TypeOK
  <1>2. PICK now \in Readings :
           snapshots' = [snapshots EXCEPT ![i] =
                           [status     |-> IF worker.ok THEN "completed" ELSE "failed",
                            finishedAt |-> now]]
    BY DEF PublishOutcome
  <1> DEFINE snap == [status |-> IF worker.ok THEN "completed" ELSE "failed", finishedAt |-> now]
  <1>3. i \in RequestIds /\ i \in AcceptedIds /\ snapshots[i].status = "running"
    BY <1>1, IdPlaces DEF IInv, InHand, SnapshotsFollowJobs
  <1>4. snap.status \in {"completed", "failed"}
    BY <1>1
  <1>5. snapshots' = [snapshots EXCEPT ![i] = snap]
    BY <1>2
  <1> HIDE DEF snap
  <1>6. LifecycleState' = [LifecycleState EXCEPT ![i] = snap.status]
    BY <1>1, <1>3, <1>4, <1>5, OneSnapshot DEF IInv
  <1>7. LifecycleState[i] = "running"
    BY <1>3 DEF LifecycleState
  <1>8. LifecycleWaiting' = LifecycleWaiting
    BY <1>1 DEF LifecycleWaiting
  <1> QED
    BY <1>3, <1>4, <1>6, <1>7, <1>8 DEF Lifecycle!Finish

\* Each critical section of each thread is one step of the promised lifecycle
\* or none (submit, workerLoop, processJob, waitUntilFinished, the destructor).
LEMMA StepRefines == IInv /\ IInv' /\ [Next]_vars => [Lifecycle!Next]_(Lifecycle!vars)
  <1> SUFFICES ASSUME IInv, IInv', [Next]_vars PROVE Lifecycle!Next \/ UNCHANGED Lifecycle!vars
    OBVIOUS
  <1>1. ASSUME NEW t \in Threads, Submit(t) PROVE Lifecycle!Next
    BY <1>1, SubmitAccepts DEF Lifecycle!Next
  <1>2. CASE WorkerPop
    BY <1>2, PopIsHidden
  <1>3. CASE StartJob
    BY <1>3, StartIsStart DEF Lifecycle!Next
  <1>4. CASE PublishOutcome
    BY <1>4, PublishIsFinish DEF Lifecycle!Next
  <1>5. CASE \/ WorkerSleep \/ SpuriousWorkerWakeup \/ WorkerExit
             \/ HandlerReturns \/ WriteLog \/ NotifyWaiters
    BY <1>5, HiddenStep
    DEF WorkerSleep, SpuriousWorkerWakeup, WorkerExit, HandlerReturns, WriteLog, NotifyWaiters,
        IInv, TypeOK
  <1>6. ASSUME NEW t \in Threads,
               \/ NotifyWorker(t) \/ BeginWait(t) \/ TestWait(t)
               \/ WaitTimesOut(t) \/ SpuriousWaitWakeup(t)
        PROVE  UNCHANGED Lifecycle!vars
    BY <1>6, HiddenStep
    DEF NotifyWorker, WakeWorker, BeginWait, TestWait, WaitTimesOut, SpuriousWaitWakeup, IInv, TypeOK
  <1>7. CASE DestroyStep \/ Destroyed \/ UNCHANGED vars
    BY <1>7, HiddenStep
    DEF DestroyStep, BeginDestroy, DestroyNotify, DestroyJoin, Destroyed, WakeWorker, vars, IInv, TypeOK
  <1> QED
    BY <1>1, <1>2, <1>3, <1>4, <1>5, <1>6, <1>7 DEF Next, WorkerStep, CallerStep

\* Behind its threads, locks and condition variables the executor serves
\* requests one at a time in the order accepted, each with one final outcome
\* that may be forgotten: the lifecycle that ClientServer builds upon.
THEOREM ExecutorIsLifecycle == Spec => Lifecycle!Spec
  <1>1. Init => Lifecycle!Init
    <2> SUFFICES ASSUME Init PROVE Lifecycle!Init
      OBVIOUS
    <2>1. LifecycleState = [i \in RequestIds |-> "new"]
      BY DEF Init, LifecycleState, AcceptedIds, Absent
    <2>2. LifecycleWaiting = <<>>
      BY DEF Init, LifecycleWaiting
    <2> QED
      BY <2>1, <2>2 DEF Lifecycle!Init
  <1> QED
    BY <1>1, StepRefines, Invariance, PTL DEF Spec, Lifecycle!Spec

=============================================================================
