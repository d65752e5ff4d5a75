----------------------------- MODULE ClientServer -----------------------------
(***************************************************************************)
(* The whole program at work: clients in sendAndWait                       *)
(* (client/include/client_protocol.h), their connections, the one thread   *)
(* that runs every Session's handlers and ExecutorService                  *)
(* (server/server_socket/src/server_socket.cpp,                            *)
(* executor/src/executor_service.cpp), the executor's worker thread, and   *)
(* the engine's mutex (executor/src/query_engine.cpp) between the two.     *)
(*                                                                         *)
(* The executor is the RequestLifecycle that AsyncExecutor implements; the *)
(* engine is its mutex and the list of the commands it has executed.       *)
(*                                                                         *)
(* Abstracted: the bytes of messages and answers.  A message asks to write *)
(* (any DDL or DML), to read (SELECT, USE and what does not parse) or for  *)
(* a result (GET RESULT).  A connection breaks only because its client     *)
(* goes away.  What a read answers, rows or an error, is one "result".     *)
(***************************************************************************)
EXTENDS Integers, Sequences, FiniteSets

CONSTANTS
    Clients,
    MaxPolls,     \* maxPolls of sendAndWait
    MaxStored,    \* maxStoredRequests
    MaxCommands,  \* bound: the commands each client sends
    None

ASSUME NumbersAssumption == MaxPolls \in Nat /\ MaxStored \in Nat /\ MaxCommands \in [Clients -> Nat]

ASSUME NoneAssumption == None \notin Clients

VARIABLES
    client,   \* where each client is in sendAndWait, and what it was told
    wire,     \* what is on each connection: a client sends and then reads
    io,       \* the client whose read the io thread is busy with
    engine,   \* who holds the engine's mutex
    worker,   \* how far processJob is: "idle", "executing", "executed"
    state,    \* the executor: what is known of each request ...
    waiting,  \* ... and its queue
    log,      \* (history) the commands executed, in order
    gaveUp    \* (history) the commands whose client stopped polling

vars == <<client, wire, io, engine, worker, state, waiting, log, gaveUp>>

\* A command: the client's n-th.  It is the request's id as well.
RequestIds == UNION {{<<c, n>> : n \in 1..MaxCommands[c]} : c \in Clients}

Service == INSTANCE RequestLifecycle

Empty == [to |-> "nobody"]

ToServer(what) == [to |-> "server", what |-> what]

ToClient(what) == [to |-> "client", what |-> what]

Request(c) == <<c, client[c].n>>

Stored == {i \in RequestIds : state[i] \in {"pending", "running", "completed", "failed"}}

Init ==
    /\ client = [c \in Clients |-> [pc |-> "ready", n |-> 0, polls |-> 0, told |-> "nothing"]]
    /\ wire = [c \in Clients |-> Empty]
    /\ io = None /\ engine = "free" /\ worker = "idle"
    /\ Service!Init
    /\ log = <<>>
    /\ gaveUp = {}

Executed(i, ok) == Append(log, [request |-> i, ok |-> ok])

-----------------------------------------------------------------------------
(* A client: main_client's loop and sendAndWait.                            *)

SendCommand(c) ==
    /\ client[c].pc = "ready" /\ client[c].n < MaxCommands[c]
    /\ client' = [client EXCEPT ![c] = [pc |-> "sent", n |-> @.n + 1, polls |-> 0, told |-> "nothing"]]
    /\ \E what \in {"write", "read"} : wire' = [wire EXCEPT ![c] = ToServer(what)]
    /\ UNCHANGED <<io, engine, worker, state, waiting, log, gaveUp>>

Told(c, what) == client' = [client EXCEPT ![c].pc = "ready", ![c].told = what]

\* A mistake for ReceiveAnswer: "accepted" is taken for the answer.
ReceiveAnswerAtOnce(c) ==
    /\ client[c].pc = "sent" /\ wire[c].to = "client"
    /\ Told(c, wire[c].what)
    /\ wire' = [wire EXCEPT ![c] = Empty]
    /\ UNCHANGED <<io, engine, worker, state, waiting, log, gaveUp>>

\* The answer to the command: final, or "accepted" with the request's id.
ReceiveAnswer(c) ==
    /\ client[c].pc = "sent" /\ wire[c].to = "client"
    /\ IF wire[c].what = "accepted"
       THEN client' = [client EXCEPT ![c].pc = "polling"]
       ELSE Told(c, wire[c].what)
    /\ wire' = [wire EXCEPT ![c] = Empty]
    /\ UNCHANGED <<io, engine, worker, state, waiting, log, gaveUp>>

\* Two mistakes for SendPoll: the number of polls has no limit, or stays 0.
SendPollUnbounded(c) ==
    /\ client[c].pc = "polling"
    /\ client' = [client EXCEPT ![c].pc = "polled", ![c].polls = @ + 1]
    /\ wire' = [wire EXCEPT ![c] = ToServer("poll")]
    /\ UNCHANGED <<io, engine, worker, state, waiting, log, gaveUp>>

SendPollUncounted(c) ==
    /\ client[c].pc = "polling" /\ client[c].polls < MaxPolls
    /\ client' = [client EXCEPT ![c].pc = "polled"]
    /\ wire' = [wire EXCEPT ![c] = ToServer("poll")]
    /\ UNCHANGED <<io, engine, worker, state, waiting, log, gaveUp>>

SendPoll(c) ==
    /\ client[c].pc = "polling" /\ client[c].polls < MaxPolls
    /\ client' = [client EXCEPT ![c].pc = "polled", ![c].polls = @ + 1]
    /\ wire' = [wire EXCEPT ![c] = ToServer("poll")]
    /\ UNCHANGED <<io, engine, worker, state, waiting, log, gaveUp>>

\* Only a ready result ends the loop: "not found" does not.
ReceivePoll(c) ==
    /\ client[c].pc = "polled" /\ wire[c].to = "client"
    /\ IF wire[c].what \in {"completed", "failed"}
       THEN Told(c, wire[c].what)
       ELSE client' = [client EXCEPT ![c].pc = "polling"]
    /\ wire' = [wire EXCEPT ![c] = Empty]
    /\ UNCHANGED <<io, engine, worker, state, waiting, log, gaveUp>>

GiveUp(c) ==
    /\ client[c].pc = "polling" /\ client[c].polls = MaxPolls
    /\ Told(c, "accepted")
    /\ gaveUp' = gaveUp \cup {Request(c)}
    /\ UNCHANGED <<wire, io, engine, worker, state, waiting, log>>

\* The process ends; what it has sent may still arrive, if it has not yet.
Disconnect(c) ==
    /\ client[c].pc # "gone"
    /\ client' = [client EXCEPT ![c] = [pc |-> "gone", n |-> @.n, polls |-> 0, told |-> "nothing"]]
    /\ \E left \in {wire[c]} \cup (IF io = c THEN {} ELSE {Empty}) : wire' = [wire EXCEPT ![c] = left]
    /\ UNCHANGED <<io, engine, worker, state, waiting, log, gaveUp>>

-----------------------------------------------------------------------------
(* The io thread: one handler at a time, for all sessions.                  *)

Asked(c, what) == io = None /\ wire[c] = ToServer(what)

Answer(c, what) == wire' = [wire EXCEPT ![c] = ToClient(what)]

\* submit: a result may be forgotten when the table is full (which one and
\* whether is up to the executor).
AcceptWrite(c) ==
    /\ Asked(c, "write")
    /\ Service!Accept(Request(c))
    /\ Cardinality(Stored) < MaxStored => \A i \in Stored : state'[i] = state[i]
    /\ Answer(c, "accepted")
    /\ UNCHANGED <<client, io, engine, worker, log, gaveUp>>

\* getResultJson.
AnswerPoll(c) ==
    /\ Asked(c, "poll")
    /\ Answer(c, IF state[Request(c)] = "forgotten" THEN "not found" ELSE state[Request(c)])
    /\ UNCHANGED <<client, io, engine, worker, state, waiting, log, gaveUp>>

\* executeSync calls the engine from the io thread and waits for its mutex.
BeginSync(c) ==
    /\ Asked(c, "read")
    /\ io' = c
    /\ UNCHANGED <<client, wire, engine, worker, state, waiting, log, gaveUp>>

LockForSync ==
    /\ io # None /\ engine = "free"
    /\ engine' = "io"
    /\ UNCHANGED <<client, wire, io, worker, state, waiting, log, gaveUp>>

ReturnSync ==
    /\ engine = "io"
    /\ log' = Executed(Request(io), TRUE)
    /\ Answer(io, "result")
    /\ engine' = "free"
    /\ io' = None
    /\ UNCHANGED <<client, worker, state, waiting, gaveUp>>

-----------------------------------------------------------------------------
(* The worker thread.                                                       *)

TakeJob ==
    /\ Service!Start
    /\ UNCHANGED <<client, wire, io, engine, worker, log, gaveUp>>

Running == {i \in RequestIds : state[i] = "running"}

LockForJob ==
    /\ worker = "idle" /\ Running # {} /\ engine = "free"
    /\ engine' = "worker"
    /\ worker' = "executing"
    /\ UNCHANGED <<client, wire, io, state, waiting, log, gaveUp>>

\* A mistake for ExecuteJob: an exception leaves the mutex locked.
ExecuteJobLocked ==
    /\ worker = "executing"
    /\ \E i \in Running, ok \in BOOLEAN :
         /\ log' = Executed(i, ok)
         /\ engine' = IF ok THEN "free" ELSE engine
    /\ worker' = "executed"
    /\ UNCHANGED <<client, wire, io, state, waiting, gaveUp>>

ExecuteJob ==
    /\ worker = "executing"
    /\ \E i \in Running, ok \in BOOLEAN : log' = Executed(i, ok)
    /\ engine' = "free"
    /\ worker' = "executed"
    /\ UNCHANGED <<client, wire, io, state, waiting, gaveUp>>

\* A mistake for Outcome: an exception counts as a result.
OutcomeAlwaysGood(ok) == "completed"

Outcome(ok) == IF ok THEN "completed" ELSE "failed"

\* The entry of log that is request i's.
OkOf(i) == \E k \in 1..Len(log) : log[k].request = i /\ log[k].ok

PublishOutcome ==
    /\ worker = "executed"
    /\ \E i \in Running : Service!Finish(i) /\ state'[i] = Outcome(OkOf(i))
    /\ worker' = "idle"
    /\ UNCHANGED <<client, wire, io, engine, log, gaveUp>>

-----------------------------------------------------------------------------
ClientStep(c) == ReceiveAnswer(c) \/ SendPoll(c) \/ ReceivePoll(c) \/ GiveUp(c)

IoStep == LockForSync \/ ReturnSync \/ \E c \in Clients : AcceptWrite(c) \/ AnswerPoll(c) \/ BeginSync(c)

WorkerStep == TakeJob \/ LockForJob \/ ExecuteJob \/ PublishOutcome

Next ==
    \/ \E c \in Clients : SendCommand(c) \/ Disconnect(c) \/ ClientStep(c)
    \/ IoStep
    \/ WorkerStep

Spec == Init /\ [][Next]_vars

(* The two threads of the server run and the engine returns; a client in    *)
(* sendAndWait goes on.  Weak fairness is enough for the engine's mutex:    *)
(* while the io thread waits for it no request is accepted, so the worker   *)
(* runs out of jobs to lock it for.                                         *)
Fairness == WF_vars(IoStep) /\ WF_vars(LockForSync) /\ WF_vars(WorkerStep) /\ \A c \in Clients : WF_vars(ClientStep(c))

FairSpec == Spec /\ Fairness

-----------------------------------------------------------------------------
TypeOK ==
    /\ \A c \in Clients : client[c].n \in 0..MaxCommands[c] /\ client[c].polls \in 0..MaxPolls
    /\ io \in Clients \cup {None}
    /\ engine \in {"free", "io", "worker"}
    /\ worker \in {"idle", "executing", "executed"}
    /\ state \in [RequestIds -> Service!States]
    /\ gaveUp \subseteq RequestIds

ExecutedBefore(i, j) == \E k, m \in 1..Len(log) : k < m /\ log[k].request = i /\ log[m].request = j

\* A client's commands take effect in the order it sent them, each once,
\* though some go through the queue and some past it: only a command whose
\* client has stopped waiting for it can be overtaken (sendAndWait).
OwnOrder ==
    \A i, j \in RequestIds : i[1] = j[1] /\ ExecutedBefore(i, j) => i[2] < j[2] \/ (i # j /\ j \in gaveUp)

\* What sendAndWait returns is the outcome of its own command: a result only
\* after the command was executed, and the right one.
AnswerIsOwn ==
    \A c \in Clients :
        /\ client[c].told \in {"completed", "failed", "result"} => \E k \in 1..Len(log) : log[k].request = Request(c)
        /\ client[c].told = "completed" => OkOf(Request(c))
        /\ client[c].told = "failed" => ~OkOf(Request(c))

\* sendAndWait returns, unless its process ends: no other client and no queue
\* keeps it waiting for ever.
EveryCallReturns ==
    \A c \in Clients : client[c].pc \in {"sent", "polling", "polled"} ~> client[c].pc \in {"ready", "gone"}

\* What was accepted is executed and its outcome published, though the client
\* stop polling or disappear.
AcceptedIsFinished ==
    \A i \in RequestIds : state[i] = "pending" ~> state[i] \in {"completed", "failed"}

=============================================================================
