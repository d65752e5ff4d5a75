-------------------------- MODULE ClientServerProofs --------------------------
(***************************************************************************)
(* What sendAndWait promises holds for any number of clients and commands, *)
(* any table size and any limit of polls.                                  *)
(***************************************************************************)
EXTENDS ClientServer, SequenceTheorems, TLAPS

(* The inductive invariant.                                                 *)

Replies == {"accepted", "result", "not found"} \cup Service!States

ClientRecords ==
    [pc : {"ready", "sent", "polling", "polled", "gone"}, n : Nat, polls : 0..MaxPolls,
     told : {"nothing", "accepted", "result", "completed", "failed"}]

InLog(i) == \E k \in 1..Len(log) : log[k].request = i

Types ==
    /\ client \in [Clients -> ClientRecords] /\ \A c \in Clients : client[c].n \in 0..MaxCommands[c]
    /\ wire \in [Clients -> {Empty} \cup {ToServer(what) : what \in {"write", "read", "poll"}}
                                    \cup {ToClient(what) : what \in Replies}]
    /\ io \in Clients \cup {None} /\ engine \in {"free", "io", "worker"}
    /\ worker \in {"idle", "executing", "executed"}
    /\ state \in [RequestIds -> Service!States] /\ waiting \in Seq(RequestIds)
    /\ log \in Seq([request : RequestIds, ok : BOOLEAN]) /\ gaveUp \subseteq RequestIds

\* While the io thread is busy with a read, the message stays.
ReadInHand == (engine = "io" => io # None) /\ (io # None => wire[io] = ToServer("read"))

\* A request waits once, one at a time runs, and the worker is busy with it.
QueueOK ==
    /\ \A k \in 1..Len(waiting) : state[waiting[k]] = "pending"
    /\ \A k, m \in 1..Len(waiting) : waiting[k] = waiting[m] => k = m
    /\ \A i, j \in Running : i = j
    /\ worker # "idle" => Running # {}

\* What the executor knows of a request, and what the engine has done for it.
LogOK ==
    \A i \in RequestIds :
        /\ state[i] = "pending" => ~InLog(i)
        /\ state[i] = "running" => (InLog(i) <=> worker = "executed")
        /\ state[i] = "completed" => InLog(i) /\ OkOf(i)
        /\ state[i] = "failed" => InLog(i) /\ ~OkOf(i)
        /\ i[2] > client[i[1]].n => state[i] = "new" /\ ~InLog(i)

\* What is on a connection is about the client's last command.
MessageOK(c) ==
    /\ wire[c] # Empty => client[c].n > 0
    /\ wire[c] \in {ToServer("write"), ToServer("read")} => state[Request(c)] = "new" /\ ~InLog(Request(c))
    /\ wire[c] = ToClient("result") => InLog(Request(c))
    /\ wire[c] = ToClient("completed") => InLog(Request(c)) /\ OkOf(Request(c))
    /\ wire[c] = ToClient("failed") => InLog(Request(c)) /\ ~OkOf(Request(c))

\* A client sends when nothing is on its connection, and stops waiting with
\* its command executed or given up.
ClientOK(c) ==
    /\ client[c].pc \in {"ready", "polling"} => wire[c] = Empty
    /\ client[c].pc \in {"sent", "polling", "polled"} => client[c].n > 0
    /\ client[c].pc = "sent" =>
          wire[c] \in {ToServer("write"), ToServer("read"), ToClient("accepted"), ToClient("result")}

\* AnswerIsOwn, of one client.
ToldOK(c) ==
    /\ client[c].told \in {"completed", "failed", "result"} => InLog(Request(c))
    /\ client[c].told = "completed" => OkOf(Request(c))
    /\ client[c].told = "failed" => ~OkOf(Request(c))

\* A client goes on to its next command when the last is executed or given up.
Settled ==
    \A i \in RequestIds :
        i[2] < client[i[1]].n \/ (i[2] = client[i[1]].n /\ client[i[1]].pc = "ready") => InLog(i) \/ i \in gaveUp

CSInv ==
    /\ Types /\ ReadInHand /\ QueueOK /\ LogOK /\ Settled
    /\ \A c \in Clients : MessageOK(c) /\ ClientOK(c) /\ ToldOK(c)
    /\ OwnOrder

-----------------------------------------------------------------------------
(* Requests and the log.                                                    *)

\* A request is its client and its number, so that a client's commands differ
\* from one another and from everybody else's.
LEMMA RequestIsPair ==
    /\ \A i \in RequestIds : i[1] \in Clients /\ i[2] \in 1..MaxCommands[i[1]] /\ i = <<i[1], i[2]>>
    /\ \A c \in Clients : \A n \in 1..MaxCommands[c] : <<c, n>> \in RequestIds
BY DEF RequestIds

\* A client that has sent something has a last request.
LEMMA RequestFacts ==
    ASSUME Types, NEW c \in Clients
    PROVE  /\ client[c].n > 0 => Request(c) \in RequestIds
           /\ Request(c)[1] = c /\ Request(c)[2] = client[c].n
           /\ \A i \in RequestIds : i = Request(c) <=> i[1] = c /\ i[2] = client[c].n
<1>1. client[c].n \in 0..MaxCommands[c] /\ MaxCommands[c] \in Nat
  BY NumbersAssumption DEF Types
<1>2. client[c].n > 0 => Request(c) \in RequestIds
  BY <1>1, RequestIsPair DEF Request
<1>3. Request(c)[1] = c /\ Request(c)[2] = client[c].n
  BY DEF Request
<1>4. ASSUME NEW i \in RequestIds PROVE i = Request(c) <=> i[1] = c /\ i[2] = client[c].n
  BY RequestIsPair DEF Request
<1> QED BY <1>2, <1>3, <1>4

\* The messages differ by their direction and by what they say.
LEMMA MessageKinds ==
    /\ \A v : ToServer(v) # Empty /\ ToClient(v) # Empty
    /\ \A v, w : ToServer(v) # ToClient(w)
    /\ \A v, w : (ToServer(v) = ToServer(w) => v = w) /\ (ToClient(v) = ToClient(w) => v = w)
<1>1. Empty.to = "nobody"
  BY DEF Empty
<1>2. \A v : ToServer(v).to = "server" /\ ToServer(v).what = v
  BY DEF ToServer
<1>3. \A v : ToClient(v).to = "client" /\ ToClient(v).what = v
  BY DEF ToClient
<1>4. \A v : ToServer(v) # Empty /\ ToClient(v) # Empty
  BY <1>1, <1>2, <1>3
<1>5. \A v, w : ToServer(v) # ToClient(w)
  BY <1>2, <1>3
<1>6. \A v, w : (ToServer(v) = ToServer(w) => v = w) /\ (ToClient(v) = ToClient(w) => v = w)
  BY <1>2, <1>3
<1> QED BY <1>4, <1>5, <1>6

\* A step that executes nothing leaves the log's questions as they were.
LEMMA SameLog ==
    ASSUME log' = log
    PROVE  /\ \A i : (InLog(i)' <=> InLog(i)) /\ (OkOf(i)' <=> OkOf(i))
           /\ OwnOrder /\ gaveUp \subseteq gaveUp' => OwnOrder'
<1>1. \A i : (InLog(i)' <=> InLog(i)) /\ (OkOf(i)' <=> OkOf(i))
  BY DEF InLog, OkOf
<1>2. \A i, j : ExecutedBefore(i, j)' <=> ExecutedBefore(i, j)
  BY DEF ExecutedBefore
<1>3. ASSUME OwnOrder, gaveUp \subseteq gaveUp' PROVE OwnOrder'
  BY <1>2, <1>3 DEF OwnOrder
<1> QED BY <1>1, <1>3

\* Executing a request for the first time settles it, and changes nothing for
\* the others; whatever was executed comes before it.
LEMMA LogGrows ==
    ASSUME log \in Seq([request : RequestIds, ok : BOOLEAN]), NEW r \in RequestIds, NEW ok \in BOOLEAN,
           log' = Executed(r, ok), ~InLog(r)
    PROVE  /\ log' \in Seq([request : RequestIds, ok : BOOLEAN])
           /\ InLog(r)' /\ (OkOf(r)' <=> ok)
           /\ \A i : i # r => (InLog(i)' <=> InLog(i)) /\ (OkOf(i)' <=> OkOf(i))
           /\ \A i, j : ExecutedBefore(i, j)' => ExecutedBefore(i, j) \/ (j = r /\ InLog(i))
<1> DEFINE e == [request |-> r, ok |-> ok]
           n == Len(log)
<1>1. log' \in Seq([request : RequestIds, ok : BOOLEAN]) /\ Len(log') = n + 1 /\ n \in Nat
  BY DEF Executed
<1>2. \A k \in 1..n : log'[k] = log[k] /\ k \in 1..Len(log')
  BY DEF Executed
<1>3. log'[n + 1] = e /\ e.request = r /\ e.ok = ok /\ n + 1 \in 1..Len(log')
  BY <1>1 DEF Executed
<1>4. \A k \in 1..Len(log') : k \in 1..n \/ k = n + 1
  BY <1>1
<1>5. \A k \in 1..n : log[k].request # r
  BY DEF InLog
<1> HIDE DEF e, n
<1>6. InLog(r)' /\ (OkOf(r)' <=> ok)
  BY <1>2, <1>3, <1>4, <1>5 DEF InLog, OkOf
<1>7. ASSUME NEW i, i # r PROVE (InLog(i)' <=> InLog(i)) /\ (OkOf(i)' <=> OkOf(i))
  BY <1>2, <1>3, <1>4, <1>7 DEF InLog, OkOf, n
<1>8. ASSUME NEW i, NEW j, ExecutedBefore(i, j)' PROVE ExecutedBefore(i, j) \/ (j = r /\ InLog(i))
  <2>1. PICK k \in 1..Len(log'), m \in 1..Len(log') : k < m /\ log'[k].request = i /\ log'[m].request = j
    BY <1>8 DEF ExecutedBefore
  <2>2. k \in 1..n
    BY <1>1, <1>4, <2>1
  <2> QED BY <1>2, <1>3, <1>4, <2>1, <2>2 DEF ExecutedBefore, InLog, n
<1> QED BY <1>1, <1>6, <1>7, <1>8

-----------------------------------------------------------------------------
(* The client's side: steps that concern one client and execute nothing.    *)

LEMMA InitCSInv == Init => CSInv
<1> SUFFICES ASSUME Init PROVE CSInv
  OBVIOUS
<1> USE DEF Init, Service!Init
<1>1. Types
  <2>1. 0 \in 0..MaxPolls /\ \A c \in Clients : 0 \in 0..MaxCommands[c]
    BY NumbersAssumption
  <2>2. state \in [RequestIds -> Service!States]
    BY DEF Service!States
  <2> QED BY <2>1, <2>2 DEF Types, ClientRecords
<1>2. \A i : ~InLog(i) /\ \A j : ~ExecutedBefore(i, j)
  BY DEF InLog, ExecutedBefore
<1>3. ReadInHand /\ QueueOK
  BY DEF ReadInHand, QueueOK, Running
<1>4. LogOK
  BY <1>2 DEF LogOK
<1>5. Settled
  BY RequestIsPair DEF Settled
<1>6. ASSUME NEW c \in Clients PROVE MessageOK(c) /\ ClientOK(c) /\ ToldOK(c)
  BY DEF MessageOK, ClientOK, ToldOK, Empty, ToServer, ToClient
<1>7. OwnOrder
  BY <1>2 DEF OwnOrder
<1> QED BY <1>1, <1>3, <1>4, <1>5, <1>6, <1>7 DEF CSInv

\* Of a step of one client, or of the server's answer to a poll, what must be
\* seen is that this client's record and message fit; the rest follows.
LEMMA OneClient ==
    ASSUME CSInv, NEW c \in Clients, Types',
           UNCHANGED <<io, engine, worker, state, waiting, log>>, gaveUp \subseteq gaveUp',
           \A d \in Clients \ {c} : client'[d] = client[d] /\ wire'[d] = wire[d],
           \/ client'[c].n = client[c].n
           \/ client'[c].n = client[c].n + 1 /\ client[c].pc = "ready",
           client'[c].pc = "ready" =>
               client[c].pc = "ready" \/ InLog(Request(c)) \/ Request(c) \in gaveUp',
           client'[c].pc = "ready" => client'[c].n = client[c].n,
           io = c => wire'[c] = wire[c],
           MessageOK(c)', ClientOK(c)', ToldOK(c)'
    PROVE  CSInv'
<1> USE DEF CSInv
<1>1. ReadInHand'
  <2>1. ASSUME io # None PROVE wire'[io] = wire[io]
    BY <2>1 DEF Types
  <2> QED BY <2>1 DEF ReadInHand, ToServer
<1>2. QueueOK'
  BY DEF QueueOK, Running
<1>3. \A i : (InLog(i)' <=> InLog(i)) /\ (OkOf(i)' <=> OkOf(i))
  BY SameLog
<1>4. OwnOrder'
  BY SameLog
<1>5. \A d \in Clients : client[d].n \in Nat /\ client'[d].n \in Nat /\ client'[d].n >= client[d].n
  <2>1. \A d \in Clients : client[d].n \in Nat /\ client'[d].n \in Nat
    BY DEF Types, ClientRecords
  <2>2. \A d \in Clients \ {c} : client'[d].n = client[d].n
    OBVIOUS
  <2>3. client'[c].n >= client[c].n
    BY <2>1
  <2> QED BY <2>1, <2>2, <2>3
<1>6. LogOK'
  <2> SUFFICES ASSUME NEW i \in RequestIds
               PROVE  /\ state[i] = "pending" => ~InLog(i)
                      /\ state[i] = "running" => (InLog(i) <=> worker = "executed")
                      /\ state[i] = "completed" => InLog(i) /\ OkOf(i)
                      /\ state[i] = "failed" => InLog(i) /\ ~OkOf(i)
                      /\ i[2] > client'[i[1]].n => state[i] = "new" /\ ~InLog(i)
    BY <1>3 DEF LogOK
  <2>1. i[2] > client'[i[1]].n => i[2] > client[i[1]].n
    BY <1>5, RequestIsPair
  <2> QED BY <2>1 DEF LogOK
<1>7. Settled'
  <2> SUFFICES ASSUME NEW i \in RequestIds,
                      i[2] < client'[i[1]].n \/ (i[2] = client'[i[1]].n /\ client'[i[1]].pc = "ready")
               PROVE  InLog(i) \/ i \in gaveUp'
    BY <1>3 DEF Settled
  <2>1. i[1] \in Clients /\ i[2] \in Nat
    BY RequestIsPair
  <2>2. CASE i[1] # c
    BY <2>1, <2>2 DEF Settled
  <2>3. CASE i[1] = c /\ (i[2] < client[c].n \/ (i[2] = client[c].n /\ client[c].pc = "ready"))
    BY <2>3 DEF Settled
  <2>4. CASE i[1] = c /\ i[2] = client[c].n /\ client'[c].pc = "ready" /\ client[c].pc # "ready"
    <3>1. i = Request(c)
      BY <2>4, RequestFacts
    <3> QED BY <2>4, <3>1
  <2> QED BY <1>5, <2>1, <2>2, <2>3, <2>4
<1>8. ASSUME NEW d \in Clients PROVE (MessageOK(d) /\ ClientOK(d) /\ ToldOK(d))'
  <2>1. CASE d = c
    BY <2>1
  <2>2. CASE d # c
    <3>1. client'[d] = client[d] /\ wire'[d] = wire[d]
      BY <2>2
    <3>2. /\ Request(d)' = Request(d)
          /\ InLog(Request(d))' <=> InLog(Request(d))
          /\ OkOf(Request(d))' <=> OkOf(Request(d))
      BY <3>1 DEF Request, InLog, OkOf
    <3>3. MessageOK(d)'
      BY <3>2, <3>1 DEF MessageOK, Empty, ToServer, ToClient
    <3>4. ClientOK(d)'
      BY <3>1 DEF ClientOK, Empty, ToServer, ToClient
    <3>5. ToldOK(d)'
      BY <3>2, <3>1 DEF ToldOK
    <3> QED BY <3>3, <3>4, <3>5
  <2> QED BY <2>1, <2>2
<1> QED BY <1>1, <1>2, <1>4, <1>6, <1>7, <1>8

\* The io thread is not busy with a client whose message is no read.
LEMMA NotInHand == ASSUME ReadInHand, NEW c \in Clients, wire[c] # ToServer("read") PROVE io # c
BY NoneAssumption DEF ReadInHand

LEMMA SendCommandKeeps == ASSUME CSInv, NEW c \in Clients, SendCommand(c) PROVE CSInv'
<1> USE DEF SendCommand
<1>1. client[c] \in ClientRecords /\ client[c].n \in Nat /\ client[c].n + 1 \in 1..MaxCommands[c]
  <2>1. client[c] \in ClientRecords /\ client[c].n \in 0..MaxCommands[c] /\ client[c].n < MaxCommands[c]
    BY DEF CSInv, Types
  <2>2. MaxCommands[c] \in Nat
    BY NumbersAssumption
  <2> QED BY <2>1, <2>2
<1>2. client'[c] = [pc |-> "sent", n |-> client[c].n + 1, polls |-> 0, told |-> "nothing"]
  BY DEF CSInv, Types
<1>3. wire'[c] \in {ToServer("write"), ToServer("read")}
  BY DEF CSInv, Types
<1>4. Types'
  <2>1. client' \in [Clients -> ClientRecords] /\ \A d \in Clients : client'[d].n \in 0..MaxCommands[d]
    BY <1>1, <1>2, NumbersAssumption DEF CSInv, Types, ClientRecords
  <2> QED BY <2>1 DEF CSInv, Types
<1>5. Request(c)' \in RequestIds /\ Request(c)'[1] = c /\ Request(c)'[2] = client[c].n + 1
  BY <1>1, <1>2, RequestIsPair DEF Request
<1>6. state[Request(c)'] = "new" /\ ~InLog(Request(c)')
  BY <1>1, <1>5 DEF CSInv, LogOK
<1>7. MessageOK(c)' /\ ClientOK(c)' /\ ToldOK(c)'
  BY <1>1, <1>2, <1>3, <1>6
     DEF MessageOK, ClientOK, ToldOK, InLog, Request, Empty, ToServer, ToClient
<1>8. io # c
  BY NotInHand DEF CSInv, ClientOK, Empty, ToServer
<1> QED BY <1>2, <1>4, <1>7, <1>8, OneClient DEF CSInv, Types

LEMMA ReceiveAnswerKeeps == ASSUME CSInv, NEW c \in Clients, ReceiveAnswer(c) PROVE CSInv'
<1> USE DEF ReceiveAnswer, Told
<1>1. client[c] \in ClientRecords /\ client[c].n > 0
  BY DEF CSInv, Types, ClientOK
<1>2. wire[c] \in {ToClient("accepted"), ToClient("result")} /\ wire'[c] = Empty
  BY DEF CSInv, Types, ClientOK, ToServer, ToClient
<1>3. /\ client'[c] \in ClientRecords /\ client'[c].n = client[c].n
      /\ \/ client'[c].pc = "polling" /\ client'[c].told = client[c].told
         \/ client'[c].pc = "ready" /\ client'[c].told = "result" /\ wire[c] = ToClient("result")
  <2>1. client[c].n \in Nat /\ client[c].polls \in 0..MaxPolls
    BY <1>1 DEF ClientRecords
  <2>2. CASE wire[c] = ToClient("accepted")
    <3>1. client'[c] = [pc |-> "polling", n |-> client[c].n, polls |-> client[c].polls, told |-> client[c].told]
      BY <1>1, <2>2 DEF CSInv, Types, ClientRecords, ToClient
    <3> QED BY <1>1, <2>1, <3>1 DEF ClientRecords
  <2>3. CASE wire[c] = ToClient("result")
    <3>1. client'[c] = [pc |-> "ready", n |-> client[c].n, polls |-> client[c].polls, told |-> "result"]
      BY <1>1, <2>3 DEF CSInv, Types, ClientRecords, ToClient
    <3> QED BY <1>1, <2>1, <2>3, <3>1 DEF ClientRecords
  <2> QED BY <1>2, <2>2, <2>3
<1>4. Types'
  <2>1. client' \in [Clients -> ClientRecords] /\ \A d \in Clients : client'[d].n \in 0..MaxCommands[d]
    BY <1>3 DEF CSInv, Types
  <2> QED BY <2>1 DEF CSInv, Types
<1>5. Request(c)' = Request(c) /\ (InLog(Request(c))' <=> InLog(Request(c))) /\ (OkOf(Request(c))' <=> OkOf(Request(c)))
  BY <1>3 DEF Request, InLog, OkOf
<1>6. client'[c].pc = "ready" => InLog(Request(c))
  BY <1>3 DEF CSInv, MessageOK
<1>7. MessageOK(c)' /\ ClientOK(c)' /\ ToldOK(c)'
  BY <1>1, <1>2, <1>3, <1>5, <1>6 DEF CSInv, MessageOK, ClientOK, ToldOK, Empty, ToServer, ToClient
<1>8. io # c
  BY <1>2, NotInHand DEF CSInv, ToServer, ToClient
<1> QED BY <1>3, <1>4, <1>6, <1>7, <1>8, OneClient DEF CSInv, Types

LEMMA SendPollKeeps == ASSUME CSInv, NEW c \in Clients, SendPoll(c) PROVE CSInv'
<1> USE DEF SendPoll
<1>1. client[c] \in ClientRecords /\ client[c].n > 0 /\ wire[c] = Empty
  BY DEF CSInv, Types, ClientOK
<1>2. /\ client'[c] \in ClientRecords /\ client'[c].n = client[c].n
      /\ client'[c].pc = "polled" /\ client'[c].told = client[c].told
  <2>1. client[c].n \in Nat /\ client[c].polls + 1 \in 0..MaxPolls
    BY <1>1, NumbersAssumption DEF ClientRecords
  <2>2. client'[c] = [pc |-> "polled", n |-> client[c].n, polls |-> client[c].polls + 1, told |-> client[c].told]
    BY <1>1 DEF CSInv, Types, ClientRecords
  <2> QED BY <1>1, <2>1, <2>2 DEF ClientRecords
<1>3. wire'[c] = ToServer("poll")
  BY DEF CSInv, Types
<1>4. Types'
  <2>1. client' \in [Clients -> ClientRecords] /\ \A d \in Clients : client'[d].n \in 0..MaxCommands[d]
    BY <1>2 DEF CSInv, Types
  <2> QED BY <2>1 DEF CSInv, Types
<1>5. Request(c)' = Request(c) /\ (InLog(Request(c))' <=> InLog(Request(c))) /\ (OkOf(Request(c))' <=> OkOf(Request(c)))
  BY <1>2 DEF Request, InLog, OkOf
<1>6. MessageOK(c)' /\ ClientOK(c)' /\ ToldOK(c)'
  BY <1>1, <1>2, <1>3, <1>5 DEF CSInv, MessageOK, ClientOK, ToldOK, Empty, ToServer, ToClient
<1>7. io # c
  BY <1>1, NotInHand DEF CSInv, ToServer, Empty
<1> QED BY <1>2, <1>4, <1>6, <1>7, OneClient DEF CSInv, Types

LEMMA ReceivePollKeeps == ASSUME CSInv, NEW c \in Clients, ReceivePoll(c) PROVE CSInv'
<1> USE DEF ReceivePoll, Told
<1>1. client[c] \in ClientRecords /\ client[c].n > 0
  BY DEF CSInv, Types, ClientOK
<1>2. wire[c] = ToClient(wire[c].what) /\ wire'[c] = Empty
  BY DEF CSInv, Types, ToServer, ToClient, Empty
<1>3. /\ client'[c] \in ClientRecords /\ client'[c].n = client[c].n
      /\ \/ client'[c].pc = "polling" /\ client'[c].told = client[c].told
         \/ /\ client'[c].pc = "ready" /\ client'[c].told = wire[c].what
            /\ wire[c].what \in {"completed", "failed"}
  <2>1. client[c].n \in Nat /\ client[c].polls \in 0..MaxPolls
    BY <1>1 DEF ClientRecords
  <2>2. CASE wire[c].what \in {"completed", "failed"}
    <3>1. client'[c] = [pc |-> "ready", n |-> client[c].n, polls |-> client[c].polls, told |-> wire[c].what]
      BY <1>1, <2>2 DEF CSInv, Types, ClientRecords
    <3> QED BY <1>1, <2>1, <2>2, <3>1 DEF ClientRecords
  <2>3. CASE wire[c].what \notin {"completed", "failed"}
    <3>1. client'[c] = [pc |-> "polling", n |-> client[c].n, polls |-> client[c].polls, told |-> client[c].told]
      BY <1>1, <2>3 DEF CSInv, Types, ClientRecords
    <3> QED BY <1>1, <2>1, <3>1 DEF ClientRecords
  <2> QED BY <2>2, <2>3
<1>4. Types'
  <2>1. client' \in [Clients -> ClientRecords] /\ \A d \in Clients : client'[d].n \in 0..MaxCommands[d]
    BY <1>3 DEF CSInv, Types
  <2> QED BY <2>1 DEF CSInv, Types
<1>5. Request(c)' = Request(c) /\ (InLog(Request(c))' <=> InLog(Request(c))) /\ (OkOf(Request(c))' <=> OkOf(Request(c)))
  BY <1>3 DEF Request, InLog, OkOf
<1>6. wire[c].what \in {"completed", "failed"} =>
          InLog(Request(c)) /\ (wire[c].what = "completed" <=> OkOf(Request(c)))
  BY <1>2 DEF CSInv, MessageOK
<1>7. MessageOK(c)' /\ ClientOK(c)' /\ ToldOK(c)'
  BY <1>1, <1>2, <1>3, <1>5, <1>6 DEF CSInv, MessageOK, ClientOK, ToldOK, Empty, ToServer, ToClient
<1>8. io # c
  BY <1>2, NotInHand DEF CSInv, ToServer, ToClient
<1> QED BY <1>3, <1>4, <1>6, <1>7, <1>8, OneClient DEF CSInv, Types

LEMMA GiveUpKeeps == ASSUME CSInv, NEW c \in Clients, GiveUp(c) PROVE CSInv'
<1> USE DEF GiveUp, Told
<1>1. client[c] \in ClientRecords /\ client[c].n > 0 /\ wire[c] = Empty
  BY DEF CSInv, Types, ClientOK
<1>2. /\ client'[c] \in ClientRecords /\ client'[c].n = client[c].n
      /\ client'[c].pc = "ready" /\ client'[c].told = "accepted"
  BY <1>1 DEF CSInv, Types, ClientRecords
<1>3. Request(c) \in RequestIds
  BY <1>1, RequestFacts DEF CSInv
<1>4. Types'
  <2>1. client' \in [Clients -> ClientRecords] /\ \A d \in Clients : client'[d].n \in 0..MaxCommands[d]
    BY <1>2 DEF CSInv, Types
  <2> QED BY <1>3, <2>1 DEF CSInv, Types
<1>5. Request(c)' = Request(c) /\ (InLog(Request(c))' <=> InLog(Request(c))) /\ (OkOf(Request(c))' <=> OkOf(Request(c)))
  BY <1>2 DEF Request, InLog, OkOf
<1>6. MessageOK(c)' /\ ClientOK(c)' /\ ToldOK(c)'
  BY <1>1, <1>2, <1>5 DEF CSInv, MessageOK, ClientOK, ToldOK, Empty, ToServer, ToClient
<1>7. UNCHANGED wire /\ \A d \in Clients \ {c} : client'[d] = client[d]
  BY DEF CSInv, Types
<1> QED BY <1>2, <1>4, <1>6, <1>7, OneClient

LEMMA DisconnectKeeps == ASSUME CSInv, NEW c \in Clients, Disconnect(c) PROVE CSInv'
<1> USE DEF Disconnect
<1>1. client[c] \in ClientRecords
  BY DEF CSInv, Types
<1>2. client'[c] = [pc |-> "gone", n |-> client[c].n, polls |-> 0, told |-> "nothing"]
  BY DEF CSInv, Types
<1>3. wire'[c] = wire[c] \/ (wire'[c] = Empty /\ io # c)
  BY DEF CSInv, Types
<1>4. Types'
  <2>1. 0 \in 0..MaxPolls
    BY NumbersAssumption
  <2>2. client' \in [Clients -> ClientRecords] /\ \A d \in Clients : client'[d].n \in 0..MaxCommands[d]
    BY <1>1, <1>2, <2>1 DEF CSInv, Types, ClientRecords
  <2> QED BY <2>2 DEF CSInv, Types
<1>5. Request(c)' = Request(c) /\ (InLog(Request(c))' <=> InLog(Request(c))) /\ (OkOf(Request(c))' <=> OkOf(Request(c)))
  BY <1>2 DEF Request, InLog, OkOf
<1>6. MessageOK(c)' /\ ClientOK(c)' /\ ToldOK(c)'
  BY <1>2, <1>3, <1>5 DEF CSInv, MessageOK, ClientOK, ToldOK, Empty, ToServer, ToClient
<1> QED BY <1>2, <1>3, <1>4, <1>6, OneClient DEF CSInv, Types

\* An unfinished or forgotten request is polled again; an outcome is final.
LEMMA AnswerPollKeeps == ASSUME CSInv, NEW c \in Clients, AnswerPoll(c) PROVE CSInv'
<1> DEFINE what == IF state[Request(c)] = "forgotten" THEN "not found" ELSE state[Request(c)]
<1>1. wire[c] = ToServer("poll") /\ io = None /\ wire'[c] = ToClient(what) /\ UNCHANGED client
  BY DEF CSInv, Types, AnswerPoll, Asked, Answer
<1>2. client[c].n > 0 /\ Request(c) \in RequestIds
  <2>1. wire[c] # Empty
    BY <1>1, MessageKinds
  <2> QED BY <2>1, RequestFacts DEF CSInv, MessageOK
<1>3. what \in {"not found", "new", "pending", "running", "completed", "failed"}
  BY <1>2 DEF CSInv, Types, Service!States
<1>4. Types'
  <2>1. wire' \in [Clients -> {Empty} \cup {ToServer(m) : m \in {"write", "read", "poll"}}
                                     \cup {ToClient(m) : m \in Replies}]
    BY <1>3 DEF CSInv, Types, Replies, Service!States, AnswerPoll, Answer
  <2> QED BY <2>1 DEF CSInv, Types, AnswerPoll
<1>5. Request(c)' = Request(c) /\ (InLog(Request(c))' <=> InLog(Request(c))) /\ (OkOf(Request(c))' <=> OkOf(Request(c)))
  BY DEF Request, InLog, OkOf, AnswerPoll
<1>6. what = "completed" => InLog(Request(c)) /\ OkOf(Request(c))
  BY <1>2 DEF CSInv, LogOK
<1>7. what = "failed" => InLog(Request(c)) /\ ~OkOf(Request(c))
  BY <1>2 DEF CSInv, LogOK
<1> HIDE DEF what
<1>8. MessageOK(c)'
  BY <1>1, <1>2, <1>3, <1>5, <1>6, <1>7, MessageKinds DEF MessageOK, AnswerPoll
<1>9. client[c].pc \notin {"ready", "polling", "sent"}
  BY <1>1, MessageKinds DEF CSInv, ClientOK
<1>10. ClientOK(c)' /\ ToldOK(c)'
  BY <1>1, <1>2, <1>5, <1>9 DEF CSInv, ClientOK, ToldOK
<1>11. io # c
  BY <1>1, NoneAssumption
<1> QED BY <1>1, <1>4, <1>8, <1>10, <1>11, OneClient DEF CSInv, Types, AnswerPoll, Answer

-----------------------------------------------------------------------------
(* The server's side.                                                       *)

\* While no client and no command moves, what is promised to the clients only
\* depends on their messages, and on a command not yet accepted staying new.
LEMMA ServerStep ==
    ASSUME CSInv, UNCHANGED <<client, log, gaveUp>>
    PROVE  /\ Settled' /\ OwnOrder'
           /\ \A c \in Clients : ToldOK(c)'
           /\ \A c \in Clients :
                 wire'[c] = wire[c] /\ (state[Request(c)] = "new" => state'[Request(c)] = "new")
                    => MessageOK(c)' /\ ClientOK(c)'
<1>1. \A i : (InLog(i)' <=> InLog(i)) /\ (OkOf(i)' <=> OkOf(i))
  BY SameLog
<1>2. OwnOrder'
  BY SameLog DEF CSInv
<1>3. Settled'
  BY <1>1 DEF CSInv, Settled
<1>4. ASSUME NEW c \in Clients
      PROVE  /\ Request(c)' = Request(c)
             /\ InLog(Request(c))' <=> InLog(Request(c))
             /\ OkOf(Request(c))' <=> OkOf(Request(c))
  BY DEF Request, InLog, OkOf
<1>5. ASSUME NEW c \in Clients PROVE ToldOK(c)'
  BY <1>4 DEF CSInv, ToldOK
<1>6. ASSUME NEW c \in Clients, wire'[c] = wire[c], state[Request(c)] = "new" => state'[Request(c)] = "new"
      PROVE  MessageOK(c)' /\ ClientOK(c)'
  <2>1. MessageOK(c)'
    BY <1>4, <1>6 DEF CSInv, MessageOK, Empty, ToServer, ToClient
  <2>2. ClientOK(c)'
    BY <1>6 DEF CSInv, ClientOK, Empty, ToServer, ToClient
  <2> QED BY <2>1, <2>2
<1> QED BY <1>2, <1>3, <1>5, <1>6

\* A step that only moves the threads and the mutex.
LEMMA ThreadStep ==
    ASSUME CSInv, UNCHANGED <<client, wire, state, waiting, log, gaveUp>>, Types', ReadInHand',
           worker' = "executed" <=> worker = "executed", worker' # "idle" => Running # {}
    PROVE  CSInv'
<1>1. QueueOK'
  BY DEF CSInv, QueueOK, Running
<1>2. \A i : (InLog(i)' <=> InLog(i)) /\ (OkOf(i)' <=> OkOf(i))
  BY SameLog
<1>3. LogOK'
  BY <1>2 DEF CSInv, LogOK
<1>4. \A c \in Clients : (MessageOK(c) /\ ClientOK(c) /\ ToldOK(c))'
  BY ServerStep
<1> QED BY <1>1, <1>3, <1>4, ServerStep DEF CSInv

LEMMA BeginSyncKeeps == ASSUME CSInv, NEW c \in Clients, BeginSync(c) PROVE CSInv'
<1>1. Types'
  BY DEF CSInv, Types, BeginSync
<1>2. ReadInHand'
  BY NoneAssumption DEF CSInv, ReadInHand, BeginSync, Asked, ToServer
<1> QED BY <1>1, <1>2, ThreadStep DEF BeginSync, CSInv, QueueOK

LEMMA LockForSyncKeeps == ASSUME CSInv, LockForSync PROVE CSInv'
<1>1. Types'
  BY DEF CSInv, Types, LockForSync
<1>2. ReadInHand'
  BY DEF CSInv, ReadInHand, LockForSync, ToServer
<1> QED BY <1>1, <1>2, ThreadStep DEF LockForSync, CSInv, QueueOK

LEMMA LockForJobKeeps == ASSUME CSInv, LockForJob PROVE CSInv'
<1>1. Types'
  BY DEF CSInv, Types, LockForJob
<1>2. ReadInHand'
  BY DEF CSInv, ReadInHand, LockForJob, ToServer
<1> QED BY <1>1, <1>2, ThreadStep DEF LockForJob

LEMMA StutterKeeps == ASSUME CSInv, UNCHANGED vars PROVE CSInv'
<1> USE DEF vars
<1>1. Types'
  BY DEF CSInv, Types
<1>2. ReadInHand'
  BY DEF CSInv, ReadInHand, ToServer
<1> QED BY <1>1, <1>2, ThreadStep DEF CSInv, QueueOK

\* Executing a command that was not executed keeps a client's commands in
\* order: an earlier one that is not in the log was given up.
LEMMA ExecutionStep ==
    ASSUME CSInv, UNCHANGED <<client, state, gaveUp>>,
           NEW r \in RequestIds, NEW ok \in BOOLEAN, log' = Executed(r, ok), ~InLog(r),
           r[2] <= client[r[1]].n
    PROVE  /\ Settled' /\ OwnOrder'
           /\ \A c \in Clients : ToldOK(c)'
           /\ \A c \in Clients :
                 wire'[c] = wire[c] /\ (wire[c] \in {ToServer("write"), ToServer("read")} => Request(c) # r)
                    => MessageOK(c)' /\ ClientOK(c)'
<1>1. /\ log \in Seq([request : RequestIds, ok : BOOLEAN])
      /\ InLog(r)' /\ (OkOf(r)' <=> ok)
      /\ \A i : i # r => (InLog(i)' <=> InLog(i)) /\ (OkOf(i)' <=> OkOf(i))
      /\ \A i, j : ExecutedBefore(i, j)' => ExecutedBefore(i, j) \/ (j = r /\ InLog(i))
  BY LogGrows DEF CSInv, Types
<1>2. \A i : InLog(i) => InLog(i)' /\ (OkOf(i)' <=> OkOf(i))
  BY <1>1
<1>3. Settled'
  <2>1. ASSUME NEW i \in RequestIds, InLog(i) \/ i \in gaveUp PROVE InLog(i)' \/ i \in gaveUp'
    BY <1>2, <2>1
  <2> QED BY <2>1 DEF CSInv, Settled
<1>4. ASSUME NEW i \in RequestIds, InLog(i), i[1] = r[1] PROVE i[2] < r[2] \/ (i # r /\ r \in gaveUp)
  <2>1. i # r /\ i[2] # r[2]
    BY <1>4, RequestIsPair
  <2>2. i[2] \in Nat /\ r[2] \in Nat /\ r[1] \in Clients /\ client[r[1]].n \in Nat
    BY RequestIsPair DEF CSInv, Types, ClientRecords
  <2>3. CASE r[2] < client[r[1]].n
    BY <2>1, <2>3 DEF CSInv, Settled
  <2>4. CASE r[2] = client[r[1]].n
    <3>1. ~(i[2] > client[i[1]].n)
      BY <1>4 DEF CSInv, LogOK
    <3> QED BY <1>4, <2>1, <2>2, <2>4, <3>1
  <2> QED BY <2>2, <2>3, <2>4
<1>5. OwnOrder'
  BY <1>1, <1>4 DEF CSInv, OwnOrder
<1>6. \A c \in Clients : Request(c)' = Request(c)
  BY DEF Request
<1>7. ASSUME NEW c \in Clients, InLog(Request(c))
      PROVE  InLog(Request(c))' /\ (OkOf(Request(c))' <=> OkOf(Request(c)))
  <2>1. Request(c)' = Request(c) /\ Request(c) # r
    BY <1>6, <1>7
  <2> DEFINE q == <<c, client[c].n>>
  <2>2. InLog(q)' /\ (OkOf(q)' <=> OkOf(q))
    BY <1>2, <1>7 DEF Request
  <2> QED BY <2>2 DEF Request, InLog, OkOf
<1>8. ASSUME NEW c \in Clients PROVE ToldOK(c)'
  BY <1>7 DEF CSInv, ToldOK
<1>9. ASSUME NEW c \in Clients, wire'[c] = wire[c],
             wire[c] \in {ToServer("write"), ToServer("read")} => Request(c) # r
      PROVE  MessageOK(c)' /\ ClientOK(c)'
  <2>1. wire[c] \in {ToServer("write"), ToServer("read")} => state'[Request(c)'] = "new" /\ ~InLog(Request(c))'
    <3>1. ASSUME wire[c] \in {ToServer("write"), ToServer("read")} PROVE ~InLog(<<c, client[c].n>>)'
      BY <1>1, <1>9, <3>1 DEF CSInv, MessageOK, Request
    <3> QED BY <1>6, <3>1 DEF CSInv, MessageOK, Request, InLog
  <2>2. MessageOK(c)'
    BY <1>7, <1>9, <2>1 DEF CSInv, MessageOK, Empty, ToServer, ToClient
  <2>3. ClientOK(c)'
    BY <1>9 DEF CSInv, ClientOK, Empty, ToServer, ToClient
  <2> QED BY <2>2, <2>3
<1> QED BY <1>3, <1>5, <1>8, <1>9

\* The session's thread executes its client's last command, which the executor
\* never saw.
LEMMA ReturnSyncKeeps == ASSUME CSInv, ReturnSync PROVE CSInv'
<1>1. PICK c \in Clients : c = io
  BY DEF CSInv, Types, ReadInHand, ReturnSync
<1>2. wire[c] = ToServer("read") /\ wire'[c] = ToClient("result") /\ client[c].n > 0 /\ client[c].n \in Nat
  <2>1. wire[c] = ToServer("read") /\ wire'[c] = ToClient("result")
    BY <1>1, NoneAssumption DEF CSInv, Types, ReadInHand, ReturnSync, Answer
  <2> QED BY <2>1, MessageKinds DEF CSInv, MessageOK, Types, ClientRecords
<1>3. PICK r \in RequestIds : r = Request(c)
  BY <1>2, RequestFacts DEF CSInv
<1>4. /\ r[1] = c /\ r[2] = client[c].n /\ state[r] = "new" /\ ~InLog(r)
      /\ log' = Executed(r, TRUE) /\ UNCHANGED <<client, state, gaveUp, worker, waiting>> /\ io' = None
  BY <1>1, <1>2, <1>3, RequestFacts DEF CSInv, MessageOK, ReturnSync
<1>5. r[2] <= client[r[1]].n
  BY <1>2, <1>4
<1>6. /\ Settled' /\ OwnOrder'
      /\ \A d \in Clients : ToldOK(d)'
      /\ \A d \in Clients :
            wire'[d] = wire[d] /\ (wire[d] \in {ToServer("write"), ToServer("read")} => Request(d) # r)
               => MessageOK(d)' /\ ClientOK(d)'
  BY <1>4, <1>5, ExecutionStep
<1>7. /\ log' \in Seq([request : RequestIds, ok : BOOLEAN])
      /\ InLog(r)'
      /\ \A i : i # r => (InLog(i)' <=> InLog(i)) /\ (OkOf(i)' <=> OkOf(i))
  BY <1>4, LogGrows DEF CSInv, Types
<1>8. Types'
  <2>1. wire' \in [Clients -> {Empty} \cup {ToServer(m) : m \in {"write", "read", "poll"}}
                                     \cup {ToClient(m) : m \in Replies}]
    BY <1>1 DEF CSInv, Types, Replies, ReturnSync, Answer
  <2> QED BY <1>4, <1>7, <2>1 DEF CSInv, Types, ReturnSync
<1>9. ReadInHand'
  BY <1>4 DEF ReadInHand, ReturnSync
<1>10. QueueOK'
  BY <1>4 DEF CSInv, QueueOK, Running
<1>11. LogOK'
  <2> SUFFICES ASSUME NEW i \in RequestIds
               PROVE  /\ state[i] = "pending" => ~InLog(i)'
                      /\ state[i] = "running" => (InLog(i)' <=> worker = "executed")
                      /\ state[i] = "completed" => InLog(i)' /\ OkOf(i)'
                      /\ state[i] = "failed" => InLog(i)' /\ ~OkOf(i)'
                      /\ i[2] > client[i[1]].n => state[i] = "new" /\ ~InLog(i)'
    BY <1>4 DEF LogOK
  <2>1. CASE i = r
    BY <1>2, <1>4, <2>1
  <2>2. CASE i # r
    BY <1>7, <2>2 DEF CSInv, LogOK
  <2> QED BY <2>1, <2>2
<1>12. ASSUME NEW d \in Clients PROVE MessageOK(d)' /\ ClientOK(d)'
  <2>1. CASE d = c
    <3>1. InLog(Request(c))'
      BY <1>3, <1>4, <1>7 DEF Request, InLog
    <3>2. MessageOK(c)'
      BY <1>2, <1>4, <3>1, MessageKinds DEF MessageOK
    <3>3. ClientOK(c)'
      BY <1>2, <1>4, MessageKinds DEF CSInv, ClientOK
    <3> QED BY <2>1, <3>2, <3>3
  <2>2. CASE d # c
    <3>1. wire'[d] = wire[d]
      BY <1>1, <2>2 DEF CSInv, Types, ReturnSync, Answer
    <3>2. Request(d) # r
      BY <1>4, <2>2, RequestFacts DEF CSInv
    <3> QED BY <1>6, <3>1, <3>2
  <2> QED BY <2>1, <2>2
<1> QED BY <1>6, <1>8, <1>9, <1>10, <1>11, <1>12 DEF CSInv

\* The worker executes the running request.
LEMMA ExecuteJobKeeps == ASSUME CSInv, ExecuteJob PROVE CSInv'
<1>1. PICK r \in Running, ok \in BOOLEAN : log' = Executed(r, ok)
  BY DEF ExecuteJob
<1>2. r \in RequestIds /\ state[r] = "running" /\ worker = "executing" /\ worker' = "executed"
  BY DEF Running, ExecuteJob
<1>3. ~InLog(r)
  BY <1>2 DEF CSInv, LogOK
<1>4. UNCHANGED <<client, state, gaveUp, wire, io, waiting>>
  BY DEF ExecuteJob
<1>5. r[2] <= client[r[1]].n
  <2>1. ~(r[2] > client[r[1]].n)
    BY <1>2 DEF CSInv, LogOK
  <2>2. r[2] \in Nat /\ client[r[1]].n \in Nat
    BY <1>2, RequestIsPair DEF CSInv, Types, ClientRecords
  <2> QED BY <2>1, <2>2
<1>6. /\ Settled' /\ OwnOrder'
      /\ \A c \in Clients : ToldOK(c)'
      /\ \A c \in Clients :
            wire'[c] = wire[c] /\ (wire[c] \in {ToServer("write"), ToServer("read")} => Request(c) # r)
               => MessageOK(c)' /\ ClientOK(c)'
  BY <1>1, <1>2, <1>3, <1>4, <1>5, ExecutionStep
<1>7. /\ log' \in Seq([request : RequestIds, ok : BOOLEAN])
      /\ InLog(r)'
      /\ \A i : i # r => (InLog(i)' <=> InLog(i)) /\ (OkOf(i)' <=> OkOf(i))
  BY <1>1, <1>2, <1>3, LogGrows DEF CSInv, Types
<1>8. Types'
  BY <1>4, <1>7 DEF CSInv, Types, ExecuteJob
<1>9. ReadInHand'
  BY <1>4 DEF CSInv, ReadInHand, ExecuteJob, ToServer
<1>10. QueueOK'
  BY <1>2, <1>4 DEF CSInv, QueueOK, Running
<1>11. LogOK'
  <2> SUFFICES ASSUME NEW i \in RequestIds
               PROVE  /\ state[i] = "pending" => ~InLog(i)'
                      /\ state[i] = "running" => (InLog(i)' <=> worker' = "executed")
                      /\ state[i] = "completed" => InLog(i)' /\ OkOf(i)'
                      /\ state[i] = "failed" => InLog(i)' /\ ~OkOf(i)'
                      /\ i[2] > client[i[1]].n => state[i] = "new" /\ ~InLog(i)'
    BY <1>4 DEF LogOK
  <2>1. CASE i = r
    BY <1>2, <1>5, <1>7, <2>1 DEF CSInv, LogOK
  <2>2. CASE i # r
    <3>1. state[i] # "running"
      BY <1>1, <1>2, <2>2 DEF CSInv, QueueOK, Running
    <3> QED BY <1>7, <2>2, <3>1 DEF CSInv, LogOK
  <2> QED BY <2>1, <2>2
<1>12. ASSUME NEW c \in Clients PROVE MessageOK(c)' /\ ClientOK(c)'
  <2>1. wire[c] \in {ToServer("write"), ToServer("read")} => Request(c) # r
    BY <1>2 DEF CSInv, MessageOK
  <2> QED BY <1>4, <1>6, <2>1
<1> QED BY <1>6, <1>8, <1>9, <1>10, <1>11, <1>12 DEF CSInv

\* The worker publishes what the engine made of the request.
LEMMA PublishOutcomeKeeps == ASSUME CSInv, PublishOutcome PROVE CSInv'
<1>1. PICK r \in Running : Service!Finish(r) /\ state'[r] = Outcome(OkOf(r))
  BY DEF PublishOutcome
<1>2. r \in RequestIds /\ state[r] = "running" /\ worker = "executed" /\ worker' = "idle"
  BY DEF Running, PublishOutcome
<1>3. UNCHANGED <<client, wire, io, engine, log, gaveUp, waiting>>
  BY <1>1 DEF PublishOutcome, Service!Finish
<1>4. /\ state' \in [RequestIds -> Service!States] /\ state'[r] \in {"completed", "failed"}
      /\ \A i \in RequestIds : i # r => state'[i] = state[i]
  BY <1>1, <1>2 DEF Service!Finish, CSInv, Types, Service!States
<1>5. InLog(r) /\ (state'[r] = "completed" <=> OkOf(r))
  BY <1>1, <1>2, <1>4 DEF CSInv, LogOK, Outcome
<1>6. \A i \in RequestIds : state'[i] # "running"
  BY <1>1, <1>2, <1>4 DEF CSInv, QueueOK, Running
<1>7. Types'
  BY <1>2, <1>3, <1>4 DEF CSInv, Types
<1>8. ReadInHand'
  BY <1>3 DEF CSInv, ReadInHand, ToServer
<1>9. QueueOK'
  <2>1. \A k \in 1..Len(waiting) : waiting[k] \in RequestIds /\ state[waiting[k]] = "pending"
    BY DEF CSInv, QueueOK, Types
  <2>2. \A k \in 1..Len(waiting) : state'[waiting[k]] = "pending"
    BY <1>2, <1>4, <2>1
  <2> QED BY <1>2, <1>3, <1>6, <2>2 DEF CSInv, QueueOK, Running
<1>10. LogOK'
  <2>1. \A i : (InLog(i)' <=> InLog(i)) /\ (OkOf(i)' <=> OkOf(i))
    BY <1>3, SameLog
  <2> SUFFICES ASSUME NEW i \in RequestIds
               PROVE  /\ state'[i] = "pending" => ~InLog(i)
                      /\ state'[i] = "completed" => InLog(i) /\ OkOf(i)
                      /\ state'[i] = "failed" => InLog(i) /\ ~OkOf(i)
                      /\ i[2] > client[i[1]].n => state'[i] = "new" /\ ~InLog(i)
    BY <1>3, <1>6, <2>1 DEF LogOK
  <2>2. CASE i = r
    BY <1>2, <1>4, <1>5, <2>2 DEF CSInv, LogOK
  <2>3. CASE i # r
    BY <1>4, <2>3 DEF CSInv, LogOK
  <2> QED BY <2>2, <2>3
<1>11. ASSUME NEW c \in Clients PROVE MessageOK(c)' /\ ClientOK(c)'
  <2>1. state[Request(c)] = "new" => state'[Request(c)] = "new"
    BY <1>1, <1>2 DEF Service!Finish, CSInv, Types
  <2> QED BY <1>3, <2>1, ServerStep
<1> QED BY <1>3, <1>7, <1>8, <1>9, <1>10, <1>11, ServerStep DEF CSInv

\* The executor accepts a client's last command, and may forget an outcome.
LEMMA AcceptWriteKeeps == ASSUME CSInv, NEW c \in Clients, AcceptWrite(c) PROVE CSInv'
<1>1. wire[c] = ToServer("write") /\ io = None /\ wire'[c] = ToClient("accepted") /\ client[c].n > 0
  <2>1. wire[c] = ToServer("write") /\ io = None /\ wire'[c] = ToClient("accepted")
    BY DEF AcceptWrite, Asked, Answer, CSInv, Types
  <2> QED BY <2>1, MessageKinds DEF CSInv, MessageOK
<1>2. PICK r \in RequestIds : r = Request(c)
  BY <1>1, RequestFacts DEF CSInv
<1>3. r[1] = c /\ r[2] = client[c].n /\ state[r] = "new" /\ ~InLog(r)
  BY <1>1, <1>2, RequestFacts DEF CSInv, MessageOK
<1>4. PICK old \in SUBSET {j \in RequestIds : state[j] \in {"completed", "failed"}} :
          state' = [j \in RequestIds |->
                      IF j = r THEN "pending" ELSE IF j \in old THEN "forgotten" ELSE state[j]]
  BY <1>2 DEF AcceptWrite, Service!Accept
<1>5. waiting' = Append(waiting, r) /\ UNCHANGED <<client, io, engine, worker, log, gaveUp>>
  BY <1>2 DEF AcceptWrite, Service!Accept
<1>6. /\ state' \in [RequestIds -> Service!States] /\ state'[r] = "pending"
      /\ \A i \in RequestIds \ {r} :
            state'[i] = state[i] \/ (state[i] \in {"completed", "failed"} /\ state'[i] = "forgotten")
  BY <1>4 DEF CSInv, Types, Service!States
<1>7. Types'
  <2>1. wire' \in [Clients -> {Empty} \cup {ToServer(m) : m \in {"write", "read", "poll"}}
                                     \cup {ToClient(m) : m \in Replies}]
    BY DEF CSInv, Types, Replies, AcceptWrite, Answer
  <2> QED BY <1>5, <1>6, <2>1 DEF CSInv, Types
<1>8. ReadInHand'
  BY <1>1, <1>5 DEF CSInv, ReadInHand
<1>9. Running' = Running
  BY <1>3, <1>6 DEF Running
<1>10. QueueOK'
  <2>1. /\ Len(waiting') = Len(waiting) + 1 /\ Len(waiting) \in Nat /\ waiting'[Len(waiting) + 1] = r
        /\ \A k \in 1..Len(waiting) : waiting'[k] = waiting[k] /\ waiting[k] \in RequestIds
    BY <1>5 DEF CSInv, Types
  <2>2. \A k \in 1..Len(waiting) : waiting[k] # r /\ state'[waiting[k]] = "pending"
    BY <1>3, <1>6, <2>1 DEF CSInv, QueueOK
  <2>3. \A k \in 1..Len(waiting') : k \in 1..Len(waiting) \/ k = Len(waiting) + 1
    BY <2>1
  <2>4. \A k \in 1..Len(waiting') : state'[waiting'[k]] = "pending"
    BY <1>6, <2>1, <2>2, <2>3
  <2>5. \A k, m \in 1..Len(waiting') : waiting'[k] = waiting'[m] => k = m
    BY <2>1, <2>2, <2>3 DEF CSInv, QueueOK
  <2> QED BY <1>5, <1>9, <2>4, <2>5 DEF CSInv, QueueOK
<1>11. LogOK'
  <2>1. \A i : (InLog(i)' <=> InLog(i)) /\ (OkOf(i)' <=> OkOf(i))
    BY <1>5, SameLog
  <2> SUFFICES ASSUME NEW i \in RequestIds
               PROVE  /\ state'[i] = "pending" => ~InLog(i)
                      /\ state'[i] = "running" => (InLog(i) <=> worker = "executed")
                      /\ state'[i] = "completed" => InLog(i) /\ OkOf(i)
                      /\ state'[i] = "failed" => InLog(i) /\ ~OkOf(i)
                      /\ i[2] > client[i[1]].n => state'[i] = "new" /\ ~InLog(i)
    BY <1>5, <2>1 DEF LogOK
  <2>2. CASE i = r
    BY <1>3, <1>6, <2>2 DEF CSInv, Types, ClientRecords
  <2>3. CASE i # r
    BY <1>6, <2>3 DEF CSInv, LogOK
  <2> QED BY <2>2, <2>3
<1>12. ASSUME NEW d \in Clients PROVE MessageOK(d)' /\ ClientOK(d)'
  <2>1. CASE d = c
    <3>1. client[c].pc \notin {"ready", "polling"}
      BY <1>1, MessageKinds DEF CSInv, ClientOK
    <3>2. MessageOK(c)' /\ ClientOK(c)'
      BY <1>1, <1>5, <3>1, MessageKinds DEF CSInv, MessageOK, ClientOK
    <3> QED BY <2>1, <3>2
  <2>2. CASE d # c
    <3>1. wire'[d] = wire[d]
      BY <2>2 DEF CSInv, Types, AcceptWrite, Answer
    <3>2. Request(d) # r
      BY <1>3, <2>2, RequestFacts DEF CSInv
    <3>3. CASE Request(d) \in RequestIds
      BY <1>5, <1>6, <3>1, <3>2, <3>3, ServerStep
    <3>4. CASE Request(d) \notin RequestIds
      <4>1. wire[d] = Empty /\ client[d].pc \notin {"sent", "polling", "polled"}
        BY <3>4, RequestFacts DEF CSInv, MessageOK, ClientOK
      <4> QED BY <1>5, <3>1, <4>1, MessageKinds DEF MessageOK, ClientOK
    <3> QED BY <3>3, <3>4
  <2> QED BY <2>1, <2>2
<1> QED BY <1>5, <1>7, <1>8, <1>10, <1>11, <1>12, ServerStep DEF CSInv

\* The worker takes the oldest request that waits.
LEMMA TakeJobKeeps == ASSUME CSInv, TakeJob PROVE CSInv'
<1>1. /\ waiting # <<>> /\ Running = {} /\ waiting' = Tail(waiting)
      /\ state' = [state EXCEPT ![Head(waiting)] = "running"]
      /\ UNCHANGED <<client, wire, io, engine, worker, log, gaveUp>>
  BY DEF TakeJob, Service!Start, Running
<1>2. PICK r \in RequestIds : r = Head(waiting)
  BY <1>1 DEF CSInv, Types
<1>3. /\ Len(waiting) \in Nat /\ Len(waiting) >= 1 /\ r = waiting[1]
      /\ \A k \in 1..Len(waiting) : waiting[k] \in RequestIds /\ state[waiting[k]] = "pending"
  BY <1>1, <1>2 DEF CSInv, Types, QueueOK
<1>4. state[r] = "pending" /\ ~InLog(r) /\ worker = "idle"
  BY <1>1, <1>3 DEF CSInv, LogOK, QueueOK
<1>5. /\ state' \in [RequestIds -> Service!States] /\ state'[r] = "running"
      /\ \A i \in RequestIds : i # r => state'[i] = state[i]
  BY <1>1, <1>2 DEF CSInv, Types, Service!States
<1>6. Types'
  BY <1>1, <1>5 DEF CSInv, Types
<1>7. ReadInHand'
  BY <1>1 DEF CSInv, ReadInHand, ToServer
<1>8. QueueOK'
  <2>1. /\ Len(waiting') = Len(waiting) - 1
        /\ \A k \in 1..Len(waiting') : waiting'[k] = waiting[k + 1] /\ k + 1 \in 1..Len(waiting)
    BY <1>1, <1>3 DEF CSInv, Types
  <2>2. \A k \in 1..Len(waiting') : waiting[k + 1] # r
    BY <1>3, <2>1 DEF CSInv, QueueOK
  <2>3. \A k \in 1..Len(waiting') : state'[waiting'[k]] = "pending"
    BY <1>3, <1>5, <2>1, <2>2
  <2>4. \A k, m \in 1..Len(waiting') : waiting'[k] = waiting'[m] => k = m
    <3>1. \A k, m \in 1..Len(waiting) : waiting[k] = waiting[m] => k = m
      BY DEF CSInv, QueueOK
    <3>2. \A k \in 1..Len(waiting') : k \in Int
      BY <1>3, <2>1
    <3> QED BY <2>1, <3>1, <3>2
  <2>5. \A i \in Running' : i = r
    BY <1>1, <1>5 DEF Running
  <2> QED BY <1>1, <1>4, <2>3, <2>4, <2>5 DEF QueueOK
<1>9. LogOK'
  <2>1. \A i : (InLog(i)' <=> InLog(i)) /\ (OkOf(i)' <=> OkOf(i))
    BY <1>1, SameLog
  <2> SUFFICES ASSUME NEW i \in RequestIds
               PROVE  /\ state'[i] = "pending" => ~InLog(i)
                      /\ state'[i] = "running" => (InLog(i) <=> worker = "executed")
                      /\ state'[i] = "completed" => InLog(i) /\ OkOf(i)
                      /\ state'[i] = "failed" => InLog(i) /\ ~OkOf(i)
                      /\ i[2] > client[i[1]].n => state'[i] = "new" /\ ~InLog(i)
    BY <1>1, <2>1 DEF LogOK
  <2>2. CASE i = r
    BY <1>4, <1>5, <2>2 DEF CSInv, LogOK
  <2>3. CASE i # r
    BY <1>5, <2>3 DEF CSInv, LogOK
  <2> QED BY <2>2, <2>3
<1>10. ASSUME NEW c \in Clients PROVE MessageOK(c)' /\ ClientOK(c)'
  <2>1. state[Request(c)] = "new" => state'[Request(c)] = "new"
    BY <1>1, <1>2, <1>4 DEF CSInv, Types
  <2> QED BY <1>1, <2>1, ServerStep
<1> QED BY <1>1, <1>6, <1>7, <1>8, <1>9, <1>10, ServerStep DEF CSInv

-----------------------------------------------------------------------------
(* The theorems.                                                            *)

LEMMA NextKeeps == CSInv /\ [Next]_vars => CSInv'
<1> SUFFICES ASSUME CSInv, [Next]_vars PROVE CSInv'
  OBVIOUS
<1>1. CASE \E c \in Clients : SendCommand(c) \/ Disconnect(c) \/ ClientStep(c)
  BY <1>1, SendCommandKeeps, DisconnectKeeps, ReceiveAnswerKeeps, SendPollKeeps, ReceivePollKeeps, GiveUpKeeps
     DEF ClientStep
<1>2. CASE IoStep
  BY <1>2, LockForSyncKeeps, ReturnSyncKeeps, AcceptWriteKeeps, AnswerPollKeeps, BeginSyncKeeps DEF IoStep
<1>3. CASE WorkerStep
  BY <1>3, TakeJobKeeps, LockForJobKeeps, ExecuteJobKeeps, PublishOutcomeKeeps DEF WorkerStep
<1>4. CASE UNCHANGED vars
  BY <1>4, StutterKeeps
<1> QED BY <1>1, <1>2, <1>3, <1>4 DEF Next

\* What each thread and client knows of a command agrees with what the engine
\* has done for it, at every step of everyone (sendAndWait, ExecutorService).
THEOREM Invariance == Spec => []CSInv
BY InitCSInv, NextKeeps, PTL DEF Spec

\* The program's variables keep their types: no poll beyond maxPolls, no
\* answer the client does not know (sendAndWait, submit, getResult).
THEOREM TypeCorrect == Spec => []TypeOK
<1>1. CSInv => TypeOK
  BY DEF CSInv, Types, TypeOK, ClientRecords
<1> QED BY <1>1, Invariance, PTL

\* What sendAndWait returns is its own command's outcome, though answers are
\* polled for, forgotten, late, or nobody's (ExecutorService, Session).
THEOREM AnswersAreOwn == Spec => []AnswerIsOwn
<1>1. CSInv => AnswerIsOwn
  BY DEF CSInv, ToldOK, AnswerIsOwn, InLog
<1> QED BY <1>1, Invariance, PTL

\* A client's commands take effect in its order, each once, those that go
\* through the queue and those that pass it, but for the ones it stopped
\* waiting for (QueryClassifier, ExecutorService::handleRequest).
THEOREM CommandsInOrder == Spec => []OwnOrder
<1>1. CSInv => OwnOrder
  BY DEF CSInv
<1> QED BY <1>1, Invariance, PTL

=============================================================================
