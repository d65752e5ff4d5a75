-------------------------- MODULE RequestLifecycle --------------------------
(***************************************************************************)
(* What the asynchronous executor promises to its callers, with none of    *)
(* its threads, locks and condition variables: requests are served one at  *)
(* a time, in the order they were accepted; each ends with one outcome,    *)
(* which may be forgotten later and never changes.                         *)
(***************************************************************************)
EXTENDS Sequences

CONSTANT RequestIds

VARIABLES
    state,    \* what is known of each request
    waiting   \* accepted and not started, oldest first

vars == <<state, waiting>>

States == {"new", "pending", "running", "completed", "failed", "forgotten"}

Init ==
    /\ state = [i \in RequestIds |-> "new"]
    /\ waiting = <<>>

\* Accepting a request may make the executor forget one that has finished.
Accept(i) ==
    /\ state[i] = "new"
    /\ waiting' = Append(waiting, i)
    /\ \E old \in SUBSET {j \in RequestIds : state[j] \in {"completed", "failed"}} :
         /\ \A j, k \in old : j = k
         /\ state' = [j \in RequestIds |->
                        IF j = i THEN "pending" ELSE IF j \in old THEN "forgotten" ELSE state[j]]

Start ==
    /\ waiting # <<>>
    /\ \A i \in RequestIds : state[i] # "running"
    /\ state' = [state EXCEPT ![Head(waiting)] = "running"]
    /\ waiting' = Tail(waiting)

Finish(i) ==
    /\ state[i] = "running"
    /\ \E outcome \in {"completed", "failed"} : state' = [state EXCEPT ![i] = outcome]
    /\ UNCHANGED waiting

Next == Start \/ \E i \in RequestIds : Accept(i) \/ Finish(i)

Spec == Init /\ [][Next]_vars

\* Service goes on: the oldest request starts and the running one finishes.
FairSpec == Spec /\ WF_vars(Start) /\ WF_vars(\E i \in RequestIds : Finish(i))

=============================================================================
