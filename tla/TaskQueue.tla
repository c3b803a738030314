------------------------------ MODULE TaskQueue ------------------------------
(***************************************************************************)
(* What every component may count on when it enqueues a task: the task is  *)
(* posted until a post is answered with a 2xx (or 4xx), at most            *)
(* MaxAttempts times, and is dropped then, or earlier when the process     *)
(* that holds it dies.  LocalQueue implements it; Intake is built on it.   *)
(***************************************************************************)
EXTENDS Naturals

CONSTANTS
    Tasks,       \* calls of enqueue
    MaxAttempts  \* _MAX_ATTEMPTS, at least 1

VARIABLES
    status,  \* where each task is
    posts    \* how often it was posted

vars == <<status, posts>>

Status == {"none", "queued", "posting", "done", "dropped"}

Init ==
    /\ status = [t \in Tasks |-> "none"]
    /\ posts = [t \in Tasks |-> 0]

Accept(t) ==
    /\ status[t] = "none"
    /\ status' = [status EXCEPT ![t] = "queued"]
    /\ UNCHANGED posts

Post(t) ==
    /\ status[t] = "queued"
    /\ posts[t] < MaxAttempts
    /\ status' = [status EXCEPT ![t] = "posting"]
    /\ posts' = [posts EXCEPT ![t] = @ + 1]

Deliver(t) ==
    /\ status[t] = "posting"
    /\ status' = [status EXCEPT ![t] = "done"]
    /\ UNCHANGED posts

\* A 5xx or a transport error, a timeout among them.
Fail(t) ==
    /\ status[t] = "posting"
    /\ status' = [status EXCEPT ![t] =
           IF posts[t] < MaxAttempts THEN "queued" ELSE "dropped"]
    /\ UNCHANGED posts

\* The post itself is impossible: an error that is not about the transport.
Break(t) ==
    /\ status[t] = "posting"
    /\ status' = [status EXCEPT ![t] = "dropped"]
    /\ UNCHANGED posts

\* The process dies with its tasks.
Lose ==
    /\ status' = [t \in Tasks |->
           IF status[t] \in {"queued", "posting"} THEN "dropped" ELSE status[t]]
    /\ UNCHANGED posts

Next ==
    \/ \E t \in Tasks : Accept(t) \/ Post(t) \/ Deliver(t) \/ Fail(t) \/ Break(t)
    \/ Lose

Spec == Init /\ [][Next]_vars
=============================================================================
