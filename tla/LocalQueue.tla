----------------------------- MODULE LocalQueue -----------------------------
(***************************************************************************)
(* LocalTaskQueue: one daemon thread per task.  A thread waits for one of  *)
(* the permits of a semaphore and keeps it through all its posts and the   *)
(* sleeps between them, the one after the last failure included.           *)
(*                                                                         *)
(* Left out: how long the delay and the sleeps take.  CloudTasksQueue      *)
(* leaves all of this to a service.                                        *)
(***************************************************************************)
EXTENDS Integers, FiniteSets

CONSTANTS
    Tasks,          \* calls of enqueue
    MaxConcurrent,  \* max(1, LOCAL_QUEUE_MAX_CONCURRENT)
    MaxAttempts     \* _MAX_ATTEMPTS

ASSUME LocalQueueConstants ==
    /\ IsFiniteSet(Tasks)
    /\ {MaxConcurrent, MaxAttempts} \subseteq Nat \ {0}

VARIABLES
    threads,  \* the thread of each task
    permits   \* the counter of the semaphore

vars == <<threads, permits>>

-----------------------------------------------------------------------------

\* "waiting" is before acquire(), the delay included; "send" is the top of the
\* loop; "finally" is before release().
Pc == {"none", "waiting", "send", "posting", "backoff", "finally", "ended"}
Outcome == {"none", "delivered", "exhausted", "broken", "lost"}
Thread == [pc : Pc, attempt : 0..MaxAttempts, outcome : Outcome]

\* The threads that hold a permit.
Holding == {"send", "posting", "backoff", "finally"}
Holders == {t \in Tasks : threads[t].pc \in Holding}

Init ==
    /\ threads = [t \in Tasks |-> [pc |-> "none", attempt |-> 0, outcome |-> "none"]]
    /\ permits = MaxConcurrent

At(t, pc) == threads[t].pc = pc
Goto(t, pc) == threads' = [threads EXCEPT ![t].pc = pc]
EndLoop(t, outcome) ==
    threads' = [threads EXCEPT ![t] = [@ EXCEPT !.pc = "finally", !.outcome = outcome]]

Enqueue(t) ==
    /\ At(t, "none")
    /\ Goto(t, "waiting")
    /\ UNCHANGED permits

Acquire(t) ==
    /\ At(t, "waiting")
    /\ permits > 0
    /\ permits' = permits - 1
    /\ Goto(t, "send")

Send(t) ==
    /\ At(t, "send")
    /\ threads' = [threads EXCEPT ![t] =
           [@ EXCEPT !.pc = "posting", !.attempt = threads[t].attempt + 1]]
    /\ UNCHANGED permits

\* A status below 500.
Answered(t) ==
    /\ At(t, "posting")
    /\ EndLoop(t, "delivered")
    /\ UNCHANGED permits

\* A status from 500, or an httpx.HTTPError.
Fails(t) ==
    /\ At(t, "posting")
    /\ Goto(t, "backoff")
    /\ UNCHANGED permits

\* Mutant: there is no finally clause.
BreaksWithoutRelease(t) ==
    /\ At(t, "posting")
    /\ threads' = [threads EXCEPT ![t] = [@ EXCEPT !.pc = "ended", !.outcome = "broken"]]
    /\ UNCHANGED permits

\* Any other exception passes through the finally clause and ends the thread.
Breaks(t) ==
    /\ At(t, "posting")
    /\ EndLoop(t, "broken")
    /\ UNCHANGED permits

\* Mutant: one attempt too many.
WakeUpOnceMore(t) ==
    /\ At(t, "backoff")
    /\ \/ threads[t].attempt <= MaxAttempts /\ Goto(t, "send")
       \/ threads[t].attempt > MaxAttempts /\ EndLoop(t, "exhausted")
    /\ UNCHANGED permits

WakeUp(t) ==
    /\ At(t, "backoff")
    /\ \/ threads[t].attempt < MaxAttempts /\ Goto(t, "send")
       \/ threads[t].attempt = MaxAttempts /\ EndLoop(t, "exhausted")
    /\ UNCHANGED permits

Release(t) ==
    /\ At(t, "finally")
    /\ permits' = permits + 1
    /\ Goto(t, "ended")

\* The process dies, and starts again with a new queue.
ProcessCrash ==
    /\ threads' = [t \in Tasks |->
           IF threads[t].pc \in {"none", "ended"} THEN threads[t]
           ELSE [threads[t] EXCEPT !.pc = "ended",
                    !.outcome = IF @ = "none" THEN "lost" ELSE @]]
    /\ permits' = MaxConcurrent

-----------------------------------------------------------------------------

Step(t) ==
    \/ Acquire(t) \/ Send(t) \/ Answered(t) \/ Fails(t) \/ Breaks(t)
    \/ WakeUp(t) \/ Release(t)

Next ==
    \/ \E t \in Tasks : Enqueue(t) \/ Step(t)
    \/ ProcessCrash

Spec == Init /\ [][Next]_vars

\* Every thread runs, and a post ends at the latest with its timeout.
FairSpec == Spec /\ \A t \in Tasks : WF_vars(Step(t))

-----------------------------------------------------------------------------
(* Properties                                                              *)

TypeOK ==
    /\ threads \in [Tasks -> Thread]
    /\ permits \in 0..MaxConcurrent

\* LocalTaskQueue._dispatch: every permit is in the semaphore or with exactly
\* one thread, whatever way the posts end, so that LOCAL_QUEUE_MAX_CONCURRENT
\* caps the posts in flight and no permit is ever lost to the tasks to come.
PermitsBalance == permits + Cardinality(Holders) = MaxConcurrent

\* Every task that was enqueued comes to an end, although tasks that fail keep
\* their permits through all their sleeps.
EveryTaskEnds == \A t \in Tasks : At(t, "waiting") ~> At(t, "ended")

\* The state of a task as its sender sees it.
StatusOf(thread) ==
    CASE thread.pc = "none" -> "none"
      [] thread.outcome = "delivered" -> "done"
      [] thread.outcome \in {"exhausted", "broken", "lost"} -> "dropped"
      [] thread.pc = "posting" -> "posting"
      [] thread.pc = "backoff" /\ thread.attempt = MaxAttempts -> "dropped"
      [] OTHER -> "queued"

Statuses == [t \in Tasks |-> StatusOf(threads[t])]
Attempts == [t \in Tasks |-> threads[t].attempt]

Contract == INSTANCE TaskQueue WITH status <- Statuses, posts <- Attempts

\* The threads and the semaphore together are a TaskQueue: no task is posted
\* again after its delivery, or more than MaxAttempts times.
ImplementsTaskQueue == Contract!Spec
=============================================================================
