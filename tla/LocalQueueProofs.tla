-------------------------- MODULE LocalQueueProofs --------------------------
(***************************************************************************)
(* Proofs about LocalQueue, for any number of tasks, permits and attempts. *)
(***************************************************************************)
EXTENDS LocalQueue, TLAPS, FiniteSetTheorems

LEMMA Limits == {MaxConcurrent, MaxAttempts} \subseteq Nat \ {0}
  BY LocalQueueConstants

\* What the place of a thread says about its attempts and its outcome.
ThreadOK(x) ==
    /\ x.pc \in {"none", "waiting"} => x.attempt = 0
    /\ x.pc = "send" => x.attempt < MaxAttempts
    /\ x.outcome = "none" <=> x.pc \notin {"finally", "ended"}

ThreadsOK == \A t \in Tasks : ThreadOK(threads[t])

IInv == TypeOK /\ ThreadsOK /\ PermitsBalance

\* The set of holders is finite, and its size a number.
LEMMA HoldersFinite ==
    IsFiniteSet(Holders) /\ Cardinality(Holders) \in Nat
  <1>1. IsFiniteSet(Tasks) /\ Holders \in SUBSET Tasks
    BY LocalQueueConstants DEF Holders
  <1> QED
    BY <1>1, FS_Subset, FS_CardinalityType

\* A thread that moves without leaving or entering the loop keeps its permit,
\* or its lack of one.
LEMMA SameHolders ==
    ASSUME TypeOK, NEW t \in Tasks, NEW x \in Thread,
           threads' = [threads EXCEPT ![t] = x],
           x.pc \in Holding <=> threads[t].pc \in Holding
    PROVE  Holders' = Holders
  BY DEF Holders, TypeOK

\* The same step, as far as threads are concerned.
LEMMA OneThreadMoves ==
    ASSUME TypeOK, ThreadsOK, NEW t \in Tasks, NEW x \in Thread,
           threads' = [threads EXCEPT ![t] = x], ThreadOK(x)
    PROVE  threads' \in [Tasks -> Thread] /\ ThreadsOK'
  BY DEF TypeOK, ThreadsOK, ThreadOK

\* A step of a thread that neither acquires nor releases.
LEMMA PlainStep ==
    ASSUME IInv, NEW t \in Tasks, NEW x \in Thread,
           threads' = [threads EXCEPT ![t] = x], ThreadOK(x),
           x.pc \in Holding <=> threads[t].pc \in Holding,
           UNCHANGED permits
    PROVE  IInv'
  <1>1. Holders' = Holders
    BY SameHolders DEF IInv
  <1>2. threads' \in [Tasks -> Thread] /\ ThreadsOK'
    BY OneThreadMoves DEF IInv
  <1> QED
    BY <1>1, <1>2 DEF IInv, TypeOK, PermitsBalance

\* What a record update of one thread amounts to, in each way the actions have.
LEMMA ThreadUpdates ==
    ASSUME TypeOK, ThreadsOK, NEW t \in Tasks
    PROVE  /\ threads[t] \in Thread /\ ThreadOK(threads[t])
           /\ \A pc \in Pc :
                  /\ [threads[t] EXCEPT !.pc = pc] \in Thread
                  /\ [threads EXCEPT ![t].pc = pc]
                       = [threads EXCEPT ![t] = [threads[t] EXCEPT !.pc = pc]]
           /\ \A o \in Outcome :
                  [threads[t] EXCEPT !.pc = "finally", !.outcome = o] \in Thread
  BY DEF TypeOK, ThreadsOK, Thread, Pc, Outcome

THEOREM Invariance == Spec => []IInv
<1>1. Init => IInv
  <2> SUFFICES ASSUME Init PROVE IInv
    OBVIOUS
  <2>1. TypeOK
    BY LocalQueueConstants DEF Init, TypeOK, Thread, Pc, Outcome
  <2>2. ThreadsOK
    BY DEF Init, ThreadsOK, ThreadOK
  <2>3. Holders = {}
    BY DEF Init, Holders, Holding
  <2> QED
    BY <2>1, <2>2, <2>3, FS_EmptySet, LocalQueueConstants
    DEF Init, IInv, PermitsBalance
<1>2. IInv /\ [Next]_vars => IInv'
  <2> SUFFICES ASSUME IInv, [Next]_vars PROVE IInv'
    OBVIOUS
  <2> USE DEF IInv
  <2>1. CASE UNCHANGED vars
    BY <2>1 DEF vars, TypeOK, ThreadsOK, PermitsBalance, Holders
  <2>2. ASSUME NEW t \in Tasks, Enqueue(t) PROVE IInv'
    <3> DEFINE x == [threads[t] EXCEPT !.pc = "waiting"]
    <3>1. x \in Thread /\ threads' = [threads EXCEPT ![t] = x]
      BY <2>2, ThreadUpdates DEF Enqueue, Goto, Pc
    <3>2. ThreadOK(x) /\ (x.pc \in Holding <=> threads[t].pc \in Holding)
      BY <2>2, ThreadUpdates DEF Enqueue, At, ThreadOK, Thread, Holding
    <3> QED
      BY <2>2, <3>1, <3>2, PlainStep DEF Enqueue
  <2>3. ASSUME NEW t \in Tasks, Acquire(t) PROVE IInv'
    <3> DEFINE x == [threads[t] EXCEPT !.pc = "send"]
    <3>1. x \in Thread /\ threads' = [threads EXCEPT ![t] = x]
      BY <2>3, ThreadUpdates DEF Acquire, Goto, Pc
    <3>2. ThreadOK(x) /\ x.pc \in Holding /\ threads[t].pc \notin Holding
      <4>1. threads[t].pc = "waiting" /\ threads[t] \in Thread /\ ThreadOK(threads[t])
        BY <2>3, ThreadUpdates DEF Acquire, At
      <4>2. threads[t].attempt < MaxAttempts
        BY <4>1, Limits DEF ThreadOK
      <4> QED
        BY <4>1, <4>2 DEF ThreadOK, Thread, Holding
    <3>3. Holders' = Holders \cup {t} /\ t \notin Holders
      BY <3>1, <3>2 DEF Holders, TypeOK
    <3>4. Cardinality(Holders') = Cardinality(Holders) + 1
      BY <3>3, HoldersFinite, FS_AddElement
    <3>5. threads' \in [Tasks -> Thread] /\ ThreadsOK'
      BY <3>1, <3>2, OneThreadMoves
    <3>6. permits > 0 /\ permits' = permits - 1
      BY <2>3 DEF Acquire
    <3> QED
      BY <3>4, <3>5, <3>6, HoldersFinite, LocalQueueConstants DEF TypeOK, PermitsBalance
  <2>4. ASSUME NEW t \in Tasks, Send(t) PROVE IInv'
    <3> DEFINE x == [threads[t] EXCEPT !.pc = "posting",
                                       !.attempt = threads[t].attempt + 1]
    <3>1. threads' = [threads EXCEPT ![t] = x] /\ threads[t].pc = "send"
      BY <2>4 DEF Send, At, TypeOK
    <3>2. threads[t] \in Thread /\ ThreadOK(threads[t])
      BY ThreadUpdates
    <3>3. x \in Thread
      <4>1. threads[t].attempt + 1 \in 0..MaxAttempts
        BY <3>1, <3>2, Limits DEF Thread, ThreadOK
      <4> QED
        BY <3>2, <4>1 DEF Thread, Pc
    <3>4. ThreadOK(x) /\ (x.pc \in Holding <=> threads[t].pc \in Holding)
      BY <3>1, <3>2 DEF ThreadOK, Thread, Holding
    <3> QED
      BY <2>4, <3>1, <3>3, <3>4, PlainStep DEF Send
  <2>5. ASSUME NEW t \in Tasks, Answered(t) \/ Breaks(t) PROVE IInv'
    <3>1. PICK o \in {"delivered", "broken"} :
              threads' = [threads EXCEPT ![t] =
                  [threads[t] EXCEPT !.pc = "finally", !.outcome = o]]
      BY <2>5 DEF Answered, Breaks, EndLoop
    <3> DEFINE x == [threads[t] EXCEPT !.pc = "finally", !.outcome = o]
    <3>2. x \in Thread
      BY ThreadUpdates DEF Outcome
    <3>3. ThreadOK(x) /\ (x.pc \in Holding <=> threads[t].pc \in Holding)
      BY <2>5, ThreadUpdates DEF Answered, Breaks, At, ThreadOK, Thread, Holding
    <3> QED
      BY <2>5, <3>1, <3>2, <3>3, PlainStep DEF Answered, Breaks
  <2>6. ASSUME NEW t \in Tasks, Fails(t) PROVE IInv'
    <3> DEFINE x == [threads[t] EXCEPT !.pc = "backoff"]
    <3>1. x \in Thread /\ threads' = [threads EXCEPT ![t] = x]
      BY <2>6, ThreadUpdates DEF Fails, Goto, Pc
    <3>2. ThreadOK(x) /\ (x.pc \in Holding <=> threads[t].pc \in Holding)
      BY <2>6, ThreadUpdates DEF Fails, At, ThreadOK, Thread, Holding
    <3> QED
      BY <2>6, <3>1, <3>2, PlainStep DEF Fails
  <2>7. ASSUME NEW t \in Tasks, WakeUp(t) PROVE IInv'
    <3>1. CASE threads[t].attempt < MaxAttempts /\ Goto(t, "send")
      <4> DEFINE x == [threads[t] EXCEPT !.pc = "send"]
      <4>1. x \in Thread /\ threads' = [threads EXCEPT ![t] = x]
        BY <3>1, ThreadUpdates DEF Goto, Pc
      <4>2. ThreadOK(x) /\ (x.pc \in Holding <=> threads[t].pc \in Holding)
        BY <2>7, <3>1, ThreadUpdates DEF WakeUp, At, ThreadOK, Thread, Holding
      <4> QED
        BY <2>7, <4>1, <4>2, PlainStep DEF WakeUp
    <3>2. CASE EndLoop(t, "exhausted")
      <4> DEFINE x == [threads[t] EXCEPT !.pc = "finally", !.outcome = "exhausted"]
      <4>1. x \in Thread /\ threads' = [threads EXCEPT ![t] = x]
        BY <3>2, ThreadUpdates DEF EndLoop, Outcome
      <4>2. ThreadOK(x) /\ (x.pc \in Holding <=> threads[t].pc \in Holding)
        BY <2>7, ThreadUpdates DEF WakeUp, At, ThreadOK, Thread, Holding
      <4> QED
        BY <2>7, <4>1, <4>2, PlainStep DEF WakeUp
    <3> QED
      BY <2>7, <3>1, <3>2 DEF WakeUp
  <2>8. ASSUME NEW t \in Tasks, Release(t) PROVE IInv'
    <3> DEFINE x == [threads[t] EXCEPT !.pc = "ended"]
    <3>1. x \in Thread /\ threads' = [threads EXCEPT ![t] = x]
      BY <2>8, ThreadUpdates DEF Release, Goto, Pc
    <3>2. ThreadOK(x) /\ x.pc \notin Holding /\ threads[t].pc \in Holding
      BY <2>8, ThreadUpdates DEF Release, At, ThreadOK, Thread, Holding
    <3>3. Holders' = Holders \ {t} /\ t \in Holders
      BY <3>1, <3>2 DEF Holders, TypeOK
    <3>4. /\ Cardinality(Holders') = Cardinality(Holders) - 1
          /\ Cardinality(Holders') \in Nat
      BY <3>3, HoldersFinite, FS_RemoveElement, FS_CardinalityType
    <3>5. threads' \in [Tasks -> Thread] /\ ThreadsOK'
      BY <3>1, <3>2, OneThreadMoves
    <3>6. permits' = permits + 1
      BY <2>8 DEF Release
    <3> QED
      BY <3>4, <3>5, <3>6, HoldersFinite, LocalQueueConstants DEF TypeOK, PermitsBalance
  <2>9. ASSUME ProcessCrash PROVE IInv'
    <3>1. \A t \in Tasks : threads'[t] \in Thread /\ ThreadOK(threads'[t])
      BY <2>9 DEF ProcessCrash, TypeOK, ThreadsOK, ThreadOK, Thread, Pc, Outcome
    <3>2. threads' \in [Tasks -> Thread]
      BY <2>9, <3>1 DEF ProcessCrash
    <3>3. Holders' = {}
      BY <2>9 DEF ProcessCrash, Holders, Holding, TypeOK, Thread
    <3>4. permits' = MaxConcurrent /\ Cardinality(Holders') = 0
      BY <2>9, <3>3, FS_EmptySet DEF ProcessCrash
    <3>5. permits' \in 0..MaxConcurrent /\ PermitsBalance'
      BY <3>4, Limits DEF PermitsBalance
    <3> QED
      BY <3>1, <3>2, <3>5 DEF TypeOK, ThreadsOK
  <2> QED
    BY <2>1, <2>2, <2>3, <2>4, <2>5, <2>6, <2>7, <2>8, <2>9 DEF Next, Step
<1> QED
  BY <1>1, <1>2, PTL DEF Spec

\* LocalTaskQueue._dispatch: threads and semaphore keep their types, no task is
\* sent more often than _MAX_ATTEMPTS, and the semaphore never holds more than
\* the permits it began with.
THEOREM TypeCorrect == Spec => []TypeOK
  BY Invariance, PTL DEF IInv

\* LocalTaskQueue._dispatch: the finally clause keeps the permits together,
\* through deliveries, exhausted retries, exceptions and restarts.
THEOREM PermitsAreBalanced == Spec => []PermitsBalance
  BY Invariance, PTL DEF IInv

-----------------------------------------------------------------------------
(* The refinement of TaskQueue.                                            *)

\* What a step of one thread does to the statuses and the attempts.
LEMMA OneTaskMoves ==
    ASSUME TypeOK, NEW t \in Tasks, NEW x \in Thread,
           threads' = [threads EXCEPT ![t] = x]
    PROVE  /\ Statuses' = [Statuses EXCEPT ![t] = StatusOf(x)]
           /\ Attempts' = [Attempts EXCEPT ![t] = x.attempt]
           /\ Statuses[t] = StatusOf(threads[t])
           /\ Attempts[t] = threads[t].attempt
           /\ x.attempt = threads[t].attempt => Attempts' = Attempts
           /\ StatusOf(x) = StatusOf(threads[t]) => Statuses' = Statuses
  <1>1. threads \in [Tasks -> Thread]
    BY DEF TypeOK
  <1>2. \A s \in Tasks : threads'[s] = IF s = t THEN x ELSE threads[s]
    BY <1>1
  <1> QED
    BY <1>1, <1>2 DEF Statuses, Attempts

\* LocalTaskQueue: threads, permits and sleeps together do for each task what
\* TaskQueue promises, in particular no post after a delivery.
THEOREM Refinement == Spec => ImplementsTaskQueue
<1>1. Init => Contract!Init
  BY DEF Init, Contract!Init, Statuses, Attempts, StatusOf
<1>2. IInv /\ [Next]_vars => [Contract!Next]_(Contract!vars)
  <2> SUFFICES ASSUME IInv, [Next]_vars
               PROVE  Contract!Next \/ UNCHANGED <<Statuses, Attempts>>
    BY DEF Contract!vars
  <2> USE DEF IInv
  <2>1. CASE UNCHANGED vars
    BY <2>1 DEF vars, Statuses, Attempts
  <2>2. ASSUME NEW t \in Tasks, Enqueue(t) PROVE Contract!Accept(t)
    <3> DEFINE x == [threads[t] EXCEPT !.pc = "waiting"]
    <3>1. x \in Thread /\ threads' = [threads EXCEPT ![t] = x]
      BY <2>2, ThreadUpdates DEF Enqueue, Goto, Pc
    <3>2. /\ StatusOf(threads[t]) = "none"
          /\ StatusOf(x) = "queued" /\ x.attempt = threads[t].attempt
      BY <2>2, ThreadUpdates DEF Enqueue, At, ThreadOK, Thread, StatusOf
    <3>3. /\ Statuses[t] = StatusOf(threads[t])
          /\ Statuses' = [Statuses EXCEPT ![t] = StatusOf(x)]
          /\ Attempts' = Attempts
      BY <3>1, <3>2, OneTaskMoves
    <3> QED
      BY <3>2, <3>3 DEF Contract!Accept
  <2>3. ASSUME NEW t \in Tasks, Acquire(t) PROVE UNCHANGED <<Statuses, Attempts>>
    <3> DEFINE x == [threads[t] EXCEPT !.pc = "send"]
    <3>1. x \in Thread /\ threads' = [threads EXCEPT ![t] = x]
      BY <2>3, ThreadUpdates DEF Acquire, Goto, Pc
    <3>2. StatusOf(x) = StatusOf(threads[t]) /\ x.attempt = threads[t].attempt
      BY <2>3, ThreadUpdates DEF Acquire, At, ThreadOK, Thread, StatusOf
    <3> QED
      BY <3>1, <3>2, OneTaskMoves
  <2>4. ASSUME NEW t \in Tasks, Send(t) PROVE Contract!Post(t)
    <3> DEFINE x == [threads[t] EXCEPT !.pc = "posting",
                                       !.attempt = threads[t].attempt + 1]
    <3>1. threads' = [threads EXCEPT ![t] = x] /\ threads[t].pc = "send"
      BY <2>4 DEF Send, At
    <3>2. threads[t] \in Thread /\ ThreadOK(threads[t])
      BY ThreadUpdates
    <3>3. x \in Thread
      <4>1. threads[t].attempt + 1 \in 0..MaxAttempts
        BY <3>1, <3>2, Limits DEF Thread, ThreadOK
      <4> QED
        BY <3>2, <4>1 DEF Thread, Pc
    <3>4. /\ StatusOf(threads[t]) = "queued" /\ threads[t].attempt < MaxAttempts
          /\ StatusOf(x) = "posting" /\ x.attempt = threads[t].attempt + 1
      BY <3>1, <3>2 DEF ThreadOK, Thread, StatusOf
    <3>5. /\ Statuses[t] = StatusOf(threads[t]) /\ Attempts[t] = threads[t].attempt
          /\ Statuses' = [Statuses EXCEPT ![t] = StatusOf(x)]
          /\ Attempts' = [Attempts EXCEPT ![t] = x.attempt]
      BY <3>1, <3>3, OneTaskMoves
    <3> QED
      BY <3>4, <3>5 DEF Contract!Post
  <2>5. ASSUME NEW t \in Tasks, Answered(t) PROVE Contract!Deliver(t)
    <3> DEFINE x == [threads[t] EXCEPT !.pc = "finally", !.outcome = "delivered"]
    <3>1. x \in Thread /\ threads' = [threads EXCEPT ![t] = x]
      BY <2>5, ThreadUpdates DEF Answered, EndLoop, Outcome
    <3>2. /\ StatusOf(threads[t]) = "posting"
          /\ StatusOf(x) = "done" /\ x.attempt = threads[t].attempt
      BY <2>5, ThreadUpdates DEF Answered, At, ThreadOK, Thread, StatusOf
    <3>3. /\ Statuses[t] = StatusOf(threads[t])
          /\ Statuses' = [Statuses EXCEPT ![t] = StatusOf(x)]
          /\ Attempts' = Attempts
      BY <3>1, <3>2, OneTaskMoves
    <3> QED
      BY <3>2, <3>3 DEF Contract!Deliver
  <2>6. ASSUME NEW t \in Tasks, Fails(t) PROVE Contract!Fail(t)
    <3> DEFINE x == [threads[t] EXCEPT !.pc = "backoff"]
    <3>1. x \in Thread /\ threads' = [threads EXCEPT ![t] = x]
      BY <2>6, ThreadUpdates DEF Fails, Goto, Pc
    <3>2. /\ StatusOf(threads[t]) = "posting" /\ x.attempt = threads[t].attempt
          /\ StatusOf(x) = IF x.attempt < MaxAttempts THEN "queued" ELSE "dropped"
      <4>1. /\ threads[t].pc = "posting" /\ threads[t] \in Thread
            /\ threads[t].outcome = "none"
        BY <2>6, ThreadUpdates DEF Fails, At, ThreadOK
      <4>2. threads[t].attempt < MaxAttempts <=> threads[t].attempt # MaxAttempts
        BY <4>1, Limits DEF Thread
      <4>3. /\ x.pc = "backoff" /\ x.attempt = threads[t].attempt
            /\ x.outcome = "none"
        BY <4>1 DEF Thread
      <4> QED
        BY <4>1, <4>2, <4>3 DEF StatusOf
    <3>3. /\ Statuses[t] = StatusOf(threads[t]) /\ Attempts[t] = threads[t].attempt
          /\ Statuses' = [Statuses EXCEPT ![t] = StatusOf(x)]
          /\ Attempts' = Attempts
      BY <3>1, <3>2, OneTaskMoves
    <3> QED
      BY <3>2, <3>3 DEF Contract!Fail
  <2>7. ASSUME NEW t \in Tasks, Breaks(t) PROVE Contract!Break(t)
    <3> DEFINE x == [threads[t] EXCEPT !.pc = "finally", !.outcome = "broken"]
    <3>1. x \in Thread /\ threads' = [threads EXCEPT ![t] = x]
      BY <2>7, ThreadUpdates DEF Breaks, EndLoop, Outcome
    <3>2. /\ StatusOf(threads[t]) = "posting"
          /\ StatusOf(x) = "dropped" /\ x.attempt = threads[t].attempt
      BY <2>7, ThreadUpdates DEF Breaks, At, ThreadOK, Thread, StatusOf
    <3>3. /\ Statuses[t] = StatusOf(threads[t])
          /\ Statuses' = [Statuses EXCEPT ![t] = StatusOf(x)]
          /\ Attempts' = Attempts
      BY <3>1, <3>2, OneTaskMoves
    <3> QED
      BY <3>2, <3>3 DEF Contract!Break
  <2>8. ASSUME NEW t \in Tasks, WakeUp(t) PROVE UNCHANGED <<Statuses, Attempts>>
    <3>1. CASE threads[t].attempt < MaxAttempts /\ Goto(t, "send")
      <4> DEFINE x == [threads[t] EXCEPT !.pc = "send"]
      <4>1. x \in Thread /\ threads' = [threads EXCEPT ![t] = x]
        BY <3>1, ThreadUpdates DEF Goto, Pc
      <4>2. StatusOf(x) = StatusOf(threads[t]) /\ x.attempt = threads[t].attempt
        <5>1. /\ threads[t].pc = "backoff" /\ threads[t] \in Thread
              /\ threads[t].outcome = "none"
          BY <2>8, ThreadUpdates DEF WakeUp, At, ThreadOK
        <5>2. threads[t].attempt # MaxAttempts
          BY <3>1, <5>1, Limits DEF Thread
        <5>3. /\ x.pc = "send" /\ x.attempt = threads[t].attempt
              /\ x.outcome = "none"
          BY <5>1 DEF Thread
        <5> QED
          BY <5>1, <5>2, <5>3 DEF StatusOf
      <4> QED
        BY <4>1, <4>2, OneTaskMoves
    <3>2. CASE threads[t].attempt = MaxAttempts /\ EndLoop(t, "exhausted")
      <4> DEFINE x == [threads[t] EXCEPT !.pc = "finally", !.outcome = "exhausted"]
      <4>1. x \in Thread /\ threads' = [threads EXCEPT ![t] = x]
        BY <3>2, ThreadUpdates DEF EndLoop, Outcome
      <4>2. StatusOf(x) = StatusOf(threads[t]) /\ x.attempt = threads[t].attempt
        BY <2>8, <3>2, ThreadUpdates DEF WakeUp, At, ThreadOK, Thread, StatusOf
      <4> QED
        BY <4>1, <4>2, OneTaskMoves
    <3> QED
      BY <2>8, <3>1, <3>2 DEF WakeUp
  <2>9. ASSUME NEW t \in Tasks, Release(t) PROVE UNCHANGED <<Statuses, Attempts>>
    <3> DEFINE x == [threads[t] EXCEPT !.pc = "ended"]
    <3>1. x \in Thread /\ threads' = [threads EXCEPT ![t] = x]
      BY <2>9, ThreadUpdates DEF Release, Goto, Pc
    <3>2. StatusOf(x) = StatusOf(threads[t]) /\ x.attempt = threads[t].attempt
      BY <2>9, ThreadUpdates DEF Release, At, ThreadOK, Thread, Outcome, StatusOf
    <3> QED
      BY <3>1, <3>2, OneTaskMoves
  <2>10. ASSUME ProcessCrash PROVE Contract!Lose
    <3>1. \A t \in Tasks :
              /\ threads'[t].attempt = threads[t].attempt
              /\ StatusOf(threads'[t]) =
                     IF StatusOf(threads[t]) \in {"queued", "posting"} THEN "dropped"
                     ELSE StatusOf(threads[t])
      <4> SUFFICES ASSUME NEW t \in Tasks
                   PROVE  /\ threads'[t].attempt = threads[t].attempt
                          /\ StatusOf(threads'[t]) =
                                 IF StatusOf(threads[t]) \in {"queued", "posting"}
                                 THEN "dropped" ELSE StatusOf(threads[t])
        OBVIOUS
      <4>1. threads[t] \in Thread /\ ThreadOK(threads[t])
        BY ThreadUpdates
      <4>2. CASE threads[t].pc \in {"none", "ended"}
        BY <2>10, <4>1, <4>2 DEF ProcessCrash, ThreadOK, Thread, Outcome, StatusOf
      <4>3. CASE threads[t].pc \notin {"none", "ended"}
        <5>1. threads'[t] = [threads[t] EXCEPT !.pc = "ended",
                  !.outcome = IF threads[t].outcome = "none" THEN "lost"
                              ELSE threads[t].outcome]
          BY <2>10, <4>3 DEF ProcessCrash
        <5> QED
          BY <5>1, <4>1, <4>3 DEF ThreadOK, Thread, Pc, Outcome, StatusOf
      <4> QED
        BY <4>2, <4>3
    <3> QED
      BY <3>1 DEF Contract!Lose, Statuses, Attempts
  <2> QED
    BY <2>1, <2>2, <2>3, <2>4, <2>5, <2>6, <2>7, <2>8, <2>9, <2>10
    DEF Next, Step, Contract!Next
<1> QED
  BY <1>1, <1>2, Invariance, PTL DEF Spec, ImplementsTaskQueue, Contract!Spec
=============================================================================
