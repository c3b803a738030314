-------------------------- MODULE AdminJobsProofs --------------------------
(***************************************************************************)
(* Proofs about AdminJobs, for any finite set of companies and any number  *)
(* of starts, with timeouts and restarts.                                  *)
(***************************************************************************)
EXTENDS MCAdminJobs, TLAPS, FiniteSetTheorems

N == Cardinality(Companies)

LEMMA Sizes == N \in Nat /\ MaxRuns \in Nat /\ All \notin Companies
  BY AdminConstants, FS_CardinalityType DEF N

\* The parts of a fetch over all companies that are behind it, under way and
\* ahead make up the whole, and what it publishes is how far it has come.
FetchOK(x, result) ==
    /\ x.pc \in {"list", "next"} => x.all
    /\ x.all /\ x.pc \in {"next", "post", "wait"} =>
           /\ result = Progress(x.done, x.errors)
           /\ x.errors <= x.done
           /\ x.done + Cardinality(x.left) + (IF x.pc = "next" THEN 0 ELSE 1) = N
    /\ ~x.all \/ x.pc = "list" => x.done = 0 /\ x.errors = 0
    /\ x.pc \in {"none", "finish"} /\ result.kind = "progress" =>
           result.done = N /\ result.errors <= result.done

\* A thread is there as long as its job is marked as running.
ThreadOK(j) ==
    /\ registry[j].running <=> threads[j].pc # "none"
    /\ threads[j].pc # "none" => threads[j].run > 0
    /\ FetchOK(threads[j], registry[j].result)

GroupOK == \A j, k \in MATCH_JOBS : threads[j].pc # "none" /\ threads[k].pc # "none" => j = k

IInv == TypeOK /\ GroupOK /\ \A j \in JOB_IDS : ThreadOK(j)

\* The last company has been taken from the list when the list is empty.
LEMMA LeftSizes ==
    ASSUME NEW S \in SUBSET Companies
    PROVE  /\ Cardinality(S) \in Nat
           /\ S = {} <=> Cardinality(S) = 0
           /\ \A c \in S : Cardinality(S \ {c}) = Cardinality(S) - 1
  <1>1. IsFiniteSet(S)
    BY AdminConstants, FS_Subset
  <1> QED
    BY <1>1, FS_CardinalityType, FS_EmptySet, FS_RemoveElement

\* A step of one job that writes its thread and perhaps its last result.
LEMMA OneJobMoves ==
    ASSUME IInv, NEW j \in JOB_IDS, NEW x \in Thread,
           NEW y \in [running : BOOLEAN, result : Result],
           threads' = [threads EXCEPT ![j] = x],
           registry' = [registry EXCEPT ![j] = y],
           y.running <=> x.pc # "none",
           x.pc # "none" => x.run > 0 /\ threads[j].pc # "none",
           FetchOK(x, y.result),
           handlers' \subseteq Execution, runs' \in 0..MaxRuns
    PROVE  IInv'
  <1>1. TypeOK'
    BY DEF IInv, TypeOK
  <1>2. GroupOK'
    BY DEF IInv, TypeOK, GroupOK, MATCH_JOBS, JOB_IDS
  <1>3. ASSUME NEW k \in JOB_IDS PROVE ThreadOK(k)'
    <2>1. CASE k = j
      BY <2>1 DEF IInv, TypeOK, ThreadOK
    <2>2. CASE k # j
      <3>1. threads'[k] = threads[k] /\ registry'[k] = registry[k]
        BY <2>2 DEF IInv, TypeOK
      <3> QED
        BY <3>1 DEF IInv, ThreadOK
    <2> QED
      BY <2>1, <2>2
  <1> QED
    BY <1>1, <1>2, <1>3 DEF IInv

-----------------------------------------------------------------------------
(* One lemma per step of a thread.                                         *)

\* What the invariant says of one job, in the form the steps need it.
LEMMA JobFacts ==
    ASSUME IInv, NEW j \in JOB_IDS
    PROVE  /\ threads[j] \in Thread /\ ThreadOK(j)
           /\ registry[j] \in [running : BOOLEAN, result : Result]
           /\ handlers \subseteq Execution /\ runs \in 0..MaxRuns
  BY DEF IInv, TypeOK

\* Learning the outcome of a post counts the company, or ends a single job.
LEMMA LearnStep ==
    ASSUME IInv, NEW j \in JOB_IDS, NEW ok \in BOOLEAN, Learn(j, ok),
           threads[j].pc \in {"post", "wait"},
           handlers' \subseteq Execution, runs' \in 0..MaxRuns
    PROVE  IInv'
  <1> DEFINE t == threads[j]
             errors == t.errors + (IF ok THEN 0 ELSE 1)
  <1>1. t \in Thread /\ ThreadOK(j) /\ registry[j] \in [running : BOOLEAN, result : Result]
    BY JobFacts
  <1>2. CASE t.all
    <2> DEFINE x == [t EXCEPT !.pc = "next", !.done = t.done + 1, !.errors = errors]
               y == [registry[j] EXCEPT !.result = Progress(t.done + 1, errors)]
    <2>1. threads' = [threads EXCEPT ![j] = x] /\ registry' = [registry EXCEPT ![j] = y]
      BY <1>2 DEF Learn, SetLastResult, IInv, TypeOK
    <2>2. t.done + Cardinality(t.left) + 1 = N /\ t.errors <= t.done
      BY <1>1, <1>2 DEF ThreadOK, FetchOK
    <2>3. Cardinality(t.left) \in Nat /\ {t.done, t.errors} \subseteq Nat
      BY <1>1, LeftSizes, Sizes DEF Thread, N
    <2>4. t.done + 1 \in 0..N /\ errors \in 0..N /\ errors <= t.done + 1
      BY <2>2, <2>3, Sizes
    <2>5. x \in Thread /\ y \in [running : BOOLEAN, result : Result]
      BY <1>1, <2>4 DEF Thread, Result, Progress, N
    <2>6. FetchOK(x, y.result) /\ y.running /\ x.run > 0
      BY <1>1, <1>2, <2>2, <2>3, <2>4 DEF ThreadOK, FetchOK, Thread, Progress
    <2> QED
      BY <1>1, <2>1, <2>5, <2>6, OneJobMoves DEF Thread
  <1>3. CASE ~t.all
    <2> DEFINE x == [t EXCEPT !.pc = "finish"]
               y == [registry[j] EXCEPT !.result = Plain(IF ok THEN "body" ELSE "error")]
    <2>1. threads' = [threads EXCEPT ![j] = x] /\ registry' = [registry EXCEPT ![j] = y]
      BY <1>3 DEF Learn, SetLastResult, Goto, IInv, TypeOK
    <2>2. x \in Thread /\ y \in [running : BOOLEAN, result : Result]
      BY <1>1, Sizes DEF Thread, Result, Plain, N
    <2>3. FetchOK(x, y.result) /\ y.running /\ x.run > 0
      BY <1>1, <1>3 DEF ThreadOK, FetchOK, Thread, Plain
    <2> QED
      BY <1>1, <2>1, <2>2, <2>3, OneJobMoves DEF Thread
  <1> QED
    BY <1>2, <1>3

\* What an accepted start puts in place of the thread that is not there.
LEMMA StartStep ==
    ASSUME IInv, NEW j \in JOB_IDS, NEW company \in Companies \cup {All},
           StartJob(j, company)
    PROVE  IInv'
  <1> DEFINE all == j = "fetch-link-list" /\ company = All
             x == [NoThread EXCEPT !.run = runs + 1, !.all = all,
                                   !.pc = IF all THEN "list" ELSE "post"]
             y == [registry[j] EXCEPT !.running = TRUE]
  <1>1. threads' = [threads EXCEPT ![j] = x] /\ registry' = [registry EXCEPT ![j] = y]
    BY DEF StartJob, IInv, TypeOK
  <1>2. x \in Thread /\ runs' \in 0..MaxRuns /\ x.run > 0
    <2>1. runs \in 0..MaxRuns /\ runs < MaxRuns /\ runs' = runs + 1
      BY JobFacts DEF StartJob
    <2>2. runs + 1 \in 0..MaxRuns /\ runs + 1 > 0 /\ 0 \in 0..N
      BY <2>1, Sizes
    <2> QED
      BY <2>1, <2>2 DEF NoThread, Thread, N
  <1>3. y \in [running : BOOLEAN, result : Result] /\ y.running
    BY JobFacts
  <1>4. FetchOK(x, y.result)
    BY DEF FetchOK, NoThread
  <1>5. TypeOK'
    BY <1>1, <1>2, <1>3 DEF IInv, TypeOK, StartJob
  <1>6. GroupOK'
    <2>1. j \in MATCH_JOBS => \A k \in MATCH_JOBS : threads[k].pc = "none"
      BY DEF StartJob, NoGroupMemberRuns, GroupIds, IInv, ThreadOK, MATCH_JOBS, JOB_IDS
    <2> QED
      BY <1>1, <2>1 DEF IInv, TypeOK, GroupOK, MATCH_JOBS, JOB_IDS
  <1>7. ASSUME NEW k \in JOB_IDS PROVE ThreadOK(k)'
    <2>1. CASE k = j
      BY <1>1, <1>2, <1>3, <1>4, <2>1 DEF IInv, TypeOK, ThreadOK, NoThread
    <2>2. CASE k # j
      BY <1>1, <2>2 DEF IInv, TypeOK, ThreadOK
    <2> QED
      BY <2>1, <2>2
  <1> QED
    BY <1>5, <1>6, <1>7 DEF IInv

LEMMA ListStep ==
    ASSUME IInv, NEW j \in JOB_IDS, ListCompanies(j) \/ ListFails(j)
    PROVE  IInv'
  <1> DEFINE t == threads[j]
  <1>1. t \in Thread /\ ThreadOK(j) /\ registry[j] \in [running : BOOLEAN, result : Result]
    BY JobFacts
  <1>2. t.pc = "list" /\ handlers' \subseteq Execution /\ runs' \in 0..MaxRuns
    BY JobFacts DEF ListCompanies, ListFails, At
  <1>3. CASE ListCompanies(j)
    <2> DEFINE x == [t EXCEPT !.pc = "next", !.left = Companies]
               y == [registry[j] EXCEPT !.result = Progress(0, 0)]
    <2>1. threads' = [threads EXCEPT ![j] = x] /\ registry' = [registry EXCEPT ![j] = y]
      BY <1>3 DEF ListCompanies, SetLastResult, IInv, TypeOK
    <2>2. 0 + N + 0 = N /\ 0 \in 0..N
      BY Sizes
    <2>3. x \in Thread /\ y \in [running : BOOLEAN, result : Result]
      BY <1>1, <2>2 DEF Thread, Result, Progress, N
    <2>4. FetchOK(x, y.result) /\ y.running /\ x.run > 0
      BY <1>1, <1>2, <2>2 DEF ThreadOK, FetchOK, Thread, Progress, N
    <2> QED
      BY <1>1, <1>2, <2>1, <2>3, <2>4, OneJobMoves DEF Thread
  <1>4. CASE ListFails(j)
    <2> DEFINE x == [t EXCEPT !.pc = "finish"]
               y == [registry[j] EXCEPT !.result = Plain("error")]
    <2>1. threads' = [threads EXCEPT ![j] = x] /\ registry' = [registry EXCEPT ![j] = y]
      BY <1>4 DEF ListFails, Goto, SetLastResult, IInv, TypeOK
    <2>2. x \in Thread /\ y \in [running : BOOLEAN, result : Result]
      BY <1>1, Sizes DEF Thread, Result, Plain, N
    <2>3. FetchOK(x, y.result) /\ y.running /\ x.run > 0
      BY <1>1, <1>2 DEF ThreadOK, FetchOK, Thread, Plain
    <2> QED
      BY <1>1, <1>2, <2>1, <2>2, <2>3, OneJobMoves DEF Thread
  <1> QED
    BY <1>3, <1>4

LEMMA NextCompanyStep ==
    ASSUME IInv, NEW j \in JOB_IDS, NextCompany(j)
    PROVE  IInv'
  <1> DEFINE t == threads[j]
  <1>1. t \in Thread /\ ThreadOK(j) /\ registry[j] \in [running : BOOLEAN, result : Result]
    BY JobFacts
  <1>2. t.pc = "next" /\ handlers' \subseteq Execution /\ runs' \in 0..MaxRuns
    BY JobFacts DEF NextCompany, At
  <1>3. registry' = [registry EXCEPT ![j] = registry[j]] /\ registry[j].running
    BY <1>1, <1>2 DEF NextCompany, ThreadOK, IInv, TypeOK
  <1>4. t.all /\ t.done + Cardinality(t.left) = N /\ t.errors <= t.done
    BY <1>1, <1>2, LeftSizes DEF ThreadOK, FetchOK, Thread
  <1>5. ASSUME NEW c \in t.left,
               threads' = [threads EXCEPT ![j].pc = "post", ![j].left = @ \ {c}]
        PROVE  IInv'
    <2> DEFINE x == [t EXCEPT !.pc = "post", !.left = @ \ {c}]
    <2>1. threads' = [threads EXCEPT ![j] = x]
      BY <1>5 DEF IInv, TypeOK
    <2>2. x \in Thread /\ x.run > 0
      BY <1>1, <1>2 DEF Thread, ThreadOK
    <2>3. Cardinality(t.left \ {c}) = Cardinality(t.left) - 1 /\ Cardinality(t.left) \in Nat
      BY <1>1, LeftSizes DEF Thread
    <2>4. FetchOK(x, registry[j].result)
      BY <1>1, <1>2, <1>4, <2>3, Sizes DEF ThreadOK, FetchOK, Thread
    <2> QED
      BY <1>1, <1>2, <1>3, <2>1, <2>2, <2>4, OneJobMoves DEF Thread
  <1>6. ASSUME t.left = {}, Goto(j, "finish") PROVE IInv'
    <2> DEFINE x == [t EXCEPT !.pc = "finish"]
    <2>1. threads' = [threads EXCEPT ![j] = x]
      BY <1>6 DEF Goto, IInv, TypeOK
    <2>2. x \in Thread /\ x.run > 0
      BY <1>1, <1>2 DEF Thread, ThreadOK
    <2>3. t.done = N
      BY <1>1, <1>4, <1>6, LeftSizes, Sizes DEF Thread, N
    <2>4. FetchOK(x, registry[j].result)
      BY <1>1, <1>2, <1>4, <2>3 DEF ThreadOK, FetchOK, Thread, Progress
    <2> QED
      BY <1>1, <1>2, <1>3, <2>1, <2>2, <2>4, OneJobMoves DEF Thread
  <1> QED
    BY <1>5, <1>6 DEF NextCompany

LEMMA PostStep ==
    ASSUME IInv, NEW j \in JOB_IDS, PostHandler(j)
    PROVE  IInv'
  <1> DEFINE t == threads[j]
             x == [t EXCEPT !.pc = "wait"]
  <1>1. t \in Thread /\ ThreadOK(j) /\ registry[j] \in [running : BOOLEAN, result : Result]
    BY JobFacts
  <1>2. t.pc = "post" /\ threads' = [threads EXCEPT ![j] = x]
    BY DEF PostHandler, At, Goto, IInv, TypeOK
  <1>3. registry' = [registry EXCEPT ![j] = registry[j]] /\ registry[j].running
    BY <1>1, <1>2 DEF PostHandler, ThreadOK, IInv, TypeOK
  <1>4. x \in Thread /\ x.run > 0 /\ FetchOK(x, registry[j].result)
    BY <1>1, <1>2 DEF Thread, ThreadOK, FetchOK
  <1>5. t.run \in 1..MaxRuns
    BY <1>1, <1>2, Sizes DEF Thread, ThreadOK
  <1>6. handlers' \subseteq Execution /\ runs' \in 0..MaxRuns
    BY <1>1, <1>5, JobFacts DEF PostHandler, Executing, Execution, Thread
  <1> QED
    BY <1>1, <1>2, <1>3, <1>4, <1>6, OneJobMoves DEF Thread

LEMMA FinishStep ==
    ASSUME IInv, NEW j \in JOB_IDS, Finish(j)
    PROVE  IInv'
  <1> DEFINE y == [registry[j] EXCEPT !.running = FALSE]
  <1>1. threads[j] \in Thread /\ ThreadOK(j) /\ threads[j].pc = "finish"
    BY JobFacts DEF Finish, At
  <1>2. threads' = [threads EXCEPT ![j] = NoThread] /\ registry' = [registry EXCEPT ![j] = y]
    BY DEF Finish, IInv, TypeOK
  <1>3. NoThread \in Thread
    BY Sizes DEF NoThread, Thread, N
  <1>4. y \in [running : BOOLEAN, result : Result] /\ ~y.running /\ y.result = registry[j].result
    BY JobFacts
  <1>5. FetchOK(NoThread, y.result)
    BY <1>1, <1>4 DEF ThreadOK, FetchOK, NoThread
  <1>6. handlers' \subseteq Execution /\ runs' \in 0..MaxRuns
    BY JobFacts DEF Finish
  <1> QED
    BY <1>1, <1>2, <1>3, <1>4, <1>5, <1>6, OneJobMoves DEF NoThread

\* The state of a process that has just started.
LEMMA FreshStart ==
    ASSUME registry' = IdleRegistry, threads' = [j \in JOB_IDS |-> NoThread],
           handlers' = {}, runs' \in 0..MaxRuns
    PROVE  IInv'
  <1>1. NoThread \in Thread /\ Plain("none") \in Result
    BY Sizes DEF NoThread, Thread, Plain, Result, N
  <1>2. FetchOK(NoThread, Plain("none"))
    BY DEF FetchOK, NoThread, Plain
  <1>3. TypeOK'
    BY <1>1 DEF TypeOK, IdleRegistry
  <1>4. GroupOK'
    BY DEF GroupOK, NoThread, MATCH_JOBS, JOB_IDS
  <1>5. ASSUME NEW j \in JOB_IDS PROVE ThreadOK(j)'
    BY <1>2 DEF ThreadOK, IdleRegistry, NoThread
  <1> QED
    BY <1>3, <1>4, <1>5 DEF IInv

-----------------------------------------------------------------------------
(* The theorems.                                                           *)

\* Every job's thread, mark and progress fit together at all times, whatever
\* is posted, times out or is restarted.
THEOREM Invariance == Spec => []IInv
<1>1. Init => IInv
  <2> SUFFICES ASSUME Init PROVE IInv
    OBVIOUS
  <2>1. NoThread \in Thread /\ Plain("none") \in Result /\ 0 \in 0..MaxRuns
    BY Sizes DEF NoThread, Thread, Plain, Result, N
  <2>2. FetchOK(NoThread, Plain("none"))
    BY DEF FetchOK, NoThread, Plain
  <2>3. TypeOK
    BY <2>1 DEF Init, TypeOK, IdleRegistry
  <2>4. GroupOK
    BY DEF Init, GroupOK, NoThread, MATCH_JOBS, JOB_IDS
  <2>5. ASSUME NEW j \in JOB_IDS PROVE ThreadOK(j)
    BY <2>2 DEF Init, ThreadOK, IdleRegistry, NoThread
  <2> QED
    BY <2>3, <2>4, <2>5 DEF IInv
<1>2. IInv /\ [Next]_vars => IInv'
  <2> SUFFICES ASSUME IInv, [Next]_vars PROVE IInv'
    OBVIOUS
  <2>1. CASE UNCHANGED vars
    BY <2>1 DEF vars, IInv, TypeOK, GroupOK, ThreadOK
  <2>2. ASSUME NEW j \in JOB_IDS, NEW company \in Companies \cup {All}, StartJob(j, company)
        PROVE  IInv'
    BY <2>2, StartStep
  <2>3. ASSUME NEW j \in JOB_IDS, ListCompanies(j) \/ ListFails(j) PROVE IInv'
    BY <2>3, ListStep
  <2>4. ASSUME NEW j \in JOB_IDS, NextCompany(j) PROVE IInv'
    BY <2>4, NextCompanyStep
  <2>5. ASSUME NEW j \in JOB_IDS, PostHandler(j) PROVE IInv'
    BY <2>5, PostStep
  <2>6. ASSUME NEW j \in JOB_IDS, PostRefused(j) \/ HandlerAnswers(j) \/ PostTimesOut(j)
        PROVE  IInv'
    <3>1. handlers' \subseteq Execution /\ runs' \in 0..MaxRuns
      BY <2>6, JobFacts DEF PostRefused, HandlerAnswers, PostTimesOut
    <3>2. threads[j].pc \in {"post", "wait"} /\ \E ok \in BOOLEAN : Learn(j, ok)
      BY <2>6 DEF PostRefused, HandlerAnswers, PostTimesOut, At
    <3> QED
      BY <3>1, <3>2, LearnStep
  <2>7. ASSUME NEW j \in JOB_IDS, Finish(j) PROVE IInv'
    BY <2>7, FinishStep
  <2>8. CASE ProcessRestart
    <3>1. runs' \in 0..MaxRuns
      BY <2>8 DEF ProcessRestart, IInv, TypeOK
    <3> QED
      BY <2>8, <3>1, FreshStart DEF ProcessRestart
  <2>9. ASSUME NEW h \in handlers, OrphanEnds(h) PROVE IInv'
    BY <2>9 DEF OrphanEnds, IInv, TypeOK, GroupOK, ThreadOK
  <2> QED
    BY <2>1, <2>2, <2>3, <2>4, <2>5, <2>6, <2>7, <2>8, <2>9 DEF Next, CalmNext, Step
<1> QED
  BY <1>1, <1>2, PTL DEF Spec

\* The types of the registry, the threads and the requests.
THEOREM TypeCorrect == Spec => []TypeOK
  BY Invariance, PTL DEF IInv

\* A fetch that has ended in a progress has been through every company.
THEOREM FetchesCoverAll == Spec => []FetchCoversAll
<1>1. IInv => FetchCoversAll
  BY DEF IInv, ThreadOK, FetchOK, FetchCoversAll, N
<1> QED
  BY <1>1, Invariance, PTL

-----------------------------------------------------------------------------
(* Exclusion of the match jobs, while posts are answered in time.          *)

\* Every handler is one that a thread waits for.
AllAwaited ==
    \A h \in handlers : \E j \in JOB_IDS : threads[j].pc = "wait" /\ h = Executing(j)

CalmInv == IInv /\ (calm => AllAwaited)

\* With that, and one match thread at a time, there is one match handler.
LEMMA AwaitedAlone == CalmInv => MatchBatchAloneWhenCalm
  <1> SUFFICES ASSUME IInv, AllAwaited PROVE MatchBatchAlone
    BY DEF CalmInv, MatchBatchAloneWhenCalm
  <1> DEFINE M == {h \in handlers : h.job \in MATCH_JOBS}
  <1>1. \A g, h \in M : g = h
    BY DEF AllAwaited, IInv, GroupOK, Executing
  <1>2. CASE M = {}
    BY <1>2, FS_EmptySet DEF MatchBatchAlone
  <1>3. CASE M # {}
    <2>1. PICK h \in M : M = {h}
      BY <1>1, <1>3
    <2> QED
      BY <2>1, FS_Singleton DEF MatchBatchAlone
  <1> QED
    BY <1>2, <1>3

LEMMA CalmStep ==
    ASSUME IInv, AllAwaited, CalmNext
    PROVE  AllAwaited'
  <1>1. \A j \in JOB_IDS : threads[j] \in Thread
    BY DEF IInv, TypeOK
  <1>2. ASSUME NEW j \in JOB_IDS, NEW company \in Companies \cup {All}, StartJob(j, company)
        PROVE  AllAwaited'
    <2>1. threads[j].pc = "none"
      BY <1>2 DEF StartJob, NoGroupMemberRuns, GroupIds, IInv, ThreadOK, MATCH_JOBS, JOB_IDS
    <2>2. handlers' = handlers /\ \A k \in JOB_IDS \ {j} : threads'[k] = threads[k]
      BY <1>2 DEF StartJob, IInv, TypeOK
    <2> QED
      BY <2>1, <2>2 DEF AllAwaited, Executing
  <1>3. ASSUME NEW j \in JOB_IDS, threads[j].pc # "wait", handlers' = handlers,
               \A k \in JOB_IDS \ {j} : threads'[k] = threads[k]
        PROVE  AllAwaited'
    BY <1>3 DEF AllAwaited, Executing
  <1>4. ASSUME NEW j \in JOB_IDS,
               ListCompanies(j) \/ ListFails(j) \/ NextCompany(j) \/ PostRefused(j) \/ Finish(j)
        PROVE  AllAwaited'
    <2>1. threads[j].pc # "wait" /\ handlers' = handlers
      BY <1>4 DEF ListCompanies, ListFails, NextCompany, PostRefused, Finish, At
    <2>2. \A k \in JOB_IDS \ {j} : threads'[k] = threads[k]
      BY <1>4 DEF ListCompanies, ListFails, NextCompany, PostRefused, Finish, Learn, Goto,
                  IInv, TypeOK
    <2> QED
      BY <1>3, <2>1, <2>2
  <1>5. ASSUME NEW j \in JOB_IDS, PostHandler(j) PROVE AllAwaited'
    <2>1. threads'[j].pc = "wait" /\ threads[j].pc # "wait"
      BY <1>5 DEF PostHandler, At, Goto, IInv, TypeOK
    <2>2. \A k \in JOB_IDS : Executing(k)' = Executing(k)
      BY <1>5, <1>1 DEF PostHandler, Goto, Executing, IInv, TypeOK, Thread
    <2>3. \A k \in JOB_IDS \ {j} : threads'[k] = threads[k]
      BY <1>5 DEF PostHandler, Goto, IInv, TypeOK
    <2> QED
      BY <1>5, <2>1, <2>2, <2>3 DEF PostHandler, AllAwaited
  <1>6. ASSUME NEW j \in JOB_IDS, HandlerAnswers(j) PROVE AllAwaited'
    <2>1. handlers' = handlers \ {Executing(j)}
      BY <1>6 DEF HandlerAnswers
    <2>2. \A k \in JOB_IDS \ {j} : threads'[k] = threads[k]
      BY <1>6 DEF HandlerAnswers, Learn, Goto, IInv, TypeOK
    <2> QED
      BY <2>1, <2>2 DEF AllAwaited, Executing
  <1>7. CASE ProcessRestart
    BY <1>7 DEF ProcessRestart, AllAwaited
  <1> QED
    BY <1>2, <1>4, <1>5, <1>6, <1>7 DEF CalmNext, Step

\* While every post has been answered in time, no two match-batch handlers that
\* the admin page began run at once, across any restarts.
THEOREM MatchBatchesExclude == MCInit /\ [][MCNext]_mcVars => []MatchBatchAloneWhenCalm
<1>1. MCInit => Init /\ (calm => AllAwaited)
  BY DEF MCInit, Init, AllAwaited
<1>2. [MCNext]_mcVars => [Next]_vars
  BY DEF MCNext, mcVars, vars
<1>3. ASSUME IInv, calm => AllAwaited, [MCNext]_mcVars
      PROVE  (calm => AllAwaited)'
  <2>1. CASE MCNext
    <3> SUFFICES ASSUME calm' PROVE AllAwaited'
      OBVIOUS
    <3>1. AllAwaited /\ CalmNext
      BY <1>3, <2>1 DEF MCNext
    <3> QED
      BY <1>3, <3>1, CalmStep
  <2>2. CASE UNCHANGED mcVars
    BY <1>3, <2>2 DEF mcVars, vars, AllAwaited, Executing
  <2> QED
    BY <1>3, <2>1, <2>2
<1>4. IInv /\ (calm => AllAwaited) => MatchBatchAloneWhenCalm
  BY AwaitedAlone DEF CalmInv
<1> QED
  BY <1>1, <1>2, <1>3, <1>4, Invariance, PTL DEF Spec
=============================================================================
