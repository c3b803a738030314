------------------------------ MODULE AdminJobs ------------------------------
(***************************************************************************)
(* The admin jobs: an in-memory registry, the lock around it, one thread   *)
(* per started job, and the handlers these threads post to.  The two match *)
(* jobs exclude each other, since both post to match-batch, which takes no *)
(* lock of its own.                                                        *)
(*                                                                         *)
(* Left out: timestamps, the contents of results, and unknown job ids.     *)
(***************************************************************************)
EXTENDS Integers, FiniteSets

CONSTANTS
    Companies,  \* rows of the companies table when a fetch lists them
    All,        \* a fetch without company_id
    MaxRuns     \* how many starts are ever accepted

ASSUME AdminConstants ==
    IsFiniteSet(Companies) /\ All \notin Companies /\ MaxRuns \in Nat

VARIABLES
    registry,  \* what GET /api/admin/jobs reads: running and last_result
    threads,   \* the thread of each job
    handlers,  \* the handler executions, by the run and post that began them
    runs       \* how many starts were accepted

vars == <<registry, threads, handlers, runs>>

-----------------------------------------------------------------------------
(* Vocabulary                                                              *)

JOB_IDS == {"fetch-link-list", "match-incremental", "match-dirty", "analyze-batch"}
MATCH_JOBS == {"match-incremental", "match-dirty"}
GroupIds(j) == IF j \in MATCH_JOBS THEN MATCH_JOBS ELSE {j}

\* last_result: nothing yet, the body of a handler, an error, or the progress
\* of a fetch over all companies.
Result == [kind : {"none", "body", "error", "progress"},
           done : 0..Cardinality(Companies), errors : 0..Cardinality(Companies)]
Plain(kind) == [kind |-> kind, done |-> 0, errors |-> 0]
Progress(done, errors) == [kind |-> "progress", done |-> done, errors |-> errors]

\* "next" is the top of the loop over the companies.
Thread == [pc : {"none", "list", "next", "post", "wait", "finish"},
           all : BOOLEAN, run : 0..MaxRuns, left : SUBSET Companies,
           done : 0..Cardinality(Companies), errors : 0..Cardinality(Companies)]
NoThread == [pc |-> "none", all |-> FALSE, run |-> 0, left |-> {}, done |-> 0, errors |-> 0]

Execution == [job : JOB_IDS, run : 1..MaxRuns, post : 0..Cardinality(Companies)]

IdleRegistry == [j \in JOB_IDS |-> [running |-> FALSE, result |-> Plain("none")]]

Init ==
    /\ registry = IdleRegistry
    /\ threads = [j \in JOB_IDS |-> NoThread]
    /\ handlers = {}
    /\ runs = 0

-----------------------------------------------------------------------------
(* POST /api/admin/jobs/{job_id}/run.                                      *)

\* Mutant: a job is only checked against itself.
NotRunning(j) == ~registry[j].running

NoGroupMemberRuns(j) == \A k \in GroupIds(j) : ~registry[k].running

\* A fetch of all companies lists them first, every other job posts at once.
StartJob(j, company) ==
    /\ NoGroupMemberRuns(j)
    /\ j # "fetch-link-list" => company = All
    /\ runs < MaxRuns
    /\ runs' = runs + 1
    /\ registry' = [registry EXCEPT ![j].running = TRUE]
    /\ LET all == j = "fetch-link-list" /\ company = All IN
       threads' = [threads EXCEPT ![j] =
           [NoThread EXCEPT !.run = runs + 1, !.all = all,
                            !.pc = IF all THEN "list" ELSE "post"]]
    /\ UNCHANGED handlers

-----------------------------------------------------------------------------
(* The thread.                                                             *)

At(j, pc) == threads[j].pc = pc
Goto(j, pc) == threads' = [threads EXCEPT ![j].pc = pc]
SetLastResult(j, result) == registry' = [registry EXCEPT ![j].result = result]

\* _run_fetch_all reads the companies and publishes an empty progress.
ListCompanies(j) ==
    /\ At(j, "list")
    /\ threads' = [threads EXCEPT ![j].pc = "next", ![j].left = Companies]
    /\ SetLastResult(j, Progress(0, 0))
    /\ UNCHANGED <<handlers, runs>>

\* Mutant: the exception ends the thread, not the run.
ListDies(j) ==
    /\ At(j, "list")
    /\ Goto(j, "none")
    /\ SetLastResult(j, Plain("error"))
    /\ UNCHANGED <<handlers, runs>>

\* The database is away: unexpected_failure.
ListFails(j) ==
    /\ At(j, "list")
    /\ Goto(j, "finish")
    /\ SetLastResult(j, Plain("error"))
    /\ UNCHANGED <<handlers, runs>>

NextCompany(j) ==
    /\ At(j, "next")
    /\ \/ \E c \in threads[j].left :
             threads' = [threads EXCEPT ![j].pc = "post", ![j].left = @ \ {c}]
       \/ threads[j].left = {} /\ Goto(j, "finish")
    /\ UNCHANGED <<registry, handlers, runs>>

Executing(j) == [job |-> j, run |-> threads[j].run, post |-> threads[j].done]

PostHandler(j) ==
    /\ At(j, "post")
    /\ handlers' = handlers \cup {Executing(j)}
    /\ Goto(j, "wait")
    /\ UNCHANGED <<registry, runs>>

\* Mutant: the first error ends the fetch.
LearnOrAbort(j, ok) ==
    IF threads[j].all /\ ok
      THEN LET done == threads[j].done + 1 IN
           /\ threads' = [threads EXCEPT ![j].pc = "next", ![j].done = done]
           /\ SetLastResult(j, Progress(done, 0))
      ELSE Goto(j, "finish") /\ UNCHANGED registry

\* _post_handler has returned: the next company, or the end of the job.
Learn(j, ok) ==
    IF threads[j].all
      THEN LET done == threads[j].done + 1
               errors == threads[j].errors + (IF ok THEN 0 ELSE 1)
           IN  /\ threads' = [threads EXCEPT ![j].pc = "next", ![j].done = done,
                                             ![j].errors = errors]
               /\ SetLastResult(j, Progress(done, errors))
      ELSE /\ Goto(j, "finish")
           /\ SetLastResult(j, Plain(IF ok THEN "body" ELSE "error"))

\* The handler ends and answers, with a body or with an error.
HandlerAnswers(j) ==
    /\ At(j, "wait")
    /\ handlers' = handlers \ {Executing(j)}
    /\ \E ok \in BOOLEAN : Learn(j, ok)
    /\ UNCHANGED runs

PostRefused(j) ==
    /\ At(j, "post")
    /\ Learn(j, FALSE)
    /\ UNCHANGED <<handlers, runs>>

\* httpx.post gives up after LOCAL_QUEUE_TIMEOUT_SECONDS; its handler does not.
PostTimesOut(j) ==
    /\ At(j, "wait")
    /\ Learn(j, FALSE)
    /\ UNCHANGED <<handlers, runs>>

\* A handler nobody waits for any more.
OrphanEnds(h) ==
    /\ \A j \in JOB_IDS : At(j, "wait") => Executing(j) # h
    /\ handlers' = handlers \ {h}
    /\ UNCHANGED <<registry, threads, runs>>

\* The finally clause of _run_job.
Finish(j) ==
    /\ At(j, "finish")
    /\ threads' = [threads EXCEPT ![j] = NoThread]
    /\ registry' = [registry EXCEPT ![j].running = FALSE]
    /\ UNCHANGED <<handlers, runs>>

\* API and handlers are one process, and the registry is in its memory.
ProcessRestart ==
    /\ registry' = IdleRegistry
    /\ threads' = [j \in JOB_IDS |-> NoThread]
    /\ handlers' = {}
    /\ UNCHANGED runs

-----------------------------------------------------------------------------
(* Specifications.                                                         *)

Step(j) ==
    \/ ListCompanies(j) \/ ListFails(j)
    \/ NextCompany(j)
    \/ PostHandler(j) \/ PostRefused(j)
    \/ HandlerAnswers(j)
    \/ Finish(j)

CalmNext ==
    \/ \E j \in JOB_IDS : Step(j) \/ \E company \in Companies \cup {All} : StartJob(j, company)
    \/ ProcessRestart

Next ==
    \/ CalmNext
    \/ \E j \in JOB_IDS : PostTimesOut(j)
    \/ \E h \in handlers : OrphanEnds(h)

CalmSpec == Init /\ [][CalmNext]_vars
Spec == Init /\ [][Next]_vars

-----------------------------------------------------------------------------
(* Properties                                                              *)

\* Every variable has the type of the registry, thread or request it models.
TypeOK ==
    /\ registry \in [JOB_IDS -> [running : BOOLEAN, result : Result]]
    /\ threads \in [JOB_IDS -> Thread]
    /\ handlers \subseteq Execution
    /\ runs \in 0..MaxRuns

\* start_job: "match-incremental and match-dirty share a concurrency group
\* because both POST the unlocked match-batch handler".  No two match-batch
\* handlers that the admin page began run at once.
MatchBatchAlone ==
    Cardinality({h \in handlers : h.job \in MATCH_JOBS}) <= 1

\* _run_fetch_all: a fetch that ended in a progress has been through every
\* company, those that answered with an error counted: one failing board does
\* not keep the others from being fetched.
FetchCoversAll ==
    \A j \in JOB_IDS :
        LET result == registry[j].result IN
        ~registry[j].running /\ result.kind = "progress" =>
            /\ result.done = Cardinality(Companies)
            /\ result.errors <= result.done

\* _run_job: whatever the handler answers, the button comes back.
RunningEnds == \A j \in JOB_IDS : registry[j].running ~> ~registry[j].running
=============================================================================
