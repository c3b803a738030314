----------------------------- MODULE ResumeLoop -----------------------------
(***************************************************************************)
(* The resume loop of the pipeline: a click on "generate" charges one unit *)
(* of quota and enqueues generate-resume; generate-resume writes a draft   *)
(* and enqueues verify-resume; verify-resume runs its three-stage graph    *)
(* and passes the draft, rejects it (enqueueing one regenerate) or leaves  *)
(* it to a human.                                                          *)
(*                                                                         *)
(* The tasks travel through an at-least-once queue.  Every handler reads   *)
(* its rows first, calls an LLM for seconds, and commits and flushes its   *)
(* follow-on tasks last; everything another execution does in between is   *)
(* an interleaving of this specification.                                  *)
(*                                                                         *)
(* Left out: pipeline_events rows other than the stage verdicts (nothing   *)
(* in this loop reads them), the resume text, and the not_found returns    *)
(* for a missing match, job, user or profile (no code deletes those rows). *)
(***************************************************************************)
EXTENDS Integers, Sequences, FiniteSets

CONSTANTS
    Matches,      \* rows of the matches table
    Users,        \* rows of the users table
    OwnerOf,      \* matches.user_id
    InitialQuota, \* users.quota_remaining at the start (NULL acts like 0)
    Clicks,       \* requests to POST /api/matches/{id}/generate
    Target,       \* the match each click asks for
    Workers,      \* threads of the server that can run a handler
    MaxPosts      \* _MAX_ATTEMPTS of the queue: deliveries of one task

ASSUME ConstantsAssumption ==
    /\ OwnerOf \in [Matches -> Users]
    /\ InitialQuota \in [Users -> Nat]
    /\ Target \in [Clicks -> Matches]
    /\ IsFiniteSet(Clicks)
    /\ MaxPosts \in Nat \ {0}

CONSTANT Free
ASSUME FreeAssumption == Free \notin Clicks

VARIABLES
    quota,        \* users.quota_remaining, committed
    rowLock,      \* the click whose open transaction updated the user's row
    clicks,       \* where each click request is
    generations,  \* the generations table, in order of insertion
    tasks,        \* every task ever handed to the queue, with its deliveries
    workers       \* the handler executions

vars == <<quota, rowLock, clicks, generations, tasks, workers>>

-----------------------------------------------------------------------------
(* Vocabulary                                                              *)

MAX_ATTEMPT == 2

\* What verify_failures names: violations found by a stage, or the line that
\* fail_safe_node writes.
Failures == {"violation", "llm permanent failure"}

Status == {"null", "passed", "failed", "needs_review"}

ClickPc == {"idle", "consume", "enqueue", "commit",
            "enqueued", "skipped_existing", "quota_exhausted", "error"}

\* What a handler answers: an action with a 2xx, or "5xx".
Reply == {"none", "5xx", "generated", "skipped_existing",
          "llm_permanent_failure", "not_found", "skipped_verified",
          "passed", "regenerate_enqueued", "needs_review"}

TaskState == {"queued", "posting", "done", "dropped"}

\* A handler inside the generate LLM call or inside the verify graph has an open
\* transaction; the other two are the steps every handler ends with.
WorkerPc == {"idle", "generate", "verify", "flush", "respond"}
Uncommitted == {"generate", "verify"}

Generation == [match : Matches, attempt : 1..MAX_ATTEMPT, status : Status,
               failures : SUBSET Failures,
               clean : BOOLEAN] \* the verdict came with all three pass events

Payload == [kind : {"generate-resume", "verify-resume"}, match : Matches,
            attempt : 1..MAX_ATTEMPT, gen : Nat]

Task == [payload : Payload, posts : 0..MaxPosts, state : TaskState,
         outcome : Reply]

Worker == [pc : WorkerPc, task : Nat, post : 0..MaxPosts,
           buffer : SUBSET Payload, reply : Reply]

IdleWorker == [pc |-> "idle", task |-> 0, post |-> 0, buffer |-> {},
               reply |-> "none"]

NewTask(p) == [payload |-> p, posts |-> 0, state |-> "queued",
               outcome |-> "none"]

\* Payloads: generate-resume {match_id, attempt} and verify-resume
\* {match_id, generation_id, attempt}.
GenerateTask(m, attempt) ==
    [kind |-> "generate-resume", match |-> m, attempt |-> attempt, gen |-> 0]
VerifyTask(m, attempt, g) ==
    [kind |-> "verify-resume", match |-> m, attempt |-> attempt, gen |-> g]

GenerationsOf(m) == {g \in DOMAIN generations : generations[g].match = m}

\* The payload of the task a worker is serving.
Serving(w) == tasks[workers[w].task].payload

Init ==
    /\ quota = InitialQuota
    /\ rowLock = [u \in Users |-> Free]
    /\ clicks = [c \in Clicks |-> "idle"]
    /\ generations = <<>>
    /\ tasks = <<>>
    /\ workers = [w \in Workers |-> IdleWorker]

-----------------------------------------------------------------------------
(* trigger_generate: the click.  The router hands it the raw queue, so the *)
(* task leaves before db_session commits the quota.                        *)

Charged(c) == OwnerOf[Target[c]]

TriggerRead(c) ==
    /\ clicks[c] = "idle"
    /\ clicks' = [clicks EXCEPT ![c] =
           IF GenerationsOf(Target[c]) # {} THEN "skipped_existing" ELSE "consume"]
    /\ UNCHANGED <<quota, rowLock, generations, tasks, workers>>

\* Mutant: the balance is checked without waiting for the row lock.
ConsumeWithoutLock(c) ==
    /\ clicks[c] = "consume"
    /\ quota[Charged(c)] > 0
    /\ clicks' = [clicks EXCEPT ![c] = "enqueue"]
    /\ UNCHANGED <<quota, rowLock, generations, tasks, workers>>

\* try_consume_quota: one conditional UPDATE, which waits for the row lock of
\* another open transaction and then sees what that one committed.
TryConsumeQuota(c) ==
    /\ clicks[c] = "consume"
    /\ rowLock[Charged(c)] = Free
    /\ \/ /\ quota[Charged(c)] > 0
          /\ rowLock' = [rowLock EXCEPT ![Charged(c)] = c]
          /\ clicks' = [clicks EXCEPT ![c] = "enqueue"]
       \/ /\ quota[Charged(c)] = 0
          /\ clicks' = [clicks EXCEPT ![c] = "quota_exhausted"]
          /\ UNCHANGED rowLock
    /\ UNCHANGED <<quota, generations, tasks, workers>>

\* Mutant: a refusal of the queue is swallowed.
EnqueueOrGiveUp(c) ==
    /\ clicks[c] = "enqueue"
    /\ \/ tasks' = Append(tasks, NewTask(GenerateTask(Target[c], 1)))
       \/ UNCHANGED tasks
    /\ clicks' = [clicks EXCEPT ![c] = "commit"]
    /\ UNCHANGED <<quota, rowLock, generations, workers>>

TriggerEnqueue(c) ==
    /\ clicks[c] = "enqueue"
    /\ tasks' = Append(tasks, NewTask(GenerateTask(Target[c], 1)))
    /\ clicks' = [clicks EXCEPT ![c] = "commit"]
    /\ UNCHANGED <<quota, rowLock, generations, workers>>

TriggerCommit(c) ==
    /\ clicks[c] = "commit"
    /\ quota' = [quota EXCEPT ![Charged(c)] = @ - 1]
    /\ rowLock' = [rowLock EXCEPT ![Charged(c)] = Free]
    /\ clicks' = [clicks EXCEPT ![c] = "enqueued"]
    /\ UNCHANGED <<generations, tasks, workers>>

\* The queue refuses the task, or the commit fails: db_session rolls back.
TriggerRollback(c) ==
    /\ clicks[c] \in {"enqueue", "commit"}
    /\ rowLock' = [rowLock EXCEPT ![Charged(c)] = Free]
    /\ clicks' = [clicks EXCEPT ![c] = "error"]
    /\ UNCHANGED <<quota, generations, tasks, workers>>

-----------------------------------------------------------------------------
(* The start of a handler: what it reads before the LLM call.              *)

Busy(t, pc, reply) ==
    [IdleWorker EXCEPT !.pc = pc, !.task = t, !.post = tasks[t].posts + 1,
                       !.reply = reply]

\* Mutants: the count of existing rows is compared off by one.
RedoesAttempt(t) ==
    LET p == tasks[t].payload IN
    IF Cardinality(GenerationsOf(p.match)) > p.attempt
      THEN Busy(t, "respond", "skipped_existing") ELSE Busy(t, "generate", "none")
SkipsAttempt(t) ==
    LET p == tasks[t].payload IN
    IF Cardinality(GenerationsOf(p.match)) + 1 >= p.attempt
      THEN Busy(t, "respond", "skipped_existing") ELSE Busy(t, "generate", "none")

\* generate_resume counts the rows of the match and skips when the attempt is
\* already there.
BeginGenerate(t) ==
    LET p == tasks[t].payload IN
    IF Cardinality(GenerationsOf(p.match)) >= p.attempt \/ p.attempt > MAX_ATTEMPT
      THEN Busy(t, "respond", "skipped_existing")
      ELSE Busy(t, "generate", "none")

\* verify_resume loads the generation and skips one that has a verdict.
BeginVerify(t) ==
    LET g == tasks[t].payload.gen IN
    IF g \notin DOMAIN generations THEN Busy(t, "respond", "not_found")
    ELSE IF generations[g].status # "null" THEN Busy(t, "respond", "skipped_verified")
    ELSE Busy(t, "verify", "none")

Posted(task) == [task EXCEPT !.state = "posting", !.posts = @ + 1]

\* The queue posts a task and a server thread starts its handler.
Post(t, w) ==
    /\ tasks[t].state = "queued"
    /\ workers[w].pc = "idle"
    /\ tasks' = [tasks EXCEPT ![t] = Posted(tasks[t])]
    /\ workers' = [workers EXCEPT ![w] =
           IF tasks[t].payload.kind = "generate-resume"
             THEN BeginGenerate(t) ELSE BeginVerify(t)]
    /\ UNCHANGED <<quota, rowLock, clicks, generations>>

\* Mutant: one post too many.
OnePostMore(task) ==
    [task EXCEPT !.state = IF task.posts <= MaxPosts THEN "queued" ELSE "dropped"]

\* _post_with_retries: after an error the task is posted again, until it has
\* been posted MaxPosts times and is dropped with a log line.
AfterError(task) ==
    [task EXCEPT !.state = IF task.posts < MaxPosts THEN "queued" ELSE "dropped"]

\* The post fails before any handler runs (connection refused).
PostRefused(t) ==
    /\ tasks[t].state = "queued"
    /\ tasks' = [tasks EXCEPT ![t] = AfterError(Posted(tasks[t]))]
    /\ UNCHANGED <<quota, rowLock, clicks, generations, workers>>

-----------------------------------------------------------------------------
(* generate-resume after its reads.                                        *)

Commit(w, buffer, reply) ==
    workers' = [workers EXCEPT ![w] =
        [workers[w] EXCEPT !.pc = "flush", !.buffer = buffer, !.reply = reply]]

\* Mutant: verify-resume leaves before the draft's commit, which may yet fail.
FlushesBeforeCommit(w) ==
    LET p == Serving(w)
        row == [match |-> p.match, attempt |-> p.attempt, status |-> "null",
                failures |-> {}, clean |-> FALSE]
    IN
    /\ workers[w].pc = "generate"
    /\ tasks' = Append(tasks, NewTask(VerifyTask(p.match, p.attempt, Len(generations) + 1)))
    /\ \/ generations' = Append(generations, row) /\ Commit(w, {}, "generated")
       \/ UNCHANGED generations /\ Commit(w, {}, "5xx")
    /\ UNCHANGED <<quota, rowLock, clicks>>

\* The LLM answered: the draft is inserted and committed, verify-resume waits
\* in the buffer.
GenerateOk(w) ==
    LET p == Serving(w)
        row == [match |-> p.match, attempt |-> p.attempt, status |-> "null",
                failures |-> {}, clean |-> FALSE]
    IN
    /\ workers[w].pc = "generate"
    /\ generations' = Append(generations, row)
    /\ Commit(w, {VerifyTask(p.match, p.attempt, Len(generations) + 1)}, "generated")
    /\ UNCHANGED <<quota, rowLock, clicks, tasks>>

\* PermanentLLMError: an event and a 2xx, no row.
GeneratePermanent(w) ==
    /\ workers[w].pc = "generate"
    /\ Commit(w, {}, "llm_permanent_failure")
    /\ UNCHANGED <<quota, rowLock, clicks, generations, tasks>>

-----------------------------------------------------------------------------
(* verify-resume: the graph.  Its nodes only touch the handler's own state *)
(* until a verdict is written, so that one run of it is one step.          *)

\* deterministic_node passes or objects; grounding_node and coverage_node may
\* also meet a PermanentLLMError.
Verdicts == {"pass", "fail"}
LLMVerdicts == Verdicts \cup {"permanent"}

\* Mutant: the second LLM stage is not looked at.
FailsSafeAfterGrounding(ground, coverage) == ground = "permanent"

\* _after_grounding and _after_coverage: either LLM failure ends in fail_safe.
FailsSafe(ground, coverage) == "permanent" \in {ground, coverage}

Named(results) == IF "fail" \in results THEN {"violation"} ELSE {}

\* _write_status and the commit: an UPDATE of the row, whatever it holds by
\* now.  The ORM sends the columns that differ from what the handler loaded,
\* and it loaded NULL failures: a verdict without failures leaves the column.
WriteStatus(w, status, failures, results) ==
    generations' = [generations EXCEPT ![Serving(w).gen] =
        [generations[Serving(w).gen] EXCEPT !.status = status,
            !.failures = IF failures = {} THEN @ ELSE failures,
            !.clean = (results = {"pass"})]]

\* The deterministic failures are named, those of the LLM stages are not.
FailSafeNode(w, stage1, ground, coverage) ==
    /\ FailsSafe(ground, coverage)
    /\ WriteStatus(w, "needs_review", Named({stage1}) \cup {"llm permanent failure"},
                   {stage1, ground, coverage})
    /\ Commit(w, {}, "llm_permanent_failure")

\* Mutants: a rejected draft is regenerated without a verdict of its own; the
\* attempt limit is off by one.
DecideWithoutStatus(w, stage1, ground, coverage) ==
    LET p == Serving(w) IN
    /\ ~FailsSafe(ground, coverage)
    /\ "fail" \in {stage1, ground, coverage}
    /\ p.attempt < MAX_ATTEMPT
    /\ Commit(w, {GenerateTask(p.match, p.attempt + 1)}, "regenerate_enqueued")
    /\ UNCHANGED generations
DecideOneMore(w, stage1, ground, coverage) ==
    LET p == Serving(w)
        results == {stage1, ground, coverage}
    IN
    /\ ~FailsSafe(ground, coverage)
    /\ "fail" \in results
    /\ p.attempt <= MAX_ATTEMPT
    /\ WriteStatus(w, "failed", Named(results), results)
    /\ Commit(w, {GenerateTask(p.match, p.attempt + 1)}, "regenerate_enqueued")

DecideNode(w, stage1, ground, coverage) ==
    LET p == Serving(w)
        results == {stage1, ground, coverage}
        named == Named(results)
    IN
    /\ ~FailsSafe(ground, coverage)
    /\ \/ /\ named = {}
          /\ WriteStatus(w, "passed", {}, results)
          /\ Commit(w, {}, "passed")
       \/ /\ named # {}
          /\ p.attempt < MAX_ATTEMPT
          /\ WriteStatus(w, "failed", named, results)
          /\ Commit(w, {GenerateTask(p.match, p.attempt + 1)}, "regenerate_enqueued")
       \/ /\ named # {}
          /\ p.attempt >= MAX_ATTEMPT
          /\ WriteStatus(w, "needs_review", named, results)
          /\ Commit(w, {}, "needs_review")

RunVerifyGraph(w) ==
    /\ workers[w].pc = "verify"
    /\ \E stage1 \in Verdicts, ground, coverage \in LLMVerdicts :
           \/ FailSafeNode(w, stage1, ground, coverage)
           \/ DecideNode(w, stage1, ground, coverage)
    /\ UNCHANGED <<quota, rowLock, clicks, tasks>>

-----------------------------------------------------------------------------
(* The end of a handler.                                                   *)

\* Mutant: a retryable error is answered like a permanent one.
AcknowledgesError(w) ==
    /\ workers[w].pc \in Uncommitted
    /\ workers' = [workers EXCEPT ![w] =
           [workers[w] EXCEPT !.pc = "respond", !.reply = "llm_permanent_failure"]]
    /\ UNCHANGED <<quota, rowLock, clicks, generations, tasks>>

\* A retryable LLM error (only an event is committed), any other exception or
\* a failing commit (rolled back): 5xx, nothing flushed.
HandlerFails(w) ==
    /\ workers[w].pc \in Uncommitted
    /\ workers' = [workers EXCEPT ![w] =
           [workers[w] EXCEPT !.pc = "respond", !.reply = "5xx"]]
    /\ UNCHANGED <<quota, rowLock, clicks, generations, tasks>>

\* Mutant: buffer.flush() is forgotten.
NoFlush(w) ==
    /\ workers[w].pc = "flush"
    /\ workers' = [workers EXCEPT ![w] =
           [workers[w] EXCEPT !.pc = "respond", !.buffer = {}]]
    /\ UNCHANGED <<quota, rowLock, clicks, generations, tasks>>

\* buffer.flush() after the commit: a handler of this loop buffers at most one
\* task.
Flush(w) ==
    /\ workers[w].pc = "flush"
    /\ \/ \E p \in workers[w].buffer : tasks' = Append(tasks, NewTask(p))
       \/ workers[w].buffer = {} /\ UNCHANGED tasks
    /\ workers' = [workers EXCEPT ![w] =
           [workers[w] EXCEPT !.pc = "respond", !.buffer = {}]]
    /\ UNCHANGED <<quota, rowLock, clicks, generations>>

\* The queue refuses the buffered task after the commit: nothing catches the
\* exception, the server answers 500 and the buffer is gone.
FlushFails(w) ==
    /\ workers[w].pc = "flush"
    /\ workers[w].buffer # {}
    /\ workers' = [workers EXCEPT ![w] =
           [workers[w] EXCEPT !.pc = "respond", !.buffer = {}, !.reply = "5xx"]]
    /\ UNCHANGED <<quota, rowLock, clicks, generations, tasks>>

\* Does the queue still wait for the answer of this execution?
Awaited(w) ==
    /\ tasks[workers[w].task].state = "posting"
    /\ tasks[workers[w].task].posts = workers[w].post

Respond(w) ==
    LET t == workers[w].task IN
    /\ workers[w].pc = "respond"
    /\ \/ /\ Awaited(w)
          /\ tasks' = [tasks EXCEPT ![t] =
                 IF workers[w].reply = "5xx" THEN AfterError(tasks[t])
                 ELSE [tasks[t] EXCEPT !.state = "done", !.outcome = workers[w].reply]]
       \/ ~Awaited(w) /\ UNCHANGED tasks
    /\ workers' = [workers EXCEPT ![w] = IdleWorker]
    /\ UNCHANGED <<quota, rowLock, clicks, generations>>

-----------------------------------------------------------------------------
(* Failures of the environment.                                            *)

\* The server instance that runs one handler dies: its open transaction and
\* its buffer are gone, the queue sees a transport error.
WorkerCrash(w) ==
    LET t == workers[w].task IN
    /\ workers[w].pc # "idle"
    /\ \/ Awaited(w) /\ tasks' = [tasks EXCEPT ![t] = AfterError(tasks[t])]
       \/ ~Awaited(w) /\ UNCHANGED tasks
    /\ workers' = [workers EXCEPT ![w] = IdleWorker]
    /\ UNCHANGED <<quota, rowLock, clicks, generations>>

\* The process dies with the local queue in it: the daemon threads that held
\* the tasks, the handlers and the open clicks go with it.
ProcessCrash ==
    /\ workers' = [w \in Workers |-> IdleWorker]
    /\ tasks' = [t \in DOMAIN tasks |->
           IF tasks[t].state \in {"queued", "posting"}
             THEN [tasks[t] EXCEPT !.state = "dropped"] ELSE tasks[t]]
    /\ rowLock' = [u \in Users |-> Free]
    /\ clicks' = [c \in Clicks |->
           IF clicks[c] \in {"consume", "enqueue", "commit"} THEN "error" ELSE clicks[c]]
    /\ UNCHANGED <<quota, generations>>

\* The post times out although its handler still runs: the queue posts again.
PostTimeout(t) ==
    /\ tasks[t].state = "posting"
    /\ tasks' = [tasks EXCEPT ![t] = AfterError(tasks[t])]
    /\ UNCHANGED <<quota, rowLock, clicks, generations, workers>>

-----------------------------------------------------------------------------
(* The specification, by what the environment may do.                      *)

Click(c) ==
    \/ TriggerRead(c)
    \/ TryConsumeQuota(c)
    \/ TriggerEnqueue(c)
    \/ TriggerCommit(c)

Handler(w) ==
    \/ GenerateOk(w)
    \/ GeneratePermanent(w)
    \/ RunVerifyGraph(w)
    \/ Flush(w)
    \/ Respond(w)

Work ==
    \/ \E c \in Clicks : Click(c)
    \/ \E w \in Workers : Handler(w)
    \/ \E t \in DOMAIN tasks, w \in Workers : Post(t, w)

\* Errors that the code answers with a rollback, a 5xx or a retry.
Error ==
    \/ \E c \in Clicks : TriggerRollback(c)
    \/ \E w \in Workers : HandlerFails(w)
    \/ \E t \in DOMAIN tasks : PostRefused(t)

\* A server or the queue fails between a commit and the flush that follows it,
\* or anywhere else.
Crash ==
    \/ \E w \in Workers : WorkerCrash(w)
    \/ \E w \in Workers : FlushFails(w)
    \/ ProcessCrash

Timeout == \E t \in DOMAIN tasks : PostTimeout(t)

Next == Work \/ Error \/ Crash \/ Timeout

Spec == Init /\ [][Next]_vars

-----------------------------------------------------------------------------
(* Properties                                                              *)

\* Every variable has the type of the table, queue or thread it models.
TypeOK ==
    /\ quota \in [Users -> Nat]
    /\ rowLock \in [Users -> Clicks \cup {Free}]
    /\ clicks \in [Clicks -> ClickPc]
    /\ generations \in Seq(Generation)
    /\ tasks \in Seq(Task)
    /\ workers \in [Workers -> Worker]

\* The clicks a user paid for.
Paid(u) == {c \in Clicks : clicks[c] = "enqueued" /\ Charged(c) = u}

\* trigger_generate and try_consume_quota: whatever clicks race, crash or roll
\* back, a user's quota has gone down by exactly the number of that user's
\* clicks that were answered "enqueued", and never below zero.
QuotaLedger ==
    \A u \in Users :
        /\ quota[u] >= 0
        /\ quota[u] + Cardinality(Paid(u)) = InitialQuota[u]

\* The tasks that a click put into the queue, for match m.
Roots(m) == {t \in DOMAIN tasks : tasks[t].payload = GenerateTask(m, 1)}

\* trigger_generate: no click is charged unless its own generate-resume task
\* has been handed to the queue.
ChargeIsDispatched ==
    \A m \in Matches :
        Cardinality({c \in Clicks : Target[c] = m /\ clicks[c] = "enqueued"})
            <= Cardinality(Roots(m))

\* BufferedTaskQueue: a verify-resume task, buffered or queued, names a row
\* that is committed, of the same match and attempt, so that its handler never
\* meets not_found.
PayloadNamesRow(p) ==
    p.kind = "verify-resume" =>
        /\ p.gen \in DOMAIN generations
        /\ generations[p.gen].match = p.match
        /\ generations[p.gen].attempt = p.attempt

FollowOnAfterCommit ==
    /\ \A t \in DOMAIN tasks : PayloadNamesRow(tasks[t].payload)
    /\ \A w \in Workers : \A p \in workers[w].buffer : PayloadNamesRow(p)

\* The verify graph: a resume is passed only on the word of all three stages;
\* it is failed or left to a human only with a named reason, and failed only
\* while a regenerate is left.
VerdictHasEvidence ==
    \A g \in DOMAIN generations :
        LET row == generations[g] IN
        /\ row.status = "passed" => row.clean
        /\ row.status \in {"failed", "needs_review"} => row.failures # {}
        /\ row.status = "failed" => row.attempt < MAX_ATTEMPT

\* _write_status: a passed resume has nothing named against it, so that the
\* handoff page shows no warning next to "Verification passed".
PassedNamesNothing ==
    \A g \in DOMAIN generations :
        generations[g].status = "passed" => generations[g].failures = {}

\* decide_node: a second attempt, as a row or as a task, exists only for a
\* match whose first attempt has a verdict.
Rejected(m) ==
    \E g \in GenerationsOf(m) :
        generations[g].attempt = 1 /\ generations[g].status # "null"

SecondAttemptHasCause ==
    /\ \A g \in DOMAIN generations :
           generations[g].attempt = 2 => Rejected(generations[g].match)
    /\ \A t \in DOMAIN tasks :
           tasks[t].payload.attempt = 2 => Rejected(tasks[t].payload.match)
    /\ \A w \in Workers : \A p \in workers[w].buffer :
           p.attempt = 2 => Rejected(p.match)

\* A task with payload p is in a buffer, or was handed to the queue, or, of the
\* latter, was not answered with a 2xx.
Buffered(p) == \E w \in Workers : p \in workers[w].buffer
HandedOver(p) == \E t \in DOMAIN tasks : tasks[t].payload = p
Unanswered(p) == \E t \in DOMAIN tasks : tasks[t].payload = p /\ tasks[t].state # "done"

\* TASKS_AND_HANDLERS.md on verify-resume: a resume is "never silently dropped".
\* A draft without a verdict has a verify-resume task that was not answered with
\* a 2xx, and a failed draft has had its regenerate handed to the queue, unless
\* the task that was to enqueue it can still be delivered again or was dropped
\* with a log line.
NeverSilentlyDropped ==
    \A g \in DOMAIN generations :
        LET row == generations[g]
            wrote == GenerateTask(row.match, row.attempt)
            judge == VerifyTask(row.match, row.attempt, g)
            again == GenerateTask(row.match, row.attempt + 1)
        IN
        /\ row.status = "null" => Buffered(judge) \/ Unanswered(judge) \/ Unanswered(wrote)
        /\ row.status = "failed" => Buffered(again) \/ HandedOver(again) \/ Unanswered(judge)

\* TASKS_AND_HANDLERS.md on generate-resume: "redelivery of the same attempt is
\* a no-op", so a match has at most one draft per attempt.
OneDraftPerAttempt ==
    \A g, h \in DOMAIN generations :
        /\ generations[g].match = generations[h].match
        /\ generations[g].attempt = generations[h].attempt
        => g = h

\* generate_resume: a task answered skipped_existing was redundant, its attempt
\* is in the table.
SkipIsRedundant ==
    \A t \in DOMAIN tasks :
        tasks[t].outcome = "skipped_existing" =>
            \E g \in GenerationsOf(tasks[t].payload.match) :
                generations[g].attempt = tasks[t].payload.attempt

\* trigger_generate: what the queue has been handed for a match was paid for,
\* or is about to be: a click that rolled back has dispatched nothing.
RollbackDispatchesNothing ==
    \A m \in Matches :
        Cardinality(Roots(m)) <=
            Cardinality({c \in Clicks : Target[c] = m /\ clicks[c] \in {"commit", "enqueued"}})

\* verify_resume: no step changes the verdict of a generation that has one
\* (skipped_verified), and no step takes a draft away.
VerdictIsFinal ==
    [][\A g \in DOMAIN generations :
          /\ g \in DOMAIN generations'
          /\ generations[g].status # "null" => generations'[g] = generations[g]]_vars

\* The loop is finished with match m: a resume is passed or with a human, or
\* the LLM refused for good, or a task ran out of deliveries.
Settled(m) ==
    \/ \E g \in GenerationsOf(m) : generations[g].status \in {"passed", "needs_review"}
    \/ \E t \in DOMAIN tasks :
          /\ tasks[t].payload.match = m
          /\ tasks[t].state = "dropped" \/ tasks[t].outcome = "llm_permanent_failure"
=============================================================================
