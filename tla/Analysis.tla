------------------------------ MODULE Analysis ------------------------------
(***************************************************************************)
(* Screening and the budgeted analysis.  match-batch writes a match row    *)
(* and enqueues screen-job, which labels the row; analyze-batch sums what  *)
(* analyze-match has recorded today, divides what is left of the budget by *)
(* the estimate and enqueues that many analyze-match tasks, best matches   *)
(* first; each writes one report per match and records its cost.           *)
(*                                                                         *)
(* A handler reads its rows first and commits last, and the queue may post *)
(* a task again before it was answered.  The day does not end.             *)
(*                                                                         *)
(* Left out: reasons and reports, the not_found returns (no code deletes   *)
(* rows), the user_ids payload, the events nothing here reads, and         *)
(* completions without usage metadata, which are recorded as free.         *)
(***************************************************************************)
EXTENDS Integers, FiniteSets

CONSTANTS
    Matches,     \* match rows, numbered in the order of their cycles
    SamePair,    \* the pairs of rows of the same user and job
    Score,       \* rerank_score of each row
    TopLabel,    \* the labels are ranked 1..TopLabel; 0 is NULL
    Batches,     \* requests to POST /handlers/analyze-batch
    Workers,     \* threads that can run screen-job or analyze-match
    MaxPosts,    \* _MAX_ATTEMPTS of the queue
    Budget,      \* ANALYSIS_DAILY_BUDGET_USD, in a small unit of money
    Estimate,    \* ANALYSIS_EST_COST_USD
    Costs,       \* what one completion may cost
    Statuses,    \* HTTP statuses an exception of an LLM client may carry, 0: none
    MatchBatch   \* the origin of the screen-job tasks

ASSUME AnalysisConstants ==
    /\ Matches \subseteq Int /\ IsFiniteSet(Matches) /\ Matches # {}
    /\ SamePair \subseteq Matches \X Matches
    /\ Score \in [Matches -> Int]
    /\ {TopLabel, MaxPosts, Estimate} \subseteq Nat \ {0}
    /\ Budget \in Nat
    /\ Costs \subseteq Nat /\ Statuses \subseteq Nat
    /\ MatchBatch \notin Batches

VARIABLES
    rows,      \* the matches table
    labels,    \* matches.qualification_label
    tasks,     \* screen-job and analyze-match, by who enqueued them and match
    workers,   \* the handler executions
    batches,   \* where each analyze-batch is, with what it read
    reports,   \* how many match_analyses rows each match has
    recorded,  \* sum of cost_usd over today's analyze-match events
    billed     \* what the LLM provider charged for the analysis stage

vars == <<rows, labels, tasks, workers, batches, reports, recorded, billed>>

-----------------------------------------------------------------------------
(* Vocabulary                                                              *)

Label == 0..TopLabel

Origins == Batches \cup {MatchBatch}
Keys == Origins \X Matches
Task == [state : {"none", "queued", "done"}, posts : 0..MaxPosts]

Worker == [pc : {"idle", "screen", "analyze"}, task : Keys]

Batch == [pc : {"idle", "summed", "flush", "done", "failed", "lost"},
          spent : Nat, chosen : SUBSET Matches]

Init ==
    /\ rows = {}
    /\ labels = [m \in Matches |-> 0]
    /\ tasks = [t \in Keys |-> [state |-> "none", posts |-> 0]]
    /\ workers = [w \in Workers |-> [pc |-> "idle", task |-> CHOOSE t \in Keys : TRUE]]
    /\ batches = [b \in Batches |-> [pc |-> "idle", spent |-> 0, chosen |-> {}]]
    /\ reports = [m \in Matches |-> 0]
    /\ recorded = 0
    /\ billed = 0

\* The task of a key is handed to the queue.
Enqueued(keys) ==
    [t \in Keys |-> IF t \in keys THEN [tasks[t] EXCEPT !.state = "queued"] ELSE tasks[t]]

-----------------------------------------------------------------------------
(* match-batch, as far as this module needs it: a row, and screen-job for  *)
(* a row that reaches SCREEN_SCORE_FLOOR.                                  *)

MatchWritten(m) ==
    /\ m \notin rows
    /\ \A n \in Matches : n < m => n \in rows
    /\ rows' = rows \cup {m}
    /\ tasks' \in {tasks, Enqueued({<<MatchBatch, m>>})}
    /\ UNCHANGED <<labels, workers, batches, reports, recorded, billed>>

-----------------------------------------------------------------------------
(* The queue and the start of the two handlers.                            *)

\* screen_job skips a match with a label, analyze_match one with a report.
Skips(t) == IF t[1] = MatchBatch THEN labels[t[2]] # 0 ELSE reports[t[2]] # 0

Post(w, t) ==
    /\ workers[w].pc = "idle"
    /\ tasks[t].state = "queued"
    /\ tasks[t].posts < MaxPosts
    /\ tasks' = [tasks EXCEPT ![t] =
           [state |-> IF Skips(t) THEN "done" ELSE "queued", posts |-> @.posts + 1]]
    /\ workers' = IF Skips(t) THEN workers
                  ELSE [workers EXCEPT ![w] =
                      [pc |-> IF t[1] = MatchBatch THEN "screen" ELSE "analyze", task |-> t]]
    /\ UNCHANGED <<rows, labels, batches, reports, recorded, billed>>

\* The post that w serves is answered with a 2xx.
Answered(w) ==
    /\ tasks' = [tasks EXCEPT ![workers[w].task].state = "done"]
    /\ workers' = [workers EXCEPT ![w].pc = "idle"]

-----------------------------------------------------------------------------
(* One LLM call: structured_call and the mapping of what a client raises.   *)

\* What the SDK says of an exception by its class; "parser" is a completion
\* that was billed and could not be read.
Raised == [class : {"config", "transient", "invalid", "parser", "unknown"}, status : Statuses]

\* classify_llm_status, for a status of 400 or more.
ClassifyStatus(status) ==
    IF status \in {401, 403, 404, 408, 429} \/ status >= 500 THEN "retryable" ELSE "permanent"

\* map_llm_exception: the class first, then the status, else a retry.
MapException(e) ==
    CASE e.class \in {"config", "transient"} -> "retryable"
      [] e.class = "invalid" -> "permanent"
      [] e.class = "parser" -> "malformed"
      [] e.class = "unknown" /\ e.status >= 400 -> ClassifyStatus(e.status)
      [] OTHER -> "retryable"

\* What one invocation ends in, and what the provider bills for it.
Answers ==
    [is : {"parsed", "malformed"}, cost : Costs] \cup
    UNION {[is : {MapException(e)}, cost : IF e.class = "parser" THEN Costs ELSE {0}] :
              e \in Raised}

\* structured_call: a malformed completion is asked for once more and is then
\* permanent; the caller is told the usage of the last completion only, and
\* none with an exception.
Calls ==
    LET Ended(first, last) ==
            [is |-> IF last.is = "malformed" THEN "permanent" ELSE last.is,
             usage |-> IF last.is = "parsed" THEN last.cost ELSE 0,
             billed |-> first + last.cost]
    IN  {Ended(0, a) : a \in {x \in Answers : x.is # "malformed"}} \cup
        {Ended(x.cost, a) : x \in {y \in Answers : y.is = "malformed"}, a \in Answers}

-----------------------------------------------------------------------------
(* screen-job after the LLM call.                                          *)

\* Mutant: the label is written unconditionally.
WriteLabelAlways(w, label) ==
    /\ workers[w].pc = "screen"
    /\ labels' = [labels EXCEPT ![workers[w].task[2]] = label]
    /\ Answered(w)
    /\ UNCHANGED <<rows, batches, reports, recorded, billed>>

\* _write_label: UPDATE ... WHERE qualification_label IS NULL.
WriteLabel(w, label) ==
    /\ workers[w].pc = "screen"
    /\ labels' = [labels EXCEPT ![workers[w].task[2]] = IF @ = 0 THEN label ELSE @]
    /\ Answered(w)
    /\ UNCHANGED <<rows, batches, reports, recorded, billed>>

\* missing_docs and llm_permanent_failure leave the label NULL.
ScreenPermanent(w) ==
    /\ workers[w].pc = "screen"
    /\ Answered(w)
    /\ UNCHANGED <<rows, labels, batches, reports, recorded, billed>>

-----------------------------------------------------------------------------
(* analyze-match after the LLM call.                                       *)

\* The savepoint around the insert: the loser of a race meets the unique
\* constraint, records its cost and answers skipped_analyzed.
Report(w, call) ==
    LET m == workers[w].task[2] IN
    /\ workers[w].pc = "analyze"
    /\ call.is = "parsed"
    /\ reports' = [reports EXCEPT ![m] = IF @ = 0 THEN 1 ELSE @]
    /\ recorded' = recorded + call.usage
    /\ billed' = billed + call.billed
    /\ Answered(w)
    /\ UNCHANGED <<rows, labels, batches>>

\* missing_docs, a poison request, or two malformed completions: a 2xx and an
\* event without a cost.
AnalyzePermanent(w, call) ==
    /\ workers[w].pc = "analyze"
    /\ call.is = "permanent"
    /\ billed' = billed + call.billed
    /\ Answered(w)
    /\ UNCHANGED <<rows, labels, batches, reports, recorded>>

\* A retryable error, an exception, a failing commit or a dying server: what
\* was paid by then is not recorded, and the task may be posted again.
HandlerFails(w, call) ==
    /\ workers[w].pc # "idle"
    /\ billed' = IF workers[w].pc = "analyze" THEN billed + call.billed ELSE billed
    /\ workers' = [workers EXCEPT ![w].pc = "idle"]
    /\ UNCHANGED <<rows, labels, tasks, batches, reports, recorded>>

-----------------------------------------------------------------------------
(* analyze-batch: two queries, then the commit and the flush.              *)

\* Mutant: today's spend is not looked at.
BatchForgetsSpend(b) ==
    /\ batches[b].pc = "idle"
    /\ batches' = [batches EXCEPT ![b].pc = "summed"]
    /\ UNCHANGED <<rows, labels, tasks, workers, reports, recorded, billed>>

\* _spent_today.
BatchSum(b) ==
    /\ batches[b].pc = "idle"
    /\ batches' = [batches EXCEPT ![b].pc = "summed", ![b].spent = recorded]
    /\ UNCHANGED <<rows, labels, tasks, workers, reports, recorded, billed>>

\* The newest row of its user and job.
Latest(m) == \A n \in rows : <<m, n>> \in SamePair => n <= m

\* Mutant: unscreened rows are eligible.
EligibleUnscreened == {m \in rows : Latest(m) /\ reports[m] = 0}

Eligible == {m \in rows : Latest(m) /\ labels[m] # 0 /\ reports[m] = 0}

\* Label first, then score, then the newer cycle.
Better(m, n) ==
    \/ labels[m] > labels[n]
    \/ labels[m] = labels[n] /\ Score[m] > Score[n]
    \/ labels[m] = labels[n] /\ Score[m] = Score[n] /\ m > n

TaskCount(spent) == (IF spent < Budget THEN Budget - spent ELSE 0) \div Estimate

\* _select_candidates.
BatchSelect(b) ==
    /\ batches[b].pc = "summed"
    /\ batches' = [batches EXCEPT ![b].pc = "flush", ![b].chosen =
           {m \in Eligible :
               Cardinality({n \in Eligible : Better(n, m)}) < TaskCount(batches[b].spent)}]
    /\ UNCHANGED <<rows, labels, tasks, workers, reports, recorded, billed>>

BatchFlush(b) ==
    /\ batches[b].pc = "flush"
    /\ tasks' = Enqueued({b} \X batches[b].chosen)
    /\ batches' = [batches EXCEPT ![b].pc = "done"]
    /\ UNCHANGED <<rows, labels, workers, reports, recorded, billed>>

\* An exception before the commit.
BatchFails(b) ==
    /\ batches[b].pc \in {"summed", "flush"}
    /\ batches' = [batches EXCEPT ![b].pc = "failed", ![b].chosen = {}]
    /\ UNCHANGED <<rows, labels, tasks, workers, reports, recorded, billed>>

\* The flush stops in the middle.
BatchFlushFails(b) ==
    /\ batches[b].pc = "flush"
    /\ \E sent \in SUBSET batches[b].chosen : tasks' = Enqueued({b} \X sent)
    /\ batches' = [batches EXCEPT ![b].pc = "lost"]
    /\ UNCHANGED <<rows, labels, workers, reports, recorded, billed>>

-----------------------------------------------------------------------------
(* Specifications.                                                         *)

\* Everything but the start of a handler and of a batch.
Rest ==
    \/ \E m \in Matches : MatchWritten(m)
    \/ \E w \in Workers :
          \/ \E label \in Label \ {0} : WriteLabel(w, label)
          \/ ScreenPermanent(w)
          \/ \E call \in Calls : Report(w, call) \/ AnalyzePermanent(w, call) \/ HandlerFails(w, call)
    \/ \E b \in Batches : BatchSelect(b) \/ BatchFlush(b) \/ BatchFails(b) \/ BatchFlushFails(b)

Next ==
    \/ Rest
    \/ \E w \in Workers, t \in Keys : Post(w, t)
    \/ \E b \in Batches : BatchSum(b)

\* Some analyze-match may still run, or a batch is about to enqueue some.
Outstanding ==
    \/ \E b \in Batches : batches[b].pc \in {"summed", "flush"}
    \/ \E t \in Batches \X Matches : tasks[t].state = "queued" /\ tasks[t].posts < MaxPosts
    \/ \E w \in Workers : workers[w].pc = "analyze"

\* A batch waits for the tasks of the one before, a post for its answer.
CalmNext ==
    \/ Rest
    \/ \E w \in Workers, t \in Keys :
          Post(w, t) /\ \A v \in Workers : workers[v].pc # "idle" => workers[v].task # t
    \/ \E b \in Batches : BatchSum(b) /\ ~Outstanding

Spec == Init /\ [][Next]_vars
CalmSpec == Init /\ [][CalmNext]_vars

-----------------------------------------------------------------------------
(* Properties                                                              *)

\* Every variable has the type of the table, task or request it models.
TypeOK ==
    /\ rows \subseteq Matches
    /\ labels \in [Matches -> Label]
    /\ tasks \in [Keys -> Task]
    /\ workers \in [Workers -> Worker]
    /\ batches \in [Batches -> Batch]
    /\ reports \in [Matches -> Nat]
    /\ recorded \in Nat
    /\ billed \in Nat

\* screen_job: whatever deliveries race, the first label written to a match
\* stays; the feed never reorders on a redelivery.
LabelIsFinal ==
    [][\A m \in Matches : labels[m] # 0 => labels'[m] = labels[m]]_vars

\* analyze_match: "one analysis per match row", although batches and posts that
\* race may pay for several.
OneReportPerMatch == \A m \in Matches : reports[m] <= 1

\* analyze_batch: only screened matches are paid for; a report, or a task for
\* one, never precedes the label.
ReportsFollowScreens ==
    \A m \in Matches :
        reports[m] # 0 \/ (\E b \in Batches : tasks[<<b, m>>].state # "none")
            => labels[m] # 0

\* COST_MODEL.md on ANALYSIS_DAILY_BUDGET_USD: "hard cap on qualification-report
\* spend".  The provider bills no more than the budget in a day.
WithinBudget == billed <= Budget
=============================================================================
