--------------------------- MODULE AnalysisProofs ---------------------------
(***************************************************************************)
(* Proofs about Analysis, for any finite set of matches and any numbers of *)
(* workers, batches and posts.                                             *)
(***************************************************************************)
EXTENDS MCAnalysis, TLAPS, FiniteSetTheorems

\* A worker runs the handler of its task, and analyze-match only what a batch
\* has enqueued.
WorkerOK(w) ==
    /\ workers[w].pc = "screen" => workers[w].task[1] = MatchBatch
    /\ workers[w].pc = "analyze" =>
           workers[w].task[1] \in Batches /\ tasks[workers[w].task].state # "none"

\* What a batch has chosen was screened.
ChosenOK(b) == \A m \in batches[b].chosen : labels[m] # 0

IInv ==
    /\ TypeOK
    /\ \A w \in Workers : WorkerOK(w)
    /\ \A b \in Batches : ChosenOK(b)
    /\ ReportsFollowScreens

-----------------------------------------------------------------------------
(* Lemmas on the operators.                                                *)

\* Only a completion that was read is reported with a usage, its own cost.
LEMMA CallCosts ==
    ASSUME NEW call \in Calls
    PROVE  /\ call.usage \in Nat /\ call.billed \in Nat
           /\ call.is = "parsed" => call.usage \in Costs
  <1> DEFINE Ended(first, last) ==
            [is |-> IF last.is = "malformed" THEN "permanent" ELSE last.is,
             usage |-> IF last.is = "parsed" THEN last.cost ELSE 0,
             billed |-> first + last.cost]
  <1>0. Costs \cup {0} \subseteq Nat
    BY AnalysisConstants
  <1>1. \A e \in Raised : MapException(e) # "parsed"
    BY DEF Raised, MapException, ClassifyStatus
  <1>2. ASSUME NEW a \in Answers
        PROVE  a.cost \in Nat /\ (a.is = "parsed" => a.cost \in Costs)
    <2>1. CASE a \in [is : {"parsed", "malformed"}, cost : Costs]
      BY <2>1, AnalysisConstants
    <2>2. ASSUME NEW e \in Raised,
                 a \in [is : {MapException(e)}, cost : IF e.class = "parser" THEN Costs ELSE {0}]
          PROVE  a.cost \in Nat /\ a.is # "parsed"
      <3>1. a.is = MapException(e) /\ a.cost \in Costs \cup {0}
        BY <2>2
      <3>2. a.is # "parsed"
        BY <1>1, <3>1
      <3>3. a.cost \in Nat
        BY <1>0, <3>1
      <3> QED
        BY <3>2, <3>3
    <2> QED
      BY <2>1, <2>2 DEF Answers
  <1>3. \/ \E a \in Answers : call = Ended(0, a)
        \/ \E x \in Answers, a \in Answers : call = Ended(x.cost, a)
    BY DEF Calls
  <1> QED
    BY <1>2, <1>3

\* A task that is handed to the queue is queued, and no other one changes.
LEMMA EnqueuedTasks ==
    ASSUME TypeOK, NEW S \in SUBSET Keys
    PROVE  /\ Enqueued(S) \in [Keys -> Task]
           /\ \A t \in S : Enqueued(S)[t].state = "queued"
           /\ \A t \in Keys \ S : Enqueued(S)[t] = tasks[t]
  BY DEF Enqueued, TypeOK, Task

LEMMA KeyParts ==
    /\ \A t \in Keys : t[1] \in Origins /\ t[2] \in Matches
    /\ \A t \in Keys : t[1] # MatchBatch => t[1] \in Batches
    /\ \A b \in Batches, m \in Matches : <<b, m>> \in Keys /\ <<b, m>>[1] # MatchBatch
    /\ \A m \in Matches : <<MatchBatch, m>> \in Keys
  BY AnalysisConstants DEF Keys, Origins

-----------------------------------------------------------------------------
(* One lemma per group of steps.                                           *)

\* A post is answered: its worker becomes idle and its task is done.
LEMMA AnsweredTask ==
    ASSUME IInv, NEW w \in Workers, Answered(w)
    PROVE  /\ tasks' \in [Keys -> Task] /\ workers' \in [Workers -> Worker]
           /\ \A t \in Keys : tasks'[t].state = "none" <=>
                                  tasks[t].state = "none" /\ t # workers[w].task
           /\ \A v \in Workers : workers'[v].pc = "idle" \/ (workers'[v] = workers[v] /\ v # w)
           /\ \A t \in Keys : t # workers[w].task => tasks'[t] = tasks[t]
  <1> DEFINE k == workers[w].task
  <1>1. k \in Keys /\ tasks[k] \in Task /\ workers[w] \in Worker
    BY DEF IInv, TypeOK, Worker
  <1>2. /\ tasks' = [tasks EXCEPT ![k] = [tasks[k] EXCEPT !.state = "done"]]
        /\ workers' = [workers EXCEPT ![w] = [workers[w] EXCEPT !.pc = "idle"]]
    BY DEF Answered, IInv, TypeOK
  <1>3. [tasks[k] EXCEPT !.state = "done"] \in Task /\ [workers[w] EXCEPT !.pc = "idle"] \in Worker
    BY <1>1 DEF Task, Worker
  <1>4. tasks'[k] = [tasks[k] EXCEPT !.state = "done"] /\ tasks'[k].state = "done"
    BY <1>1, <1>2 DEF IInv, TypeOK, Task
  <1>5. \A t \in Keys : t # k => tasks'[t] = tasks[t]
    BY <1>2 DEF IInv, TypeOK
  <1>6. \A v \in Workers : workers'[v].pc = "idle" \/ (workers'[v] = workers[v] /\ v # w)
    <2>1. workers'[w].pc = "idle"
      BY <1>1, <1>2 DEF IInv, TypeOK, Worker
    <2>2. \A v \in Workers \ {w} : workers'[v] = workers[v]
      BY <1>2 DEF IInv, TypeOK
    <2> QED
      BY <2>1, <2>2
  <1>7. tasks' \in [Keys -> Task] /\ workers' \in [Workers -> Worker]
    BY <1>2, <1>3 DEF IInv, TypeOK
  <1> QED
    BY <1>4, <1>5, <1>6, <1>7

\* What a step has to show: labels stay, a task never returns to "none", and
\* what is new in the tasks, the reports and the choices has a label.
LEMMA Preserved ==
    ASSUME IInv, TypeOK',
           \A m \in Matches : labels[m] # 0 => labels'[m] # 0,
           \A t \in Keys : tasks[t].state # "none" => tasks'[t].state # "none",
           \A b \in Batches, m \in Matches :
               tasks'[<<b, m>>].state # "none" =>
                   tasks[<<b, m>>].state # "none" \/ labels[m] # 0,
           \A m \in Matches : reports'[m] # 0 => reports[m] # 0 \/ labels[m] # 0,
           \A w \in Workers :
               workers'[w].pc = "idle" \/ workers'[w] = workers[w] \/ WorkerOK(w)',
           \A b \in Batches : batches'[b].chosen = batches[b].chosen \/ ChosenOK(b)'
    PROVE  IInv'
  <1>1. ASSUME NEW w \in Workers PROVE WorkerOK(w)'
    <2>1. workers[w].task \in Keys
      BY DEF IInv, TypeOK, Worker
    <2> QED
      BY <2>1 DEF IInv, WorkerOK
  <1>2. ASSUME NEW b \in Batches PROVE ChosenOK(b)'
    <2>1. batches[b].chosen \subseteq Matches
      BY DEF IInv, TypeOK, Batch
    <2> QED
      BY <2>1 DEF IInv, ChosenOK
  <1>3. ReportsFollowScreens'
    BY DEF IInv, ReportsFollowScreens
  <1> QED
    BY <1>1, <1>2, <1>3 DEF IInv

LEMMA MatchWrittenStep ==
    ASSUME IInv, NEW m \in Matches, MatchWritten(m)
    PROVE  IInv'
  <1> DEFINE S == {<<MatchBatch, m>>}
  <1>1. S \in SUBSET Keys
    BY KeyParts
  <1>2. tasks' = tasks \/ tasks' = Enqueued(S)
    BY DEF MatchWritten
  <1>3. /\ tasks' \in [Keys -> Task]
        /\ \A t \in Keys : tasks[t].state # "none" => tasks'[t].state # "none"
        /\ \A b \in Batches, n \in Matches : tasks'[<<b, n>>] = tasks[<<b, n>>]
    <2>1. \A b \in Batches, n \in Matches : <<b, n>> \in Keys \ S
      BY KeyParts, AnalysisConstants
    <2>2. TypeOK
      BY DEF IInv
    <2> HIDE DEF S
    <2> QED
      BY <1>1, <1>2, <2>1, <2>2, EnqueuedTasks DEF TypeOK
  <1>4. TypeOK'
    BY <1>3 DEF MatchWritten, IInv, TypeOK
  <1> QED
    BY <1>3, <1>4, Preserved DEF MatchWritten

LEMMA PostStep ==
    ASSUME IInv, NEW w \in Workers, NEW t \in Keys, Post(w, t)
    PROVE  IInv'
  <1> DEFINE x == [state |-> IF Skips(t) THEN "done" ELSE "queued", posts |-> tasks[t].posts + 1]
             y == [pc |-> IF t[1] = MatchBatch THEN "screen" ELSE "analyze", task |-> t]
  <1>1. tasks' = [tasks EXCEPT ![t] = x] /\ tasks[t].state = "queued" /\ tasks[t].posts < MaxPosts
    BY DEF Post, IInv, TypeOK
  <1>2. workers' = workers \/ workers' = [workers EXCEPT ![w] = y]
    BY DEF Post
  <1>3. x \in Task /\ y \in Worker
    <2>1. tasks[t].posts + 1 \in 0..MaxPosts
      BY <1>1, AnalysisConstants DEF IInv, TypeOK, Task
    <2> QED
      BY <2>1 DEF Task, Worker
  <1>4. TypeOK'
    BY <1>1, <1>2, <1>3 DEF Post, IInv, TypeOK
  <1>5. \A k \in Keys : tasks[k].state # "none" <=> tasks'[k].state # "none"
    BY <1>1, <1>3 DEF IInv, TypeOK, Task
  <1>6. ASSUME NEW v \in Workers PROVE workers'[v] = workers[v] \/ WorkerOK(v)'
    <2>1. workers'[v] = workers[v] \/ workers'[v] = y
      BY <1>2 DEF IInv, TypeOK
    <2>2. y.task = t /\ (y.pc = "screen" <=> t[1] = MatchBatch) /\ y.pc # "idle"
      OBVIOUS
    <2>3. tasks'[t].state # "none"
      BY <1>1, <1>5
    <2> HIDE DEF y
    <2> QED
      BY <2>1, <2>2, <2>3, <1>3, KeyParts DEF WorkerOK
  <1> QED
    <2>1. \A b \in Batches, m \in Matches : <<b, m>> \in Keys
      BY KeyParts
    <2> QED
      BY <1>4, <1>5, <1>6, <2>1, Preserved DEF Post

\* Steps that only answer a post, or give up on it.
LEMMA ServedStep ==
    ASSUME IInv, NEW w \in Workers,
           \/ \E label \in Label \ {0} : WriteLabel(w, label)
           \/ ScreenPermanent(w)
           \/ \E call \in Calls : Report(w, call) \/ AnalyzePermanent(w, call) \/ HandlerFails(w, call)
    PROVE  IInv'
  <1> DEFINE k == workers[w].task
  <1>1. k \in Keys /\ k[2] \in Matches /\ \A b \in Batches, m \in Matches : <<b, m>> \in Keys
    BY KeyParts DEF IInv, TypeOK, Worker
  <1>2. workers[w].pc # "idle" /\ rows' = rows /\ batches' = batches
    BY DEF WriteLabel, ScreenPermanent, Report, AnalyzePermanent, HandlerFails
  <1>3. /\ tasks' \in [Keys -> Task] /\ workers' \in [Workers -> Worker]
        /\ \A t \in Keys : tasks[t].state # "none" => tasks'[t].state # "none"
        /\ \A v \in Workers : workers'[v].pc = "idle" \/ workers'[v] = workers[v]
        /\ \A t \in Keys : t # k => tasks'[t] = tasks[t]
    <2>1. CASE Answered(w)
      BY <2>1, AnsweredTask
    <2>2. ASSUME NEW call \in Calls, HandlerFails(w, call)
          PROVE  /\ tasks' = tasks /\ workers' \in [Workers -> Worker]
                 /\ \A v \in Workers : workers'[v].pc = "idle" \/ workers'[v] = workers[v]
      BY <2>2 DEF HandlerFails, IInv, TypeOK, Worker
    <2>3. tasks \in [Keys -> Task]
      BY DEF IInv, TypeOK
    <2> QED
      BY <2>1, <2>2, <2>3 DEF WriteLabel, ScreenPermanent, Report, AnalyzePermanent
  <1>4. \A b \in Batches, m \in Matches :
            tasks'[<<b, m>>].state # "none" => tasks[<<b, m>>].state # "none"
    <2>1. workers[w].pc = "screen" => \A b \in Batches, m \in Matches : <<b, m>> # k
      BY AnalysisConstants DEF IInv, WorkerOK
    <2>2. workers[w].pc = "analyze" => tasks[k].state # "none"
      BY DEF IInv, WorkerOK
    <2>3. workers[w].pc \in {"screen", "analyze"}
      BY <1>2 DEF IInv, TypeOK, Worker
    <2> QED
      BY <1>1, <1>3, <2>1, <2>2, <2>3
  <1>5. /\ labels' \in [Matches -> Label]
        /\ \A m \in Matches : labels[m] # 0 => labels'[m] # 0
    <2>1. ASSUME NEW label \in Label \ {0}, WriteLabel(w, label)
          PROVE  labels' = [labels EXCEPT ![k[2]] = IF labels[k[2]] = 0 THEN label ELSE labels[k[2]]]
      BY <1>1, <2>1 DEF WriteLabel, IInv, TypeOK
    <2>2. labels' = labels \/ \E label \in Label \ {0} : WriteLabel(w, label)
      BY DEF ScreenPermanent, Report, AnalyzePermanent, HandlerFails
    <2> QED
      BY <1>1, <2>1, <2>2 DEF IInv, TypeOK, Label
  <1>6. /\ reports' \in [Matches -> Nat] /\ recorded' \in Nat /\ billed' \in Nat
        /\ \A m \in Matches : reports'[m] # 0 => reports[m] # 0 \/ labels[m] # 0
    <2>1. ASSUME NEW call \in Calls, Report(w, call)
          PROVE  /\ reports' = [reports EXCEPT ![k[2]] = IF reports[k[2]] = 0 THEN 1 ELSE reports[k[2]]]
                 /\ labels[k[2]] # 0
                 /\ recorded' = recorded + call.usage /\ billed' = billed + call.billed
      <3>1. workers[w].pc = "analyze"
        BY <2>1 DEF Report
      <3>2. k = <<k[1], k[2]>> /\ k[1] \in Batches /\ tasks[k].state # "none"
        BY <1>1, <3>1 DEF IInv, WorkerOK, Keys
      <3>3. labels[k[2]] # 0
        BY <1>1, <3>2 DEF IInv, ReportsFollowScreens
      <3> QED
        BY <1>1, <2>1, <3>3 DEF Report, IInv, TypeOK
    <2>2. \/ \E call \in Calls : Report(w, call)
          \/ /\ reports' = reports /\ recorded' = recorded
             /\ billed' = billed \/ \E call \in Calls : billed' = billed + call.billed
      BY DEF WriteLabel, ScreenPermanent, AnalyzePermanent, HandlerFails
    <2>3. reports \in [Matches -> Nat] /\ recorded \in Nat /\ billed \in Nat
      BY DEF IInv, TypeOK
    <2>4. CASE \E call \in Calls : Report(w, call)
      <3>1. PICK call \in Calls : Report(w, call)
        BY <2>4
      <3>2. recorded' \in Nat /\ billed' \in Nat
        BY <2>1, <2>3, <3>1, CallCosts
      <3> QED
        BY <1>1, <2>1, <2>3, <3>1, <3>2
    <2>5. CASE /\ reports' = reports /\ recorded' = recorded
               /\ billed' = billed \/ \E call \in Calls : billed' = billed + call.billed
      BY <2>3, <2>5, CallCosts
    <2> QED
      BY <2>2, <2>4, <2>5
  <1>7. TypeOK'
    BY <1>2, <1>3, <1>5, <1>6 DEF IInv, TypeOK
  <1> QED
    BY <1>2, <1>3, <1>4, <1>5, <1>6, <1>7, Preserved

LEMMA BatchStep ==
    ASSUME IInv, NEW b \in Batches,
           BatchSum(b) \/ BatchSelect(b) \/ BatchFlush(b) \/ BatchFails(b) \/ BatchFlushFails(b)
    PROVE  IInv'
  <1>1. /\ labels' = labels /\ rows' = rows /\ workers' = workers /\ reports' = reports
        /\ recorded' = recorded /\ billed' = billed
    BY DEF BatchSum, BatchSelect, BatchFlush, BatchFails, BatchFlushFails
  <1>2. /\ batches' \in [Batches -> Batch]
        /\ \A c \in Batches : batches'[c].chosen = batches[c].chosen \/ ChosenOK(c)'
    <2>1. batches \in [Batches -> Batch] /\ rows \subseteq Matches /\ recorded \in Nat
      BY DEF IInv, TypeOK
    <2>2. CASE BatchSum(b)
      BY <2>1, <2>2 DEF BatchSum, Batch
    <2>3. CASE BatchSelect(b)
      <3> DEFINE S == {m \in Eligible :
                 Cardinality({n \in Eligible : Better(n, m)}) < TaskCount(batches[b].spent)}
      <3>1. batches' = [batches EXCEPT ![b].pc = "flush", ![b].chosen = S]
        BY <2>3 DEF BatchSelect
      <3>2. S \subseteq Matches /\ \A m \in S : labels'[m] # 0
        BY <1>1, <2>1 DEF Eligible
      <3> HIDE DEF S
      <3> QED
        BY <2>1, <3>1, <3>2 DEF Batch, ChosenOK
    <2>4. CASE BatchFlush(b) \/ BatchFlushFails(b)
      BY <2>1, <2>4 DEF BatchFlush, BatchFlushFails, Batch
    <2>5. CASE BatchFails(b)
      BY <2>1, <2>5 DEF BatchFails, Batch, ChosenOK
    <2> QED
      BY <2>2, <2>3, <2>4, <2>5
  <1>3. /\ tasks' \in [Keys -> Task]
        /\ \A t \in Keys : tasks[t].state # "none" => tasks'[t].state # "none"
        /\ \A c \in Batches, m \in Matches :
               tasks'[<<c, m>>].state # "none" => tasks[<<c, m>>].state # "none" \/ labels[m] # 0
    <2>1. CASE tasks' = tasks
      BY <2>1 DEF IInv, TypeOK
    <2>2. ASSUME NEW sent \in SUBSET batches[b].chosen, tasks' = Enqueued({b} \X sent)
          PROVE  <1>3
      <3>1. sent \subseteq Matches /\ \A m \in sent : labels[m] # 0
        BY <2>2 DEF IInv, TypeOK, Batch, ChosenOK
      <3>2. {b} \X sent \in SUBSET Keys
        BY <3>1 DEF Keys, Origins
      <3>3. \A c \in Batches, m \in Matches : <<c, m>> \in Keys
        BY KeyParts
      <3>4. TypeOK
        BY DEF IInv
      <3> QED
        BY <2>2, <3>1, <3>2, <3>3, <3>4, EnqueuedTasks
    <2>3. tasks' = tasks \/ \E sent \in SUBSET batches[b].chosen : tasks' = Enqueued({b} \X sent)
      BY DEF BatchSum, BatchSelect, BatchFlush, BatchFails, BatchFlushFails
    <2> QED
      BY <2>1, <2>2, <2>3
  <1>4. TypeOK'
    BY <1>1, <1>2, <1>3 DEF IInv, TypeOK
  <1> QED
    BY <1>1, <1>2, <1>3, <1>4, Preserved

-----------------------------------------------------------------------------
(* The theorems of Spec.                                                   *)

LEMMA InitialState == Init => IInv
  <1> SUFFICES ASSUME Init PROVE IInv
    OBVIOUS
  <1>1. (CHOOSE t \in Keys : TRUE) \in Keys
    <2>1. PICK m \in Matches : TRUE
      BY AnalysisConstants
    <2>2. <<MatchBatch, m>> \in Keys
      BY KeyParts
    <2> QED
      BY <2>2
  <1>2. 0 \in Label /\ 0 \in 0..MaxPosts
    BY AnalysisConstants DEF Label
  <1>3. [state |-> "none", posts |-> 0] \in Task /\ \A t \in Keys : tasks[t].state = "none"
    BY <1>2 DEF Init, Task
  <1>4. TypeOK
    BY <1>1, <1>2, <1>3 DEF Init, TypeOK, Worker, Batch
  <1>5. ReportsFollowScreens
    BY <1>3, KeyParts DEF Init, ReportsFollowScreens
  <1> QED
    BY <1>4, <1>5 DEF IInv, Init, WorkerOK, ChosenOK

LEMMA NextStep == IInv /\ [Next]_vars => IInv'
  <1> SUFFICES ASSUME IInv, [Next]_vars PROVE IInv'
    OBVIOUS
  <1>1. ASSUME NEW m \in Matches, MatchWritten(m) PROVE IInv'
    BY <1>1, MatchWrittenStep
  <1>2. ASSUME NEW w \in Workers, NEW t \in Keys, Post(w, t) PROVE IInv'
    BY <1>2, PostStep
  <1>3. ASSUME NEW w \in Workers,
               \/ \E label \in Label \ {0} : WriteLabel(w, label)
               \/ ScreenPermanent(w)
               \/ \E call \in Calls :
                     Report(w, call) \/ AnalyzePermanent(w, call) \/ HandlerFails(w, call)
        PROVE  IInv'
    BY <1>3, ServedStep
  <1>4. ASSUME NEW b \in Batches,
               BatchSum(b) \/ BatchSelect(b) \/ BatchFlush(b) \/ BatchFails(b) \/ BatchFlushFails(b)
        PROVE  IInv'
    BY <1>4, BatchStep
  <1>5. CASE UNCHANGED vars
    BY <1>5 DEF vars, IInv, TypeOK, WorkerOK, ChosenOK, ReportsFollowScreens
  <1> QED
    BY <1>1, <1>2, <1>3, <1>4, <1>5 DEF Next, Rest

\* Whatever is posted again, fails or races, what workers and batches hold was
\* screened.
THEOREM Invariance == Spec => []IInv
  BY InitialState, NextStep, PTL DEF Spec

\* The types of the rows, tasks and handler executions.
THEOREM TypeCorrect == Spec => []TypeOK
  BY Invariance, PTL DEF IInv

\* A report, or a task for one, never precedes the label of its match.
THEOREM ReportsAreScreened == Spec => []ReportsFollowScreens
  BY Invariance, PTL DEF IInv

\* The first label written to a match stays.
THEOREM LabelsAreFinal == Spec => LabelIsFinal
<1>1. ASSUME TypeOK, [Next]_vars, NEW m \in Matches, labels[m] # 0
      PROVE  labels'[m] = labels[m]
  <2>1. labels' = labels \/ \E w \in Workers, label \in Label : WriteLabel(w, label)
    BY <1>1 DEF Next, Rest, vars, MatchWritten, Post, ScreenPermanent, Report,
                AnalyzePermanent, HandlerFails, BatchSum, BatchSelect, BatchFlush,
                BatchFails, BatchFlushFails
  <2> QED
    BY <1>1, <2>1 DEF WriteLabel, TypeOK
<1>2. TypeOK /\ [Next]_vars => [\A m \in Matches : labels[m] # 0 => labels'[m] = labels[m]]_vars
  BY <1>1
<1> QED
  BY <1>2, TypeCorrect, PTL DEF Spec, LabelIsFinal

-----------------------------------------------------------------------------
(* The budget, while every batch waits for the tasks of the one before.    *)

\* The analyses that may still be paid for.
Owed == {t \in Batches \X Matches :
            /\ tasks[t].state = "queued"
            /\ \/ tasks[t].posts < MaxPosts
               \/ \E w \in Workers : workers[w].pc = "analyze" /\ workers[w].task = t}

\* One handler per task, and a task stays queued until it is answered.
PostsApart ==
    /\ \A v, w \in Workers :
          workers[v].pc # "idle" /\ workers[w].pc # "idle" /\ v # w =>
              workers[v].task # workers[w].task
    /\ \A w \in Workers : workers[w].pc = "analyze" => tasks[workers[w].task].state = "queued"

\* At the estimate, what is owed still fits the budget.
OwedFits ==
    /\ IsFiniteSet(Owed)
    /\ recorded + Estimate * Cardinality(Owed) <= Budget

\* A batch has summed and chosen alone, with nothing owed, and its choice fits.
ChoiceFits(b) ==
    batches[b].pc \in {"summed", "flush"} =>
        /\ Owed = {}
        /\ \A c \in Batches : batches[c].pc \in {"summed", "flush"} => c = b
        /\ batches[b].pc = "summed" => batches[b].spent = recorded
        /\ batches[b].pc = "flush" =>
               recorded + Estimate * Cardinality(batches[b].chosen) <= Budget

BudgetOK == billed = recorded /\ PostsApart /\ OwedFits /\ \A b \in Batches : ChoiceFits(b)

-----------------------------------------------------------------------------
(* Arithmetic of the choice.                                               *)

\* Dividing by the estimate and multiplying again does not exceed the rest.
LEMMA CountFits ==
    ASSUME NEW spent \in Nat, spent <= Budget
    PROVE  TaskCount(spent) \in Nat /\ spent + Estimate * TaskCount(spent) <= Budget
  <1>1. Estimate \in Nat \ {0} /\ Budget \in Nat
    BY AnalysisConstants
  <1>2. \A x \in Nat, e \in Nat \ {0} : x \div e \in Nat /\ e * (x \div e) <= x
    OBVIOUS
  <1>3. CASE spent < Budget
    <2>1. Budget - spent \in Nat /\ TaskCount(spent) = (Budget - spent) \div Estimate
      BY <1>1, <1>3 DEF TaskCount
    <2>2. /\ (Budget - spent) \div Estimate \in Nat
          /\ Estimate * ((Budget - spent) \div Estimate) <= Budget - spent
      BY <1>1, <1>2, <2>1
    <2> QED
      BY <1>1, <2>1, <2>2
  <1>4. CASE spent = Budget
    <2>1. TaskCount(spent) = 0 \div Estimate
      BY <1>1, <1>4 DEF TaskCount
    <2>2. 0 \div Estimate \in Nat /\ Estimate * (0 \div Estimate) <= 0
      BY <1>1, <1>2
    <2> QED
      BY <1>1, <1>4, <2>1, <2>2
  <1> QED
    BY <1>1, <1>3, <1>4

LEMMA TimesMonotone ==
    ASSUME NEW e \in Nat, NEW x \in Nat, NEW y \in Nat, x <= y
    PROVE  e * x <= e * y
  OBVIOUS

\* Better is a strict linear order of the rows.
LEMMA BetterOrder ==
    ASSUME TypeOK
    PROVE  /\ \A m, n \in Matches : m # n => Better(m, n) \/ Better(n, m)
           /\ \A m \in Matches : ~Better(m, m)
           /\ \A l, m, n \in Matches : Better(l, m) /\ Better(m, n) => Better(l, n)
  <1>1. \A m \in Matches : m \in Int /\ labels[m] \in Int /\ Score[m] \in Int
    BY AnalysisConstants DEF TypeOK, Label
  <1> QED
    BY <1>1 DEF Better

\* Those that fewer than k others beat are no more than k.
LEMMA ChoiceSize ==
    ASSUME TypeOK, NEW k \in Nat, NEW E \in SUBSET Matches
    PROVE  LET S == {m \in E : Cardinality({n \in E : Better(n, m)}) < k}
           IN  IsFiniteSet(S) /\ Cardinality(S) <= k
  <1> DEFINE above(m) == {n \in E : Better(n, m)}
             S == {m \in E : Cardinality(above(m)) < k}
             rank == [m \in S |-> Cardinality(above(m))]
  <1>1. ASSUME NEW m \in E
        PROVE  IsFiniteSet(above(m)) /\ Cardinality(above(m)) \in Nat
    <2>1. IsFiniteSet(E)
      BY AnalysisConstants, FS_Subset
    <2>2. IsFiniteSet(above(m))
      BY <2>1, FS_Subset
    <2> QED
      BY <2>2, FS_CardinalityType
  <1>2. ASSUME NEW m \in E, NEW n \in E, Better(m, n)
        PROVE  Cardinality(above(m)) # Cardinality(above(n))
    <2>1. above(m) \subseteq above(n) /\ m \in above(n) /\ m \notin above(m)
      BY <1>2, BetterOrder
    <2>2. above(m) \in SUBSET above(n) /\ above(n) # above(m)
      BY <2>1
    <2> HIDE DEF above
    <2> QED
      BY <1>1, <2>2, FS_Subset
  <1>3. rank \in Injection(S, 0..(k - 1))
    <2>1. \A m \in S : rank[m] \in 0..(k - 1)
      <3> HIDE DEF above
      <3> QED
        BY <1>1
    <2>2. ASSUME NEW m \in S, NEW n \in S, rank[m] = rank[n] PROVE m = n
      <3>1. m \in E /\ n \in E /\ Cardinality(above(m)) = Cardinality(above(n))
        BY <2>2
      <3> QED
        BY <1>2, <3>1, BetterOrder
    <2>3. rank \in [S -> 0..(k - 1)]
      BY <2>1
    <2> HIDE DEF rank, S
    <2> QED
      BY <2>2, <2>3 DEF Injection, IsInjective
  <1>4. IsFiniteSet(0..(k - 1)) /\ Cardinality(0..(k - 1)) = k
    <2>1. k - 1 \in Int
      OBVIOUS
    <2> QED
      BY <2>1, FS_Interval
  <1>5. IsFiniteSet(S) /\ Cardinality(S) <= k
    <2> HIDE DEF S, rank
    <2> QED
      BY <1>3, <1>4, FS_Injection
  <1> QED
    BY <1>5

-----------------------------------------------------------------------------
(* The steps, while all is calm.                                           *)

\* What OwedFits needs of a step: it owes less, or it pays for what it no
\* longer owes.
LEMMA OwesLess ==
    ASSUME TypeOK, OwedFits, recorded' = recorded, Owed' \subseteq Owed
    PROVE  OwedFits'
  <1>1. IsFiniteSet(Owed') /\ Cardinality(Owed') <= Cardinality(Owed)
    BY FS_Subset DEF OwedFits
  <1>2. Cardinality(Owed') \in Nat /\ Cardinality(Owed) \in Nat
    BY <1>1, FS_CardinalityType DEF OwedFits
  <1>3. Estimate \in Nat /\ Budget \in Nat /\ recorded \in Nat
    BY AnalysisConstants DEF TypeOK
  <1>4. Estimate * Cardinality(Owed') <= Estimate * Cardinality(Owed)
    BY <1>1, <1>2, <1>3, TimesMonotone
  <1>5. \A a, b \in Nat : a \in Nat /\ b \in Nat => a * b \in Nat
    OBVIOUS
  <1>6. Estimate * Cardinality(Owed') \in Nat /\ Estimate * Cardinality(Owed) \in Nat
    BY <1>2, <1>3, <1>5
  <1>7. recorded + Estimate * Cardinality(Owed') <= Budget
    BY <1>3, <1>4, <1>6 DEF OwedFits
  <1> QED
    BY <1>1, <1>7 DEF OwedFits

LEMMA PaysOff ==
    ASSUME TypeOK, OwedFits, NEW t \in Owed, NEW cost \in Nat, cost <= Estimate,
           recorded' = recorded + cost, Owed' \subseteq Owed \ {t}
    PROVE  OwedFits'
  <1> DEFINE n == Cardinality(Owed)
             p == Cardinality(Owed \ {t})
  <1>1. IsFiniteSet(Owed \ {t}) /\ p = n - 1
    BY FS_RemoveElement DEF OwedFits
  <1>2. IsFiniteSet(Owed') /\ Cardinality(Owed') <= p
    BY <1>1, FS_Subset
  <1>3. Cardinality(Owed') \in Nat /\ n \in Nat /\ p \in Nat
    BY <1>1, <1>2, FS_CardinalityType DEF OwedFits
  <1>4. Estimate \in Nat /\ Budget \in Nat /\ recorded \in Nat
    BY AnalysisConstants DEF TypeOK
  <1>5. Estimate * Cardinality(Owed') <= Estimate * p
    BY <1>2, <1>3, <1>4, TimesMonotone
  <1>6. \A e \in Nat, x \in Nat : e * x \in Nat /\ e * (x - 1) = e * x - e
    OBVIOUS
  <1>7. /\ Estimate * p = Estimate * n - Estimate
        /\ Estimate * Cardinality(Owed') \in Nat /\ Estimate * n \in Nat
    BY <1>1, <1>3, <1>4, <1>6
  <1>8. recorded' + Estimate * Cardinality(Owed') <= Budget
    BY <1>4, <1>5, <1>7 DEF OwedFits
  <1> QED
    BY <1>2, <1>8 DEF OwedFits

\* A batch's choice stands when nothing new is owed and nothing was recorded.
LEMMA ChoicesKept ==
    ASSUME \A b \in Batches : ChoiceFits(b), recorded' = recorded, batches' = batches,
           Owed' \subseteq Owed
    PROVE  \A b \in Batches : ChoiceFits(b)'
  BY DEF ChoiceFits

LEMMA CalmPost ==
    ASSUME IInv, BudgetOK, NEW w \in Workers, NEW t \in Keys, Post(w, t),
           \A v \in Workers : workers[v].pc # "idle" => workers[v].task # t
    PROVE  BudgetOK'
  <1> DEFINE x == [state |-> IF Skips(t) THEN "done" ELSE "queued", posts |-> tasks[t].posts + 1]
             y == [pc |-> IF t[1] = MatchBatch THEN "screen" ELSE "analyze", task |-> t]
  <1>1. tasks' = [tasks EXCEPT ![t] = x] /\ tasks[t].state = "queued" /\ tasks[t].posts < MaxPosts
    BY DEF Post, IInv, TypeOK
  <1>2. tasks'[t] = x /\ \A k \in Keys : k # t => tasks'[k] = tasks[k]
    BY <1>1 DEF IInv, TypeOK
  <1>3. workers' = workers \/ (workers'[w] = y /\ tasks'[t].state = "queued")
    BY <1>2 DEF Post, IInv, TypeOK
  <1>4. \A v \in Workers : v # w => workers'[v] = workers[v]
    BY DEF Post, IInv, TypeOK
  <1>5. workers[w].pc = "idle" /\ \A v \in Workers : workers[v].task \in Keys
    BY DEF Post, IInv, TypeOK, Worker
  <1>6. PostsApart'
    <2>1. CASE workers' = workers
      BY <1>2, <1>5, <2>1 DEF BudgetOK, PostsApart
    <2>2. CASE workers'[w] = y /\ tasks'[t].state = "queued"
      <3>1. \A v \in Workers : v # w /\ workers'[v].pc # "idle" => workers'[v].task # t
        BY <1>4
      <3> QED
        BY <1>2, <1>4, <1>5, <2>2, <3>1 DEF BudgetOK, PostsApart
    <2> QED
      BY <1>3, <2>1, <2>2
  <1>7. Owed' \subseteq Owed
    <2> SUFFICES ASSUME NEW k \in Owed' PROVE k \in Owed
      OBVIOUS
    <2>1. k \in Batches \X Matches /\ k \in Keys
      BY DEF Owed, Keys, Origins
    <2>2. CASE k = t
      BY <1>1, <2>1, <2>2 DEF Owed
    <2>3. CASE k # t
      <3>1. ASSUME NEW v \in Workers, workers'[v].pc = "analyze", workers'[v].task = k
            PROVE  workers[v].pc = "analyze" /\ workers[v].task = k
        BY <1>3, <1>4, <2>3, <3>1
      <3> QED
        BY <1>2, <2>1, <2>3, <3>1 DEF Owed
    <2> QED
      BY <2>2, <2>3
  <1>8. recorded' = recorded /\ billed' = billed /\ batches' = batches
    BY DEF Post
  <1> QED
    BY <1>6, <1>7, <1>8, OwesLess, ChoicesKept DEF BudgetOK, IInv

\* A handler ends, answered or not; what it cost is recorded.
LEMMA CalmEnd ==
    ASSUME \A c \in Costs : c <= Estimate,
           IInv, BudgetOK, NEW w \in Workers, billed' - billed = recorded' - recorded,
           \/ \E label \in Label \ {0} : WriteLabel(w, label)
           \/ ScreenPermanent(w)
           \/ \E call \in Calls : Report(w, call) \/ AnalyzePermanent(w, call) \/ HandlerFails(w, call)
    PROVE  BudgetOK'
  <1> DEFINE k == workers[w].task
  <1>1. workers[w].pc # "idle" /\ batches' = batches
    BY DEF WriteLabel, ScreenPermanent, Report, AnalyzePermanent, HandlerFails
  <1>2. /\ \A v \in Workers : workers'[v].pc = "idle" \/ (workers'[v] = workers[v] /\ v # w)
        /\ \A t \in Keys : t # k => tasks'[t] = tasks[t]
        /\ tasks' = tasks \/ tasks'[k].state = "done"
    <2>1. CASE Answered(w)
      <3>1. tasks'[k].state = "done"
        BY <2>1 DEF Answered, IInv, TypeOK, Worker, Task
      <3> QED
        BY <2>1, <3>1, AnsweredTask
    <2>2. ASSUME NEW call \in Calls, HandlerFails(w, call)
          PROVE  /\ tasks' = tasks
                 /\ \A v \in Workers : workers'[v].pc = "idle" \/ (workers'[v] = workers[v] /\ v # w)
      <3>1. workers'[w].pc = "idle"
        BY <2>2 DEF HandlerFails, IInv, TypeOK, Worker
      <3>2. \A v \in Workers : v # w => workers'[v] = workers[v]
        BY <2>2 DEF HandlerFails, IInv, TypeOK
      <3> QED
        BY <2>2, <3>1, <3>2 DEF HandlerFails
    <2> QED
      BY <2>1, <2>2 DEF WriteLabel, ScreenPermanent, Report, AnalyzePermanent
  <1>3. PostsApart'
    <2>1. \A v \in Workers : workers[v].task \in Keys
      BY DEF IInv, TypeOK, Worker
    <2> QED
      BY <1>1, <1>2, <2>1 DEF BudgetOK, PostsApart
  <1>4. Owed' \subseteq Owed
    <2> SUFFICES ASSUME NEW t \in Owed' PROVE t \in Owed
      OBVIOUS
    <2>1. t \in Batches \X Matches /\ t \in Keys /\ tasks'[t].state = "queued"
      BY DEF Owed, Keys, Origins
    <2>2. tasks'[t] = tasks[t]
      BY <1>2, <2>1
    <2>3. \A v \in Workers : workers'[v].pc = "analyze" => workers[v] = workers'[v]
      BY <1>2
    <2> QED
      BY <2>1, <2>2, <2>3 DEF Owed
  <1>5. CASE recorded' = recorded
    <2>1. billed' = billed
      <3>1. billed \in Nat /\ recorded \in Nat /\ billed' \in Nat
        <4>1. TypeOK /\ IInv'
          BY ServedStep DEF IInv
        <4> QED
          BY <4>1 DEF IInv, TypeOK
      <3>2. \A x, y, z \in Nat : y - x = z - z => y = x
        OBVIOUS
      <3> QED
        BY <1>5, <3>1, <3>2
    <2> QED
      BY <1>1, <1>3, <1>4, <1>5, <2>1, OwesLess, ChoicesKept DEF BudgetOK, IInv
  <1>6. ASSUME NEW call \in Calls, Report(w, call) PROVE BudgetOK'
    <2>1. call.usage \in Nat /\ call.billed \in Nat /\ call.usage <= Estimate
      BY <1>6, CallCosts DEF Report
    <2>2. recorded' = recorded + call.usage /\ workers[w].pc = "analyze"
      BY <1>6 DEF Report
    <2>3. k \in Owed
      BY <2>2 DEF IInv, WorkerOK, TypeOK, Worker, BudgetOK, PostsApart, Owed, Keys
    <2>4. k \notin Owed'
      <3>1. tasks'[k].state = "done"
        BY <1>6 DEF Report, Answered, IInv, TypeOK, Worker, Task
      <3> QED
        BY <3>1 DEF Owed
    <2>5. OwedFits'
      BY <1>4, <2>1, <2>2, <2>3, <2>4, PaysOff DEF BudgetOK, IInv
    <2>6. \A b \in Batches : ChoiceFits(b)'
      BY <1>1, <2>3 DEF BudgetOK, ChoiceFits
    <2>7. billed' = recorded'
      <3>1. billed \in Nat /\ recorded \in Nat /\ billed' = billed + call.billed
        BY <1>6 DEF Report, IInv, TypeOK
      <3> QED
        BY <2>1, <2>2, <3>1 DEF BudgetOK
    <2> QED
      BY <1>3, <2>5, <2>6, <2>7 DEF BudgetOK
  <1>7. recorded' = recorded \/ \E call \in Calls : Report(w, call)
    BY DEF WriteLabel, ScreenPermanent, AnalyzePermanent, HandlerFails
  <1> QED
    BY <1>5, <1>6, <1>7

LEMMA CalmBatch ==
    ASSUME IInv, BudgetOK, NEW b \in Batches,
           \/ BatchSum(b) /\ ~Outstanding
           \/ BatchSelect(b) \/ BatchFlush(b) \/ BatchFails(b) \/ BatchFlushFails(b)
    PROVE  BudgetOK'
  <1>1. /\ workers' = workers /\ recorded' = recorded /\ billed' = billed
        /\ \A c \in Batches : c # b => batches'[c] = batches[c]
    BY DEF BatchSum, BatchSelect, BatchFlush, BatchFails, BatchFlushFails, IInv, TypeOK
  <1>2. recorded \in Nat /\ batches[b] \in Batch /\ recorded <= Budget
    <2>1. recorded \in Nat /\ batches[b] \in Batch
      BY DEF IInv, TypeOK
    <2>2. Cardinality(Owed) \in Nat /\ Estimate \in Nat /\ Budget \in Nat
      BY AnalysisConstants, FS_CardinalityType DEF BudgetOK, OwedFits
    <2>3. \A x, y \in Nat : x * y \in Nat
      OBVIOUS
    <2> QED
      BY <2>1, <2>2, <2>3 DEF BudgetOK, OwedFits
  <1>3. CASE BatchSum(b) /\ ~Outstanding
    <2>1. Owed = {}
      BY <1>3 DEF Owed, Outstanding
    <2>2. \A c \in Batches : batches[c].pc \notin {"summed", "flush"}
      BY <1>3 DEF Outstanding
    <2>3. Owed' = Owed /\ PostsApart'
      BY <1>1, <1>3 DEF BatchSum, Owed, PostsApart, BudgetOK
    <2>4. batches'[b].pc = "summed" /\ batches'[b].spent = recorded
      BY <1>3 DEF BatchSum, IInv, TypeOK, Batch
    <2>5. \A c \in Batches : ChoiceFits(c)'
      BY <1>1, <2>1, <2>2, <2>3, <2>4 DEF ChoiceFits
    <2> QED
      BY <1>1, <2>3, <2>5, OwesLess DEF BudgetOK, IInv
  <1>4. CASE BatchSelect(b)
    <2> DEFINE k == TaskCount(batches[b].spent)
               S == {m \in Eligible : Cardinality({n \in Eligible : Better(n, m)}) < k}
    <2>1. batches' = [batches EXCEPT ![b].pc = "flush", ![b].chosen = S]
      BY <1>4 DEF BatchSelect
    <2>2. batches[b].spent = recorded /\ ChoiceFits(b) /\ batches[b].pc = "summed"
      BY <1>4 DEF BatchSelect, BudgetOK, ChoiceFits
    <2>3. recorded + Estimate * Cardinality(S) <= Budget
      <3>1. k \in Nat /\ recorded + Estimate * k <= Budget
        BY <1>2, <2>2, CountFits
      <3>2. Eligible \in SUBSET Matches /\ TypeOK
        BY DEF Eligible, IInv, TypeOK
      <3> HIDE DEF k
      <3>3. IsFiniteSet(S) /\ Cardinality(S) <= k
        BY <3>1, <3>2, ChoiceSize
      <3> HIDE DEF S
      <3>4. Cardinality(S) \in Nat /\ Estimate \in Nat /\ Budget \in Nat
        BY <3>3, FS_CardinalityType, AnalysisConstants
      <3>5. Estimate * Cardinality(S) <= Estimate * k
        BY <3>1, <3>3, <3>4, TimesMonotone
      <3>6. \A x, y \in Nat : x * y \in Nat
        OBVIOUS
      <3>7. Estimate * Cardinality(S) \in Nat /\ Estimate * k \in Nat
        BY <3>1, <3>4, <3>6
      <3> QED
        BY <1>2, <3>1, <3>4, <3>5, <3>7
    <2> HIDE DEF S, k
    <2>4. batches'[b].pc = "flush" /\ batches'[b].chosen = S
      BY <1>2, <2>1 DEF IInv, TypeOK, Batch
    <2>5. Owed' = Owed /\ PostsApart'
      BY <1>1, <1>4 DEF BatchSelect, Owed, PostsApart, BudgetOK
    <2>6. \A c \in Batches : ChoiceFits(c)'
      BY <1>1, <2>2, <2>3, <2>4, <2>5 DEF ChoiceFits, BudgetOK
    <2> QED
      BY <1>1, <2>5, <2>6, OwesLess DEF BudgetOK, IInv
  <1>5. ASSUME NEW sent \in SUBSET batches[b].chosen, batches[b].pc = "flush",
               tasks' = Enqueued({b} \X sent), batches'[b].pc \in {"done", "lost"}
        PROVE  BudgetOK'
    <2> DEFINE S == {b} \X sent
    <2>1. Owed = {} /\ recorded + Estimate * Cardinality(batches[b].chosen) <= Budget
      BY <1>5 DEF BudgetOK, ChoiceFits
    <2>2. S \in SUBSET Keys /\ batches[b].chosen \subseteq Matches
      BY <1>2, <1>5 DEF Keys, Origins, Batch
    <2>3. TypeOK
      BY DEF IInv
    <2>4. /\ \A t \in Keys \ S : tasks'[t] = tasks[t]
          /\ \A t \in Keys : tasks'[t] = tasks[t] \/ tasks'[t].state = "queued"
      BY <1>5, <2>2, <2>3, EnqueuedTasks
    <2>5. Owed' \subseteq S
      <3> SUFFICES ASSUME NEW t \in Owed', t \notin S PROVE FALSE
        OBVIOUS
      <3>1. t \in Keys /\ t \in Batches \X Matches
        BY DEF Owed, Keys, Origins
      <3>2. tasks'[t] = tasks[t]
        BY <2>4, <3>1
      <3>3. t \in Owed
        BY <1>1, <3>1, <3>2 DEF Owed
      <3> QED
        BY <2>1, <3>3
    <2>6. IsFiniteSet(S) /\ Cardinality(S) <= Cardinality(batches[b].chosen)
      <3>1. IsFiniteSet(batches[b].chosen)
        BY <2>2, AnalysisConstants, FS_Subset
      <3>2. IsFiniteSet(sent) /\ Cardinality(sent) <= Cardinality(batches[b].chosen)
        BY <1>5, <3>1, FS_Subset
      <3>3. Cardinality(sent) \in Nat
        BY <3>2, FS_CardinalityType
      <3>4. IsFiniteSet({b}) /\ Cardinality({b}) = 1
        BY FS_Singleton
      <3>5. IsFiniteSet(S) /\ Cardinality(S) = 1 * Cardinality(sent)
        BY <3>2, <3>4, FS_Product
      <3> HIDE DEF S
      <3> QED
        BY <3>2, <3>3, <3>5
    <2>7. OwedFits'
      <3> DEFINE p == Cardinality(Owed')
                 n == Cardinality(batches[b].chosen)
      <3>1. IsFiniteSet(Owed') /\ p <= Cardinality(S)
        BY <2>5, <2>6, FS_Subset
      <3>2. IsFiniteSet(batches[b].chosen)
        BY <2>2, AnalysisConstants, FS_Subset
      <3>3. p \in Nat /\ n \in Nat /\ Cardinality(S) \in Nat
        BY <2>6, <3>1, <3>2, FS_CardinalityType
      <3>4. p <= n /\ Estimate \in Nat /\ Budget \in Nat
        BY <2>6, <3>1, <3>3, AnalysisConstants
      <3>5. Estimate * p <= Estimate * n
        BY <3>3, <3>4, TimesMonotone
      <3>6. \A x, y \in Nat : x * y \in Nat
        OBVIOUS
      <3>7. Estimate * p \in Nat /\ Estimate * n \in Nat
        BY <3>3, <3>4, <3>6
      <3>8. recorded' + Estimate * p <= Budget
        BY <1>1, <1>2, <2>1, <3>4, <3>5, <3>7
      <3> QED
        BY <3>1, <3>8 DEF OwedFits
    <2>8. PostsApart'
      <3>1. \A v \in Workers : workers[v].task \in Keys
        BY DEF IInv, TypeOK, Worker
      <3> QED
        BY <1>1, <2>4, <3>1 DEF BudgetOK, PostsApart
    <2>9. \A c \in Batches : ChoiceFits(c)'
      <3>1. \A c \in Batches : c # b => batches[c].pc \notin {"summed", "flush"}
        BY <1>5 DEF BudgetOK, ChoiceFits
      <3> QED
        BY <1>1, <1>5, <3>1 DEF ChoiceFits
    <2> QED
      BY <1>1, <2>7, <2>8, <2>9 DEF BudgetOK
  <1>6. CASE BatchFlush(b) \/ BatchFlushFails(b)
    <2>1. batches[b].pc = "flush" /\ batches'[b].pc \in {"done", "lost"}
      BY <1>2, <1>6 DEF BatchFlush, BatchFlushFails, IInv, TypeOK, Batch
    <2>2. \E sent \in SUBSET batches[b].chosen : tasks' = Enqueued({b} \X sent)
      BY <1>6 DEF BatchFlush, BatchFlushFails
    <2> QED
      BY <1>5, <2>1, <2>2
  <1>7. CASE BatchFails(b)
    <2>1. Owed' = Owed /\ PostsApart'
      BY <1>1, <1>7 DEF BatchFails, Owed, PostsApart, BudgetOK
    <2>2. batches'[b].pc = "failed"
      BY <1>2, <1>7 DEF BatchFails, IInv, TypeOK, Batch
    <2>3. \A c \in Batches : ChoiceFits(c)'
      BY <1>1, <2>1, <2>2 DEF ChoiceFits, BudgetOK
    <2> QED
      BY <1>1, <2>1, <2>3, OwesLess DEF BudgetOK, IInv
  <1> QED
    BY <1>3, <1>4, <1>6, <1>7

LEMMA CalmStep ==
    ASSUME \A c \in Costs : c <= Estimate,
           IInv, BudgetOK, CalmNext, billed' - billed = recorded' - recorded
    PROVE  BudgetOK'
  <1>1. ASSUME NEW m \in Matches, MatchWritten(m) PROVE BudgetOK'
    <2> DEFINE S == {<<MatchBatch, m>>}
    <2>1. S \in SUBSET Keys /\ TypeOK /\ \A t \in Batches \X Matches : t \in Keys \ S
      <3>1. S \in SUBSET Keys /\ TypeOK
        BY KeyParts DEF IInv
      <3>2. \A t \in Batches \X Matches : t \in Keys /\ t[1] # MatchBatch
        BY AnalysisConstants DEF Keys, Origins
      <3> QED
        BY <3>1, <3>2
    <2>2. tasks' = tasks \/ tasks' = Enqueued(S)
      BY <1>1 DEF MatchWritten
    <2> HIDE DEF S
    <2>3. \A t \in Batches \X Matches : tasks'[t] = tasks[t]
      BY <2>1, <2>2, EnqueuedTasks
    <2>4. workers' = workers /\ recorded' = recorded /\ billed' = billed /\ batches' = batches
      BY <1>1 DEF MatchWritten
    <2>5. Owed' \subseteq Owed
      BY <2>3, <2>4 DEF Owed
    <2>6. \A w \in Workers : workers[w].pc = "analyze" => workers[w].task \in Batches \X Matches
      BY DEF IInv, WorkerOK, TypeOK, Worker, Keys
    <2>7. PostsApart'
      BY <2>3, <2>4, <2>6 DEF PostsApart, BudgetOK
    <2> QED
      BY <2>4, <2>5, <2>7, OwesLess, ChoicesKept DEF BudgetOK, IInv
  <1>2. ASSUME NEW w \in Workers,
               \/ \E label \in Label \ {0} : WriteLabel(w, label)
               \/ ScreenPermanent(w)
               \/ \E call \in Calls :
                     Report(w, call) \/ AnalyzePermanent(w, call) \/ HandlerFails(w, call)
        PROVE  BudgetOK'
    BY <1>2, CalmEnd
  <1> QED
    BY <1>1, <1>2, CalmPost, CalmBatch DEF CalmNext, Rest

\* The provider bills no more than the budget in a day, as long as every batch
\* waits for the tasks of the one before, every post for its answer, all that
\* is billed is recorded, and no completion costs more than the estimate.
THEOREM BudgetHolds ==
    ASSUME \A c \in Costs : c <= Estimate
    PROVE  MCSpec => []WithinBudgetWhenCalm
<1> DEFINE Step == Next /\ calm' = (calm /\ CalmNext /\ billed' - billed = recorded' - recorded)
           Fits == calm => BudgetOK
<1>1. MCInit => IInv /\ Fits
  <2> SUFFICES ASSUME MCInit PROVE IInv /\ BudgetOK
    OBVIOUS
  <2>1. IInv
    BY InitialState DEF MCInit
  <2>2. Owed = {}
    BY KeyParts DEF MCInit, Init, Owed
  <2>3. IsFiniteSet(Owed) /\ Cardinality(Owed) = 0
    BY <2>2, FS_EmptySet
  <2>4. Estimate * 0 = 0 /\ Budget \in Nat
    BY AnalysisConstants
  <2> QED
    BY <2>1, <2>3, <2>4 DEF MCInit, Init, BudgetOK, PostsApart, OwedFits, ChoiceFits
<1>2. IInv /\ Fits /\ [Step]_mcVars => IInv' /\ Fits'
  <2> SUFFICES ASSUME IInv, Fits, [Step]_mcVars PROVE IInv' /\ Fits'
    OBVIOUS
  <2>1. IInv'
    BY NextStep DEF mcVars, vars
  <2>2. ASSUME Step, calm' PROVE BudgetOK'
    <3>1. CalmNext /\ calm /\ billed' - billed = recorded' - recorded
      BY <2>2
    <3> QED
      BY <3>1, CalmStep
  <2>3. ASSUME UNCHANGED mcVars, calm' PROVE BudgetOK'
    <3>1. /\ UNCHANGED <<tasks, workers, batches, recorded, billed>>
          /\ BudgetOK
      BY <2>3 DEF mcVars, vars
    <3>2. Owed' = Owed
      BY <3>1 DEF Owed
    <3> QED
      BY <3>1, <3>2 DEF BudgetOK, PostsApart, OwedFits, ChoiceFits
  <2> QED
    BY <2>1, <2>2, <2>3
<1>3. IInv /\ Fits => WithinBudgetWhenCalm
  <2> SUFFICES ASSUME IInv, BudgetOK PROVE billed <= Budget
    BY DEF WithinBudgetWhenCalm, WithinBudget
  <2>1. Cardinality(Owed) \in Nat /\ Estimate \in Nat /\ Budget \in Nat /\ recorded \in Nat
    BY AnalysisConstants, FS_CardinalityType DEF BudgetOK, OwedFits, IInv, TypeOK
  <2>2. \A x, y \in Nat : x * y \in Nat
    OBVIOUS
  <2> QED
    BY <2>1, <2>2 DEF BudgetOK, OwedFits
<1> QED
  BY <1>1, <1>2, <1>3, PTL DEF MCSpec
=============================================================================
