-------------------------- MODULE ResumeLoopProofs --------------------------
(***************************************************************************)
(* Theorems about the resume loop, for any number of matches, users,       *)
(* clicks, handler threads and deliveries: its invariants; what is not     *)
(* lost without a crash; and, without overlapping deliveries, that the     *)
(* loop implements its contract.                                           *)
(***************************************************************************)
EXTENDS MCResumeLoop, TLAPS, FiniteSetTheorems, SequenceTheorems

\* Appending to a table keeps its rows and adds one.
LEMMA AppendRow ==
    ASSUME NEW S, NEW s \in Seq(S), NEW e \in S
    PROVE  /\ Append(s, e) \in Seq(S)
           /\ Len(Append(s, e)) = Len(s) + 1
           /\ DOMAIN Append(s, e) = DOMAIN s \cup {Len(s) + 1}
           /\ Len(s) + 1 \notin DOMAIN s
           /\ \A i \in DOMAIN s : Append(s, e)[i] = s[i]
           /\ Append(s, e)[Len(s) + 1] = e
  OBVIOUS

\* Updating one row of a table keeps the others.
LEMMA UpdateRow ==
    ASSUME NEW S, NEW s \in Seq(S), NEW i \in DOMAIN s, NEW e \in S
    PROVE  /\ [s EXCEPT ![i] = e] \in Seq(S)
           /\ Len([s EXCEPT ![i] = e]) = Len(s)
           /\ DOMAIN [s EXCEPT ![i] = e] = DOMAIN s
           /\ [s EXCEPT ![i] = e][i] = e
           /\ \A j \in DOMAIN s \ {i} : [s EXCEPT ![i] = e][j] = s[j]
  BY ExceptSeq

-----------------------------------------------------------------------------
(* The inductive invariant behind the type invariant.                      *)

\* A busy worker serves a task that exists, of the kind its handler is for,
\* and only a handler that has committed holds a buffer.
WorkerOK ==
    \A w \in Workers :
        /\ workers[w].pc # "idle" => workers[w].task \in DOMAIN tasks
        /\ workers[w].pc = "generate" => Serving(w).kind = "generate-resume"
        /\ workers[w].pc = "verify" => Serving(w).kind = "verify-resume"
        /\ workers[w].buffer # {} => workers[w].pc = "flush"

\* A queued task has deliveries left.
QueueOK == \A t \in DOMAIN tasks : tasks[t].state = "queued" => tasks[t].posts < MaxPosts

\* A click inside its transaction holds the lock on the user's row, and the
\* unit it is about to take is there.
LockOK ==
    \A c \in Clicks :
        clicks[c] \in {"enqueue", "commit"} =>
            /\ rowLock[Charged(c)] = c
            /\ quota[Charged(c)] > 0

Core == TypeOK /\ WorkerOK /\ QueueOK /\ LockOK

\* What every step leaves true of the tables: rows and tasks stay, and keep
\* what identifies them.
RowsKept ==
    \A g \in DOMAIN generations :
        /\ g \in DOMAIN generations'
        /\ generations'[g].match = generations[g].match
        /\ generations'[g].attempt = generations[g].attempt
        /\ generations[g].status # "null" => generations'[g].status # "null"

PayloadsKept ==
    \A t \in DOMAIN tasks :
        /\ t \in DOMAIN tasks'
        /\ tasks'[t].payload = tasks[t].payload

-----------------------------------------------------------------------------
(* The records that the actions write have their types.                    *)

LEMMA NewTaskType ==
    ASSUME NEW p \in Payload
    PROVE  /\ NewTask(p) \in Task
           /\ NewTask(p).payload = p
           /\ NewTask(p).state = "queued"
           /\ NewTask(p).posts = 0
           /\ NewTask(p).outcome = "none"
  BY ConstantsAssumption DEF NewTask, Task, TaskState, Reply

LEMMA PostedType ==
    ASSUME NEW task \in Task, task.posts < MaxPosts
    PROVE  /\ Posted(task) \in Task
           /\ Posted(task).payload = task.payload
           /\ Posted(task).state = "posting"
           /\ Posted(task).posts = task.posts + 1
           /\ Posted(task).outcome = task.outcome
  <1>1. task.posts + 1 \in 0..MaxPosts
    BY ConstantsAssumption DEF Task
  <1> QED BY <1>1 DEF Posted, Task, TaskState

LEMMA AfterErrorType ==
    ASSUME NEW task \in Task
    PROVE  /\ AfterError(task) \in Task
           /\ AfterError(task).payload = task.payload
           /\ AfterError(task).posts = task.posts
           /\ AfterError(task).outcome = task.outcome
           /\ AfterError(task).state \in {"queued", "dropped"}
           /\ AfterError(task).state = "queued" => task.posts < MaxPosts
  BY ConstantsAssumption DEF AfterError, Task, TaskState

LEMMA GenerateTaskType ==
    ASSUME NEW m \in Matches, NEW a \in 1..MAX_ATTEMPT
    PROVE  GenerateTask(m, a) \in Payload
  BY DEF GenerateTask, Payload

LEMMA VerifyTaskType ==
    ASSUME NEW m \in Matches, NEW a \in 1..MAX_ATTEMPT, NEW g \in Nat
    PROVE  VerifyTask(m, a, g) \in Payload
  BY DEF VerifyTask, Payload

LEMMA IdleWorkerType == IdleWorker \in Worker
  BY ConstantsAssumption DEF IdleWorker, Worker, WorkerPc, Reply

LEMMA BusyType ==
    ASSUME TypeOK, QueueOK, NEW t \in DOMAIN tasks, tasks[t].state = "queued",
           NEW pc \in WorkerPc, NEW reply \in Reply
    PROVE  /\ Busy(t, pc, reply) \in Worker
           /\ Busy(t, pc, reply).pc = pc
           /\ Busy(t, pc, reply).task = t
           /\ Busy(t, pc, reply).buffer = {}
           /\ Busy(t, pc, reply).reply = reply
  <1>1. tasks[t] \in Task /\ t \in Nat
    BY ElementOfSeq DEF TypeOK
  <1>2. tasks[t].posts + 1 \in 0..MaxPosts
    BY <1>1, ConstantsAssumption DEF QueueOK, Task
  <1> QED
    BY <1>1, <1>2, IdleWorkerType DEF Busy, IdleWorker, Worker

\* A handler starts in its LLM call, in its graph, or with a skip.
LEMMA BeginType ==
    ASSUME TypeOK, QueueOK, NEW t \in DOMAIN tasks, tasks[t].state = "queued",
           NEW e,
           \/ tasks[t].payload.kind = "generate-resume" /\ e = BeginGenerate(t)
           \/ tasks[t].payload.kind = "verify-resume" /\ e = BeginVerify(t)
    PROVE  /\ e \in Worker
           /\ e.task = t
           /\ e.buffer = {}
           /\ e.pc \in {"generate", "verify", "respond"}
           /\ e.pc = "generate" => tasks[t].payload.kind = "generate-resume"
           /\ e.pc = "verify" => tasks[t].payload.kind = "verify-resume"
  <1> DEFINE Starts == {"generate", "verify", "respond"}
             Answers == {"none", "skipped_existing", "not_found", "skipped_verified"}
  <1>1. Starts \subseteq WorkerPc /\ Answers \subseteq Reply
    BY DEF WorkerPc, Reply
  <1>2. \A pc \in Starts, reply \in Answers :
           LET b == Busy(t, pc, reply)
           IN  b \in Worker /\ b.pc = pc /\ b.task = t /\ b.buffer = {}
    <2> TAKE pc \in Starts, reply \in Answers
    <2> QED BY <1>1, BusyType
  <1>3. CASE tasks[t].payload.kind = "generate-resume" /\ e = BeginGenerate(t)
    <2>1. e \in {Busy(t, "respond", "skipped_existing"), Busy(t, "generate", "none")}
      BY <1>3 DEF BeginGenerate
    <2> QED BY <1>2, <1>3, <2>1
  <1>4. CASE tasks[t].payload.kind = "verify-resume" /\ e = BeginVerify(t)
    <2>1. e \in {Busy(t, "respond", "not_found"), Busy(t, "respond", "skipped_verified"),
                 Busy(t, "verify", "none")}
      BY <1>4 DEF BeginVerify
    <2> QED BY <1>2, <1>4, <2>1
  <1> QED BY <1>3, <1>4

-----------------------------------------------------------------------------
(* What the two ways of writing the task table, and the one way of writing *)
(* a worker, preserve.                                                     *)

LEMMA TasksAppended ==
    ASSUME TypeOK, QueueOK, NEW p \in Payload, tasks' = Append(tasks, NewTask(p))
    PROVE  /\ tasks' \in Seq(Task)
           /\ QueueOK'
           /\ PayloadsKept
           /\ DOMAIN tasks' = DOMAIN tasks \cup {Len(tasks) + 1}
           /\ tasks'[Len(tasks) + 1] = NewTask(p)
           /\ \A t \in DOMAIN tasks : tasks'[t] = tasks[t]
  <1>1. tasks \in Seq(Task) /\ NewTask(p) \in Task
    BY NewTaskType DEF TypeOK
  <1>2. /\ tasks' \in Seq(Task)
        /\ DOMAIN tasks' = DOMAIN tasks \cup {Len(tasks) + 1}
        /\ tasks'[Len(tasks) + 1] = NewTask(p)
        /\ \A t \in DOMAIN tasks : tasks'[t] = tasks[t]
    BY <1>1, AppendRow
  <1>3. 0 < MaxPosts
    BY ConstantsAssumption
  <1>4. QueueOK'
    BY <1>2, <1>3, NewTaskType DEF QueueOK
  <1> QED BY <1>2, <1>4 DEF PayloadsKept

LEMMA TasksUpdated ==
    ASSUME TypeOK, QueueOK, NEW t \in DOMAIN tasks, NEW e \in Task,
           e.payload = tasks[t].payload,
           e.state = "queued" => e.posts < MaxPosts,
           tasks' = [tasks EXCEPT ![t] = e]
    PROVE  /\ tasks' \in Seq(Task)
           /\ QueueOK'
           /\ PayloadsKept
           /\ DOMAIN tasks' = DOMAIN tasks
           /\ tasks'[t] = e
           /\ \A i \in DOMAIN tasks \ {t} : tasks'[i] = tasks[i]
  <1>1. /\ tasks' \in Seq(Task)
        /\ DOMAIN tasks' = DOMAIN tasks
        /\ tasks'[t] = e
        /\ \A i \in DOMAIN tasks \ {t} : tasks'[i] = tasks[i]
    BY UpdateRow DEF TypeOK
  <1> QED BY <1>1 DEF QueueOK, PayloadsKept

LEMMA TasksUnchanged ==
    ASSUME TypeOK, QueueOK, UNCHANGED tasks
    PROVE  tasks' \in Seq(Task) /\ QueueOK' /\ PayloadsKept
  BY DEF TypeOK, QueueOK, PayloadsKept

LEMMA WorkersUnchanged ==
    ASSUME WorkerOK, PayloadsKept, UNCHANGED workers
    PROVE  WorkerOK'
  BY DEF WorkerOK, PayloadsKept, Serving

LEMMA WorkerUpdated ==
    ASSUME TypeOK, WorkerOK, PayloadsKept, NEW w \in Workers, NEW e \in Worker,
           e.pc # "idle" => e.task \in DOMAIN tasks,
           e.pc = "generate" => tasks[e.task].payload.kind = "generate-resume",
           e.pc = "verify" => tasks[e.task].payload.kind = "verify-resume",
           e.buffer # {} => e.pc = "flush",
           workers' = [workers EXCEPT ![w] = e]
    PROVE  /\ workers' \in [Workers -> Worker]
           /\ workers'[w] = e
           /\ \A v \in Workers \ {w} : workers'[v] = workers[v]
           /\ WorkerOK'
  <1>1. /\ workers' \in [Workers -> Worker]
        /\ workers'[w] = e
        /\ \A v \in Workers \ {w} : workers'[v] = workers[v]
    BY DEF TypeOK
  <1>2. WorkerOK'
    <2> SUFFICES ASSUME NEW v \in Workers
                 PROVE  /\ workers'[v].pc # "idle" => workers'[v].task \in DOMAIN tasks'
                        /\ workers'[v].pc = "generate" =>
                              tasks'[workers'[v].task].payload.kind = "generate-resume"
                        /\ workers'[v].pc = "verify" =>
                              tasks'[workers'[v].task].payload.kind = "verify-resume"
                        /\ workers'[v].buffer # {} => workers'[v].pc = "flush"
      BY DEF WorkerOK, Serving
    <2>1. CASE v = w
      BY <1>1, <2>1 DEF PayloadsKept
    <2>2. CASE v # w
      BY <1>1, <2>2 DEF WorkerOK, PayloadsKept, Serving
    <2> QED BY <2>1, <2>2
  <1> QED BY <1>1, <1>2

LEMMA GenerationsUnchanged ==
    ASSUME TypeOK, UNCHANGED generations
    PROVE  generations' \in Seq(Generation) /\ RowsKept
  BY DEF TypeOK, RowsKept

\* What a busy worker is, by type.
LEMMA BusyWorker ==
    ASSUME Core, NEW w \in Workers, workers[w].pc # "idle"
    PROVE  /\ workers[w] \in Worker
           /\ workers[w].task \in DOMAIN tasks
           /\ tasks[workers[w].task] \in Task
           /\ Serving(w) \in Payload
           /\ Serving(w) = tasks[workers[w].task].payload
  <1>1. workers[w] \in Worker /\ workers[w].task \in DOMAIN tasks
    BY DEF Core, TypeOK, WorkerOK
  <1>2. tasks[workers[w].task] \in Task
    BY <1>1, ElementOfSeq DEF Core, TypeOK
  <1>3. tasks[workers[w].task].payload \in Payload
    BY <1>2 DEF Task
  <1> QED BY <1>1, <1>2, <1>3 DEF Serving

-----------------------------------------------------------------------------
(* Core is inductive.                                                      *)

LEMMA CoreInit == Init => Core
  <1> SUFFICES ASSUME Init PROVE Core
    OBVIOUS
  <1>1. TypeOK
    <2>1. generations \in Seq(Generation) /\ tasks \in Seq(Task)
      BY DEF Init
    <2>2. workers \in [Workers -> Worker]
      BY IdleWorkerType DEF Init
    <2> QED BY <2>1, <2>2, ConstantsAssumption DEF Init, TypeOK, ClickPc
  <1>2. WorkerOK
    BY DEF Init, WorkerOK, IdleWorker
  <1>3. QueueOK /\ LockOK
    BY DEF Init, QueueOK, LockOK
  <1> QED BY <1>1, <1>2, <1>3 DEF Core

\* The click touches the quota, its lock and at most the end of the queue.
LEMMA ClickStep ==
    ASSUME Core, NEW c \in Clicks, Click(c) \/ TriggerRollback(c)
    PROVE  /\ Core' /\ RowsKept /\ PayloadsKept
           /\ UNCHANGED <<generations, workers>>
           /\ \/ UNCHANGED tasks
              \/ tasks' = Append(tasks, NewTask(GenerateTask(Target[c], 1)))
  <1> DEFINE u == Charged(c)
  <1>1. /\ TypeOK /\ WorkerOK /\ QueueOK /\ LockOK
        /\ u \in Users /\ c # Free
        /\ Target[c] \in Matches
    BY ConstantsAssumption, FreeAssumption DEF Core, Charged
  <1>2. generations' \in Seq(Generation) /\ RowsKept
    <2>1. UNCHANGED generations
      BY DEF Click, TriggerRead, TryConsumeQuota, TriggerEnqueue, TriggerCommit,
             TriggerRollback
    <2> QED BY <1>1, <2>1, GenerationsUnchanged
  <1>3. tasks' \in Seq(Task) /\ QueueOK' /\ PayloadsKept
    <2>1. CASE TriggerEnqueue(c)
      <3>1. GenerateTask(Target[c], 1) \in Payload
        BY <1>1, GenerateTaskType DEF MAX_ATTEMPT
      <3> QED BY <1>1, <2>1, <3>1, TasksAppended DEF TriggerEnqueue
    <2>2. CASE UNCHANGED tasks
      BY <1>1, <2>2, TasksUnchanged
    <2> QED BY <2>1, <2>2 DEF Click, TriggerRead, TryConsumeQuota, TriggerCommit,
                              TriggerRollback
  <1>4. UNCHANGED workers /\ WorkerOK'
    <2>1. UNCHANGED workers
      BY DEF Click, TriggerRead, TryConsumeQuota, TriggerEnqueue, TriggerCommit,
             TriggerRollback
    <2> QED BY <1>1, <1>3, <2>1, WorkersUnchanged
  <1>5. /\ quota' \in [Users -> Nat]
        /\ rowLock' \in [Users -> Clicks \cup {Free}]
        /\ clicks' \in [Clicks -> ClickPc]
        /\ LockOK'
    <2>1. CASE TriggerRead(c)
      BY <1>1, <2>1 DEF TriggerRead, TypeOK, LockOK, ClickPc, Charged
    <2>2. CASE TryConsumeQuota(c)
      <3>1. /\ rowLock[u] = Free
            /\ UNCHANGED quota
            /\ \/ /\ quota[u] > 0
                  /\ rowLock' = [rowLock EXCEPT ![u] = c]
                  /\ clicks' = [clicks EXCEPT ![c] = "enqueue"]
               \/ /\ clicks' = [clicks EXCEPT ![c] = "quota_exhausted"]
                  /\ UNCHANGED rowLock
        BY <2>2 DEF TryConsumeQuota
      <3>2. /\ quota' \in [Users -> Nat]
            /\ rowLock' \in [Users -> Clicks \cup {Free}]
            /\ clicks' \in [Clicks -> ClickPc]
        BY <1>1, <3>1 DEF TypeOK, ClickPc
      <3>3. LockOK'
        <4> SUFFICES ASSUME NEW d \in Clicks, clicks'[d] \in {"enqueue", "commit"}
                     PROVE  rowLock'[Charged(d)] = d /\ quota'[Charged(d)] > 0
          BY DEF LockOK, Charged
        <4>1. CASE d = c
          BY <1>1, <3>1, <4>1 DEF TypeOK
        <4>2. CASE d # c
          <5>1. rowLock[Charged(d)] = d /\ quota[Charged(d)] > 0
            BY <1>1, <3>1, <4>2 DEF TypeOK, LockOK
          <5>2. Charged(d) # u
            BY <3>1, <5>1, FreeAssumption
          <5>3. Charged(d) \in Users
            BY ConstantsAssumption DEF Charged
          <5>4. rowLock'[Charged(d)] = rowLock[Charged(d)]
            BY <1>1, <3>1, <5>2, <5>3 DEF TypeOK
          <5> QED BY <3>1, <5>1, <5>4
        <4> QED BY <4>1, <4>2
      <3> QED BY <3>2, <3>3
    <2>3. CASE TriggerEnqueue(c)
      BY <1>1, <2>3 DEF TriggerEnqueue, TypeOK, LockOK, ClickPc, Charged
    <2>4. CASE TriggerCommit(c)
      <3>1. quota[u] \in Nat /\ quota[u] > 0 /\ rowLock[u] = c
        BY <1>1, <2>4 DEF TriggerCommit, TypeOK, LockOK
      <3>2. quota[u] - 1 \in Nat
        BY <3>1
      <3>3. /\ quota' = [quota EXCEPT ![u] = quota[u] - 1]
            /\ rowLock' = [rowLock EXCEPT ![u] = Free]
            /\ clicks' = [clicks EXCEPT ![c] = "enqueued"]
        BY <2>4 DEF TriggerCommit
      <3>4. quota' \in [Users -> Nat]
        BY <1>1, <3>2, <3>3 DEF TypeOK
      <3>5. rowLock' \in [Users -> Clicks \cup {Free}]
        BY <1>1, <3>3 DEF TypeOK
      <3>6. clicks' \in [Clicks -> ClickPc]
        BY <1>1, <3>3 DEF TypeOK, ClickPc
      <3>7. LockOK'
        <4> SUFFICES ASSUME NEW d \in Clicks, clicks'[d] \in {"enqueue", "commit"}
                     PROVE  rowLock'[Charged(d)] = d /\ quota'[Charged(d)] > 0
          BY DEF LockOK, Charged
        <4>1. d # c /\ clicks[d] \in {"enqueue", "commit"}
          BY <1>1, <3>3 DEF TypeOK
        <4>2. rowLock[Charged(d)] = d /\ quota[Charged(d)] > 0
          BY <1>1, <4>1 DEF LockOK
        <4>3. Charged(d) # u
          BY <3>1, <4>1, <4>2
        <4> QED BY <1>1, <3>3, <4>2, <4>3 DEF TypeOK
      <3> QED BY <3>4, <3>5, <3>6, <3>7
    <2>5. CASE TriggerRollback(c)
      BY <1>1, <2>5 DEF TriggerRollback, TypeOK, LockOK, ClickPc, Charged
    <2> QED BY <2>1, <2>2, <2>3, <2>4, <2>5 DEF Click
  <1> QED
    <2>1. TypeOK'
      BY <1>1, <1>2, <1>3, <1>4, <1>5 DEF TypeOK
    <2>2. UNCHANGED generations
      BY DEF Click, TriggerRead, TryConsumeQuota, TriggerEnqueue, TriggerCommit,
             TriggerRollback
    <2>3. \/ UNCHANGED tasks
          \/ tasks' = Append(tasks, NewTask(GenerateTask(Target[c], 1)))
      BY DEF Click, TriggerRead, TryConsumeQuota, TriggerEnqueue, TriggerCommit,
             TriggerRollback
    <2> QED BY <1>2, <1>3, <1>4, <1>5, <2>1, <2>2, <2>3 DEF Core

\* The queue posts a task to an idle worker, or fails to.
LEMMA QueueStep ==
    ASSUME Core, NEW t \in DOMAIN tasks,
           (\E w \in Workers : Post(t, w)) \/ PostRefused(t) \/ PostTimeout(t)
    PROVE  /\ Core' /\ RowsKept /\ PayloadsKept
           /\ UNCHANGED generations
           /\ DOMAIN tasks' = DOMAIN tasks
           /\ \A v \in Workers : workers'[v].buffer \subseteq workers[v].buffer
  <1>1. TypeOK /\ WorkerOK /\ QueueOK /\ LockOK
    BY DEF Core
  <1>2. tasks[t] \in Task
    BY <1>1, ElementOfSeq DEF TypeOK
  <1>3. UNCHANGED <<quota, rowLock, clicks, generations>>
    BY DEF Post, PostRefused, PostTimeout
  <1>4. generations' \in Seq(Generation) /\ RowsKept
    BY <1>1, <1>3, GenerationsUnchanged
  <1>5. /\ tasks' \in Seq(Task) /\ QueueOK' /\ PayloadsKept
        /\ workers' \in [Workers -> Worker] /\ WorkerOK'
        /\ DOMAIN tasks' = DOMAIN tasks
        /\ \A v \in Workers : workers'[v].buffer \subseteq workers[v].buffer
    <2>1. CASE PostRefused(t)
      <3>1. tasks[t].posts < MaxPosts
        BY <1>1, <2>1 DEF PostRefused, QueueOK
      <3>2. /\ AfterError(Posted(tasks[t])) \in Task
            /\ AfterError(Posted(tasks[t])).payload = tasks[t].payload
            /\ AfterError(Posted(tasks[t])).state = "queued" =>
                  AfterError(Posted(tasks[t])).posts < MaxPosts
        BY <1>2, <3>1, PostedType, AfterErrorType
      <3>3. /\ tasks' \in Seq(Task) /\ QueueOK' /\ PayloadsKept
            /\ DOMAIN tasks' = DOMAIN tasks
        BY <1>1, <2>1, <3>2, TasksUpdated DEF PostRefused
      <3> QED BY <1>1, <2>1, <3>3, WorkersUnchanged DEF PostRefused, TypeOK
    <2>2. CASE PostTimeout(t)
      <3>1. /\ tasks' \in Seq(Task) /\ QueueOK' /\ PayloadsKept
            /\ DOMAIN tasks' = DOMAIN tasks
        BY <1>1, <1>2, <2>2, AfterErrorType, TasksUpdated DEF PostTimeout
      <3> QED BY <1>1, <2>2, <3>1, WorkersUnchanged DEF PostTimeout, TypeOK
    <2>3. ASSUME NEW w \in Workers, Post(t, w)
          PROVE  /\ tasks' \in Seq(Task) /\ QueueOK' /\ PayloadsKept
                 /\ workers' \in [Workers -> Worker] /\ WorkerOK'
                 /\ DOMAIN tasks' = DOMAIN tasks
                 /\ \A v \in Workers : workers'[v].buffer \subseteq workers[v].buffer
      <3> DEFINE e == IF tasks[t].payload.kind = "generate-resume"
                        THEN BeginGenerate(t) ELSE BeginVerify(t)
      <3>1. tasks[t].state = "queued" /\ tasks[t].posts < MaxPosts
        BY <1>1, <2>3 DEF Post, QueueOK
      <3>2. /\ tasks' \in Seq(Task) /\ QueueOK' /\ PayloadsKept
            /\ DOMAIN tasks' = DOMAIN tasks
        BY <1>1, <1>2, <2>3, <3>1, PostedType, TasksUpdated DEF Post
      <3>3. tasks[t].payload.kind \in {"generate-resume", "verify-resume"}
        BY <1>2 DEF Task, Payload
      <3>4. /\ e \in Worker /\ e.task = t /\ e.buffer = {}
            /\ e.pc \in {"generate", "verify", "respond"}
            /\ e.pc = "generate" => tasks[t].payload.kind = "generate-resume"
            /\ e.pc = "verify" => tasks[t].payload.kind = "verify-resume"
        BY <1>1, <3>1, <3>3, BeginType
      <3>5. workers' = [workers EXCEPT ![w] = e]
        BY <2>3 DEF Post
      <3> HIDE DEF e
      <3>6. /\ workers' \in [Workers -> Worker] /\ WorkerOK'
            /\ workers'[w] = e
            /\ \A v \in Workers \ {w} : workers'[v] = workers[v]
        BY <1>1, <3>2, <3>4, <3>5, WorkerUpdated
      <3>7. \A v \in Workers : workers'[v].buffer \subseteq workers[v].buffer
        BY <3>4, <3>6
      <3> QED BY <3>2, <3>6, <3>7
    <2> QED BY <2>1, <2>2, <2>3
  <1> QED
    <2>1. TypeOK'
      BY <1>1, <1>3, <1>4, <1>5 DEF TypeOK
    <2>2. LockOK'
      BY <1>1, <1>3 DEF LockOK, Charged
    <2> QED BY <1>3, <1>4, <1>5, <2>1, <2>2 DEF Core

-----------------------------------------------------------------------------
(* The handlers.                                                           *)

\* A step of a handler that leaves the clicks alone preserves Core as soon as
\* it preserves its parts.
LEMMA HandlerFrame ==
    ASSUME Core, UNCHANGED <<quota, rowLock, clicks>>,
           generations' \in Seq(Generation), RowsKept,
           tasks' \in Seq(Task), QueueOK', PayloadsKept,
           workers' \in [Workers -> Worker], WorkerOK'
    PROVE  Core' /\ RowsKept /\ PayloadsKept
  <1>1. TypeOK'
    BY DEF Core, TypeOK
  <1>2. LockOK'
    BY DEF Core, LockOK, Charged
  <1> QED BY <1>1, <1>2 DEF Core

LEMMA CommitStep ==
    ASSUME Core, NEW w \in Workers, workers[w].pc # "idle",
           NEW b \in SUBSET Payload, NEW r \in Reply, Commit(w, b, r),
           UNCHANGED <<quota, rowLock, clicks, tasks>>,
           generations' \in Seq(Generation), RowsKept
    PROVE  /\ Core' /\ RowsKept /\ PayloadsKept
           /\ \A v \in Workers \ {w} : workers'[v] = workers[v]
           /\ workers'[w].buffer = b
  <1> DEFINE e == [workers[w] EXCEPT !.pc = "flush", !.buffer = b, !.reply = r]
  <1>1. workers[w] \in Worker /\ workers[w].task \in DOMAIN tasks
    BY BusyWorker
  <1>2. /\ e \in Worker
        /\ e.pc = "flush"
        /\ e.task = workers[w].task
        /\ e.buffer = b
    BY <1>1 DEF Worker, WorkerPc
  <1>3. tasks' \in Seq(Task) /\ QueueOK' /\ PayloadsKept
    BY TasksUnchanged DEF Core
  <1>4. workers' = [workers EXCEPT ![w] = e]
    BY DEF Commit
  <1> HIDE DEF e
  <1>5. /\ workers' \in [Workers -> Worker]
        /\ workers'[w] = e
        /\ \A v \in Workers \ {w} : workers'[v] = workers[v]
        /\ WorkerOK'
    BY <1>1, <1>2, <1>3, <1>4, WorkerUpdated DEF Core
  <1> QED BY <1>2, <1>3, <1>5, HandlerFrame

\* The draft that generate-resume inserts.
Draft(w) == [match |-> Serving(w).match, attempt |-> Serving(w).attempt,
             status |-> "null", failures |-> {}, clean |-> FALSE]

LEMMA GenerateOkStep ==
    ASSUME Core, NEW w \in Workers, GenerateOk(w)
    PROVE  /\ Core' /\ RowsKept /\ PayloadsKept
           /\ generations' = Append(generations, Draft(w))
           /\ Draft(w) \in Generation
           /\ \A v \in Workers \ {w} : workers'[v] = workers[v]
           /\ workers'[w].buffer =
                 {VerifyTask(Serving(w).match, Serving(w).attempt, Len(generations) + 1)}
  <1> DEFINE b == {VerifyTask(Serving(w).match, Serving(w).attempt, Len(generations) + 1)}
  <1>1. workers[w].pc # "idle" /\ Serving(w) \in Payload
    BY BusyWorker DEF GenerateOk
  <1>2. Serving(w).match \in Matches /\ Serving(w).attempt \in 1..MAX_ATTEMPT
    BY <1>1 DEF Payload
  <1>3. generations \in Seq(Generation) /\ Draft(w) \in Generation
    BY <1>2 DEF Core, TypeOK, Draft, Generation, Status
  <1>4. generations' = Append(generations, Draft(w))
    BY DEF GenerateOk, Draft
  <1>5. generations' \in Seq(Generation) /\ RowsKept
    BY <1>3, <1>4, AppendRow DEF RowsKept
  <1>6. Len(generations) + 1 \in Nat
    BY <1>3
  <1>7. b \in SUBSET Payload
    BY <1>2, <1>6, VerifyTaskType
  <1>8. Commit(w, b, "generated") /\ UNCHANGED <<quota, rowLock, clicks, tasks>>
    BY DEF GenerateOk
  <1>9. "generated" \in Reply
    BY DEF Reply
  <1> HIDE DEF b
  <1>10. /\ Core' /\ RowsKept /\ PayloadsKept
         /\ \A v \in Workers \ {w} : workers'[v] = workers[v]
         /\ workers'[w].buffer = b
    BY <1>1, <1>5, <1>7, <1>8, <1>9, CommitStep
  <1> QED BY <1>3, <1>4, <1>10 DEF b

LEMMA GeneratePermanentStep ==
    ASSUME Core, NEW w \in Workers, GeneratePermanent(w)
    PROVE  /\ Core' /\ RowsKept /\ PayloadsKept
           /\ \A v \in Workers \ {w} : workers'[v] = workers[v]
           /\ workers'[w].buffer = {}
  <1>1. generations' \in Seq(Generation) /\ RowsKept
    BY GenerationsUnchanged DEF GeneratePermanent, Core
  <1>2. "llm_permanent_failure" \in Reply
    BY DEF Reply
  <1> QED BY <1>1, <1>2, CommitStep DEF GeneratePermanent

\* What a verdict owes to the row it judges.
Evidence(row) ==
    /\ row.status = "passed" => row.clean
    /\ row.status \in {"failed", "needs_review"} => row.failures # {}
    /\ row.status = "failed" => row.attempt < MAX_ATTEMPT

Regenerate(w) == GenerateTask(Serving(w).match, Serving(w).attempt + 1)

\* One run of the graph is a verdict on the row of the task, with evidence, and
\* a regenerate in the buffer exactly when the verdict is "failed".
Judgement(w, row, b) ==
    /\ row \in Generation
    /\ row.match = generations[Serving(w).gen].match
    /\ row.attempt = generations[Serving(w).gen].attempt
    /\ row.status # "null"
    /\ Evidence(row)
    /\ b = IF row.status = "failed" THEN {Regenerate(w)} ELSE {}
    /\ generations' = [generations EXCEPT ![Serving(w).gen] = row]

\* A handler that runs the graph serves a task that names a committed row.
LEMMA ServedRow ==
    ASSUME Core, FollowOnAfterCommit, NEW w \in Workers, workers[w].pc = "verify"
    PROVE  /\ Serving(w) \in Payload
           /\ Serving(w).kind = "verify-resume"
           /\ Serving(w).gen \in DOMAIN generations
           /\ generations[Serving(w).gen] \in Generation
           /\ generations[Serving(w).gen].match = Serving(w).match
           /\ generations[Serving(w).gen].attempt = Serving(w).attempt
  <1>1. Serving(w) \in Payload /\ workers[w].task \in DOMAIN tasks
    BY BusyWorker
  <1>2. Serving(w).kind = "verify-resume"
    BY DEF Core, WorkerOK
  <1>3. PayloadNamesRow(Serving(w))
    BY <1>1 DEF FollowOnAfterCommit, Serving
  <1>4. /\ Serving(w).gen \in DOMAIN generations
        /\ generations[Serving(w).gen].match = Serving(w).match
        /\ generations[Serving(w).gen].attempt = Serving(w).attempt
    BY <1>2, <1>3 DEF PayloadNamesRow
  <1>5. generations[Serving(w).gen] \in Generation
    BY <1>4, ElementOfSeq DEF Core, TypeOK
  <1> QED BY <1>1, <1>2, <1>4, <1>5

LEMMA NamedType ==
    ASSUME NEW results
    PROVE  /\ Named(results) \in SUBSET Failures
           /\ Named(results) = {} <=> "fail" \notin results
  BY DEF Named, Failures

LEMMA GraphVerdict ==
    ASSUME Core, FollowOnAfterCommit, NEW w \in Workers, RunVerifyGraph(w)
    PROVE  \E row \in Generation, b \in SUBSET Payload, r \in Reply :
               Judgement(w, row, b) /\ Commit(w, b, r)
  <1> DEFINE p == Serving(w)
             old == generations[p.gen]
  <1>1. workers[w].pc = "verify"
    BY DEF RunVerifyGraph
  <1>2. /\ p \in Payload /\ p.gen \in DOMAIN generations
        /\ old \in Generation /\ old.match = p.match /\ old.attempt = p.attempt
    BY <1>1, ServedRow
  <1>3. p.match \in Matches /\ p.attempt \in 1..2
    BY <1>2 DEF Payload, MAX_ATTEMPT
  <1>4. PICK stage1 \in Verdicts, ground \in LLMVerdicts, coverage \in LLMVerdicts :
           \/ FailSafeNode(w, stage1, ground, coverage)
           \/ DecideNode(w, stage1, ground, coverage)
    BY DEF RunVerifyGraph
  <1> DEFINE results == {stage1, ground, coverage}
             clean == (results = {"pass"})
             New(status, f) ==
                 [old EXCEPT !.status = status,
                             !.failures = IF f = {} THEN @ ELSE f, !.clean = clean]
  <1>5. clean \in BOOLEAN
    OBVIOUS
  <1>6. \A status \in Status, f \in SUBSET Failures :
           /\ New(status, f) \in Generation
           /\ New(status, f).match = old.match /\ New(status, f).attempt = old.attempt
           /\ New(status, f).status = status
           /\ f # {} => New(status, f).failures = f
           /\ New(status, f).clean = clean
    <2> HIDE DEF clean
    <2> TAKE status \in Status, f \in SUBSET Failures
    <2>1. New(status, f) =
              [old EXCEPT !.status = status,
                          !.failures = IF f = {} THEN @ ELSE f, !.clean = clean]
      OBVIOUS
    <2> HIDE DEF New, old
    <2> QED BY <1>2, <1>5, <2>1 DEF Generation
  <1>7. {"passed", "failed", "needs_review"} \subseteq Status
    BY DEF Status
  <1> HIDE DEF New, old, results
  <1>8. CASE FailSafeNode(w, stage1, ground, coverage)
    <2> DEFINE f == Named({stage1}) \cup {"llm permanent failure"}
    <2>1. f \in SUBSET Failures /\ f # {}
      BY NamedType DEF Failures
    <2>2. /\ generations' = [generations EXCEPT ![p.gen] = New("needs_review", f)]
          /\ Commit(w, {}, "llm_permanent_failure")
      BY <1>8 DEF FailSafeNode, WriteStatus, New, old, results
    <2> HIDE DEF f
    <2>3. Judgement(w, New("needs_review", f), {})
      BY <1>6, <1>7, <2>1, <2>2 DEF Judgement, Evidence, old
    <2>4. "llm_permanent_failure" \in Reply
      BY DEF Reply
    <2>5. New("needs_review", f) \in Generation /\ {} \in SUBSET Payload
      BY <1>6, <1>7, <2>1
    <2> QED BY <2>2, <2>3, <2>4, <2>5
  <1>9. CASE DecideNode(w, stage1, ground, coverage)
    <2> DEFINE named == Named(results)
    <2>1. named \in SUBSET Failures /\ {} \in SUBSET Failures
      BY NamedType
    <2>2. named = {} => clean
      BY <1>9, NamedType DEF DecideNode, FailsSafe, Verdicts, LLMVerdicts, results
    <2>3. CASE named = {}
      <3>1. /\ generations' = [generations EXCEPT ![p.gen] = New("passed", {})]
            /\ Commit(w, {}, "passed")
        BY <1>9, <2>3 DEF DecideNode, WriteStatus, New, old, results
      <3>2. Judgement(w, New("passed", {}), {})
        <4>1. /\ New("passed", {}).status = "passed"
              /\ New("passed", {}).clean = clean
          BY <1>6, <1>7, <2>1
        <4>2. Evidence(New("passed", {}))
          BY <2>2, <2>3, <4>1 DEF Evidence
        <4> QED BY <1>6, <1>7, <2>1, <3>1, <4>1, <4>2 DEF Judgement, old
      <3>3. "passed" \in Reply
        BY DEF Reply
      <3>4. New("passed", {}) \in Generation /\ {} \in SUBSET Payload
        BY <1>6, <1>7, <2>1
      <3> QED BY <3>1, <3>2, <3>3, <3>4
    <2>4. CASE named # {} /\ p.attempt < MAX_ATTEMPT
      <3>1. /\ generations' = [generations EXCEPT ![p.gen] = New("failed", named)]
            /\ Commit(w, {Regenerate(w)}, "regenerate_enqueued")
        BY <1>3, <1>9, <2>4 DEF DecideNode, WriteStatus, New, old, results,
                              Regenerate, MAX_ATTEMPT
      <3>2. Judgement(w, New("failed", named), {Regenerate(w)})
        BY <1>2, <1>6, <1>7, <2>1, <2>4, <3>1 DEF Judgement, Evidence, old
      <3>3. "regenerate_enqueued" \in Reply
        BY DEF Reply
      <3>4. p.attempt + 1 \in 1..MAX_ATTEMPT
        BY <1>3, <2>4 DEF MAX_ATTEMPT
      <3>5. New("failed", named) \in Generation /\ {Regenerate(w)} \in SUBSET Payload
        BY <1>3, <1>6, <1>7, <2>1, <3>4, GenerateTaskType DEF Regenerate
      <3> QED BY <3>1, <3>2, <3>3, <3>5
    <2>5. CASE named # {} /\ p.attempt >= MAX_ATTEMPT
      <3>1. /\ generations' = [generations EXCEPT ![p.gen] = New("needs_review", named)]
            /\ Commit(w, {}, "needs_review")
        BY <1>3, <1>9, <2>5 DEF DecideNode, WriteStatus, New, old, results, MAX_ATTEMPT
      <3>2. Judgement(w, New("needs_review", named), {})
        BY <1>6, <1>7, <2>1, <2>5, <3>1 DEF Judgement, Evidence, old
      <3>3. "needs_review" \in Reply
        BY DEF Reply
      <3>4. New("needs_review", named) \in Generation /\ {} \in SUBSET Payload
        BY <1>6, <1>7, <2>1
      <3> QED BY <3>1, <3>2, <3>3, <3>4
    <2> QED BY <1>3, <2>3, <2>4, <2>5 DEF MAX_ATTEMPT
  <1> QED BY <1>4, <1>8, <1>9

LEMMA RunVerifyGraphStep ==
    ASSUME Core, FollowOnAfterCommit, NEW w \in Workers, RunVerifyGraph(w)
    PROVE  /\ Core' /\ RowsKept /\ PayloadsKept
           /\ \A v \in Workers \ {w} : workers'[v] = workers[v]
           /\ \E row \in Generation : Judgement(w, row, workers'[w].buffer)
  <1>1. PICK row \in Generation, b \in SUBSET Payload, r \in Reply :
            Judgement(w, row, b) /\ Commit(w, b, r)
    BY GraphVerdict
  <1>2. workers[w].pc = "verify" /\ UNCHANGED <<quota, rowLock, clicks, tasks>>
    BY DEF RunVerifyGraph
  <1>3. Serving(w).gen \in DOMAIN generations /\ generations \in Seq(Generation)
    BY <1>2, ServedRow DEF Core, TypeOK
  <1>4. generations' \in Seq(Generation) /\ RowsKept
    BY <1>1, <1>3, UpdateRow DEF Judgement, RowsKept
  <1>5. /\ Core' /\ RowsKept /\ PayloadsKept
        /\ \A v \in Workers \ {w} : workers'[v] = workers[v]
        /\ workers'[w].buffer = b
    BY <1>1, <1>2, <1>4, CommitStep
  <1> QED BY <1>1, <1>5

\* The steps after the commit, the errors before it and the crash of a worker:
\* the worker is replaced by one with an empty buffer, and its task, or the
\* task it had buffered, is written back.
Ends(w) ==
    \/ HandlerFails(w) \/ Flush(w) \/ FlushFails(w) \/ Respond(w) \/ WorkerCrash(w)

\* The worker after such a step.
Ended(w, e) ==
    /\ e \in Worker
    /\ e.buffer = {}
    /\ e.pc \in {"idle", "respond"}
    /\ e.pc = "respond" => e.task = workers[w].task
    /\ workers' = [workers EXCEPT ![w] = e]

LEMMA EndedWorker ==
    ASSUME Core, NEW w \in Workers, Ends(w)
    PROVE  /\ workers[w].pc # "idle"
           /\ \E e : Ended(w, e)
  <1>1. workers[w].pc # "idle"
    BY DEF Ends, HandlerFails, Uncommitted, Flush, FlushFails, Respond, WorkerCrash
  <1>2. workers[w] \in Worker
    BY <1>1, BusyWorker
  <1>3. CASE HandlerFails(w)
    <2> DEFINE e == [workers[w] EXCEPT !.pc = "respond", !.reply = "5xx"]
    <2>1. workers[w].buffer = {}
      BY <1>3 DEF Core, WorkerOK, HandlerFails, Uncommitted
    <2>2. e \in Worker /\ e.buffer = {} /\ e.pc = "respond" /\ e.task = workers[w].task
      BY <1>2, <2>1 DEF Worker, WorkerPc, Reply
    <2>3. workers' = [workers EXCEPT ![w] = e]
      BY <1>3 DEF HandlerFails
    <2> HIDE DEF e
    <2> QED BY <1>1, <2>2, <2>3 DEF Ended
  <1>4. CASE Flush(w)
    <2> DEFINE e == [workers[w] EXCEPT !.pc = "respond", !.buffer = {}]
    <2>1. e \in Worker /\ e.buffer = {} /\ e.pc = "respond" /\ e.task = workers[w].task
      BY <1>2 DEF Worker, WorkerPc
    <2>2. workers' = [workers EXCEPT ![w] = e]
      BY <1>4 DEF Flush
    <2> HIDE DEF e
    <2> QED BY <1>1, <2>1, <2>2 DEF Ended
  <1>5. CASE FlushFails(w)
    <2> DEFINE e == [workers[w] EXCEPT !.pc = "respond", !.buffer = {}, !.reply = "5xx"]
    <2>1. e \in Worker /\ e.buffer = {} /\ e.pc = "respond" /\ e.task = workers[w].task
      BY <1>2 DEF Worker, WorkerPc, Reply
    <2>2. workers' = [workers EXCEPT ![w] = e]
      BY <1>5 DEF FlushFails
    <2> HIDE DEF e
    <2> QED BY <1>1, <2>1, <2>2 DEF Ended
  <1>6. CASE Respond(w) \/ WorkerCrash(w)
    <2>1. workers' = [workers EXCEPT ![w] = IdleWorker]
      BY <1>6 DEF Respond, WorkerCrash
    <2>2. IdleWorker.buffer = {} /\ IdleWorker.pc = "idle"
      BY DEF IdleWorker
    <2> QED BY <1>1, <2>1, <2>2, IdleWorkerType DEF Ended
  <1> QED BY <1>3, <1>4, <1>5, <1>6 DEF Ends

LEMMA EndStep ==
    ASSUME Core, NEW w \in Workers, Ends(w)
    PROVE  /\ Core' /\ RowsKept /\ PayloadsKept
           /\ UNCHANGED generations
           /\ \A v \in Workers \ {w} : workers'[v] = workers[v]
           /\ workers'[w].buffer = {}
           /\ \/ DOMAIN tasks' = DOMAIN tasks
              \/ \E p \in workers[w].buffer : tasks' = Append(tasks, NewTask(p))
  <1> DEFINE t == workers[w].task
  <1>1. workers[w].pc # "idle" /\ \E e : Ended(w, e)
    BY EndedWorker
  <1>2. /\ workers[w] \in Worker /\ t \in DOMAIN tasks /\ tasks[t] \in Task
        /\ TypeOK /\ QueueOK /\ WorkerOK
    BY <1>1, BusyWorker DEF Core
  <1>3. UNCHANGED <<quota, rowLock, clicks, generations>>
    BY DEF Ends, HandlerFails, Flush, FlushFails, Respond, WorkerCrash
  <1>4. generations' \in Seq(Generation) /\ RowsKept
    BY <1>2, <1>3, GenerationsUnchanged
  <1>5. /\ tasks' \in Seq(Task) /\ QueueOK' /\ PayloadsKept
        /\ \/ DOMAIN tasks' = DOMAIN tasks
           \/ \E p \in workers[w].buffer : tasks' = Append(tasks, NewTask(p))
    <2>1. CASE UNCHANGED tasks
      BY <1>2, <2>1, TasksUnchanged
    <2>2. CASE \E p \in workers[w].buffer : tasks' = Append(tasks, NewTask(p))
      <3>1. PICK p \in workers[w].buffer : tasks' = Append(tasks, NewTask(p))
        BY <2>2
      <3>2. p \in Payload
        BY <1>2 DEF Worker
      <3> QED BY <1>2, <3>1, <3>2, TasksAppended
    <2>3. CASE tasks' = [tasks EXCEPT ![t] = AfterError(tasks[t])]
      BY <1>2, <2>3, AfterErrorType, TasksUpdated
    <2>4. CASE tasks' = [tasks EXCEPT ![t] =
                            [tasks[t] EXCEPT !.state = "done", !.outcome = workers[w].reply]]
      <3> DEFINE e == [tasks[t] EXCEPT !.state = "done", !.outcome = workers[w].reply]
      <3>1. e \in Task /\ e.payload = tasks[t].payload /\ e.state # "queued"
        BY <1>2 DEF Task, TaskState, Worker
      <3>2. tasks' = [tasks EXCEPT ![t] = e]
        BY <2>4
      <3> HIDE DEF e
      <3> QED BY <1>2, <3>1, <3>2, TasksUpdated
    <2> QED BY <2>1, <2>2, <2>3, <2>4
            DEF Ends, HandlerFails, Flush, FlushFails, Respond, WorkerCrash
  <1>6. PICK e : Ended(w, e)
    BY <1>1
  <1>7. /\ workers' \in [Workers -> Worker] /\ WorkerOK'
        /\ workers'[w].buffer = {}
        /\ \A v \in Workers \ {w} : workers'[v] = workers[v]
    BY <1>2, <1>5, <1>6, WorkerUpdated DEF Ended
  <1> QED BY <1>3, <1>4, <1>5, <1>7, HandlerFrame

LEMMA ProcessCrashStep ==
    ASSUME Core, ProcessCrash
    PROVE  /\ Core' /\ RowsKept /\ PayloadsKept
           /\ UNCHANGED generations
           /\ DOMAIN tasks' = DOMAIN tasks
           /\ \A v \in Workers : workers'[v].buffer = {}
  <1> DEFINE After(t) == IF tasks[t].state \in {"queued", "posting"}
                           THEN [tasks[t] EXCEPT !.state = "dropped"] ELSE tasks[t]
             n == Len(tasks)
  <1>1. TypeOK /\ QueueOK /\ LockOK
    BY DEF Core
  <1>2. n \in Nat /\ DOMAIN tasks = 1..n
    BY <1>1 DEF TypeOK
  <1>3. \A t \in DOMAIN tasks : tasks[t] \in Task
    BY <1>1, ElementOfSeq DEF TypeOK
  <1>4. \A t \in DOMAIN tasks : /\ After(t) \in Task
                                /\ After(t).payload = tasks[t].payload
                                /\ After(t).state # "queued"
    BY <1>3 DEF Task, TaskState
  <1>5. tasks' = [t \in 1..n |-> After(t)]
    BY <1>2 DEF ProcessCrash
  <1> HIDE DEF After
  <1>6. tasks' \in [1..n -> Task] /\ DOMAIN tasks' = DOMAIN tasks
    BY <1>2, <1>4, <1>5
  <1>7. tasks' \in Seq(Task)
    BY <1>2, <1>6
  <1>8. QueueOK' /\ PayloadsKept
    BY <1>2, <1>4, <1>5 DEF QueueOK, PayloadsKept
  <1>9. /\ workers' \in [Workers -> Worker]
        /\ \A v \in Workers : workers'[v].buffer = {}
        /\ WorkerOK'
    BY IdleWorkerType DEF ProcessCrash, WorkerOK, IdleWorker
  <1>10. UNCHANGED <<quota, generations>>
    BY DEF ProcessCrash
  <1>11. /\ rowLock' \in [Users -> Clicks \cup {Free}]
         /\ clicks' \in [Clicks -> ClickPc]
         /\ \A c \in Clicks : clicks'[c] \notin {"enqueue", "commit"}
    BY <1>1 DEF ProcessCrash, TypeOK, ClickPc
  <1>12. LockOK'
    BY <1>11 DEF LockOK
  <1>13. generations' \in Seq(Generation) /\ RowsKept
    BY <1>1, <1>10, GenerationsUnchanged
  <1>14. TypeOK'
    BY <1>1, <1>7, <1>9, <1>10, <1>11, <1>13 DEF TypeOK
  <1> QED BY <1>6, <1>8, <1>9, <1>10, <1>12, <1>13, <1>14 DEF Core

-----------------------------------------------------------------------------
(* The invariants of the tables.                                           *)

\* A payload is sound if it names a committed row and, when it is about a
\* second attempt, the first one has its verdict.
Sound(p) == PayloadNamesRow(p) /\ (p.attempt = 2 => Rejected(p.match))

AllSound ==
    /\ \A t \in DOMAIN tasks : Sound(tasks[t].payload)
    /\ \A w \in Workers : \A p \in workers[w].buffer : Sound(p)
    /\ \A g \in DOMAIN generations :
           generations[g].attempt = 2 => Rejected(generations[g].match)

LEMMA AllSoundMeans == AllSound <=> FollowOnAfterCommit /\ SecondAttemptHasCause
  BY DEF AllSound, Sound, FollowOnAfterCommit, SecondAttemptHasCause

IInv == Core /\ AllSound /\ VerdictHasEvidence

LEMMA RejectedStable ==
    ASSUME RowsKept, NEW m, Rejected(m)
    PROVE  Rejected(m)'
  BY DEF RowsKept, Rejected, GenerationsOf

LEMMA SoundStable ==
    ASSUME RowsKept, NEW p, Sound(p)
    PROVE  Sound(p)'
  BY RejectedStable DEF RowsKept, Sound, PayloadNamesRow

\* What keeps everything sound: new tasks, newly buffered tasks and new rows
\* are.
LEMMA AllSoundStep ==
    ASSUME AllSound, RowsKept, PayloadsKept,
           \A t \in DOMAIN tasks' \ DOMAIN tasks : \A p :
               p = tasks'[t].payload => Sound(p)',
           \A w \in Workers : \A p \in workers'[w].buffer \ workers[w].buffer : Sound(p)',
           \A g \in DOMAIN generations' \ DOMAIN generations : \A m :
               generations'[g].attempt = 2 /\ m = generations'[g].match => Rejected(m)'
    PROVE  AllSound'
  <1> USE DEF Sound, PayloadNamesRow, Rejected, GenerationsOf
  <1>1. ASSUME NEW t \in DOMAIN tasks' PROVE Sound(tasks[t].payload)'
    <2>1. PICK p : p = tasks'[t].payload
      OBVIOUS
    <2>2. Sound(p)'
      <3>1. CASE t \in DOMAIN tasks
        <4>1. p = tasks[t].payload
          BY <2>1, <3>1 DEF PayloadsKept
        <4>2. Sound(p)
          BY <3>1, <4>1 DEF AllSound
        <4> QED BY <4>2, SoundStable
      <3> QED BY <1>1, <2>1, <3>1
    <2> QED BY <2>1, <2>2
  <1>2. ASSUME NEW w \in Workers, NEW p \in workers'[w].buffer PROVE Sound(p)'
    <2>1. CASE p \in workers[w].buffer
      <3>1. Sound(p)
        BY <2>1 DEF AllSound
      <3> QED BY <3>1, SoundStable
    <2> QED BY <1>2, <2>1
  <1>3. ASSUME NEW g \in DOMAIN generations', generations'[g].attempt = 2
        PROVE  Rejected(generations[g].match)'
    <2>1. PICK m : m = generations'[g].match
      OBVIOUS
    <2>2. Rejected(m)'
      <3>1. CASE g \in DOMAIN generations
        <4>1. generations[g].attempt = 2 /\ m = generations[g].match
          BY <1>3, <2>1, <3>1 DEF RowsKept
        <4>2. Rejected(m)
          BY <3>1, <4>1 DEF AllSound
        <4> QED BY <4>2, RejectedStable
      <3> QED BY <1>3, <2>1, <3>1
    <2> QED BY <2>1, <2>2
  <1> QED BY <1>1, <1>2, <1>3 DEF AllSound

\* A row is as good as its evidence, and only the graph writes verdicts.
LEMMA EvidenceMeans ==
    VerdictHasEvidence <=> \A g \in DOMAIN generations : Evidence(generations[g])
  BY DEF VerdictHasEvidence, Evidence

LEMMA GenerateOkKeeps ==
    ASSUME IInv, NEW w \in Workers, GenerateOk(w)
    PROVE  IInv'
  <1>1. PICK m, a, n : /\ m = Serving(w).match
                       /\ a = Serving(w).attempt
                       /\ n = Len(generations) + 1
    OBVIOUS
  <1> DEFINE p == VerifyTask(m, a, n)
             row == [match |-> m, attempt |-> a, status |-> "null",
                     failures |-> {}, clean |-> FALSE]
  <1>2. Core /\ AllSound /\ VerdictHasEvidence
    BY DEF IInv
  <1>3. /\ Core' /\ RowsKept /\ PayloadsKept
        /\ generations' = Append(generations, row)
        /\ row \in Generation
        /\ \A v \in Workers \ {w} : workers'[v] = workers[v]
        /\ workers'[w].buffer = {p}
    BY <1>1, <1>2, GenerateOkStep DEF Draft
  <1>4. generations \in Seq(Generation)
    BY <1>2 DEF Core, TypeOK
  <1>5. /\ DOMAIN generations' = DOMAIN generations \cup {n}
        /\ n \notin DOMAIN generations
        /\ generations'[n] = row
        /\ \A g \in DOMAIN generations : generations'[g] = generations[g]
    BY <1>1, <1>3, <1>4, AppendRow
  <1>6. a = 2 => Rejected(m)'
    <2>1. workers[w].task \in DOMAIN tasks
      BY <1>2, BusyWorker DEF GenerateOk
    <2>2. a = 2 => Rejected(m)
      BY <1>1, <1>2, <2>1 DEF AllSound, Sound, Serving
    <2> QED BY <1>3, <2>2, RejectedStable
  <1>7. Sound(p)'
    <2>1. p.gen = n /\ p.match = m /\ p.attempt = a
      BY DEF VerifyTask
    <2>2. PayloadNamesRow(p)'
      BY <1>5, <2>1 DEF PayloadNamesRow
    <2> HIDE DEF p
    <2> QED BY <1>6, <2>1, <2>2 DEF Sound
  <1> HIDE DEF p
  <1>8. AllSound'
    <2>1. DOMAIN tasks' = DOMAIN tasks
      BY DEF GenerateOk
    <2>2. \A v \in Workers : \A q \in workers'[v].buffer \ workers[v].buffer : q = p
      BY <1>3
    <2>3. \A g \in DOMAIN generations' \ DOMAIN generations : \A k :
              generations'[g].attempt = 2 /\ k = generations'[g].match => Rejected(k)'
      BY <1>5, <1>6
    <2> QED BY <1>2, <1>3, <1>7, <2>1, <2>2, <2>3, AllSoundStep
  <1>9. VerdictHasEvidence'
    <2>1. Evidence(row)
      BY DEF Evidence
    <2> QED BY <1>2, <1>5, <2>1 DEF VerdictHasEvidence, Evidence
  <1> QED BY <1>3, <1>8, <1>9 DEF IInv

LEMMA RunVerifyGraphKeeps ==
    ASSUME IInv, NEW w \in Workers, RunVerifyGraph(w)
    PROVE  IInv'
  <1>1. PICK m, a, g : /\ m = Serving(w).match
                       /\ a = Serving(w).attempt
                       /\ g = Serving(w).gen
    OBVIOUS
  <1> DEFINE p == GenerateTask(m, a + 1)
  <1>2. Core /\ AllSound /\ VerdictHasEvidence /\ FollowOnAfterCommit
    BY AllSoundMeans DEF IInv
  <1>3. /\ Core' /\ RowsKept /\ PayloadsKept
        /\ \A v \in Workers \ {w} : workers'[v] = workers[v]
        /\ \E row \in Generation : Judgement(w, row, workers'[w].buffer)
    BY <1>2, RunVerifyGraphStep
  <1>4. /\ g \in DOMAIN generations
        /\ generations[g] \in Generation
        /\ generations[g].match = m
        /\ generations[g].attempt = a
    BY <1>1, <1>2, ServedRow DEF RunVerifyGraph
  <1>5. generations \in Seq(Generation) /\ a \in 1..2
    BY <1>2, <1>4 DEF Core, TypeOK, Generation, MAX_ATTEMPT
  <1>6. PICK row \in Generation : Judgement(w, row, workers'[w].buffer)
    BY <1>3
  <1>7. /\ row.match = m /\ row.attempt = a /\ row.status # "null"
        /\ Evidence(row)
        /\ workers'[w].buffer \subseteq {p}
        /\ workers'[w].buffer # {} => a < 2
        /\ generations' = [generations EXCEPT ![g] = row]
    BY <1>1, <1>4, <1>6 DEF Judgement, Regenerate, Evidence, MAX_ATTEMPT
  <1>8. /\ DOMAIN generations' = DOMAIN generations
        /\ generations'[g] = row
        /\ \A h \in DOMAIN generations \ {g} : generations'[h] = generations[h]
    BY <1>4, <1>5, <1>7, UpdateRow
  <1>9. AllSound'
    <2>1. DOMAIN tasks' = DOMAIN tasks
      BY DEF RunVerifyGraph
    <2>2. ASSUME NEW v \in Workers, NEW q \in workers'[v].buffer \ workers[v].buffer
          PROVE  Sound(q)'
      <3>1. v = w /\ q = p /\ a = 1
        BY <1>3, <1>5, <1>7, <2>2
      <3>2. q.kind = "generate-resume" /\ q.match = m
        BY <3>1 DEF GenerateTask
      <3>3. Rejected(m)'
        BY <1>4, <1>7, <1>8, <3>1 DEF Rejected, GenerationsOf
      <3> QED BY <3>2, <3>3 DEF Sound, PayloadNamesRow
    <2> QED BY <1>2, <1>3, <1>8, <2>1, <2>2, AllSoundStep
  <1>10. VerdictHasEvidence'
    <2>1. \A h \in DOMAIN generations : Evidence(generations'[h])
      <3>1. \A h \in DOMAIN generations : Evidence(generations[h])
        BY <1>2, EvidenceMeans
      <3> QED BY <1>7, <1>8, <3>1
    <2> QED BY <1>8, <2>1 DEF VerdictHasEvidence, Evidence
  <1> QED BY <1>3, <1>9, <1>10 DEF IInv

\* Steps that write no row and put nothing new into a buffer.
LEMMA OtherStepKeeps ==
    ASSUME IInv, Core', RowsKept, PayloadsKept, UNCHANGED generations,
           \A v \in Workers : workers'[v].buffer \subseteq workers[v].buffer,
           \/ DOMAIN tasks' = DOMAIN tasks
           \/ \E p \in Payload : Sound(p) /\ tasks' = Append(tasks, NewTask(p))
    PROVE  IInv'
  <1>1. Core /\ AllSound /\ VerdictHasEvidence
    BY DEF IInv
  <1>2. ASSUME NEW t \in DOMAIN tasks' \ DOMAIN tasks, NEW q, q = tasks'[t].payload
        PROVE  Sound(q)'
    <2>1. PICK p \in Payload : Sound(p) /\ tasks' = Append(tasks, NewTask(p))
      BY <1>2
    <2>2. tasks \in Seq(Task) /\ NewTask(p) \in Task /\ NewTask(p).payload = p
      BY <1>1, NewTaskType DEF Core, TypeOK
    <2>3. q = p
      BY <1>2, <2>1, <2>2, AppendRow
    <2> QED BY <2>1, <2>3, SoundStable
  <1>3. AllSound'
    BY <1>1, <1>2, AllSoundStep
  <1>4. VerdictHasEvidence'
    BY <1>1 DEF VerdictHasEvidence
  <1> QED BY <1>3, <1>4 DEF IInv

-----------------------------------------------------------------------------
(* The theorems.                                                           *)

LEMMA IInvInit == Init => IInv
  <1> SUFFICES ASSUME Init PROVE IInv
    OBVIOUS
  <1>1. Core
    BY CoreInit
  <1>2. DOMAIN tasks = {} /\ DOMAIN generations = {}
    BY DEF Init
  <1>3. \A w \in Workers : workers[w].buffer = {}
    BY DEF Init, IdleWorker
  <1>4. AllSound /\ VerdictHasEvidence
    BY <1>2, <1>3 DEF AllSound, VerdictHasEvidence
  <1> QED BY <1>1, <1>4 DEF IInv

LEMMA IInvStep == IInv /\ [Next]_vars => IInv'
  <1> SUFFICES ASSUME IInv, [Next]_vars PROVE IInv'
    OBVIOUS
  <1>1. Core /\ AllSound
    BY DEF IInv
  <1>2. ASSUME NEW c \in Clicks, Click(c) \/ TriggerRollback(c) PROVE IInv'
    <2> DEFINE p == GenerateTask(Target[c], 1)
    <2>1. /\ Core' /\ RowsKept /\ PayloadsKept
          /\ UNCHANGED <<generations, workers>>
          /\ UNCHANGED tasks \/ tasks' = Append(tasks, NewTask(p))
      BY <1>1, <1>2, ClickStep
    <2>2. p \in Payload
      BY ConstantsAssumption, GenerateTaskType DEF MAX_ATTEMPT
    <2>3. Sound(p)
      BY DEF GenerateTask, Sound, PayloadNamesRow
    <2> HIDE DEF p
    <2> QED BY <2>1, <2>2, <2>3, OtherStepKeeps
  <1>3. ASSUME NEW w \in Workers, GeneratePermanent(w) PROVE IInv'
    BY <1>1, <1>3, GeneratePermanentStep, OtherStepKeeps DEF GeneratePermanent
  <1>4. ASSUME NEW w \in Workers, Ends(w) PROVE IInv'
    <2>1. /\ Core' /\ RowsKept /\ PayloadsKept
          /\ UNCHANGED generations
          /\ \A v \in Workers : workers'[v].buffer \subseteq workers[v].buffer
          /\ \/ DOMAIN tasks' = DOMAIN tasks
             \/ \E p \in workers[w].buffer : tasks' = Append(tasks, NewTask(p))
      BY <1>1, <1>4, EndStep
    <2>2. workers[w].buffer \subseteq Payload
      BY <1>1 DEF Core, TypeOK, Worker
    <2>3. \A p \in workers[w].buffer : Sound(p)
      BY <1>1 DEF AllSound
    <2> QED BY <2>1, <2>2, <2>3, OtherStepKeeps
  <1>5. ASSUME NEW t \in DOMAIN tasks,
               (\E w \in Workers : Post(t, w)) \/ PostRefused(t) \/ PostTimeout(t)
        PROVE  IInv'
    BY <1>1, <1>5, QueueStep, OtherStepKeeps
  <1>6. ASSUME ProcessCrash PROVE IInv'
    BY <1>1, <1>6, ProcessCrashStep, OtherStepKeeps
  <1>7. ASSUME UNCHANGED vars PROVE IInv'
    BY <1>7 DEF vars, IInv, Core, TypeOK, WorkerOK, QueueOK, LockOK, Serving, AllSound,
                Sound, PayloadNamesRow, Rejected, GenerationsOf, VerdictHasEvidence
  <1> QED BY <1>2, <1>3, <1>4, <1>5, <1>6, <1>7, GenerateOkKeeps, RunVerifyGraphKeeps
          DEF Next, Work, Error, Crash, Timeout, Handler, Ends

\* The inductive invariant holds in every reachable state, whatever crashes,
\* times out or is delivered twice.
THEOREM Invariance == Spec => []IInv
  BY IInvInit, IInvStep, PTL DEF Spec

\* Every table, task and handler keeps its type.
THEOREM TypeCorrect == Spec => []TypeOK
  <1>1. IInv => TypeOK
    BY DEF IInv, Core
  <1> QED BY <1>1, Invariance, PTL

\* BufferedTaskQueue keeps its promise: no verify-resume task, in a buffer or in
\* the queue, ever names a row that is not committed.
THEOREM FollowOnTasksAreCommitted == Spec => []FollowOnAfterCommit
  <1>1. IInv => FollowOnAfterCommit
    BY AllSoundMeans DEF IInv
  <1> QED BY <1>1, Invariance, PTL

\* No second attempt without a verdict on the first.
THEOREM SecondAttemptsAreCaused == Spec => []SecondAttemptHasCause
  <1>1. IInv => SecondAttemptHasCause
    BY AllSoundMeans DEF IInv
  <1> QED BY <1>1, Invariance, PTL

\* The verify graph passes nothing that a stage objected to or could not check.
THEOREM VerdictsHaveEvidence == Spec => []VerdictHasEvidence
  <1>1. IInv => VerdictHasEvidence
    BY DEF IInv
  <1> QED BY <1>1, Invariance, PTL

-----------------------------------------------------------------------------
(* The quota.                                                              *)

\* Steps after which the same clicks are answered "enqueued".
LEMMA LedgerKept ==
    ASSUME QuotaLedger, UNCHANGED quota,
           \A c \in Clicks : clicks'[c] = "enqueued" <=> clicks[c] = "enqueued"
    PROVE  QuotaLedger'
  <1>1. \A u \in Users : Paid(u)' = Paid(u)
    BY DEF Paid, Charged
  <1> QED BY <1>1 DEF QuotaLedger

LEMMA LedgerInit == Init => QuotaLedger
  <1> SUFFICES ASSUME Init, NEW u \in Users
               PROVE  /\ quota[u] >= 0
                      /\ quota[u] + Cardinality(Paid(u)) = InitialQuota[u]
    BY DEF QuotaLedger
  <1>1. Paid(u) = {}
    BY DEF Init, Paid
  <1>2. Cardinality(Paid(u)) = 0
    BY <1>1, FS_EmptySet
  <1>3. quota[u] = InitialQuota[u] /\ quota[u] \in Nat
    BY ConstantsAssumption DEF Init
  <1> QED BY <1>2, <1>3

\* The one step that pays: the unit leaves the account as the click is answered.
LEMMA LedgerCommit ==
    ASSUME Core, QuotaLedger, NEW c \in Clicks, TriggerCommit(c)
    PROVE  QuotaLedger'
  <1> SUFFICES ASSUME NEW u \in Users
               PROVE  /\ quota'[u] >= 0
                      /\ quota'[u] + Cardinality(Paid(u)') = InitialQuota[u]
    BY DEF QuotaLedger
  <1>1. /\ quota \in [Users -> Nat] /\ clicks \in [Clicks -> ClickPc]
        /\ clicks[c] = "commit" /\ quota[Charged(c)] > 0
        /\ quota' = [quota EXCEPT ![Charged(c)] = quota[Charged(c)] - 1]
        /\ clicks' = [clicks EXCEPT ![c] = "enqueued"]
    BY DEF Core, TypeOK, LockOK, TriggerCommit
  <1>2. quota[u] + Cardinality(Paid(u)) = InitialQuota[u] /\ quota[u] \in Nat
    BY <1>1 DEF QuotaLedger
  <1>3. IsFiniteSet(Paid(u)) /\ Cardinality(Paid(u)) \in Nat
    <2>1. Paid(u) \in SUBSET Clicks
      BY DEF Paid
    <2> QED BY <2>1, ConstantsAssumption, FS_Subset, FS_CardinalityType
  <1>4. CASE Charged(c) = u
    <2>1. Paid(u)' = Paid(u) \cup {c} /\ c \notin Paid(u)
      BY <1>1, <1>4 DEF Paid, Charged
    <2>2. Cardinality(Paid(u)') = Cardinality(Paid(u)) + 1
      BY <1>3, <2>1, FS_AddElement
    <2>3. quota'[u] = quota[u] - 1 /\ quota[u] > 0
      BY <1>1, <1>4
    <2> QED BY <1>2, <1>3, <2>2, <2>3
  <1>5. CASE Charged(c) # u
    <2>1. Paid(u)' = Paid(u)
      BY <1>1, <1>5 DEF Paid, Charged
    <2>2. quota'[u] = quota[u]
      BY <1>1, <1>5
    <2> QED BY <1>2, <2>1, <2>2
  <1> QED BY <1>4, <1>5

LEMMA LedgerStep == Core /\ QuotaLedger /\ [Next]_vars => QuotaLedger'
  <1> SUFFICES ASSUME Core, QuotaLedger, [Next]_vars PROVE QuotaLedger'
    OBVIOUS
  <1>1. clicks \in [Clicks -> ClickPc]
    BY DEF Core, TypeOK
  <1>2. ASSUME NEW c \in Clicks, Click(c) \/ TriggerRollback(c) PROVE QuotaLedger'
    <2>1. CASE TriggerCommit(c)
      BY <2>1, LedgerCommit
    <2>2. CASE ~TriggerCommit(c)
      <3>1. /\ UNCHANGED quota
            /\ \E pc \in ClickPc \ {"enqueued"} : clicks' = [clicks EXCEPT ![c] = pc]
            /\ clicks[c] # "enqueued"
        BY <1>2, <2>2 DEF Click, TriggerRead, TryConsumeQuota, TriggerEnqueue,
                         TriggerRollback, ClickPc
      <3>2. \A d \in Clicks : clicks'[d] = "enqueued" <=> clicks[d] = "enqueued"
        BY <1>1, <3>1
      <3> QED BY <3>1, <3>2, LedgerKept
    <2> QED BY <2>1, <2>2
  <1>3. ASSUME ProcessCrash PROVE QuotaLedger'
    <2>1. UNCHANGED quota
      BY <1>3 DEF ProcessCrash
    <2>2. \A d \in Clicks : clicks'[d] = "enqueued" <=> clicks[d] = "enqueued"
      BY <1>3 DEF ProcessCrash
    <2> QED BY <2>1, <2>2, LedgerKept
  <1>4. ASSUME UNCHANGED <<quota, clicks>> PROVE QuotaLedger'
    BY <1>4, LedgerKept
  <1> QED BY <1>2, <1>3, <1>4
          DEF Next, Work, Error, Crash, Timeout, Handler, GenerateOk, GeneratePermanent,
              RunVerifyGraph, HandlerFails, Flush, FlushFails, Respond, WorkerCrash,
              Post, PostRefused, PostTimeout, vars

\* try_consume_quota under any race of clicks, crashes and rollbacks: the units
\* that left the account are exactly the clicks that were answered "enqueued".
THEOREM QuotaIsConserved == Spec => []QuotaLedger
  <1>1. Init => Core /\ QuotaLedger
    BY CoreInit, LedgerInit
  <1>2. IInv => Core
    BY DEF IInv
  <1> QED BY <1>1, <1>2, LedgerStep, Invariance, PTL DEF Spec

-----------------------------------------------------------------------------
(* The invariants.                                                         *)

\* The clicks on m whose task is in the queue.
Dispatched(m) == {c \in Clicks : Target[c] = m /\ clicks[c] \in {"commit", "enqueued"}}
DispatchOK == \A m \in Matches : Cardinality(Dispatched(m)) <= Cardinality(Roots(m))

\* A handler of this loop buffers at most one task.
OneBuffered == \A w \in Workers : \A p, q \in workers[w].buffer : p = q

\* A verify-resume answered with a 2xx, or about to be, has its verdict.
VerdictGiven(w) ==
    /\ workers[w].pc \in {"flush", "respond"}
    /\ workers[w].reply # "5xx"
    /\ Serving(w).kind = "verify-resume"
    => generations[Serving(w).gen].status # "null"
VerdictBeforeAnswer == \A w \in Workers : VerdictGiven(w)

\* The drafts that wait for a verdict, or for a second attempt, have a task.
FollowedRow(g, row) ==
    /\ row.status = "null" =>
           LET judge == VerifyTask(row.match, row.attempt, g)
           IN  Buffered(judge) \/ Unanswered(judge)
    /\ row.status = "failed" =>
           LET again == GenerateTask(row.match, row.attempt + 1)
           IN  Buffered(again) \/ HandedOver(again)
Followed == \A g \in DOMAIN generations : FollowedRow(g, generations[g])

FollowedInv == OneBuffered /\ VerdictBeforeAnswer /\ Followed

-----------------------------------------------------------------------------
(* No charge without a task.                                               *)

\* Rows and tasks stay, whatever the step.
LEMMA StepKeeps ==
    ASSUME Core, FollowOnAfterCommit, [Next]_vars
    PROVE  RowsKept /\ PayloadsKept
  <1>1. ASSUME NEW c \in Clicks, Click(c) \/ TriggerRollback(c) PROVE RowsKept /\ PayloadsKept
    BY <1>1, ClickStep
  <1>2. ASSUME NEW w \in Workers, GenerateOk(w) PROVE RowsKept /\ PayloadsKept
    BY <1>2, GenerateOkStep
  <1>3. ASSUME NEW w \in Workers, GeneratePermanent(w) PROVE RowsKept /\ PayloadsKept
    BY <1>3, GeneratePermanentStep
  <1>4. ASSUME NEW w \in Workers, RunVerifyGraph(w) PROVE RowsKept /\ PayloadsKept
    BY <1>4, RunVerifyGraphStep
  <1>5. ASSUME NEW w \in Workers, Ends(w) PROVE RowsKept /\ PayloadsKept
    BY <1>5, EndStep
  <1>6. ASSUME NEW t \in DOMAIN tasks,
               (\E w \in Workers : Post(t, w)) \/ PostRefused(t) \/ PostTimeout(t)
        PROVE  RowsKept /\ PayloadsKept
    BY <1>6, QueueStep
  <1>7. ASSUME ProcessCrash PROVE RowsKept /\ PayloadsKept
    BY <1>7, ProcessCrashStep
  <1>8. ASSUME UNCHANGED vars PROVE RowsKept /\ PayloadsKept
    BY <1>8 DEF vars, RowsKept, PayloadsKept
  <1> QED BY <1>1, <1>2, <1>3, <1>4, <1>5, <1>6, <1>7, <1>8
          DEF Next, Work, Error, Crash, Timeout, Handler, Ends

LEMMA RowsFinite ==
    ASSUME NEW T, NEW s \in Seq(T), NEW S \in SUBSET DOMAIN s
    PROVE  IsFiniteSet(S) /\ Cardinality(S) \in Nat
  <1>1. Len(s) \in Nat /\ DOMAIN s = 1..Len(s)
    OBVIOUS
  <1>2. IsFiniteSet(DOMAIN s)
    BY <1>1, FS_Interval
  <1> QED BY <1>2, FS_Subset, FS_CardinalityType

LEMMA RootsFinite ==
    ASSUME tasks \in Seq(Task), NEW m
    PROVE  IsFiniteSet(Roots(m)) /\ Cardinality(Roots(m)) \in Nat
  BY RowsFinite DEF Roots

LEMMA DispatchedFinite ==
    ASSUME NEW S \in SUBSET Clicks
    PROVE  IsFiniteSet(S) /\ Cardinality(S) \in Nat
  BY ConstantsAssumption, FS_Subset, FS_CardinalityType

\* Steps after which no further click is past its enqueue.
LEMMA DispatchKept ==
    ASSUME Core, Core', DispatchOK, PayloadsKept,
           \A c \in Clicks : clicks'[c] \in {"commit", "enqueued"}
                                 => clicks[c] \in {"commit", "enqueued"}
    PROVE  DispatchOK'
  <1> SUFFICES ASSUME NEW m \in Matches
               PROVE  Cardinality(Dispatched(m)') <= Cardinality(Roots(m)')
    BY DEF DispatchOK
  <1>1. tasks \in Seq(Task) /\ tasks' \in Seq(Task)
    BY DEF Core, TypeOK
  <1>2. Dispatched(m) \in SUBSET Clicks /\ Dispatched(m)' \in SUBSET Dispatched(m)
    BY DEF Dispatched
  <1>3. /\ Cardinality(Dispatched(m)') <= Cardinality(Dispatched(m))
        /\ Cardinality(Dispatched(m)) \in Nat /\ Cardinality(Dispatched(m)') \in Nat
    BY <1>2, DispatchedFinite, FS_Subset
  <1>4. Roots(m) \subseteq Roots(m)'
    BY DEF Roots, PayloadsKept, GenerateTask
  <1>5. IsFiniteSet(Roots(m)') /\ Cardinality(Roots(m)') \in Nat
    <2>1. Roots(m)' \in SUBSET DOMAIN tasks'
      BY DEF Roots
    <2> QED BY <1>1, <2>1, RowsFinite
  <1>6. Cardinality(Roots(m)) <= Cardinality(Roots(m)') /\ Cardinality(Roots(m)) \in Nat
    BY <1>1, <1>4, <1>5, RootsFinite, FS_Subset
  <1> QED BY <1>3, <1>5, <1>6 DEF DispatchOK

\* The one step that dispatches: a click and its task, together.
LEMMA DispatchEnqueue ==
    ASSUME Core, DispatchOK, NEW c \in Clicks, TriggerEnqueue(c)
    PROVE  DispatchOK'
  <1> SUFFICES ASSUME NEW m \in Matches
               PROVE  Cardinality(Dispatched(m)') <= Cardinality(Roots(m)')
    BY DEF DispatchOK
  <1> DEFINE p == GenerateTask(Target[c], 1)
             n == Len(tasks) + 1
  <1>1. /\ tasks \in Seq(Task) /\ clicks \in [Clicks -> ClickPc]
        /\ clicks[c] = "enqueue"
        /\ clicks' = [clicks EXCEPT ![c] = "commit"]
        /\ tasks' = Append(tasks, NewTask(p))
        /\ TypeOK /\ QueueOK
    BY DEF Core, TypeOK, TriggerEnqueue
  <1>2. p \in Payload /\ p.match = Target[c]
    <2>1. Target[c] \in Matches /\ 1 \in 1..MAX_ATTEMPT
      BY ConstantsAssumption DEF MAX_ATTEMPT
    <2> QED BY <2>1, GenerateTaskType DEF GenerateTask
  <1>3. /\ DOMAIN tasks' = DOMAIN tasks \cup {n}
        /\ tasks'[n].payload = p
        /\ \A t \in DOMAIN tasks : tasks'[t] = tasks[t]
        /\ n \notin DOMAIN tasks
    BY <1>1, <1>2, TasksAppended, NewTaskType
  <1>4. /\ IsFiniteSet(Roots(m)) /\ Cardinality(Roots(m)) \in Nat
        /\ IsFiniteSet(Dispatched(m)) /\ Cardinality(Dispatched(m)) \in Nat
        /\ Cardinality(Dispatched(m)) <= Cardinality(Roots(m))
    <2>1. Dispatched(m) \in SUBSET Clicks
      BY DEF Dispatched
    <2> QED BY <1>1, <2>1, RootsFinite, DispatchedFinite DEF DispatchOK
  <1>5. CASE Target[c] = m
    <2>1. Dispatched(m)' = Dispatched(m) \cup {c} /\ c \notin Dispatched(m)
      BY <1>1, <1>5 DEF Dispatched
    <2>2. Roots(m)' = Roots(m) \cup {n} /\ n \notin Roots(m)
      BY <1>3, <1>5 DEF Roots
    <2>3. /\ Cardinality(Dispatched(m)') = Cardinality(Dispatched(m)) + 1
          /\ Cardinality(Roots(m)') = Cardinality(Roots(m)) + 1
      BY <1>4, <2>1, <2>2, FS_AddElement
    <2> QED BY <1>4, <2>3
  <1>6. CASE Target[c] # m
    <2>1. Dispatched(m)' = Dispatched(m)
      BY <1>1, <1>6 DEF Dispatched
    <2>2. Roots(m)' = Roots(m)
      <3>1. p # GenerateTask(m, 1)
        BY <1>6 DEF GenerateTask
      <3> QED BY <1>3, <3>1 DEF Roots, GenerateTask
    <2> QED BY <1>4, <2>1, <2>2
  <1> QED BY <1>5, <1>6

LEMMA DispatchStep == IInv /\ DispatchOK /\ [Next]_vars => DispatchOK'
  <1> SUFFICES ASSUME IInv, DispatchOK, [Next]_vars PROVE DispatchOK'
    OBVIOUS
  <1>1. Core /\ Core' /\ PayloadsKept /\ clicks \in [Clicks -> ClickPc]
    <2>1. IInv'
      BY IInvStep
    <2>2. FollowOnAfterCommit
      BY AllSoundMeans DEF IInv
    <2> QED BY <2>1, <2>2, StepKeeps DEF IInv, Core, TypeOK
  <1>2. ASSUME NEW c \in Clicks, Click(c) \/ TriggerRollback(c) PROVE DispatchOK'
    <2>1. CASE TriggerEnqueue(c)
      BY <1>1, <2>1, DispatchEnqueue
    <2>2. CASE ~TriggerEnqueue(c)
      <3>1. /\ \E pc \in ClickPc : clicks' = [clicks EXCEPT ![c] = pc]
            /\ clicks'[c] \in {"commit", "enqueued"} => clicks[c] = "commit"
        BY <1>1, <1>2, <2>2 DEF Click, TriggerRead, TryConsumeQuota, TriggerCommit,
                              TriggerRollback, ClickPc
      <3>2. \A d \in Clicks : clicks'[d] \in {"commit", "enqueued"}
                                  => clicks[d] \in {"commit", "enqueued"}
        BY <1>1, <3>1
      <3> QED BY <1>1, <3>2, DispatchKept
    <2> QED BY <2>1, <2>2
  <1>3. ASSUME ProcessCrash PROVE DispatchOK'
    <2>1. \A d \in Clicks : clicks'[d] \in {"commit", "enqueued"}
                                => clicks[d] \in {"commit", "enqueued"}
      BY <1>3 DEF ProcessCrash
    <2> QED BY <1>1, <2>1, DispatchKept
  <1>4. ASSUME UNCHANGED clicks PROVE DispatchOK'
    BY <1>1, <1>4, DispatchKept
  <1> QED BY <1>2, <1>3, <1>4
          DEF Next, Work, Error, Crash, Timeout, Handler, GenerateOk, GeneratePermanent,
              RunVerifyGraph, HandlerFails, Flush, FlushFails, Respond, WorkerCrash,
              Post, PostRefused, PostTimeout, vars

\* trigger_generate: under any race, crash or rollback, the clicks on a match
\* that were charged are at most its generate-resume tasks of a first attempt.
THEOREM ChargesAreDispatched == Spec => []ChargeIsDispatched
  <1>1. Init => DispatchOK
    <2> SUFFICES ASSUME Init, NEW m \in Matches
                 PROVE  Cardinality(Dispatched(m)) <= Cardinality(Roots(m))
      BY DEF DispatchOK
    <2>1. Dispatched(m) = {} /\ Roots(m) = {}
      BY DEF Init, Dispatched, Roots
    <2> QED BY <2>1, FS_EmptySet
  <1>2. Core /\ DispatchOK => ChargeIsDispatched
    <2> SUFFICES ASSUME Core, DispatchOK, NEW m \in Matches
                 PROVE  Cardinality({c \in Clicks : Target[c] = m /\ clicks[c] = "enqueued"})
                            <= Cardinality(Roots(m))
      BY DEF ChargeIsDispatched
    <2> DEFINE S == {c \in Clicks : Target[c] = m /\ clicks[c] = "enqueued"}
    <2>1. S \in SUBSET Dispatched(m) /\ S \in SUBSET Clicks /\ Dispatched(m) \in SUBSET Clicks
      BY DEF Dispatched
    <2>2. /\ Cardinality(S) <= Cardinality(Dispatched(m))
          /\ Cardinality(S) \in Nat /\ Cardinality(Dispatched(m)) \in Nat
      BY <2>1, DispatchedFinite, FS_Subset
    <2>3. Cardinality(Dispatched(m)) <= Cardinality(Roots(m)) /\ Cardinality(Roots(m)) \in Nat
      BY RootsFinite DEF DispatchOK, Core, TypeOK
    <2> HIDE DEF S
    <2>4. Cardinality(S) <= Cardinality(Roots(m))
      BY <2>2, <2>3
    <2> QED BY <2>4 DEF S
  <1>3. IInv => Core
    BY DEF IInv
  <1> QED BY <1>1, <1>2, <1>3, DispatchStep, Invariance, PTL DEF Spec
-----------------------------------------------------------------------------
(* What each step of a handler does to its worker and to its task.         *)

LEMMA WorkersExcept ==
    ASSUME TypeOK, NEW w \in Workers, NEW e, workers' = [workers EXCEPT ![w] = e]
    PROVE  workers'[w] = e /\ \A v \in Workers \ {w} : workers'[v] = workers[v]
  BY DEF TypeOK

\* A commit: the handler goes on to its flush.
LEMMA CommitEffect ==
    ASSUME Core, NEW w \in Workers, workers[w].pc # "idle", NEW b, NEW r, Commit(w, b, r)
    PROVE  /\ workers'[w].pc = "flush"
           /\ workers'[w].task = workers[w].task
           /\ workers'[w].buffer = b
           /\ workers'[w].reply = r
           /\ \A v \in Workers \ {w} : workers'[v] = workers[v]
  <1> DEFINE e == [workers[w] EXCEPT !.pc = "flush", !.buffer = b, !.reply = r]
  <1>1. workers[w] \in Worker /\ TypeOK
    BY BusyWorker DEF Core
  <1>2. /\ e.pc = "flush" /\ e.task = workers[w].task
        /\ e.buffer = b /\ e.reply = r
    BY <1>1 DEF Worker
  <1>3. workers' = [workers EXCEPT ![w] = e]
    BY DEF Commit
  <1> HIDE DEF e
  <1> QED BY <1>1, <1>2, <1>3, WorkersExcept

\* What a handler finds when it starts.
LEMMA PostEffect ==
    ASSUME Core, NEW t \in DOMAIN tasks, NEW w \in Workers, Post(t, w)
    PROVE  /\ DOMAIN tasks' = DOMAIN tasks
           /\ \A s \in DOMAIN tasks \ {t} : tasks'[s] = tasks[s]
           /\ tasks'[t].payload = tasks[t].payload
           /\ tasks'[t].state = "posting"
           /\ tasks'[t].outcome = tasks[t].outcome
           /\ \A v \in Workers \ {w} : workers'[v] = workers[v]
           /\ workers'[w].task = t
           /\ workers'[w].buffer = {}
           /\ LET p == tasks[t].payload
                  e == workers'[w]
              IN  \/ /\ p.kind = "generate-resume"
                     /\ Cardinality(GenerationsOf(p.match)) >= p.attempt
                     /\ e.pc = "respond" /\ e.reply = "skipped_existing"
                  \/ /\ p.kind = "generate-resume"
                     /\ ~(Cardinality(GenerationsOf(p.match)) >= p.attempt)
                     /\ e.pc = "generate" /\ e.reply = "none"
                  \/ /\ p.kind = "verify-resume" /\ p.gen \notin DOMAIN generations
                     /\ e.pc = "respond" /\ e.reply = "not_found"
                  \/ /\ p.kind = "verify-resume" /\ generations[p.gen].status # "null"
                     /\ e.pc = "respond" /\ e.reply = "skipped_verified"
                  \/ /\ p.kind = "verify-resume" /\ p.gen \in DOMAIN generations
                     /\ generations[p.gen].status = "null"
                     /\ e.pc = "verify" /\ e.reply = "none"
  <1> DEFINE p == tasks[t].payload
             e == IF p.kind = "generate-resume" THEN BeginGenerate(t) ELSE BeginVerify(t)
  <1>1. TypeOK /\ QueueOK /\ tasks[t] \in Task /\ tasks[t].state = "queued"
    BY ElementOfSeq DEF Core, TypeOK, Post
  <1>2. p \in Payload
    BY <1>1 DEF Task
  <1>3. p.kind \in {"generate-resume", "verify-resume"} /\ p.attempt \in 1..2
    BY <1>2 DEF Payload, MAX_ATTEMPT
  <1>4. tasks[t].posts < MaxPosts
    BY <1>1 DEF QueueOK
  <1>5. /\ DOMAIN tasks' = DOMAIN tasks
        /\ \A s \in DOMAIN tasks \ {t} : tasks'[s] = tasks[s]
        /\ tasks'[t] = Posted(tasks[t])
    BY <1>1, <1>4, PostedType, TasksUpdated DEF Post
  <1>6. /\ tasks'[t].payload = p
        /\ tasks'[t].state = "posting"
        /\ tasks'[t].outcome = tasks[t].outcome
    BY <1>1, <1>4, <1>5, PostedType
  <1>7. \A pc \in WorkerPc, reply \in Reply :
           LET b == Busy(t, pc, reply)
           IN  b.pc = pc /\ b.task = t /\ b.buffer = {} /\ b.reply = reply
    <2> TAKE pc \in WorkerPc, reply \in Reply
    <2> QED BY <1>1, BusyType
  <1>8. /\ {"generate", "verify", "respond"} \subseteq WorkerPc
        /\ {"none", "skipped_existing", "not_found", "skipped_verified"} \subseteq Reply
    BY DEF WorkerPc, Reply
  <1>9. workers' = [workers EXCEPT ![w] = e]
    BY DEF Post
  <1>10. workers'[w] = e /\ \A v \in Workers \ {w} : workers'[v] = workers[v]
    <2> HIDE DEF e
    <2> QED BY <1>1, <1>9, WorkersExcept
  <1>11. CASE p.kind = "generate-resume"
    <2>1. e = BeginGenerate(t)
      BY <1>11
    <2>2. ~(p.attempt > MAX_ATTEMPT)
      BY <1>3 DEF MAX_ATTEMPT
    <2>3. CASE Cardinality(GenerationsOf(p.match)) >= p.attempt
      <3>1. e = Busy(t, "respond", "skipped_existing")
        BY <2>1, <2>3 DEF BeginGenerate
      <3> HIDE DEF e
      <3> QED BY <1>5, <1>6, <1>7, <1>8, <1>10, <1>11, <2>3, <3>1
    <2>4. CASE ~(Cardinality(GenerationsOf(p.match)) >= p.attempt)
      <3>1. e = Busy(t, "generate", "none")
        BY <2>1, <2>2, <2>4 DEF BeginGenerate
      <3> HIDE DEF e
      <3> QED BY <1>5, <1>6, <1>7, <1>8, <1>10, <1>11, <2>4, <3>1
    <2> QED BY <2>3, <2>4
  <1>12. CASE p.kind = "verify-resume"
    <2>1. e = BeginVerify(t)
      BY <1>12
    <2>2. CASE p.gen \notin DOMAIN generations
      <3>1. e = Busy(t, "respond", "not_found")
        BY <2>1, <2>2 DEF BeginVerify
      <3> HIDE DEF e
      <3> QED BY <1>5, <1>6, <1>7, <1>8, <1>10, <1>12, <2>2, <3>1
    <2>3. CASE p.gen \in DOMAIN generations /\ generations[p.gen].status # "null"
      <3>1. e = Busy(t, "respond", "skipped_verified")
        BY <2>1, <2>3 DEF BeginVerify
      <3> HIDE DEF e
      <3> QED BY <1>5, <1>6, <1>7, <1>8, <1>10, <1>12, <2>3, <3>1
    <2>4. CASE p.gen \in DOMAIN generations /\ generations[p.gen].status = "null"
      <3>1. e = Busy(t, "verify", "none")
        BY <2>1, <2>4 DEF BeginVerify
      <3> HIDE DEF e
      <3> QED BY <1>5, <1>6, <1>7, <1>8, <1>10, <1>12, <2>4, <3>1
    <2> QED BY <2>2, <2>3, <2>4
  <1> QED BY <1>3, <1>11, <1>12

\* The task that a queue failure writes back: tried again, or dropped.
LEMMA ErrorEffect ==
    ASSUME Core, NEW t \in DOMAIN tasks, NEW x \in Task,
           x.payload = tasks[t].payload, x.outcome = tasks[t].outcome,
           tasks' = [tasks EXCEPT ![t] = AfterError(x)]
    PROVE  /\ DOMAIN tasks' = DOMAIN tasks
           /\ \A s \in DOMAIN tasks \ {t} : tasks'[s] = tasks[s]
           /\ tasks'[t].payload = tasks[t].payload
           /\ tasks'[t].state \in {"queued", "dropped"}
           /\ tasks'[t].outcome = tasks[t].outcome
  <1>1. TypeOK /\ QueueOK
    BY DEF Core
  <1>2. /\ AfterError(x) \in Task
        /\ AfterError(x).payload = tasks[t].payload
        /\ AfterError(x).state = "queued" => AfterError(x).posts < MaxPosts
        /\ AfterError(x).state \in {"queued", "dropped"}
        /\ AfterError(x).outcome = tasks[t].outcome
    BY AfterErrorType
  <1>3. PICK a : a = AfterError(x)
    OBVIOUS
  <1>4. /\ DOMAIN tasks' = DOMAIN tasks
        /\ tasks'[t] = a
        /\ \A s \in DOMAIN tasks \ {t} : tasks'[s] = tasks[s]
    BY <1>1, <1>2, <1>3, TasksUpdated
  <1> QED BY <1>2, <1>3, <1>4

\* Handlers that answer, or die: the task is left alone, written back after an
\* error, or done with the handler's reply.
LEMMA AnswerEffect ==
    ASSUME Core, NEW w \in Workers, Respond(w) \/ WorkerCrash(w)
    PROVE  LET t == workers[w].task IN
           /\ workers[w].pc # "idle" /\ t \in DOMAIN tasks
           /\ workers'[w] = IdleWorker
           /\ \A v \in Workers \ {w} : workers'[v] = workers[v]
           /\ DOMAIN tasks' = DOMAIN tasks
           /\ \A s \in DOMAIN tasks \ {t} : tasks'[s] = tasks[s]
           /\ tasks'[t].payload = tasks[t].payload
           /\ \/ tasks'[t] = tasks[t]
              \/ /\ tasks'[t].state \in {"queued", "dropped"}
                 /\ tasks'[t].outcome = tasks[t].outcome
              \/ /\ Respond(w) /\ workers[w].reply # "5xx"
                 /\ tasks'[t].state = "done" /\ tasks'[t].outcome = workers[w].reply
  <1> DEFINE t == workers[w].task
  <1>1. workers[w].pc # "idle"
    BY DEF Respond, WorkerCrash
  <1>2. /\ workers[w] \in Worker /\ t \in DOMAIN tasks /\ tasks[t] \in Task
        /\ TypeOK /\ QueueOK /\ tasks \in Seq(Task)
    BY <1>1, BusyWorker DEF Core, TypeOK
  <1>3. workers' = [workers EXCEPT ![w] = IdleWorker]
    BY DEF Respond, WorkerCrash
  <1>4. workers'[w] = IdleWorker /\ \A v \in Workers \ {w} : workers'[v] = workers[v]
    BY <1>2, <1>3, WorkersExcept
  <1>5. CASE UNCHANGED tasks
    BY <1>1, <1>2, <1>4, <1>5
  <1>6. CASE tasks' = [tasks EXCEPT ![t] = AfterError(tasks[t])]
    BY <1>1, <1>2, <1>4, <1>6, ErrorEffect
  <1>7. CASE /\ Respond(w) /\ workers[w].reply # "5xx"
             /\ tasks' = [tasks EXCEPT ![t] =
                    [tasks[t] EXCEPT !.state = "done", !.outcome = workers[w].reply]]
    <2> DEFINE e == [tasks[t] EXCEPT !.state = "done", !.outcome = workers[w].reply]
    <2>1. /\ e \in Task /\ e.payload = tasks[t].payload
          /\ e.state = "done" /\ e.outcome = workers[w].reply
      BY <1>2 DEF Task, TaskState, Worker
    <2>2. tasks' = [tasks EXCEPT ![t] = e]
      BY <1>7
    <2> HIDE DEF e
    <2>3. /\ DOMAIN tasks' = DOMAIN tasks
          /\ tasks'[t] = e
          /\ \A s \in DOMAIN tasks \ {t} : tasks'[s] = tasks[s]
      BY <1>2, <2>1, <2>2, UpdateRow
    <2> QED BY <1>1, <1>2, <1>4, <1>7, <2>1, <2>3
  <1> QED BY <1>5, <1>6, <1>7 DEF Respond, WorkerCrash

\* The flush: the buffered task, if any, is handed over.
LEMMA FlushEffect ==
    ASSUME Core, NEW w \in Workers, Flush(w)
    PROVE  /\ workers[w].pc = "flush"
           /\ workers'[w].pc = "respond"
           /\ workers'[w].task = workers[w].task
           /\ workers'[w].reply = workers[w].reply
           /\ workers'[w].buffer = {}
           /\ \A v \in Workers \ {w} : workers'[v] = workers[v]
           /\ \/ workers[w].buffer = {} /\ UNCHANGED tasks
              \/ \E p \in workers[w].buffer : tasks' = Append(tasks, NewTask(p))
  <1> DEFINE e == [workers[w] EXCEPT !.pc = "respond", !.buffer = {}]
  <1>1. workers[w].pc = "flush" /\ workers[w] \in Worker /\ TypeOK
    BY BusyWorker DEF Core, Flush
  <1>2. /\ e.pc = "respond" /\ e.task = workers[w].task
        /\ e.buffer = {} /\ e.reply = workers[w].reply
    BY <1>1 DEF Worker
  <1>3. workers' = [workers EXCEPT ![w] = e]
    BY DEF Flush
  <1>4. \/ workers[w].buffer = {} /\ UNCHANGED tasks
        \/ \E p \in workers[w].buffer : tasks' = Append(tasks, NewTask(p))
    BY DEF Flush
  <1> HIDE DEF e
  <1> QED BY <1>1, <1>2, <1>3, <1>4, WorkersExcept

\* Errors before the commit, and the flush that fails.
LEMMA FailEffect ==
    ASSUME Core, NEW w \in Workers, HandlerFails(w) \/ FlushFails(w)
    PROVE  /\ workers[w].pc # "idle"
           /\ workers'[w].pc = "respond"
           /\ workers'[w].task = workers[w].task
           /\ workers'[w].reply = "5xx"
           /\ workers'[w].buffer = {}
           /\ HandlerFails(w) => workers[w].buffer = {}
           /\ \A v \in Workers \ {w} : workers'[v] = workers[v]
           /\ UNCHANGED tasks
  <1>1. workers[w].pc # "idle" /\ UNCHANGED tasks
    BY DEF HandlerFails, FlushFails, Uncommitted
  <1>2. workers[w] \in Worker /\ TypeOK
    BY <1>1, BusyWorker DEF Core
  <1>3. HandlerFails(w) => workers[w].buffer = {}
    BY DEF HandlerFails, Uncommitted, Core, WorkerOK
  <1>4. CASE HandlerFails(w)
    <2> DEFINE e == [workers[w] EXCEPT !.pc = "respond", !.reply = "5xx"]
    <2>1. /\ e.pc = "respond" /\ e.task = workers[w].task
          /\ e.buffer = {} /\ e.reply = "5xx"
      BY <1>2, <1>3, <1>4 DEF Worker
    <2>2. workers' = [workers EXCEPT ![w] = e]
      BY <1>4 DEF HandlerFails
    <2> HIDE DEF e
    <2> QED BY <1>1, <1>2, <1>3, <2>1, <2>2, WorkersExcept
  <1>5. CASE FlushFails(w)
    <2> DEFINE e == [workers[w] EXCEPT !.pc = "respond", !.buffer = {}, !.reply = "5xx"]
    <2>1. /\ e.pc = "respond" /\ e.task = workers[w].task
          /\ e.buffer = {} /\ e.reply = "5xx"
      BY <1>2 DEF Worker
    <2>2. workers' = [workers EXCEPT ![w] = e]
      BY <1>5 DEF FlushFails
    <2> HIDE DEF e
    <2> QED BY <1>1, <1>2, <1>3, <2>1, <2>2, WorkersExcept
  <1> QED BY <1>4, <1>5
-----------------------------------------------------------------------------
(* Nothing is dropped without a crash.                                     *)

\* A handler that has answered keeps its verdict.
LEMMA VerdictStays ==
    ASSUME Core, FollowOnAfterCommit, RowsKept, PayloadsKept,
           NEW v \in Workers, VerdictGiven(v), workers[v].pc # "idle",
           workers'[v].pc \in {"flush", "respond"} => workers[v].pc \in {"flush", "respond"},
           workers'[v].reply \in {"5xx", workers[v].reply},
           workers'[v].task = workers[v].task
    PROVE  VerdictGiven(v)'
  <1>1. workers[v].task \in DOMAIN tasks
    BY BusyWorker
  <1>2. tasks'[workers'[v].task].payload = tasks[workers[v].task].payload
    BY <1>1 DEF PayloadsKept
  <1>3. PICK p : p = Serving(v)
    OBVIOUS
  <1>4. Serving(v)' = p
    BY <1>2, <1>3 DEF Serving
  <1>5. p.kind = "verify-resume" => p.gen \in DOMAIN generations
    BY <1>1, <1>3 DEF FollowOnAfterCommit, PayloadNamesRow, Serving
  <1> QED BY <1>3, <1>4, <1>5 DEF VerdictGiven, RowsKept

LEMMA IdleIsGiven ==
    ASSUME NEW v \in Workers, workers'[v].pc = "idle"
    PROVE  VerdictGiven(v)'
  BY DEF VerdictGiven

\* The workers that a step does not touch.
LEMMA OthersGiven ==
    ASSUME Core, FollowOnAfterCommit, RowsKept, PayloadsKept, VerdictBeforeAnswer,
           NEW S \in SUBSET Workers, \A v \in S : workers'[v] = workers[v]
    PROVE  \A v \in S : VerdictGiven(v)'
  <1> TAKE v \in S
  <1>1. v \in Workers /\ workers'[v] = workers[v] /\ VerdictGiven(v)
    BY DEF VerdictBeforeAnswer
  <1>2. CASE workers[v].pc = "idle"
    BY <1>1, <1>2, IdleIsGiven
  <1>3. CASE workers[v].pc # "idle"
    BY <1>1, <1>3, VerdictStays
  <1> QED BY <1>2, <1>3

\* What is buffered or not yet answered stays so, and what was handed over too.
LEMMA CoverKept ==
    ASSUME PayloadsKept, NEW p,
           \A v \in Workers : p \in workers[v].buffer => Buffered(p)' \/ Unanswered(p)',
           \A t \in DOMAIN tasks :
               tasks[t].payload = p /\ tasks[t].state # "done" => tasks'[t].state # "done"
    PROVE  Buffered(p) \/ Unanswered(p) => Buffered(p)' \/ Unanswered(p)'
  <1>1. Unanswered(p) => Unanswered(p)'
    BY DEF Unanswered, PayloadsKept
  <1> QED BY <1>1 DEF Buffered

LEMMA HandedOverKept ==
    ASSUME PayloadsKept, NEW p,
           \A v \in Workers : p \in workers[v].buffer => Buffered(p)' \/ Unanswered(p)'
    PROVE  Buffered(p) \/ HandedOver(p) => Buffered(p)' \/ HandedOver(p)'
  <1>1. HandedOver(p) => HandedOver(p)'
    BY DEF HandedOver, PayloadsKept
  <1>2. Unanswered(p)' => HandedOver(p)'
    BY DEF Unanswered, HandedOver
  <1> QED BY <1>1, <1>2 DEF Buffered

\* A step that loses no buffered task, and answers no verify-resume whose draft
\* has no verdict, leaves each draft followed.
LEMMA RowStaysFollowed ==
    ASSUME PayloadsKept, NEW g, NEW row, FollowedRow(g, row),
           \A v \in Workers : \A p \in workers[v].buffer : Buffered(p)' \/ Unanswered(p)',
           \A t \in DOMAIN tasks :
               /\ tasks[t].payload.kind = "verify-resume" /\ tasks[t].payload.gen = g
               /\ row.status = "null"
               /\ tasks[t].state # "done"
               => tasks'[t].state # "done"
    PROVE  FollowedRow(g, row)'
  <1>1. CASE row.status = "null"
    <2>1. PICK p : p = VerifyTask(row.match, row.attempt, g)
      OBVIOUS
    <2>2. p.kind = "verify-resume" /\ p.gen = g
      BY <2>1 DEF VerifyTask
    <2>3. Buffered(p) \/ Unanswered(p)
      BY <1>1, <2>1 DEF FollowedRow
    <2>4. Buffered(p)' \/ Unanswered(p)'
      BY <1>1, <2>2, <2>3, CoverKept
    <2> QED BY <1>1, <2>1, <2>4 DEF FollowedRow, VerifyTask
  <1>2. CASE row.status = "failed"
    <2>1. PICK p : p = GenerateTask(row.match, row.attempt + 1)
      OBVIOUS
    <2>2. Buffered(p) \/ HandedOver(p)
      BY <1>2, <2>1 DEF FollowedRow
    <2>3. Buffered(p)' \/ HandedOver(p)'
      BY <2>2, HandedOverKept
    <2> QED BY <1>2, <2>1, <2>3 DEF FollowedRow, GenerateTask
  <1>3. CASE row.status \notin {"null", "failed"}
    BY <1>3 DEF FollowedRow
  <1> QED BY <1>1, <1>2, <1>3

\* The same for the whole table, when the step writes no row.
LEMMA FollowedKept ==
    ASSUME Followed, PayloadsKept, UNCHANGED generations,
           \A v \in Workers : \A p \in workers[v].buffer : Buffered(p)' \/ Unanswered(p)',
           \A t \in DOMAIN tasks :
               /\ tasks[t].payload.kind = "verify-resume"
               /\ generations[tasks[t].payload.gen].status = "null"
               /\ tasks[t].state # "done"
               => tasks'[t].state # "done"
    PROVE  Followed'
  <1> SUFFICES ASSUME NEW g \in DOMAIN generations, NEW row, row = generations[g]
               PROVE  FollowedRow(g, row)'
    BY DEF Followed, FollowedRow
  <1>1. FollowedRow(g, row)
    BY DEF Followed
  <1> QED BY <1>1, RowStaysFollowed

\* Steps of a worker that writes no row: the others keep what they had.
LEMMA FollowedWorker ==
    ASSUME Core, FollowOnAfterCommit, FollowedInv, RowsKept, PayloadsKept,
           UNCHANGED generations, NEW w \in Workers,
           \A v \in Workers \ {w} : workers'[v] = workers[v],
           VerdictGiven(w)',
           workers'[w].buffer = {},
           \A p \in workers[w].buffer : Unanswered(p)',
           \A t \in DOMAIN tasks :
               /\ tasks[t].payload.kind = "verify-resume"
               /\ generations[tasks[t].payload.gen].status = "null"
               /\ tasks[t].state # "done"
               => tasks'[t].state # "done"
    PROVE  FollowedInv'
  <1>1. OneBuffered'
    <2>1. \A v \in Workers : \A p, q \in workers[v].buffer : p = q
      BY DEF FollowedInv, OneBuffered
    <2> QED BY <2>1 DEF OneBuffered
  <1>2. VerdictBeforeAnswer'
    <2>1. \A v \in Workers \ {w} : VerdictGiven(v)'
      BY OthersGiven DEF FollowedInv
    <2> QED BY <2>1 DEF VerdictBeforeAnswer
  <1>3. \A v \in Workers : \A p \in workers[v].buffer : Buffered(p)' \/ Unanswered(p)'
    <2> TAKE v \in Workers
    <2> TAKE p \in workers[v].buffer
    <2>1. CASE v = w
      BY <2>1
    <2>2. CASE v # w
      BY <2>2 DEF Buffered
    <2> QED BY <2>1, <2>2
  <1>4. Followed'
    BY <1>3, FollowedKept DEF FollowedInv
  <1> QED BY <1>1, <1>2, <1>4 DEF FollowedInv

\* Steps of clicks and of the queue that start no handler.
LEMMA FollowedQuiet ==
    ASSUME Core, FollowOnAfterCommit, FollowedInv, RowsKept, PayloadsKept,
           UNCHANGED <<generations, workers>>,
           \A t \in DOMAIN tasks : tasks[t].state # "done" => tasks'[t].state # "done"
    PROVE  FollowedInv'
  <1>1. OneBuffered'
    BY DEF FollowedInv, OneBuffered
  <1>2. VerdictBeforeAnswer'
    BY OthersGiven DEF FollowedInv, VerdictBeforeAnswer
  <1>3. \A v \in Workers : \A p \in workers[v].buffer : Buffered(p)'
    BY DEF Buffered
  <1>4. Followed'
    BY <1>3, FollowedKept DEF FollowedInv
  <1> QED BY <1>1, <1>2, <1>4 DEF FollowedInv

\* Steps that write a row, from a handler whose buffer was empty.
LEMMA FollowedWrite ==
    ASSUME Core, FollowOnAfterCommit, FollowedInv, RowsKept, PayloadsKept,
           UNCHANGED tasks, NEW w \in Workers,
           \A v \in Workers \ {w} : workers'[v] = workers[v],
           workers[w].buffer = {},
           \A p, q \in workers'[w].buffer : p = q,
           VerdictGiven(w)',
           NEW h \in DOMAIN generations',
           DOMAIN generations' \subseteq DOMAIN generations \cup {h},
           \A g \in DOMAIN generations' \ {h} : generations'[g] = generations[g],
           FollowedRow(h, generations[h])'
    PROVE  FollowedInv'
  <1>1. OneBuffered'
    <2>1. \A v \in Workers : \A p, q \in workers[v].buffer : p = q
      BY DEF FollowedInv, OneBuffered
    <2> QED BY <2>1 DEF OneBuffered
  <1>2. VerdictBeforeAnswer'
    <2>1. \A v \in Workers \ {w} : VerdictGiven(v)'
      BY OthersGiven DEF FollowedInv
    <2> QED BY <2>1 DEF VerdictBeforeAnswer
  <1>3. \A v \in Workers : \A p \in workers[v].buffer : Buffered(p)'
    <2> TAKE v \in Workers
    <2> TAKE p \in workers[v].buffer
    <2>1. v # w /\ workers'[v] = workers[v]
      OBVIOUS
    <2> QED BY <2>1 DEF Buffered
  <1>4. Followed'
    <2> SUFFICES ASSUME NEW g \in DOMAIN generations', NEW row, row = generations'[g]
                 PROVE  FollowedRow(g, row)'
      BY DEF Followed, FollowedRow
    <2>1. CASE g = h
      BY <2>1 DEF FollowedRow
    <2>2. CASE g # h
      <3>1. g \in DOMAIN generations /\ row = generations[g]
        BY <2>2
      <3>2. FollowedRow(g, row)
        BY <3>1 DEF FollowedInv, Followed
      <3> QED BY <1>3, <3>2, RowStaysFollowed
    <2> QED BY <2>1, <2>2
  <1> QED BY <1>1, <1>2, <1>4 DEF FollowedInv

\* A draft is committed with its verify-resume in the buffer.
LEMMA FollowedGenerateOk ==
    ASSUME IInv, FollowedInv, NEW w \in Workers, GenerateOk(w)
    PROVE  FollowedInv'
  <1>1. Core /\ FollowOnAfterCommit
    BY AllSoundMeans DEF IInv
  <1>2. PICK m, a, h : m = Serving(w).match /\ a = Serving(w).attempt
                       /\ h = Len(generations) + 1
    OBVIOUS
  <1>3. /\ RowsKept /\ PayloadsKept /\ UNCHANGED tasks
        /\ generations' = Append(generations, Draft(w))
        /\ Draft(w) \in Generation /\ generations \in Seq(Generation)
        /\ Draft(w).match = m /\ Draft(w).attempt = a /\ Draft(w).status = "null"
        /\ \A v \in Workers \ {w} : workers'[v] = workers[v]
        /\ workers'[w].buffer = {VerifyTask(m, a, h)}
    BY <1>1, <1>2, GenerateOkStep DEF Draft, GenerateOk, Core, TypeOK
  <1>4. /\ DOMAIN generations' = DOMAIN generations \cup {h}
        /\ generations'[h] = Draft(w)
        /\ \A g \in DOMAIN generations : generations'[g] = generations[g]
        /\ h \notin DOMAIN generations
    BY <1>2, <1>3, AppendRow
  <1>5. /\ workers[w].pc = "generate" /\ workers[w].buffer = {}
        /\ workers[w].task \in DOMAIN tasks
        /\ tasks[workers[w].task].payload.kind = "generate-resume"
    BY <1>1 DEF GenerateOk, Core, WorkerOK, Serving
  <1>6. VerdictGiven(w)'
    <2>1. workers'[w].task = workers[w].task
      BY <1>1, <1>5, CommitEffect DEF GenerateOk
    <2> QED BY <1>3, <1>5, <2>1 DEF VerdictGiven, Serving
  <1>7. FollowedRow(h, generations[h])'
    <2>1. Buffered(VerifyTask(m, a, h))'
      BY <1>3 DEF Buffered, VerifyTask
    <2> QED BY <1>3, <1>4, <2>1 DEF FollowedRow, VerifyTask
  <1>8. \A p, q \in workers'[w].buffer : p = q
    BY <1>3
  <1>9. h \in DOMAIN generations' /\ DOMAIN generations' \subseteq DOMAIN generations \cup {h}
        /\ \A g \in DOMAIN generations' \ {h} : generations'[g] = generations[g]
    BY <1>4
  <1> QED BY <1>1, <1>3, <1>5, <1>6, <1>7, <1>8, <1>9, FollowedWrite

\* A verdict is committed, a rejection with its regenerate in the buffer.
LEMMA FollowedVerdict ==
    ASSUME IInv, FollowedInv, NEW w \in Workers, RunVerifyGraph(w)
    PROVE  FollowedInv'
  <1>1. Core /\ FollowOnAfterCommit
    BY AllSoundMeans DEF IInv
  <1>2. PICK m, a, h : m = Serving(w).match /\ a = Serving(w).attempt /\ h = Serving(w).gen
    OBVIOUS
  <1>3. /\ RowsKept /\ PayloadsKept /\ UNCHANGED tasks
        /\ \A v \in Workers \ {w} : workers'[v] = workers[v]
        /\ \E row \in Generation : Judgement(w, row, workers'[w].buffer)
        /\ generations \in Seq(Generation)
        /\ workers[w].pc = "verify" /\ workers[w].buffer = {}
    BY <1>1, RunVerifyGraphStep DEF RunVerifyGraph, Core, TypeOK, WorkerOK
  <1>4. /\ h \in DOMAIN generations /\ generations[h].match = m /\ generations[h].attempt = a
        /\ workers[w].task \in DOMAIN tasks
    BY <1>1, <1>2, <1>3, ServedRow, BusyWorker
  <1>5. PICK row \in Generation : Judgement(w, row, workers'[w].buffer)
    BY <1>3
  <1>6. /\ row.match = m /\ row.attempt = a /\ row.status # "null"
        /\ workers'[w].buffer = IF row.status = "failed" THEN {GenerateTask(m, a + 1)} ELSE {}
        /\ generations' = [generations EXCEPT ![h] = row]
    BY <1>2, <1>4, <1>5 DEF Judgement, Regenerate
  <1>7. /\ DOMAIN generations' = DOMAIN generations
        /\ generations'[h] = row
        /\ \A g \in DOMAIN generations \ {h} : generations'[g] = generations[g]
    BY <1>3, <1>4, <1>6, UpdateRow
  <1>8. VerdictGiven(w)'
    <2>1. workers'[w].task = workers[w].task
      <3>1. PICK x \in Generation, b \in SUBSET Payload, r \in Reply : Commit(w, b, r)
        BY <1>1, GraphVerdict
      <3> QED BY <1>1, <1>3, <3>1, CommitEffect
    <2>2. tasks'[workers'[w].task].payload.gen = h
      BY <1>2, <1>3, <2>1 DEF Serving
    <2>3. generations'[tasks'[workers'[w].task].payload.gen].status # "null"
      BY <1>6, <1>7, <2>2
    <2> QED BY <2>3 DEF VerdictGiven, Serving
  <1>9. FollowedRow(h, generations[h])'
    <2>1. row.status = "failed" => Buffered(GenerateTask(m, a + 1))'
      BY <1>6 DEF Buffered, GenerateTask
    <2> QED BY <1>6, <1>7, <2>1 DEF FollowedRow, GenerateTask
  <1>10. \A p, q \in workers'[w].buffer : p = q
    BY <1>6
  <1>11. h \in DOMAIN generations' /\ DOMAIN generations' \subseteq DOMAIN generations \cup {h}
         /\ \A g \in DOMAIN generations' \ {h} : generations'[g] = generations[g]
    BY <1>4, <1>7
  <1> QED BY <1>1, <1>3, <1>8, <1>9, <1>10, <1>11, FollowedWrite

\* Every step but a crash.
LEMMA FollowedStep ==
    ASSUME IInv, FollowedInv, Work \/ Error \/ Timeout
    PROVE  FollowedInv'
  <1>1. Core /\ FollowOnAfterCommit /\ TypeOK /\ QueueOK
    BY AllSoundMeans DEF IInv, Core
  <1>2. RowsKept /\ PayloadsKept
    BY <1>1, StepKeeps DEF Next
  <1>3. ASSUME NEW c \in Clicks, Click(c) \/ TriggerRollback(c) PROVE FollowedInv'
    <2>1. /\ UNCHANGED <<generations, workers>>
          /\ UNCHANGED tasks \/ tasks' = Append(tasks, NewTask(GenerateTask(Target[c], 1)))
      BY <1>1, <1>3, ClickStep
    <2>2. tasks \in Seq(Task)
      BY <1>1 DEF TypeOK
    <2>3. \A t \in DOMAIN tasks : tasks'[t] = tasks[t]
      BY <2>1, <2>2
    <2> QED BY <1>1, <1>2, <2>1, <2>3, FollowedQuiet
  <1>4. ASSUME NEW w \in Workers, GeneratePermanent(w) PROVE FollowedInv'
    <2>1. /\ workers[w].pc = "generate" /\ workers[w].buffer = {}
          /\ workers[w].task \in DOMAIN tasks
          /\ tasks[workers[w].task].payload.kind = "generate-resume"
          /\ UNCHANGED <<generations, tasks>>
      BY <1>1, <1>4 DEF GeneratePermanent, Core, WorkerOK, Serving
    <2>2. /\ workers'[w].task = workers[w].task
          /\ workers'[w].buffer = {}
          /\ \A v \in Workers \ {w} : workers'[v] = workers[v]
      BY <1>1, <1>4, <2>1, CommitEffect DEF GeneratePermanent
    <2>3. VerdictGiven(w)'
      BY <2>1, <2>2 DEF VerdictGiven, Serving
    <2> QED BY <1>1, <1>2, <2>1, <2>2, <2>3, FollowedWorker
  <1>5. ASSUME NEW w \in Workers, HandlerFails(w) PROVE FollowedInv'
    <2>1. /\ workers'[w].reply = "5xx" /\ workers[w].buffer = {} /\ workers'[w].buffer = {}
          /\ \A v \in Workers \ {w} : workers'[v] = workers[v]
          /\ UNCHANGED <<generations, tasks>>
      BY <1>1, <1>5, FailEffect DEF HandlerFails
    <2>2. VerdictGiven(w)'
      BY <2>1 DEF VerdictGiven
    <2> QED BY <1>1, <1>2, <2>1, <2>2, FollowedWorker
  <1>6. ASSUME NEW w \in Workers, Flush(w) PROVE FollowedInv'
    <2>1. /\ workers[w].pc = "flush" /\ workers'[w].pc = "respond"
          /\ workers'[w].task = workers[w].task
          /\ workers'[w].reply = workers[w].reply
          /\ workers'[w].buffer = {}
          /\ \A v \in Workers \ {w} : workers'[v] = workers[v]
          /\ \/ workers[w].buffer = {} /\ UNCHANGED tasks
             \/ \E p \in workers[w].buffer : tasks' = Append(tasks, NewTask(p))
          /\ UNCHANGED generations
      BY <1>1, <1>6, FlushEffect DEF Flush
    <2>2. VerdictGiven(w)'
      BY <1>1, <1>2, <2>1, VerdictStays DEF FollowedInv, VerdictBeforeAnswer
    <2>3. /\ \A p \in workers[w].buffer : Unanswered(p)'
          /\ \A t \in DOMAIN tasks : tasks'[t] = tasks[t]
      <3>1. CASE workers[w].buffer = {} /\ UNCHANGED tasks
        BY <3>1
      <3>2. ASSUME NEW p \in workers[w].buffer, tasks' = Append(tasks, NewTask(p))
            PROVE  /\ \A q \in workers[w].buffer : Unanswered(q)'
                   /\ \A t \in DOMAIN tasks : tasks'[t] = tasks[t]
        <4>1. p \in Payload /\ \A q \in workers[w].buffer : q = p
          <5>1. workers[w] \in Worker
            BY <1>1 DEF TypeOK
          <5> QED BY <5>1 DEF FollowedInv, OneBuffered, Worker
        <4>2. /\ DOMAIN tasks' = DOMAIN tasks \cup {Len(tasks) + 1}
              /\ tasks'[Len(tasks) + 1].payload = p
              /\ tasks'[Len(tasks) + 1].state = "queued"
              /\ \A t \in DOMAIN tasks : tasks'[t] = tasks[t]
          BY <1>1, <3>2, <4>1, TasksAppended, NewTaskType
        <4>3. Unanswered(p)'
          BY <4>2 DEF Unanswered
        <4> QED BY <4>1, <4>2, <4>3
      <3> QED BY <2>1, <3>1, <3>2
    <2> QED BY <1>1, <1>2, <2>1, <2>2, <2>3, FollowedWorker
  <1>7. ASSUME NEW w \in Workers, Respond(w) PROVE FollowedInv'
    <2> DEFINE t == workers[w].task
    <2>1. /\ workers[w].pc = "respond" /\ t \in DOMAIN tasks
          /\ workers'[w] = IdleWorker
          /\ \A v \in Workers \ {w} : workers'[v] = workers[v]
          /\ \A s \in DOMAIN tasks \ {t} : tasks'[s] = tasks[s]
          /\ \/ tasks'[t] = tasks[t]
             \/ tasks'[t].state \in {"queued", "dropped"}
             \/ workers[w].reply # "5xx"
          /\ UNCHANGED generations
      BY <1>1, <1>7, AnswerEffect DEF Respond
    <2>2. workers[w].buffer = {} /\ workers'[w].buffer = {} /\ VerdictGiven(w)'
      BY <1>1, <2>1, IdleIsGiven DEF IdleWorker, Core, WorkerOK
    <2>3. \A s \in DOMAIN tasks :
              /\ tasks[s].payload.kind = "verify-resume"
              /\ generations[tasks[s].payload.gen].status = "null"
              /\ tasks[s].state # "done"
              => tasks'[s].state # "done"
      <3>1. VerdictGiven(w)
        BY DEF FollowedInv, VerdictBeforeAnswer
      <3> QED BY <2>1, <3>1 DEF VerdictGiven, Serving
    <2> QED BY <1>1, <1>2, <2>1, <2>2, <2>3, FollowedWorker
  <1>8. ASSUME NEW t \in DOMAIN tasks, NEW w \in Workers, Post(t, w) PROVE FollowedInv'
    <2>1. /\ \A s \in DOMAIN tasks \ {t} : tasks'[s] = tasks[s]
          /\ tasks'[t].payload = tasks[t].payload
          /\ tasks'[t].state = "posting"
          /\ \A v \in Workers \ {w} : workers'[v] = workers[v]
          /\ workers'[w].task = t
          /\ workers'[w].buffer = {}
      BY <1>1, <1>8, PostEffect
    <2>2. UNCHANGED generations /\ workers[w].buffer = {}
      BY <1>1, <1>8 DEF Post, Core, WorkerOK
    <2>3. VerdictGiven(w)'
      <3>1. PayloadNamesRow(tasks[t].payload)
        BY <1>1 DEF FollowOnAfterCommit
      <3>2. /\ workers'[w].pc = "respond" /\ tasks[t].payload.kind = "verify-resume"
            => generations[tasks[t].payload.gen].status # "null"
        BY <1>1, <1>8, <3>1, PostEffect DEF PayloadNamesRow
      <3>3. workers'[w].pc \in {"generate", "verify", "respond"}
        BY <1>1, <1>8, PostEffect
      <3> QED BY <2>1, <2>2, <3>2, <3>3 DEF VerdictGiven, Serving
    <2> QED BY <1>1, <1>2, <2>1, <2>2, <2>3, FollowedWorker
  <1>9. ASSUME NEW t \in DOMAIN tasks, PostRefused(t) \/ PostTimeout(t) PROVE FollowedInv'
    <2>1. tasks[t] \in Task
      BY <1>1, ElementOfSeq DEF TypeOK
    <2>2. \E x \in Task : /\ x.payload = tasks[t].payload /\ x.outcome = tasks[t].outcome
                          /\ tasks' = [tasks EXCEPT ![t] = AfterError(x)]
      <3>1. CASE PostRefused(t)
        <4>1. tasks[t].posts < MaxPosts
          BY <1>1, <3>1 DEF PostRefused, QueueOK
        <4> QED BY <2>1, <3>1, <4>1, PostedType DEF PostRefused
      <3>2. CASE PostTimeout(t)
        BY <2>1, <3>2 DEF PostTimeout
      <3> QED BY <1>9, <3>1, <3>2
    <2>3. /\ \A s \in DOMAIN tasks \ {t} : tasks'[s] = tasks[s]
          /\ tasks'[t].state \in {"queued", "dropped"}
      BY <1>1, <2>2, ErrorEffect
    <2>4. \A s \in DOMAIN tasks : tasks[s].state # "done" => tasks'[s].state # "done"
      BY <2>3
    <2>5. UNCHANGED <<generations, workers>>
      BY <1>9 DEF PostRefused, PostTimeout
    <2> QED BY <1>1, <1>2, <2>4, <2>5, FollowedQuiet
  <1> QED BY <1>3, <1>4, <1>5, <1>6, <1>7, <1>8, <1>9, FollowedGenerateOk, FollowedVerdict
          DEF Work, Error, Timeout, Handler

CalmNext == (MCSerial \/ MCCrash \/ MCTimeout) /\ WithinBounds'
FollowedWithoutCrash == ~crashed => FollowedInv

\* Each step of the instances is a step of the program, or none.
LEMMA MCNextIsNext == [CalmNext]_mcVars => [Next]_vars
  BY DEF CalmNext, mcVars, vars, MCSerial, MCCrash, MCTimeout, NoFault, Costly, Next

\* TASKS_AND_HANDLERS.md's "never silently dropped", for any number of matches,
\* clicks, threads, deliveries and timeouts: unless a server or the queue dies,
\* a draft without a verdict has a verify-resume that is not answered, and a
\* failed draft has had its regenerate handed over.
THEOREM NothingDroppedWithoutCrash == MCSpec => []NeverDroppedWithoutCrash
  <1>1. MCInit => IInv /\ FollowedWithoutCrash
    <2> SUFFICES ASSUME MCInit PROVE IInv /\ FollowedInv
      BY DEF FollowedWithoutCrash
    <2>1. Init
      BY DEF MCInit
    <2>2. DOMAIN generations = {} /\ \A w \in Workers : workers[w] = IdleWorker
      BY <2>1 DEF Init
    <2>3. FollowedInv
      BY <2>2 DEF FollowedInv, OneBuffered, VerdictBeforeAnswer, VerdictGiven, Followed,
                  IdleWorker
    <2> QED BY <2>1, <2>3, IInvInit
  <1>2. IInv /\ FollowedWithoutCrash /\ [CalmNext]_mcVars => IInv' /\ FollowedWithoutCrash'
    <2> SUFFICES ASSUME IInv, FollowedWithoutCrash, [CalmNext]_mcVars
                 PROVE  IInv' /\ FollowedWithoutCrash'
      OBVIOUS
    <2>1. IInv'
      BY MCNextIsNext, IInvStep
    <2>2. ASSUME ~crashed' PROVE FollowedInv'
      <3>1. ~crashed /\ (Work \/ Error \/ Timeout \/ UNCHANGED vars)
        <4>1. CASE NoFault(Work)
          BY <2>2, <4>1 DEF NoFault
        <4>2. CASE Costly(Error, FALSE) \/ Costly(Timeout, FALSE)
          <5>1. crashed' = (crashed \/ FALSE) /\ (Error \/ Timeout)
            BY <4>2 DEF Costly
          <5> QED BY <2>2, <5>1, Zenon
        <4>3. CASE Costly(Crash, TRUE)
          <5>1. crashed' = (crashed \/ TRUE)
            BY <4>3 DEF Costly
          <5> QED BY <2>2, <5>1, Zenon
        <4>4. CASE UNCHANGED mcVars
          BY <2>2, <4>4 DEF mcVars
        <4> QED BY <4>1, <4>2, <4>3, <4>4 DEF CalmNext, MCSerial, MCCrash, MCTimeout
      <3>2. FollowedInv
        BY <3>1 DEF FollowedWithoutCrash
      <3>3. CASE UNCHANGED vars
        BY <3>2, <3>3 DEF vars, FollowedInv, OneBuffered, VerdictBeforeAnswer, VerdictGiven,
                         Followed, FollowedRow, Buffered, Unanswered, HandedOver, Serving,
                         VerifyTask, GenerateTask
      <3> QED BY <3>1, <3>2, <3>3, FollowedStep
    <2> QED BY <2>1, <2>2 DEF FollowedWithoutCrash
  <1>3. FollowedWithoutCrash => NeverDroppedWithoutCrash
    BY DEF FollowedWithoutCrash, FollowedInv, Followed, FollowedRow, NeverDroppedWithoutCrash,
           NeverSilentlyDropped
  <1>4. MCSpec <=> MCInit /\ [][CalmNext]_mcVars
    BY DEF MCSpec, CalmNext
  <1> QED BY <1>1, <1>2, <1>3, <1>4, PTL

-----------------------------------------------------------------------------
(* Without overlapping deliveries.                                         *)

\* No post times out over a handler that still runs.
NoOverlapNext == Work \/ Error \/ Crash
NoOverlapSpec == Init /\ [][NoOverlapNext]_vars

Row(m, a) == \E g \in DOMAIN generations : generations[g].match = m /\ generations[g].attempt = a
Failed1(m) ==
    \E g \in DOMAIN generations :
        /\ generations[g].match = m /\ generations[g].attempt = 1
        /\ generations[g].status = "failed"

\* A generate-resume names nothing but its match and attempt, and asks for a
\* second attempt only when the first has failed.
PayloadFine(p) ==
    p.kind = "generate-resume" =>
        /\ p = GenerateTask(p.match, p.attempt)
        /\ p.attempt = 2 => Failed1(p.match)

\* No payload is handed over twice, and a skipped one was redundant.
TasksFine ==
    /\ \A t \in DOMAIN tasks :
           /\ PayloadFine(tasks[t].payload)
           /\ tasks[t].outcome = "skipped_existing" =>
                  Row(tasks[t].payload.match, tasks[t].payload.attempt)
    /\ \A s, t \in DOMAIN tasks : tasks[s].payload = tasks[t].payload => s = t

\* A busy worker is the only one with its task, which the queue has out, and
\* what it read before its LLM call still holds.
ReadFine(w) ==
    workers[w].pc # "idle" =>
        /\ tasks[workers[w].task].state = "posting"
        /\ workers[w].pc = "verify" => generations[Serving(w).gen].status = "null"
        /\ workers[w].pc = "generate" => ~Row(Serving(w).match, Serving(w).attempt)
        /\ workers[w].reply = "skipped_existing" => Row(Serving(w).match, Serving(w).attempt)
ServersFine ==
    /\ \A w \in Workers : ReadFine(w)
    /\ \A v, w \in Workers :
           /\ workers[v].pc # "idle" /\ workers[w].pc # "idle"
           /\ workers[v].task = workers[w].task
           => v = w

\* A buffered task is in one buffer and not yet handed over; a first attempt is
\* asked for by the click alone.
BuffersFine ==
    /\ \A w \in Workers : \A p \in workers[w].buffer :
           /\ PayloadFine(p)
           /\ ~HandedOver(p)
           /\ p.kind = "generate-resume" => p.attempt = 2
    /\ \A v, w \in Workers : \A p \in workers[v].buffer : p \in workers[w].buffer => v = w

\* A click that has not enqueued yet finds nothing of its own in the queue.
EarlyClick(c) == clicks[c] \in {"idle", "consume", "enqueue"}
ClicksFine == \A c \in Clicks : EarlyClick(c) => ~HandedOver(GenerateTask(Target[c], 1))

\* One draft per attempt, the second one after a rejection.
RowsFine ==
    /\ OneDraftPerAttempt
    /\ \A g \in DOMAIN generations :
           generations[g].attempt = 2 => Failed1(generations[g].match)

SerialInv == TasksFine /\ ServersFine /\ BuffersFine /\ ClicksFine /\ RowsFine

\* Nothing about the rows changes when no row is written.
LEMMA RowsSame ==
    ASSUME UNCHANGED generations
    PROVE  /\ \A m, a : Row(m, a)' <=> Row(m, a)
           /\ \A m : Failed1(m)' <=> Failed1(m)
           /\ \A p : PayloadFine(p)' <=> PayloadFine(p)
           /\ RowsFine' <=> RowsFine
  BY DEF Row, Failed1, PayloadFine, RowsFine, OneDraftPerAttempt, GenerateTask

\* Tasks that keep their payloads.
LEMMA TasksFineKept ==
    ASSUME TasksFine, UNCHANGED generations, PayloadsKept, DOMAIN tasks' = DOMAIN tasks,
           \A t \in DOMAIN tasks :
               tasks'[t].outcome = "skipped_existing" =>
                   Row(tasks[t].payload.match, tasks[t].payload.attempt)
    PROVE  /\ TasksFine'
           /\ \A p : HandedOver(p)' <=> HandedOver(p)
  <1>1. \A t \in DOMAIN tasks : tasks'[t].payload = tasks[t].payload
    BY DEF PayloadsKept
  <1>2. \A p : HandedOver(p)' <=> HandedOver(p)
    BY <1>1 DEF HandedOver
  <1>3. ASSUME NEW t \in DOMAIN tasks, NEW p, p = tasks[t].payload
        PROVE  /\ PayloadFine(p)'
               /\ tasks'[t].outcome = "skipped_existing" => Row(p.match, p.attempt)'
    BY <1>3, RowsSame DEF TasksFine
  <1>4. \A s, t \in DOMAIN tasks : tasks'[s].payload = tasks'[t].payload => s = t
    BY <1>1 DEF TasksFine
  <1>5. TasksFine'
    <2> SUFFICES ASSUME NEW t \in DOMAIN tasks', NEW p, p = tasks'[t].payload
                 PROVE  /\ PayloadFine(p)'
                        /\ tasks'[t].outcome = "skipped_existing" => Row(p.match, p.attempt)'
      BY <1>4 DEF TasksFine, PayloadFine, Row, Failed1, GenerateTask
    <2> QED BY <1>1, <1>3
  <1> QED BY <1>2, <1>5

\* A new task, of a payload that is new.
LEMMA TasksFineAppended ==
    ASSUME TasksFine, TypeOK, QueueOK, UNCHANGED generations,
           NEW p \in Payload, PayloadFine(p), ~HandedOver(p),
           tasks' = Append(tasks, NewTask(p))
    PROVE  /\ TasksFine'
           /\ \A q : HandedOver(q)' <=> HandedOver(q) \/ q = p
  <1> DEFINE n == Len(tasks) + 1
  <1>1. /\ DOMAIN tasks' = DOMAIN tasks \cup {n}
        /\ tasks'[n].payload = p /\ tasks'[n].outcome = "none"
        /\ \A t \in DOMAIN tasks : tasks'[t] = tasks[t]
    BY TasksAppended, NewTaskType
  <1>2. \A q : HandedOver(q)' <=> HandedOver(q) \/ q = p
    BY <1>1 DEF HandedOver
  <1>3. \A s, t \in DOMAIN tasks' : tasks'[s].payload = tasks'[t].payload => s = t
    BY <1>1 DEF TasksFine, HandedOver
  <1>4. TasksFine'
    <2> SUFFICES ASSUME NEW t \in DOMAIN tasks', NEW q, q = tasks'[t].payload
                 PROVE  /\ PayloadFine(q)'
                        /\ tasks'[t].outcome = "skipped_existing" => Row(q.match, q.attempt)'
      BY <1>3 DEF TasksFine, PayloadFine, Row, Failed1, GenerateTask
    <2>1. CASE t = n
      BY <1>1, <2>1, RowsSame
    <2>2. CASE t \in DOMAIN tasks
      BY <1>1, <2>2, RowsSame DEF TasksFine
    <2> QED BY <1>1, <2>1, <2>2
  <1> QED BY <1>2, <1>4

\* A busy worker whose task is still out, while no row is written.
LEMMA ReadStays ==
    ASSUME Core, PayloadsKept, UNCHANGED generations,
           NEW v \in Workers, ReadFine(v), workers'[v] = workers[v],
           workers[v].pc # "idle" => tasks'[workers[v].task].state = "posting"
    PROVE  ReadFine(v)'
  <1> SUFFICES ASSUME workers[v].pc # "idle" PROVE ReadFine(v)'
    BY DEF ReadFine
  <1>1. PICK p : p = Serving(v)
    OBVIOUS
  <1>2. Serving(v)' = p
    BY <1>1, BusyWorker DEF PayloadsKept, Serving
  <1>3. /\ workers[v].pc = "generate" => ~Row(p.match, p.attempt)'
        /\ workers[v].reply = "skipped_existing" => Row(p.match, p.attempt)'
    BY <1>1, RowsSame DEF ReadFine
  <1> QED BY <1>1, <1>2, <1>3 DEF ReadFine, Row

\* A worker that the step moves, by what it is afterwards; the others stay.
LEMMA ServersFineStep ==
    ASSUME Core, ServersFine, PayloadsKept, UNCHANGED generations,
           NEW w \in Workers, \A v \in Workers \ {w} : workers'[v] = workers[v],
           \A v \in Workers \ {w} :
               workers[v].pc # "idle" =>
                   /\ tasks'[workers[v].task].state = "posting"
                   /\ workers'[w].pc # "idle" => workers'[w].task # workers[v].task,
           ReadFine(w)'
    PROVE  ServersFine'
  <1>1. \A v \in Workers \ {w} : ReadFine(v)'
    BY ReadStays DEF ServersFine
  <1>2. \A v \in Workers : ReadFine(v)'
    BY <1>1
  <1>3. \A u, v \in Workers :
            workers'[u].pc # "idle" /\ workers'[v].pc # "idle"
            /\ workers'[u].task = workers'[v].task => u = v
    BY DEF ServersFine
  <1> QED BY <1>2, <1>3 DEF ServersFine

LEMMA ServersFineQuiet ==
    ASSUME Core, ServersFine, PayloadsKept, UNCHANGED <<generations, workers>>,
           \A v \in Workers :
               workers[v].pc # "idle" => tasks'[workers[v].task].state = "posting"
    PROVE  ServersFine'
  <1>1. \A v \in Workers : ReadFine(v)'
    BY ReadStays DEF ServersFine
  <1> QED BY <1>1 DEF ServersFine

\* Buffers that only lose tasks, and none of those left is handed over.
LEMMA BuffersFineKept ==
    ASSUME BuffersFine, UNCHANGED generations,
           \A v \in Workers : workers'[v].buffer \subseteq workers[v].buffer,
           \A v \in Workers : \A p \in workers'[v].buffer : HandedOver(p)' => HandedOver(p)
    PROVE  BuffersFine'
  <1>1. ASSUME NEW v \in Workers, NEW p \in workers'[v].buffer
        PROVE  /\ PayloadFine(p)' /\ ~HandedOver(p)'
               /\ p.kind = "generate-resume" => p.attempt = 2
    <2>1. p \in workers[v].buffer
      BY <1>1
    <2>2. PayloadFine(p) /\ ~HandedOver(p) /\ (p.kind = "generate-resume" => p.attempt = 2)
      BY <2>1 DEF BuffersFine
    <2> QED BY <1>1, <2>2, RowsSame
  <1>2. \A v, w \in Workers : \A p \in workers'[v].buffer : p \in workers'[w].buffer => v = w
    BY DEF BuffersFine
  <1> QED BY <1>1, <1>2 DEF BuffersFine

LEMMA ClicksFineKept ==
    ASSUME ClicksFine,
           \A c \in Clicks : EarlyClick(c)' => EarlyClick(c),
           \A c \in Clicks : EarlyClick(c)' =>
               \A p : p = GenerateTask(Target[c], 1) /\ HandedOver(p)' => HandedOver(p)
    PROVE  ClicksFine'
  <1> SUFFICES ASSUME NEW c \in Clicks, EarlyClick(c)', NEW p, p = GenerateTask(Target[c], 1)
               PROVE  ~HandedOver(p)'
    BY DEF ClicksFine, GenerateTask
  <1>1. ~HandedOver(p)
    BY DEF ClicksFine
  <1> QED BY <1>1

-----------------------------------------------------------------------------
(* The steps that write no row.                                            *)

\* At most one click asks for each match.
OneClickPerMatch == \A c, d \in Clicks : Target[c] = Target[d] => c = d

LEMMA SerialClick ==
    ASSUME OneClickPerMatch, IInv, SerialInv,
           NEW c \in Clicks, Click(c) \/ TriggerRollback(c)
    PROVE  SerialInv'
  <1>1. /\ Core /\ TypeOK /\ QueueOK /\ clicks \in [Clicks -> ClickPc]
        /\ TasksFine /\ ServersFine /\ BuffersFine /\ ClicksFine /\ RowsFine
    BY DEF IInv, Core, TypeOK, SerialInv
  <1>2. PayloadsKept /\ UNCHANGED <<generations, workers>>
    BY <1>1, ClickStep
  <1>3. RowsFine'
    BY <1>1, <1>2, RowsSame
  <1>4. CASE TriggerEnqueue(c)
    <2>1. PICK p : p = GenerateTask(Target[c], 1)
      OBVIOUS
    <2>2. /\ clicks[c] = "enqueue" /\ clicks' = [clicks EXCEPT ![c] = "commit"]
          /\ tasks' = Append(tasks, NewTask(p))
      BY <1>4, <2>1 DEF TriggerEnqueue
    <2>3. Target[c] \in Matches /\ 1 \in 1..MAX_ATTEMPT
      BY ConstantsAssumption DEF MAX_ATTEMPT
    <2>4. /\ p \in Payload /\ p.kind = "generate-resume" /\ p.attempt = 1
          /\ p.match = Target[c]
      BY <2>1, <2>3, GenerateTaskType DEF GenerateTask
    <2>5. ~HandedOver(p)
      BY <1>1, <2>1, <2>2 DEF ClicksFine, EarlyClick
    <2>6. PayloadFine(p)
      BY <2>1, <2>4 DEF PayloadFine
    <2>7. TasksFine' /\ \A q : HandedOver(q)' <=> HandedOver(q) \/ q = p
      BY <1>1, <1>2, <2>2, <2>4, <2>5, <2>6, TasksFineAppended
    <2>8. BuffersFine'
      <3>1. \A v \in Workers : \A q \in workers'[v].buffer : q # p
        BY <1>1, <1>2, <2>4 DEF BuffersFine
      <3> QED BY <1>1, <1>2, <2>7, <3>1, BuffersFineKept
    <2>9. ServersFine'
      <3>1. \A t \in DOMAIN tasks : tasks'[t] = tasks[t]
        BY <1>1, <2>2, <2>4, TasksAppended
      <3>2. \A v \in Workers : workers[v].pc # "idle" =>
                                 tasks'[workers[v].task].state = "posting"
        BY <1>1, <3>1, BusyWorker DEF ServersFine, ReadFine
      <3> QED BY <1>1, <1>2, <3>2, ServersFineQuiet
    <2>10. ClicksFine'
      <3>1. \A d \in Clicks : EarlyClick(d)' => EarlyClick(d) /\ d # c
        BY <1>1, <2>2 DEF EarlyClick
      <3>2. \A d \in Clicks : \A q : d # c /\ q = GenerateTask(Target[d], 1) => q # p
        BY <2>4 DEF GenerateTask, OneClickPerMatch
      <3> QED BY <1>1, <2>7, <3>1, <3>2, ClicksFineKept
    <2> QED BY <1>3, <2>7, <2>8, <2>9, <2>10 DEF SerialInv
  <1>5. CASE ~TriggerEnqueue(c)
    <2>1. /\ UNCHANGED tasks
          /\ \E pc \in ClickPc : /\ clicks' = [clicks EXCEPT ![c] = pc]
                                 /\ pc \in {"idle", "consume", "enqueue"} => EarlyClick(c)
      BY <1>1, <1>5 DEF Click, TriggerRead, TryConsumeQuota, TriggerCommit, TriggerRollback,
                        ClickPc, EarlyClick
    <2>2. \A p : HandedOver(p)' <=> HandedOver(p)
      BY <2>1 DEF HandedOver
    <2>3. TasksFine'
      BY <1>1, <1>2, <2>1, TasksFineKept DEF TasksFine
    <2>4. ServersFine'
      <3>1. \A v \in Workers : workers[v].pc # "idle" =>
                                 tasks'[workers[v].task].state = "posting"
        BY <1>1, <2>1 DEF ServersFine, ReadFine
      <3> QED BY <1>1, <1>2, <3>1, ServersFineQuiet
    <2>5. BuffersFine'
      BY <1>1, <1>2, <2>2, BuffersFineKept
    <2>6. ClicksFine'
      <3>1. \A d \in Clicks : EarlyClick(d)' => EarlyClick(d)
        BY <1>1, <2>1 DEF EarlyClick
      <3> QED BY <1>1, <2>2, <3>1, ClicksFineKept
    <2> QED BY <1>3, <2>3, <2>4, <2>5, <2>6 DEF SerialInv
  <1> QED BY <1>4, <1>5

\* A worker moves on within its handler, or ends: its task is its own, so that
\* the other workers keep theirs.
LEMMA SerialWorker ==
    ASSUME IInv, SerialInv, PayloadsKept, UNCHANGED <<clicks, generations>>,
           NEW w \in Workers, workers[w].pc # "idle",
           \A v \in Workers \ {w} : workers'[v] = workers[v],
           DOMAIN tasks' = DOMAIN tasks,
           \A t \in DOMAIN tasks \ {workers[w].task} : tasks'[t] = tasks[t],
           LET t == workers[w].task
           IN  tasks'[t].outcome = "skipped_existing" =>
                   \/ tasks[t].outcome = "skipped_existing"
                   \/ workers[w].reply = "skipped_existing",
           workers'[w].buffer = {},
           ReadFine(w)',
           workers'[w].pc # "idle" => workers'[w].task = workers[w].task
    PROVE  SerialInv'
  <1>1. /\ Core /\ TasksFine /\ ServersFine /\ BuffersFine /\ ClicksFine /\ RowsFine
    BY DEF IInv, SerialInv
  <1>2. workers[w].task \in DOMAIN tasks
    BY <1>1, BusyWorker
  <1>3. TasksFine' /\ \A p : HandedOver(p)' <=> HandedOver(p)
    <2>1. \A t \in DOMAIN tasks :
              tasks'[t].outcome = "skipped_existing" =>
                  Row(tasks[t].payload.match, tasks[t].payload.attempt)
      <3> SUFFICES ASSUME NEW t \in DOMAIN tasks, tasks'[t].outcome = "skipped_existing"
                   PROVE  Row(tasks[t].payload.match, tasks[t].payload.attempt)
        OBVIOUS
      <3>1. CASE tasks[t].outcome = "skipped_existing"
        BY <1>1, <3>1 DEF TasksFine
      <3>2. CASE tasks[t].outcome # "skipped_existing"
        <4>1. t = workers[w].task /\ workers[w].reply = "skipped_existing"
          BY <3>2
        <4> QED BY <1>1, <4>1 DEF ServersFine, ReadFine, Serving
      <3> QED BY <3>1, <3>2
    <2> QED BY <1>1, <2>1, TasksFineKept
  <1>4. ServersFine'
    <2>1. \A v \in Workers \ {w} :
              workers[v].pc # "idle" =>
                  /\ tasks'[workers[v].task].state = "posting"
                  /\ workers'[w].pc # "idle" => workers'[w].task # workers[v].task
      <3> SUFFICES ASSUME NEW v \in Workers \ {w}, workers[v].pc # "idle"
                   PROVE  /\ tasks'[workers[v].task].state = "posting"
                          /\ workers'[w].pc # "idle" => workers'[w].task # workers[v].task
        OBVIOUS
      <3>1. workers[v].task # workers[w].task
        BY <1>1 DEF ServersFine
      <3>2. workers[v].task \in DOMAIN tasks
        BY <1>1, BusyWorker
      <3>3. tasks[workers[v].task].state = "posting"
        BY <1>1 DEF ServersFine, ReadFine
      <3> QED BY <3>1, <3>2, <3>3
    <2> QED BY <1>1, <2>1, ServersFineStep
  <1>5. BuffersFine'
    BY <1>1, <1>3, BuffersFineKept
  <1>6. ClicksFine'
    BY <1>1, <1>3, ClicksFineKept DEF EarlyClick
  <1>7. RowsFine'
    BY <1>1, RowsSame
  <1> QED BY <1>3, <1>4, <1>5, <1>6, <1>7 DEF SerialInv

LEMMA IdleIsFine ==
    ASSUME NEW w \in Workers, workers'[w].pc = "idle"
    PROVE  ReadFine(w)'
  BY DEF ReadFine

\* The LLM refuses for good, the handler fails, or its flush does.
LEMMA SerialFails ==
    ASSUME IInv, SerialInv, NEW w \in Workers,
           GeneratePermanent(w) \/ HandlerFails(w) \/ FlushFails(w)
    PROVE  SerialInv'
  <1>1. Core /\ ServersFine
    BY DEF IInv, SerialInv
  <1>2. /\ workers[w].pc # "idle"
        /\ workers'[w].pc \in {"flush", "respond"}
        /\ workers'[w].task = workers[w].task
        /\ workers'[w].reply # "skipped_existing"
        /\ workers'[w].buffer = {}
        /\ \A v \in Workers \ {w} : workers'[v] = workers[v]
        /\ UNCHANGED <<clicks, generations, tasks>>
    <2>1. CASE GeneratePermanent(w)
      BY <1>1, <2>1, CommitEffect DEF GeneratePermanent
    <2>2. CASE HandlerFails(w) \/ FlushFails(w)
      BY <1>1, <2>2, FailEffect DEF HandlerFails, FlushFails
    <2> QED BY <2>1, <2>2
  <1>3. PayloadsKept
    BY <1>2 DEF PayloadsKept
  <1>4. ReadFine(w)'
    BY <1>1, <1>2 DEF ReadFine, ServersFine
  <1> QED BY <1>2, <1>3, <1>4, SerialWorker

LEMMA SerialEnds ==
    ASSUME IInv, SerialInv, NEW w \in Workers, Respond(w) \/ WorkerCrash(w)
    PROVE  SerialInv'
  <1>1. Core
    BY DEF IInv
  <1>2. PICK t : t = workers[w].task
    OBVIOUS
  <1>3. /\ workers[w].pc # "idle" /\ t \in DOMAIN tasks
        /\ workers'[w] = IdleWorker
        /\ \A v \in Workers \ {w} : workers'[v] = workers[v]
        /\ DOMAIN tasks' = DOMAIN tasks
        /\ \A s \in DOMAIN tasks \ {t} : tasks'[s] = tasks[s]
        /\ tasks'[t].payload = tasks[t].payload
        /\ tasks'[t].outcome \in {tasks[t].outcome, workers[w].reply}
        /\ UNCHANGED <<clicks, generations>>
    BY <1>1, <1>2, AnswerEffect DEF Respond, WorkerCrash
  <1>4. PayloadsKept
    BY <1>3 DEF PayloadsKept
  <1>5. workers'[w].pc = "idle" /\ workers'[w].buffer = {}
    BY <1>3 DEF IdleWorker
  <1>6. ReadFine(w)'
    BY <1>5, IdleIsFine
  <1>7. tasks'[t].outcome = "skipped_existing" =>
            tasks[t].outcome = "skipped_existing" \/ workers[w].reply = "skipped_existing"
    BY <1>3
  <1> QED BY <1>2, <1>3, <1>4, <1>5, <1>6, <1>7, SerialWorker

\* The buffered task is handed over, by the one worker that holds it.
LEMMA SerialFlush ==
    ASSUME IInv, SerialInv, NEW w \in Workers, Flush(w)
    PROVE  SerialInv'
  <1>1. /\ Core /\ TypeOK /\ QueueOK /\ IInv
        /\ TasksFine /\ ServersFine /\ BuffersFine /\ ClicksFine /\ RowsFine
    BY DEF IInv, Core, SerialInv
  <1>2. /\ workers[w].pc = "flush" /\ workers'[w].pc = "respond"
        /\ workers'[w].task = workers[w].task
        /\ workers'[w].reply = workers[w].reply
        /\ workers'[w].buffer = {}
        /\ \A v \in Workers \ {w} : workers'[v] = workers[v]
        /\ \/ workers[w].buffer = {} /\ UNCHANGED tasks
           \/ \E p \in workers[w].buffer : tasks' = Append(tasks, NewTask(p))
        /\ UNCHANGED <<clicks, generations>>
    BY <1>1, FlushEffect DEF Flush
  <1>3. /\ workers[w].task \in DOMAIN tasks
        /\ tasks[workers[w].task].state = "posting"
        /\ workers[w].reply = "skipped_existing" => Row(Serving(w).match, Serving(w).attempt)
    BY <1>1, <1>2, BusyWorker DEF ServersFine, ReadFine
  <1>4. CASE UNCHANGED tasks
    <2>1. PayloadsKept
      BY <1>4 DEF PayloadsKept
    <2>2. ReadFine(w)'
      BY <1>2, <1>3, <1>4 DEF ReadFine, Serving, Row
    <2>3. tasks'[workers[w].task].outcome = tasks[workers[w].task].outcome
      BY <1>4
    <2> QED BY <1>1, <1>2, <1>4, <2>1, <2>2, <2>3, SerialWorker
  <1>5. ASSUME NEW p \in workers[w].buffer, tasks' = Append(tasks, NewTask(p))
        PROVE  SerialInv'
    <2>1. p \in Payload
      <3>1. workers[w] \in Worker
        BY <1>1 DEF TypeOK
      <3> QED BY <1>5, <3>1 DEF Worker
    <2>2. /\ PayloadFine(p) /\ ~HandedOver(p)
          /\ p.kind = "generate-resume" => p.attempt = 2
          /\ \A v \in Workers \ {w} : p \notin workers[v].buffer
      BY <1>1, <1>5 DEF BuffersFine
    <2>3. TasksFine' /\ \A q : HandedOver(q)' <=> HandedOver(q) \/ q = p
      BY <1>1, <1>2, <1>5, <2>1, <2>2, TasksFineAppended
    <2>4. PayloadsKept /\ \A t \in DOMAIN tasks : tasks'[t] = tasks[t]
      BY <1>1, <1>5, <2>1, TasksAppended
    <2>5. BuffersFine'
      <3>1. \A v \in Workers : \A q \in workers'[v].buffer : q # p
        BY <1>2, <2>2
      <3>2. \A v \in Workers : workers'[v].buffer \subseteq workers[v].buffer
        BY <1>2
      <3> QED BY <1>1, <1>2, <2>3, <3>1, <3>2, BuffersFineKept
    <2>6. ServersFine'
      <3>1. ReadFine(w)'
        BY <1>2, <1>3, <2>4 DEF ReadFine, Serving, Row
      <3>2. \A v \in Workers \ {w} :
                workers[v].pc # "idle" =>
                    /\ tasks'[workers[v].task].state = "posting"
                    /\ workers'[w].task # workers[v].task
        BY <1>1, <1>2, <2>4, BusyWorker DEF ServersFine, ReadFine
      <3> QED BY <1>1, <1>2, <2>4, <3>1, <3>2, ServersFineStep
    <2>7. ClicksFine'
      <3>1. \A c \in Clicks : \A q : q = GenerateTask(Target[c], 1) => q # p
        BY <2>2 DEF GenerateTask
      <3> QED BY <1>1, <1>2, <2>3, <3>1, ClicksFineKept DEF EarlyClick
    <2>8. RowsFine'
      BY <1>1, <1>2, RowsSame
    <2> QED BY <2>3, <2>5, <2>6, <2>7, <2>8 DEF SerialInv
  <1> QED BY <1>2, <1>4, <1>5

\* The process dies: no worker is busy, no click is early that was not.
LEMMA SerialProcessCrash ==
    ASSUME IInv, SerialInv, ProcessCrash
    PROVE  SerialInv'
  <1>1. /\ Core /\ TasksFine /\ ServersFine /\ BuffersFine /\ ClicksFine /\ RowsFine
    BY DEF IInv, SerialInv
  <1>2. /\ PayloadsKept /\ UNCHANGED generations
        /\ DOMAIN tasks' = DOMAIN tasks
        /\ \A v \in Workers : workers'[v].buffer = {}
    BY <1>1, ProcessCrashStep
  <1>3. \A v \in Workers : workers'[v].pc = "idle"
    BY DEF ProcessCrash, IdleWorker
  <1>4. \A t \in DOMAIN tasks : tasks'[t].outcome = tasks[t].outcome
    <2> TAKE t \in DOMAIN tasks
    <2>1. tasks[t] \in Task
      BY <1>1, ElementOfSeq DEF Core, TypeOK
    <2>2. tasks'[t] \in {tasks[t], [tasks[t] EXCEPT !.state = "dropped"]}
      BY DEF ProcessCrash
    <2> QED BY <2>1, <2>2 DEF Task
  <1>5. TasksFine' /\ \A p : HandedOver(p)' <=> HandedOver(p)
    BY <1>1, <1>2, <1>4, TasksFineKept DEF TasksFine
  <1>6. ServersFine'
    BY <1>3, IdleIsFine DEF ServersFine
  <1>7. BuffersFine'
    BY <1>1, <1>2, <1>5, BuffersFineKept
  <1>8. ClicksFine'
    <2>1. \A c \in Clicks : EarlyClick(c)' => EarlyClick(c)
      BY DEF ProcessCrash, EarlyClick
    <2> QED BY <1>1, <1>5, <2>1, ClicksFineKept
  <1>9. RowsFine'
    BY <1>1, <1>2, RowsSame
  <1> QED BY <1>5, <1>6, <1>7, <1>8, <1>9 DEF SerialInv

\* A queued task has no handler.
LEMMA QueuedIsFree ==
    ASSUME ServersFine, NEW t \in DOMAIN tasks, tasks[t].state = "queued"
    PROVE  \A v \in Workers : workers[v].pc # "idle" => workers[v].task # t
  BY DEF ServersFine, ReadFine

LEMMA SerialRefused ==
    ASSUME IInv, SerialInv, NEW t \in DOMAIN tasks, PostRefused(t)
    PROVE  SerialInv'
  <1>1. /\ Core /\ QueueOK /\ TasksFine /\ ServersFine /\ BuffersFine /\ ClicksFine /\ RowsFine
        /\ UNCHANGED <<clicks, generations, workers>>
    BY DEF IInv, Core, SerialInv, PostRefused
  <1>2. tasks[t] \in Task /\ tasks[t].state = "queued" /\ tasks[t].posts < MaxPosts
    BY <1>1, ElementOfSeq DEF Core, TypeOK, PostRefused, QueueOK
  <1>3. PICK x \in Task : /\ x.payload = tasks[t].payload /\ x.outcome = tasks[t].outcome
                          /\ tasks' = [tasks EXCEPT ![t] = AfterError(x)]
    BY <1>2, PostedType DEF PostRefused
  <1>4. /\ DOMAIN tasks' = DOMAIN tasks
        /\ \A s \in DOMAIN tasks \ {t} : tasks'[s] = tasks[s]
        /\ tasks'[t].payload = tasks[t].payload
        /\ tasks'[t].outcome = tasks[t].outcome
    BY <1>1, <1>3, ErrorEffect
  <1>5. PayloadsKept
    BY <1>4 DEF PayloadsKept
  <1>6. TasksFine' /\ \A p : HandedOver(p)' <=> HandedOver(p)
    BY <1>1, <1>4, <1>5, TasksFineKept DEF TasksFine
  <1>7. ServersFine'
    <2>1. \A v \in Workers : workers[v].pc # "idle" =>
                               tasks'[workers[v].task].state = "posting"
      BY <1>1, <1>2, <1>4, QueuedIsFree, BusyWorker DEF ServersFine, ReadFine
    <2> QED BY <1>1, <1>5, <2>1, ServersFineQuiet
  <1>8. BuffersFine'
    BY <1>1, <1>6, BuffersFineKept
  <1>9. ClicksFine'
    BY <1>1, <1>6, ClicksFineKept DEF EarlyClick
  <1>10. RowsFine'
    BY <1>1, RowsSame
  <1> QED BY <1>6, <1>7, <1>8, <1>9, <1>10 DEF SerialInv

\* Counting the rows of a match tells whether an attempt is there.
LEMMA SmallSets ==
    ASSUME NEW S, IsFiniteSet(S)
    PROVE  /\ Cardinality(S) \in Nat
           /\ Cardinality(S) >= 1 <=> S # {}
           /\ Cardinality(S) >= 2 <=> \E x, y \in S : x # y
  <1>1. Cardinality(S) \in Nat
    BY FS_CardinalityType
  <1>2. CASE S = {}
    BY <1>2, FS_EmptySet
  <1>3. ASSUME NEW x \in S
        PROVE  /\ Cardinality(S) >= 1
               /\ Cardinality(S) >= 2 <=> \E y \in S : x # y
    <2>1. IsFiniteSet(S \ {x}) /\ Cardinality(S \ {x}) = Cardinality(S) - 1
      BY FS_RemoveElement
    <2>2. Cardinality(S \ {x}) \in Nat
      BY <2>1, FS_CardinalityType
    <2>3. Cardinality(S \ {x}) = 0 <=> S \ {x} = {}
      BY <2>1, FS_EmptySet
    <2> QED BY <1>1, <2>1, <2>2, <2>3
  <1> QED BY <1>1, <1>2, <1>3

LEMMA CountIsAttempt ==
    ASSUME Core, RowsFine, NEW m, NEW a \in 1..2, a = 2 => Failed1(m)
    PROVE  Cardinality(GenerationsOf(m)) >= a <=> Row(m, a)
  <1>1. \A g \in DOMAIN generations : generations[g].attempt \in 1..2
    <2> TAKE g \in DOMAIN generations
    <2>1. generations[g] \in Generation
      BY ElementOfSeq DEF Core, TypeOK
    <2> QED BY <2>1 DEF Generation, MAX_ATTEMPT
  <1>2. IsFiniteSet(GenerationsOf(m))
    <2>1. GenerationsOf(m) \in SUBSET DOMAIN generations
      BY DEF GenerationsOf
    <2> QED BY <2>1, RowsFinite DEF Core, TypeOK
  <1>3. CASE a = 1
    <2>1. Cardinality(GenerationsOf(m)) >= a <=> GenerationsOf(m) # {}
      BY <1>2, <1>3, SmallSets
    <2>2. ASSUME NEW g \in GenerationsOf(m) PROVE Row(m, 1)
      <3>1. g \in DOMAIN generations /\ generations[g].match = m
        BY DEF GenerationsOf
      <3>2. CASE generations[g].attempt = 1
        BY <3>1, <3>2 DEF Row
      <3>3. CASE generations[g].attempt = 2
        BY <3>1, <3>3 DEF RowsFine, Row, Failed1
      <3> QED BY <1>1, <3>1, <3>2, <3>3
    <2>3. Row(m, 1) => GenerationsOf(m) # {}
      BY DEF Row, GenerationsOf
    <2> QED BY <1>3, <2>1, <2>2, <2>3
  <1>4. CASE a = 2
    <2>1. Cardinality(GenerationsOf(m)) >= a <=> \E g, h \in GenerationsOf(m) : g # h
      BY <1>2, <1>4, SmallSets
    <2>2. ASSUME NEW g \in GenerationsOf(m), NEW h \in GenerationsOf(m), g # h
          PROVE  Row(m, 2)
      <3>1. /\ g \in DOMAIN generations /\ generations[g].match = m
            /\ h \in DOMAIN generations /\ generations[h].match = m
        BY DEF GenerationsOf
      <3>2. generations[g].attempt # generations[h].attempt
        BY <2>2, <3>1 DEF RowsFine, OneDraftPerAttempt
      <3>3. generations[g].attempt = 2 \/ generations[h].attempt = 2
        BY <1>1, <3>1, <3>2
      <3> QED BY <3>1, <3>3 DEF Row
    <2>3. Row(m, 2) => \E g, h \in GenerationsOf(m) : g # h
      BY <1>4 DEF Row, Failed1, GenerationsOf
    <2> QED BY <1>4, <2>1, <2>2, <2>3
  <1> QED BY <1>3, <1>4

\* A handler starts: what it reads is what its task's payload is about.
LEMMA SerialPost ==
    ASSUME IInv, SerialInv, NEW t \in DOMAIN tasks, NEW w \in Workers, Post(t, w)
    PROVE  SerialInv'
  <1>1. /\ Core /\ TasksFine /\ ServersFine /\ BuffersFine /\ ClicksFine /\ RowsFine
        /\ UNCHANGED <<clicks, generations>>
        /\ tasks[t].state = "queued" /\ workers[w].pc = "idle"
    BY DEF IInv, SerialInv, Post
  <1>2. /\ DOMAIN tasks' = DOMAIN tasks
        /\ \A s \in DOMAIN tasks \ {t} : tasks'[s] = tasks[s]
        /\ tasks'[t].payload = tasks[t].payload
        /\ tasks'[t].state = "posting"
        /\ tasks'[t].outcome = tasks[t].outcome
        /\ \A v \in Workers \ {w} : workers'[v] = workers[v]
        /\ workers'[w].task = t
        /\ workers'[w].buffer = {}
    BY <1>1, PostEffect
  <1>3. PayloadsKept
    BY <1>2 DEF PayloadsKept
  <1>4. TasksFine' /\ \A p : HandedOver(p)' <=> HandedOver(p)
    BY <1>1, <1>2, <1>3, TasksFineKept DEF TasksFine
  <1>5. ReadFine(w)'
    <2>1. PICK p : p = tasks[t].payload
      OBVIOUS
    <2>2. Serving(w)' = p
      BY <1>2, <2>1 DEF Serving
    <2>3. p \in Payload
      <3>1. tasks[t] \in Task
        BY <1>1, ElementOfSeq DEF Core, TypeOK
      <3> QED BY <2>1, <3>1 DEF Task
    <2>4. /\ p.attempt \in 1..2
          /\ p.kind = "generate-resume" /\ p.attempt = 2 => Failed1(p.match)
      BY <1>1, <2>1, <2>3 DEF TasksFine, PayloadFine, Payload, MAX_ATTEMPT
    <2>5. p.kind = "generate-resume" =>
              (Cardinality(GenerationsOf(p.match)) >= p.attempt <=> Row(p.match, p.attempt))
      BY <1>1, <2>4, CountIsAttempt
    <2>6. /\ workers'[w].pc = "verify" => generations[p.gen].status = "null"
          /\ workers'[w].pc = "generate" => ~Row(p.match, p.attempt)
          /\ workers'[w].reply = "skipped_existing" => Row(p.match, p.attempt)
      BY <1>1, <2>1, <2>5, PostEffect
    <2>7. Row(p.match, p.attempt)' <=> Row(p.match, p.attempt)
      BY <1>1, RowsSame
    <2> QED BY <1>1, <1>2, <2>2, <2>6, <2>7 DEF ReadFine, Row
  <1>6. ServersFine'
    <2>1. \A v \in Workers \ {w} :
              workers[v].pc # "idle" =>
                  /\ tasks'[workers[v].task].state = "posting"
                  /\ workers'[w].pc # "idle" => workers'[w].task # workers[v].task
      BY <1>1, <1>2, QueuedIsFree, BusyWorker DEF ServersFine, ReadFine
    <2> QED BY <1>1, <1>2, <1>3, <1>5, <2>1, ServersFineStep
  <1>7. BuffersFine'
    <2>1. \A v \in Workers : workers'[v].buffer \subseteq workers[v].buffer
      BY <1>2
    <2> QED BY <1>1, <1>4, <2>1, BuffersFineKept
  <1>8. ClicksFine'
    BY <1>1, <1>4, ClicksFineKept DEF EarlyClick
  <1>9. RowsFine'
    BY <1>1, RowsSame
  <1> QED BY <1>4, <1>6, <1>7, <1>8, <1>9 DEF SerialInv

-----------------------------------------------------------------------------
(* The steps that write a row.                                             *)

\* A verdict that is there stays, and rows are only added.
LEMMA RowsGrow ==
    ASSUME RowsKept,
           \A g \in DOMAIN generations :
               generations[g].status # "null" => generations'[g] = generations[g]
    PROVE  /\ \A m, a : Row(m, a) => Row(m, a)'
           /\ \A m : Failed1(m) => Failed1(m)'
           /\ \A p : PayloadFine(p) => PayloadFine(p)'
  <1>1. \A m, a : Row(m, a) => Row(m, a)'
    BY DEF RowsKept, Row
  <1>2. \A m : Failed1(m) => Failed1(m)'
    BY DEF RowsKept, Failed1
  <1> QED BY <1>1, <1>2 DEF PayloadFine, GenerateTask

\* What a handler that writes a row leaves alone.
LEMMA SerialWrite ==
    ASSUME IInv, SerialInv, RowsKept, UNCHANGED <<clicks, tasks>>,
           \A g \in DOMAIN generations :
               generations[g].status # "null" => generations'[g] = generations[g],
           NEW w \in Workers, workers[w].pc # "idle",
           \A v \in Workers \ {w} : workers'[v] = workers[v],
           workers'[w].task = workers[w].task,
           \A v \in Workers : workers[v].pc # "idle" => ReadFine(v)',
           \A p \in workers'[w].buffer :
               /\ PayloadFine(p)' /\ ~HandedOver(p)
               /\ p.kind = "generate-resume" => p.attempt = 2
               /\ \A v \in Workers : p \notin workers[v].buffer,
           RowsFine'
    PROVE  SerialInv'
  <1>1. /\ Core /\ TasksFine /\ ServersFine /\ BuffersFine /\ ClicksFine
    BY DEF IInv, SerialInv
  <1>2. /\ \A m, a : Row(m, a) => Row(m, a)'
        /\ \A p : PayloadFine(p) => PayloadFine(p)'
    BY RowsGrow
  <1>3. \A p : HandedOver(p)' <=> HandedOver(p)
    BY DEF HandedOver
  <1>4. TasksFine'
    <2> SUFFICES ASSUME NEW t \in DOMAIN tasks, NEW q, q = tasks[t].payload
                 PROVE  /\ PayloadFine(q)'
                        /\ tasks[t].outcome = "skipped_existing" => Row(q.match, q.attempt)'
      BY <1>1 DEF TasksFine, PayloadFine, Row, Failed1, GenerateTask
    <2> QED BY <1>1, <1>2 DEF TasksFine
  <1>5. ServersFine'
    <2>1. \A v \in Workers : ReadFine(v)'
      <3> TAKE v \in Workers
      <3>1. CASE workers[v].pc = "idle"
        BY <3>1, IdleIsFine
      <3> QED BY <3>1
    <2>2. \A u, v \in Workers :
              workers'[u].pc # "idle" /\ workers'[v].pc # "idle"
              /\ workers'[u].task = workers'[v].task => u = v
      <3>1. \A v \in Workers : /\ workers'[v].pc # "idle" => workers[v].pc # "idle"
                               /\ workers'[v].task = workers[v].task
        OBVIOUS
      <3> QED BY <1>1, <3>1 DEF ServersFine
    <2> QED BY <2>1, <2>2 DEF ServersFine
  <1>6. BuffersFine'
    <2>1. ASSUME NEW v \in Workers, NEW p \in workers'[v].buffer
          PROVE  /\ PayloadFine(p)' /\ ~HandedOver(p)'
                 /\ p.kind = "generate-resume" => p.attempt = 2
      <3>1. CASE v = w
        BY <1>3, <2>1, <3>1
      <3>2. CASE v # w
        <4>1. p \in workers[v].buffer
          BY <2>1, <3>2
        <4> QED BY <1>1, <1>2, <1>3, <4>1 DEF BuffersFine
      <3> QED BY <3>1, <3>2
    <2>2. \A u, v \in Workers : \A p \in workers'[u].buffer : p \in workers'[v].buffer => u = v
      BY <1>1 DEF BuffersFine
    <2> QED BY <2>1, <2>2 DEF BuffersFine
  <1>7. ClicksFine'
    BY <1>1, <1>3, ClicksFineKept DEF EarlyClick
  <1> QED BY <1>4, <1>5, <1>6, <1>7 DEF SerialInv

\* Two handlers of one payload are one handler.
LEMMA OneHandler ==
    ASSUME Core, TasksFine, ServersFine,
           NEW v \in Workers, NEW w \in Workers,
           workers[v].pc # "idle", workers[w].pc # "idle", Serving(v) = Serving(w)
    PROVE  v = w
  <1>1. /\ workers[v].task \in DOMAIN tasks /\ workers[w].task \in DOMAIN tasks
        /\ tasks[workers[v].task].payload = tasks[workers[w].task].payload
    BY BusyWorker
  <1>2. workers[v].task = workers[w].task
    BY <1>1 DEF TasksFine
  <1> QED BY <1>2 DEF ServersFine

LEMMA SerialGenerateOk ==
    ASSUME IInv, SerialInv, NEW w \in Workers, GenerateOk(w)
    PROVE  SerialInv'
  <1>1. /\ Core /\ FollowOnAfterCommit
        /\ TasksFine /\ ServersFine /\ BuffersFine /\ ClicksFine /\ RowsFine
    BY AllSoundMeans DEF IInv, SerialInv
  <1>2. PICK m, a, h : m = Serving(w).match /\ a = Serving(w).attempt
                       /\ h = Len(generations) + 1
    OBVIOUS
  <1>3. PICK p : p = VerifyTask(m, a, h)
    OBVIOUS
  <1>4. /\ RowsKept /\ UNCHANGED <<clicks, tasks>>
        /\ generations' = Append(generations, Draft(w))
        /\ Draft(w) \in Generation /\ generations \in Seq(Generation)
        /\ Draft(w).match = m /\ Draft(w).attempt = a /\ Draft(w).status = "null"
        /\ \A v \in Workers \ {w} : workers'[v] = workers[v]
        /\ workers'[w].buffer = {p}
    BY <1>1, <1>2, <1>3, GenerateOkStep DEF Draft, GenerateOk, Core, TypeOK
  <1>5. /\ DOMAIN generations' = DOMAIN generations \cup {h}
        /\ generations'[h] = Draft(w)
        /\ \A g \in DOMAIN generations : generations'[g] = generations[g]
        /\ h \notin DOMAIN generations
    BY <1>2, <1>4, AppendRow
  <1>6. /\ workers[w].pc = "generate" /\ Serving(w).kind = "generate-resume"
        /\ Serving(w) \in Payload /\ workers[w].task \in DOMAIN tasks
    BY <1>1, BusyWorker DEF GenerateOk, Core, WorkerOK
  <1>7. /\ workers'[w].pc = "flush" /\ workers'[w].task = workers[w].task
        /\ workers'[w].reply = "generated"
    BY <1>1, <1>6, CommitEffect DEF GenerateOk
  <1>8. /\ \A k, b : Row(k, b)' => Row(k, b) \/ (k = m /\ b = a)
        /\ \A k, b : Row(k, b) => Row(k, b)'
        /\ \A k : Failed1(k) => Failed1(k)'
    BY <1>4, <1>5 DEF Row, Failed1
  <1>9. ~Row(m, a) /\ (a = 2 => Failed1(m))
    <2>1. ReadFine(w) /\ PayloadFine(Serving(w))
      BY <1>1, <1>6 DEF ServersFine, TasksFine, Serving
    <2> QED BY <1>2, <1>6, <2>1 DEF ReadFine, PayloadFine
  <1>10. ASSUME NEW v \in Workers, workers[v].pc # "idle" PROVE ReadFine(v)'
    <2>1. PICK q : q = Serving(v)
      OBVIOUS
    <2>2. /\ tasks[workers[v].task].state = "posting"
          /\ workers[v].pc = "verify" => generations[q.gen].status = "null"
          /\ workers[v].pc = "generate" => ~Row(q.match, q.attempt)
          /\ workers[v].reply = "skipped_existing" => Row(q.match, q.attempt)
          /\ workers[v].task \in DOMAIN tasks
      BY <1>1, <1>10, <2>1, BusyWorker DEF ServersFine, ReadFine
    <2>3. CASE v = w
      <3>1. tasks'[workers'[v].task].state = "posting"
        BY <1>4, <1>7, <2>2, <2>3
      <3> QED BY <1>7, <2>3, <3>1 DEF ReadFine
    <2>4. CASE v # w
      <3>1. workers'[v] = workers[v] /\ Serving(v)' = q
        BY <1>4, <2>1, <2>4 DEF Serving
      <3>2. workers[v].pc = "verify" => generations'[q.gen].status = "null"
        BY <1>1, <1>5, <2>1, <2>2, ServedRow
      <3>3. workers[v].pc = "generate" => ~Row(q.match, q.attempt)'
        <4> SUFFICES ASSUME workers[v].pc = "generate", q.match = m, q.attempt = a PROVE FALSE
          BY <1>8, <2>2
        <4>1. PayloadFine(Serving(v)) /\ PayloadFine(Serving(w))
          BY <1>1, <1>6, <2>2 DEF TasksFine, Serving
        <4>2. Serving(v).kind = "generate-resume"
          BY <1>1 DEF Core, WorkerOK
        <4>3. Serving(v) = GenerateTask(m, a) /\ Serving(w) = GenerateTask(m, a)
          BY <1>2, <1>6, <2>1, <4>1, <4>2 DEF PayloadFine
        <4> QED BY <1>1, <1>6, <1>10, <2>4, <4>3, OneHandler
      <3>4. workers[v].reply = "skipped_existing" => Row(q.match, q.attempt)'
        BY <1>8, <2>2
      <3>5. tasks'[workers'[v].task].state = "posting"
        BY <1>4, <2>2, <3>1
      <3> QED BY <3>1, <3>2, <3>3, <3>4, <3>5 DEF ReadFine
    <2> QED BY <2>3, <2>4
  <1>11. /\ p.kind = "verify-resume" /\ p.gen = h
    BY <1>3 DEF VerifyTask
  <1>12. PayloadFine(p)' /\ ~HandedOver(p) /\ \A v \in Workers : p \notin workers[v].buffer
    BY <1>1, <1>5, <1>11 DEF PayloadFine, FollowOnAfterCommit, PayloadNamesRow, HandedOver
  <1>13. RowsFine'
    <2>1. OneDraftPerAttempt'
      BY <1>1, <1>4, <1>5, <1>9 DEF RowsFine, OneDraftPerAttempt, Row
    <2>2. ASSUME NEW g \in DOMAIN generations', NEW k, k = generations'[g].match,
                 generations'[g].attempt = 2
          PROVE  Failed1(k)'
      <3>1. CASE g = h
        BY <1>4, <1>5, <1>8, <1>9, <2>2, <3>1
      <3>2. CASE g # h
        BY <1>1, <1>5, <1>8, <2>2, <3>2 DEF RowsFine
      <3> QED BY <3>1, <3>2
    <2> QED BY <2>1, <2>2 DEF RowsFine, Failed1
  <1> QED BY <1>4, <1>5, <1>6, <1>7, <1>10, <1>11, <1>12, <1>13, SerialWrite

\* What one run of the graph does to its row, in a state where its read holds.
VerdictOn(w, h, row) ==
    /\ h \in DOMAIN generations
    /\ generations[h].status = "null"
    /\ generations[h].match = Serving(w).match
    /\ generations[h].attempt = Serving(w).attempt
    /\ row.match = Serving(w).match /\ row.attempt = Serving(w).attempt
    /\ row.attempt \in 1..2
    /\ row.status \in {"passed", "failed", "needs_review"}
    /\ row.status = "failed" => row.attempt = 1
    /\ workers'[w].buffer =
          IF row.status = "failed" THEN {GenerateTask(row.match, 2)} ELSE {}
    /\ DOMAIN generations' = DOMAIN generations
    /\ generations'[h] = row
    /\ \A g \in DOMAIN generations \ {h} : generations'[g] = generations[g]

LEMMA VerdictEffect ==
    ASSUME IInv, SerialInv, NEW w \in Workers, RunVerifyGraph(w)
    PROVE  /\ RowsKept /\ UNCHANGED <<clicks, tasks>>
           /\ \A v \in Workers \ {w} : workers'[v] = workers[v]
           /\ workers'[w].pc = "flush" /\ workers'[w].task = workers[w].task
           /\ workers'[w].reply # "skipped_existing"
           /\ \E row \in Generation : VerdictOn(w, Serving(w).gen, row)
  <1>1. /\ Core /\ FollowOnAfterCommit /\ ServersFine /\ workers[w].pc = "verify"
        /\ generations \in Seq(Generation)
    BY AllSoundMeans DEF IInv, SerialInv, RunVerifyGraph, Core, TypeOK
  <1>2. PICK h : h = Serving(w).gen
    OBVIOUS
  <1>3. /\ h \in DOMAIN generations /\ generations[h].status = "null"
        /\ generations[h] \in Generation
        /\ generations[h].match = Serving(w).match
        /\ generations[h].attempt = Serving(w).attempt
    BY <1>1, <1>2, ServedRow DEF ServersFine, ReadFine
  <1>4. /\ RowsKept /\ UNCHANGED <<clicks, tasks>>
        /\ \A v \in Workers \ {w} : workers'[v] = workers[v]
        /\ \E row \in Generation : Judgement(w, row, workers'[w].buffer)
    BY <1>1, RunVerifyGraphStep DEF RunVerifyGraph
  <1>5. /\ workers'[w].pc = "flush" /\ workers'[w].task = workers[w].task
        /\ workers'[w].reply # "skipped_existing"
    <2>1. PICK b : \/ Commit(w, b, "llm_permanent_failure") \/ Commit(w, b, "passed")
                   \/ Commit(w, b, "regenerate_enqueued") \/ Commit(w, b, "needs_review")
      BY Zenon DEF RunVerifyGraph, FailSafeNode, DecideNode
    <2> QED BY <1>1, <2>1, CommitEffect
  <1>6. PICK row \in Generation : Judgement(w, row, workers'[w].buffer)
    BY <1>4
  <1>7. /\ row.match = Serving(w).match /\ row.attempt = Serving(w).attempt
        /\ row.attempt \in 1..2
        /\ row.status \in {"passed", "failed", "needs_review"}
        /\ row.status = "failed" => row.attempt < 2
        /\ workers'[w].buffer = IF row.status = "failed" THEN {Regenerate(w)} ELSE {}
        /\ generations' = [generations EXCEPT ![h] = row]
    BY <1>2, <1>3, <1>6 DEF Judgement, Evidence, MAX_ATTEMPT, Generation, Status
  <1>8. row.status = "failed" => row.attempt = 1
    BY <1>7
  <1>9. row.status = "failed" => Regenerate(w) = GenerateTask(row.match, 2)
    BY <1>7, <1>8 DEF Regenerate
  <1>10. /\ DOMAIN generations' = DOMAIN generations
         /\ generations'[h] = row
         /\ \A g \in DOMAIN generations \ {h} : generations'[g] = generations[g]
    BY <1>1, <1>3, <1>7, UpdateRow
  <1>11. VerdictOn(w, h, row)
    BY <1>3, <1>7, <1>8, <1>9, <1>10 DEF VerdictOn
  <1> QED BY <1>2, <1>4, <1>5, <1>11

LEMMA SerialVerdict ==
    ASSUME IInv, SerialInv, NEW w \in Workers, RunVerifyGraph(w)
    PROVE  SerialInv'
  <1>1. /\ Core /\ FollowOnAfterCommit /\ workers[w].pc = "verify"
        /\ TasksFine /\ ServersFine /\ BuffersFine /\ ClicksFine /\ RowsFine
    BY AllSoundMeans DEF IInv, SerialInv, RunVerifyGraph
  <1>2. PICK h : h = Serving(w).gen
    OBVIOUS
  <1>3. /\ RowsKept /\ UNCHANGED <<clicks, tasks>>
        /\ \A v \in Workers \ {w} : workers'[v] = workers[v]
        /\ workers'[w].pc = "flush" /\ workers'[w].task = workers[w].task
        /\ workers'[w].reply # "skipped_existing"
        /\ \E row \in Generation : VerdictOn(w, h, row)
    BY <1>2, VerdictEffect
  <1>4. PICK row \in Generation : VerdictOn(w, h, row)
    BY <1>3
  <1>5. /\ h \in DOMAIN generations /\ generations[h].status = "null"
        /\ generations[h].match = row.match /\ generations[h].attempt = row.attempt
        /\ DOMAIN generations' = DOMAIN generations
        /\ generations'[h] = row
        /\ \A g \in DOMAIN generations \ {h} : generations'[g] = generations[g]
        /\ row.status = "failed" => row.attempt = 1
        /\ workers'[w].buffer =
              IF row.status = "failed" THEN {GenerateTask(row.match, 2)} ELSE {}
    BY <1>4 DEF VerdictOn
  <1>6. \A g \in DOMAIN generations :
            generations[g].status # "null" => generations'[g] = generations[g]
    BY <1>5
  <1>7. /\ \A k, b : Row(k, b)' <=> Row(k, b)
        /\ \A k : Failed1(k) => Failed1(k)'
    BY <1>5 DEF Row, Failed1
  <1>8. ASSUME NEW v \in Workers, workers[v].pc # "idle" PROVE ReadFine(v)'
    <2>1. PICK q : q = Serving(v)
      OBVIOUS
    <2>2. /\ tasks[workers[v].task].state = "posting"
          /\ workers[v].pc = "verify" => generations[q.gen].status = "null"
          /\ workers[v].pc = "generate" => ~Row(q.match, q.attempt)
          /\ workers[v].reply = "skipped_existing" => Row(q.match, q.attempt)
      BY <1>1, <1>8, <2>1 DEF ServersFine, ReadFine
    <2>3. CASE v = w
      <3>1. tasks'[workers'[v].task].state = "posting"
        BY <1>3, <2>2, <2>3
      <3> QED BY <1>3, <2>3, <3>1 DEF ReadFine
    <2>4. CASE v # w
      <3>1. workers'[v] = workers[v] /\ Serving(v)' = q
        BY <1>3, <2>1, <2>4 DEF Serving
      <3>2. workers[v].pc = "verify" => generations'[q.gen].status = "null"
        <4> SUFFICES ASSUME workers[v].pc = "verify"
                     PROVE  generations'[q.gen].status = "null"
          OBVIOUS
        <4>1. /\ q \in Payload /\ q.kind = "verify-resume" /\ q.gen \in DOMAIN generations
              /\ generations[q.gen].match = q.match
              /\ generations[q.gen].attempt = q.attempt
          BY <1>1, <2>1, ServedRow
        <4>2. PICK x : x = Serving(w)
          OBVIOUS
        <4>3. /\ x \in Payload /\ x.kind = "verify-resume" /\ x.gen = h
              /\ generations[h].match = x.match
              /\ generations[h].attempt = x.attempt
          BY <1>1, <1>2, <4>2, ServedRow
        <4>4. q.gen # h
          <5> SUFFICES ASSUME q.gen = h PROVE FALSE
            OBVIOUS
          <5>1. q = x
            BY <4>1, <4>3 DEF Payload
          <5> QED BY <1>1, <1>8, <2>1, <2>4, <4>2, <5>1, OneHandler
        <4> QED BY <1>5, <2>2, <4>1, <4>4
      <3>3. tasks'[workers'[v].task].state = "posting"
        BY <1>3, <2>2, <3>1
      <3>4. /\ workers[v].pc = "generate" => ~Row(q.match, q.attempt)'
            /\ workers[v].reply = "skipped_existing" => Row(q.match, q.attempt)'
        BY <1>7, <2>2
      <3> QED BY <3>1, <3>2, <3>3, <3>4 DEF ReadFine
    <2> QED BY <2>3, <2>4
  <1>9. ~Failed1(row.match) \/ row.attempt # 1
    <2> SUFFICES ASSUME NEW g \in DOMAIN generations, generations[g].match = row.match,
                        generations[g].attempt = 1, generations[g].status = "failed",
                        row.attempt = 1
                 PROVE  FALSE
      BY DEF Failed1
    <2>1. g = h
      BY <1>1, <1>5 DEF RowsFine, OneDraftPerAttempt
    <2> QED BY <1>5, <2>1
  <1>10. ASSUME NEW p \in workers'[w].buffer
         PROVE  /\ PayloadFine(p)' /\ ~HandedOver(p)
                /\ p.kind = "generate-resume" => p.attempt = 2
                /\ \A v \in Workers : p \notin workers[v].buffer
    <2>1. row.status = "failed" /\ row.attempt = 1 /\ p = GenerateTask(row.match, 2)
      BY <1>5, <1>10
    <2>2. p.kind = "generate-resume" /\ p.match = row.match /\ p.attempt = 2
      BY <2>1 DEF GenerateTask
    <2>3. Failed1(row.match)'
      BY <1>5, <2>1 DEF Failed1
    <2>4. PayloadFine(p)'
      BY <2>1, <2>2, <2>3 DEF PayloadFine, GenerateTask, Failed1
    <2>5. ~PayloadFine(p)
      BY <1>9, <2>1, <2>2 DEF PayloadFine
    <2> QED BY <1>1, <2>2, <2>4, <2>5 DEF TasksFine, BuffersFine, HandedOver
  <1>11. RowsFine'
    <2>1. OneDraftPerAttempt'
      BY <1>1, <1>5 DEF RowsFine, OneDraftPerAttempt
    <2>2. ASSUME NEW g \in DOMAIN generations', NEW k, k = generations'[g].match,
                 generations'[g].attempt = 2
          PROVE  Failed1(k)'
      BY <1>1, <1>5, <1>7, <2>2 DEF RowsFine
    <2> QED BY <2>1, <2>2 DEF RowsFine, Failed1
  <1> QED BY <1>1, <1>3, <1>6, <1>8, <1>10, <1>11, SerialWrite

LEMMA SerialStep ==
    OneClickPerMatch /\ IInv /\ SerialInv /\ [NoOverlapNext]_vars => SerialInv'
  <1> SUFFICES ASSUME OneClickPerMatch, IInv, SerialInv, [NoOverlapNext]_vars
               PROVE  SerialInv'
    OBVIOUS
  <1>1. CASE UNCHANGED vars
    BY <1>1 DEF vars, SerialInv, TasksFine, ServersFine, BuffersFine, ClicksFine, RowsFine,
                PayloadFine, ReadFine, EarlyClick, OneDraftPerAttempt, Row, Failed1,
                HandedOver, Serving, GenerateTask
  <1> QED BY <1>1, SerialClick, SerialFails, SerialEnds, SerialFlush, SerialProcessCrash,
             SerialRefused, SerialPost, SerialGenerateOk, SerialVerdict
          DEF NoOverlapNext, Work, Error, Crash, Handler

\* Without overlapping deliveries and with one click per match, what a handler
\* read before its LLM call still holds when it commits.
THEOREM SerialInvariance ==
    ASSUME OneClickPerMatch
    PROVE  NoOverlapSpec => []SerialInv
  <1>1. Init => SerialInv
    <2> SUFFICES ASSUME Init PROVE SerialInv
      OBVIOUS
    <2>1. /\ DOMAIN tasks = {} /\ DOMAIN generations = {}
          /\ \A w \in Workers : workers[w] = IdleWorker
      BY DEF Init
    <2>2. IdleWorker.pc = "idle" /\ IdleWorker.buffer = {}
      BY DEF IdleWorker
    <2> QED BY <2>1, <2>2 DEF SerialInv, TasksFine, ServersFine, BuffersFine, ClicksFine,
                             RowsFine, ReadFine, OneDraftPerAttempt, HandedOver
  <1>2. NoOverlapSpec => []IInv
    <2>1. NoOverlapNext => Next
      BY DEF NoOverlapNext, Next
    <2> QED BY <2>1, Invariance, PTL DEF NoOverlapSpec, Spec
  <1> QED BY <1>1, <1>2, SerialStep, PTL DEF NoOverlapSpec

\* TASKS_AND_HANDLERS.md's "redelivery of the same attempt is a no-op": through
\* any crashes, 5xx answers and retries, a match has one draft per attempt.
THEOREM RedeliveryIsANoOp ==
    ASSUME OneClickPerMatch
    PROVE  NoOverlapSpec => []OneDraftPerAttempt
  <1>1. SerialInv => OneDraftPerAttempt
    BY DEF SerialInv, RowsFine
  <1> QED BY <1>1, SerialInvariance, PTL

\* generate_resume skips a task only when its attempt is in the table.
THEOREM SkipsAreRedundant ==
    ASSUME OneClickPerMatch
    PROVE  NoOverlapSpec => []SkipIsRedundant
  <1>1. SerialInv => SkipIsRedundant
    BY DEF SerialInv, TasksFine, SkipIsRedundant, Row, GenerationsOf
  <1> QED BY <1>1, SerialInvariance, PTL

-----------------------------------------------------------------------------
(* The loop implements its contract.                                       *)

\* The phase of a match as a function of the attempts and statuses of its rows.
RowsOf(m) == {<<generations[g].attempt, generations[g].status>> : g \in GenerationsOf(m)}
PhaseOf(S) ==
    IF <<1, "passed">> \in S \/ <<2, "passed">> \in S THEN "passed"
    ELSE IF <<1, "needs_review">> \in S \/ <<2, "needs_review">> \in S THEN "review"
    ELSE IF <<2, "null">> \in S THEN "draft2"
    ELSE IF <<1, "failed">> \in S THEN "rejected"
    ELSE IF <<1, "null">> \in S THEN "draft1"
    ELSE "none"

LEMMA PhaseIsPhaseOf ==
    ASSUME NEW m
    PROVE  Phase(m) = PhaseOf(RowsOf(m)) /\ Phase(m)' = PhaseOf(RowsOf(m)')
  <1> DEFINE Has(a, s) ==
                 \E g \in GenerationsOf(m) : generations[g].attempt = a /\ generations[g].status = s
  <1>1. \A a, s : <<a, s>> \in RowsOf(m) <=> Has(a, s)
    BY DEF RowsOf
  <1>2. \A a, s : <<a, s>> \in RowsOf(m)' <=> Has(a, s)'
    BY DEF RowsOf
  <1>3. Phase(m) =
            IF Has(1, "passed") \/ Has(2, "passed") THEN "passed"
            ELSE IF Has(1, "needs_review") \/ Has(2, "needs_review") THEN "review"
            ELSE IF Has(2, "null") THEN "draft2"
            ELSE IF Has(1, "failed") THEN "rejected"
            ELSE IF Has(1, "null") THEN "draft1"
            ELSE "none"
    BY DEF Phase
  <1>4. Phase(m)' =
            IF Has(1, "passed")' \/ Has(2, "passed")' THEN "passed"
            ELSE IF Has(1, "needs_review")' \/ Has(2, "needs_review")' THEN "review"
            ELSE IF Has(2, "null")' THEN "draft2"
            ELSE IF Has(1, "failed")' THEN "rejected"
            ELSE IF Has(1, "null")' THEN "draft1"
            ELSE "none"
    BY DEF Phase
  <1> HIDE DEF Has
  <1> QED BY <1>1, <1>2, <1>3, <1>4 DEF PhaseOf

LEMMA PhaseOfFirst ==
    /\ PhaseOf({}) = "none"
    /\ PhaseOf({<<1, "null">>}) = "draft1"
    /\ PhaseOf({<<1, "failed">>}) = "rejected"
    /\ PhaseOf({<<1, "passed">>}) = "passed"
    /\ PhaseOf({<<1, "needs_review">>}) = "review"
  BY DEF PhaseOf

LEMMA PhaseOfSecond ==
    ASSUME NEW S, NEW status, S = {<<1, "failed">>, <<2, status>>}
    PROVE  /\ status = "null" => PhaseOf(S) = "draft2"
           /\ status = "passed" => PhaseOf(S) = "passed"
           /\ status = "needs_review" => PhaseOf(S) = "review"
  <1>1. /\ <<1, "failed">> \in S /\ <<2, status>> \in S
        /\ <<1, "passed">> \notin S /\ <<1, "needs_review">> \notin S
        /\ status # "passed" => <<2, "passed">> \notin S
        /\ status # "needs_review" => <<2, "needs_review">> \notin S
    OBVIOUS
  <1>2. CASE status = "null"
    BY <1>1, <1>2 DEF PhaseOf
  <1>3. CASE status = "passed"
    BY <1>1, <1>3 DEF PhaseOf
  <1>4. CASE status = "needs_review"
    BY <1>1, <1>4 DEF PhaseOf
  <1> QED BY <1>2, <1>3, <1>4

\* The rows of m but for h.
OthersOf(m, h) ==
    {<<generations[g].attempt, generations[g].status>> : g \in GenerationsOf(m) \ {h}}

\* One row is written: the other rows of its match, and other matches, stay.
LEMMA RowsOfWrite ==
    ASSUME NEW h \in DOMAIN generations',
           DOMAIN generations \subseteq DOMAIN generations',
           DOMAIN generations' \subseteq DOMAIN generations \cup {h},
           \A g \in DOMAIN generations \ {h} : generations'[g] = generations[g],
           h \in DOMAIN generations => generations[h].match = generations'[h].match,
           NEW m, m = generations'[h].match
    PROVE  /\ \A k : k # m => RowsOf(k)' = RowsOf(k)
           /\ RowsOf(m)' = OthersOf(m, h) \cup {<<generations'[h].attempt, generations'[h].status>>}
           /\ h \notin DOMAIN generations => RowsOf(m) = OthersOf(m, h)
           /\ h \in DOMAIN generations =>
                 RowsOf(m) = OthersOf(m, h) \cup {<<generations[h].attempt, generations[h].status>>}
  <1>1. ASSUME NEW k, k # m PROVE RowsOf(k)' = RowsOf(k)
    <2>1. /\ GenerationsOf(k)' = GenerationsOf(k)
          /\ \A g \in GenerationsOf(k) : generations'[g] = generations[g]
      BY <1>1 DEF GenerationsOf
    <2> QED BY <2>1 DEF RowsOf
  <1>2. /\ GenerationsOf(m)' = (GenerationsOf(m) \ {h}) \cup {h}
        /\ \A g \in GenerationsOf(m) \ {h} : generations'[g] = generations[g]
    BY DEF GenerationsOf
  <1>3. RowsOf(m)' = OthersOf(m, h) \cup {<<generations'[h].attempt, generations'[h].status>>}
    BY <1>2 DEF RowsOf, OthersOf
  <1>4. h \notin DOMAIN generations => RowsOf(m) = OthersOf(m, h)
    BY DEF RowsOf, OthersOf, GenerationsOf
  <1>5. h \in DOMAIN generations =>
            RowsOf(m) = OthersOf(m, h) \cup {<<generations[h].attempt, generations[h].status>>}
    BY DEF RowsOf, OthersOf, GenerationsOf
  <1> QED BY <1>1, <1>3, <1>4, <1>5

\* Beside the row of its attempt, a match has no row if that attempt is the
\* first one and has not failed, and the failed first one if it is the second.
LEMMA OtherRows ==
    ASSUME Core, RowsFine, NEW m, NEW h, NEW a \in 1..2,
           \A g \in GenerationsOf(m) \ {h} : generations[g].attempt # a,
           a = 1 => ~Failed1(m),
           a = 2 => Failed1(m),
           h \in GenerationsOf(m) => generations[h].attempt = a
    PROVE  OthersOf(m, h) = IF a = 1 THEN {} ELSE {<<1, "failed">>}
  <1>1. \A g \in GenerationsOf(m) : generations[g].attempt \in 1..2
    <2> TAKE g \in GenerationsOf(m)
    <2>1. generations[g] \in Generation
      BY ElementOfSeq DEF Core, TypeOK, GenerationsOf
    <2> QED BY <2>1 DEF Generation, MAX_ATTEMPT
  <1>2. CASE a = 1
    <2>1. \A g \in GenerationsOf(m) : generations[g].attempt # 2
      BY <1>2 DEF RowsFine, GenerationsOf
    <2>2. GenerationsOf(m) \ {h} = {}
      BY <1>1, <1>2, <2>1
    <2> QED BY <1>2, <2>2 DEF OthersOf
  <1>3. CASE a = 2
    <2>1. PICK f \in DOMAIN generations :
              /\ generations[f].match = m /\ generations[f].attempt = 1
              /\ generations[f].status = "failed"
      BY <1>3 DEF Failed1
    <2>2. f \in GenerationsOf(m) \ {h}
      BY <1>3, <2>1 DEF GenerationsOf
    <2>3. \A g \in GenerationsOf(m) \ {h} : g = f
      <3> TAKE g \in GenerationsOf(m) \ {h}
      <3>1. generations[g].attempt = 1
        BY <1>1, <1>3
      <3> QED BY <2>1, <3>1 DEF RowsFine, OneDraftPerAttempt, GenerationsOf
    <2>4. GenerationsOf(m) \ {h} = {f}
      BY <2>2, <2>3
    <2> QED BY <1>3, <2>1, <2>4 DEF OthersOf
  <1> QED BY <1>2, <1>3

\* The phase of the match m moves, those of the others stay.
Moves(m, from, to) ==
    /\ m \in Matches
    /\ Phase(m) = from /\ Phase(m)' = to
    /\ \A k \in Matches \ {m} : Phase(k)' = Phase(k)

LEMMA MoveIsMove ==
    ASSUME NEW m \in Matches, NEW from, NEW to, Moves(m, from, to)
    PROVE  Contract!Move(m, from, to)
  BY DEF Moves, Contract!Move

LEMMA DraftMoves ==
    ASSUME IInv, SerialInv, NEW w \in Workers, GenerateOk(w)
    PROVE  \E m \in Matches : Moves(m, "none", "draft1") \/ Moves(m, "rejected", "draft2")
  <1>1. Core /\ TasksFine /\ ServersFine /\ RowsFine
    BY DEF IInv, SerialInv
  <1>2. PICK m, a, h, row : m = Serving(w).match /\ a = Serving(w).attempt
                            /\ h = Len(generations) + 1 /\ row = Draft(w)
    OBVIOUS
  <1>3. /\ generations' = Append(generations, row)
        /\ row \in Generation /\ generations \in Seq(Generation)
        /\ row.match = m /\ row.attempt = a /\ row.status = "null"
    BY <1>1, <1>2, GenerateOkStep DEF Draft, Core, TypeOK
  <1>4. /\ DOMAIN generations' = DOMAIN generations \cup {h}
        /\ generations'[h] = row
        /\ \A g \in DOMAIN generations : generations'[g] = generations[g]
        /\ h \notin DOMAIN generations
    BY <1>2, <1>3, AppendRow
  <1>5. m \in Matches /\ a \in 1..2
    BY <1>3 DEF Generation, MAX_ATTEMPT
  <1>6. ~Row(m, a) /\ (a = 2 => Failed1(m))
    <2>1. /\ workers[w].pc = "generate" /\ Serving(w).kind = "generate-resume"
          /\ workers[w].task \in DOMAIN tasks
      BY <1>1, BusyWorker DEF GenerateOk, Core, WorkerOK
    <2>2. ReadFine(w) /\ PayloadFine(Serving(w))
      BY <1>1, <2>1 DEF ServersFine, TasksFine, Serving
    <2> QED BY <1>2, <2>1, <2>2 DEF ReadFine, PayloadFine
  <1>8. OthersOf(m, h) = IF a = 1 THEN {} ELSE {<<1, "failed">>}
    <2>1. \A g \in GenerationsOf(m) \ {h} : generations[g].attempt # a
      BY <1>6 DEF Row, GenerationsOf
    <2>2. a = 1 => ~Failed1(m)
      BY <1>6 DEF Row, Failed1
    <2>3. h \in GenerationsOf(m) => generations[h].attempt = a
      BY <1>4 DEF GenerationsOf
    <2>4. a = 2 => Failed1(m)
      BY <1>6
    <2> QED BY <1>1, <1>5, <2>1, <2>2, <2>3, <2>4, OtherRows
  <1>9. /\ \A k : k # m => RowsOf(k)' = RowsOf(k)
        /\ RowsOf(m) = OthersOf(m, h) /\ RowsOf(m)' = OthersOf(m, h) \cup {<<a, "null">>}
    <2>1. /\ h \in DOMAIN generations'
          /\ DOMAIN generations \subseteq DOMAIN generations'
          /\ DOMAIN generations' \subseteq DOMAIN generations \cup {h}
          /\ \A g \in DOMAIN generations \ {h} : generations'[g] = generations[g]
          /\ h \in DOMAIN generations => generations[h].match = generations'[h].match
          /\ m = generations'[h].match
      BY <1>3, <1>4
    <2>2. /\ \A k : k # m => RowsOf(k)' = RowsOf(k)
          /\ RowsOf(m)' = OthersOf(m, h) \cup {<<generations'[h].attempt, generations'[h].status>>}
          /\ h \notin DOMAIN generations => RowsOf(m) = OthersOf(m, h)
      BY <2>1, RowsOfWrite
    <2> QED BY <1>3, <1>4, <2>2
  <1>10. \A k \in Matches \ {m} : Phase(k)' = Phase(k)
    BY <1>9, PhaseIsPhaseOf
  <1>11. CASE a = 1
    <2>1. RowsOf(m) = {} /\ RowsOf(m)' = {<<1, "null">>}
      BY <1>8, <1>9, <1>11
    <2>2. Phase(m) = "none" /\ Phase(m)' = "draft1"
      BY <2>1, PhaseIsPhaseOf, PhaseOfFirst
    <2> QED BY <1>5, <1>10, <2>2 DEF Moves
  <1>12. CASE a = 2
    <2>1. RowsOf(m) = {<<1, "failed">>} /\ RowsOf(m)' = {<<1, "failed">>, <<2, "null">>}
      BY <1>8, <1>9, <1>12
    <2>2. Phase(m) = "rejected" /\ Phase(m)' = "draft2"
      BY <2>1, PhaseIsPhaseOf, PhaseOfFirst, PhaseOfSecond
    <2> QED BY <1>5, <1>10, <2>2 DEF Moves
  <1> QED BY <1>5, <1>11, <1>12

LEMMA VerdictMoves ==
    ASSUME IInv, SerialInv, NEW w \in Workers, RunVerifyGraph(w)
    PROVE  \E m \in Matches :
               \/ \E to \in {"passed", "review", "rejected"} : Moves(m, "draft1", to)
               \/ \E to \in {"passed", "review"} : Moves(m, "draft2", to)
  <1>1. Core /\ RowsFine
    BY DEF IInv, SerialInv
  <1>2. PICK h : h = Serving(w).gen
    OBVIOUS
  <1>3. PICK row \in Generation : VerdictOn(w, h, row)
    BY <1>2, VerdictEffect
  <1>4. PICK m, a : m = row.match /\ a = row.attempt
    OBVIOUS
  <1>5. /\ h \in DOMAIN generations /\ generations[h].status = "null"
        /\ generations[h].match = m /\ generations[h].attempt = a
        /\ DOMAIN generations' = DOMAIN generations
        /\ generations'[h] = row
        /\ \A g \in DOMAIN generations \ {h} : generations'[g] = generations[g]
        /\ row.status \in {"passed", "failed", "needs_review"}
        /\ row.status = "failed" => a = 1
        /\ m \in Matches /\ a \in 1..2
    BY <1>3, <1>4 DEF VerdictOn, Generation
  <1>7. OthersOf(m, h) = IF a = 1 THEN {} ELSE {<<1, "failed">>}
    <2>1. \A g \in GenerationsOf(m) \ {h} : generations[g].attempt # a
      BY <1>1, <1>5 DEF RowsFine, OneDraftPerAttempt, GenerationsOf
    <2>2. a = 1 => ~Failed1(m)
      BY <1>1, <1>5 DEF RowsFine, OneDraftPerAttempt, Failed1
    <2>3. a = 2 => Failed1(m)
      BY <1>1, <1>5 DEF RowsFine
    <2>4. h \in GenerationsOf(m) => generations[h].attempt = a
      BY <1>5
    <2> QED BY <1>1, <1>5, <2>1, <2>2, <2>3, <2>4, OtherRows
  <1>8. /\ \A k : k # m => RowsOf(k)' = RowsOf(k)
        /\ RowsOf(m) = OthersOf(m, h) \cup {<<a, "null">>}
        /\ RowsOf(m)' = OthersOf(m, h) \cup {<<a, row.status>>}
    <2>1. /\ h \in DOMAIN generations'
          /\ DOMAIN generations \subseteq DOMAIN generations'
          /\ DOMAIN generations' \subseteq DOMAIN generations \cup {h}
          /\ \A g \in DOMAIN generations \ {h} : generations'[g] = generations[g]
          /\ h \in DOMAIN generations => generations[h].match = generations'[h].match
          /\ m = generations'[h].match
      BY <1>4, <1>5
    <2>2. /\ \A k : k # m => RowsOf(k)' = RowsOf(k)
          /\ RowsOf(m)' = OthersOf(m, h) \cup {<<generations'[h].attempt, generations'[h].status>>}
          /\ h \in DOMAIN generations =>
                RowsOf(m) = OthersOf(m, h) \cup {<<generations[h].attempt, generations[h].status>>}
      BY <2>1, RowsOfWrite
    <2> QED BY <1>4, <1>5, <2>2
  <1>9. \A k \in Matches \ {m} : Phase(k)' = Phase(k)
    BY <1>8, PhaseIsPhaseOf
  <1>10. CASE a = 1
    <2>1. RowsOf(m) = {<<1, "null">>} /\ RowsOf(m)' = {<<1, row.status>>}
      BY <1>7, <1>8, <1>10
    <2>2. Phase(m) = "draft1" /\ Phase(m)' \in {"passed", "review", "rejected"}
      BY <1>5, <2>1, PhaseIsPhaseOf, PhaseOfFirst
    <2> QED BY <1>5, <1>9, <2>2 DEF Moves
  <1>11. CASE a = 2
    <2>1. /\ RowsOf(m) = {<<1, "failed">>, <<2, "null">>}
          /\ RowsOf(m)' = {<<1, "failed">>, <<2, row.status>>}
      BY <1>7, <1>8, <1>11
    <2>2. row.status \in {"passed", "needs_review"}
      BY <1>5, <1>11
    <2>3. Phase(m) = PhaseOf(RowsOf(m)) /\ Phase(m)' = PhaseOf(RowsOf(m)')
      BY PhaseIsPhaseOf
    <2>4. Phase(m) = "draft2"
      BY <2>1, <2>3, PhaseOfSecond
    <2>5. Phase(m)' \in {"passed", "review"}
      <3>1. CASE row.status = "passed"
        BY <2>1, <2>3, <3>1, PhaseOfSecond
      <3>2. CASE row.status = "needs_review"
        BY <2>1, <2>3, <3>2, PhaseOfSecond
      <3> QED BY <2>2, <3>1, <3>2
    <2> QED BY <1>5, <1>9, <2>4, <2>5 DEF Moves
  <1> QED BY <1>5, <1>10, <1>11

\* The refinement, step by step: a draft and a verdict are moves of the
\* contract, every other step of the loop is a stutter.
LEMMA StepImplements ==
    ASSUME IInv, SerialInv, [NoOverlapNext]_vars
    PROVE  [Contract!Next]_[m \in Matches |-> Phase(m)]
  <1>1. ASSUME NEW w \in Workers, GenerateOk(w) PROVE Contract!Next
    BY <1>1, DraftMoves, MoveIsMove DEF Contract!Next, Contract!Draft, Contract!Redraft
  <1>2. ASSUME NEW w \in Workers, RunVerifyGraph(w) PROVE Contract!Next
    BY <1>2, VerdictMoves, MoveIsMove DEF Contract!Next, Contract!Judge, Contract!JudgeAgain
  <1>3. ASSUME UNCHANGED generations
        PROVE  [m \in Matches |-> Phase(m)]' = [m \in Matches |-> Phase(m)]
    <2>1. \A m : RowsOf(m)' = RowsOf(m)
      BY <1>3 DEF RowsOf, GenerationsOf
    <2>2. \A m \in Matches : Phase(m)' = Phase(m)
      BY <2>1, PhaseIsPhaseOf
    <2> QED BY <2>2
  <1> QED BY <1>1, <1>2, <1>3
          DEF NoOverlapNext, Work, Error, Crash, Handler, Click, TriggerRead, TryConsumeQuota,
              TriggerEnqueue, TriggerCommit, TriggerRollback, GeneratePermanent, HandlerFails,
              Flush, FlushFails, Respond, WorkerCrash, ProcessCrash, Post, PostRefused, vars

\* generate-resume and verify-resume implement their contract for every match,
\* whatever crashes, fails and is delivered again: one draft, one verdict, one
\* rewrite after a rejection, and a verdict that is final.
THEOREM LoopImplementsContract ==
    ASSUME OneClickPerMatch
    PROVE  NoOverlapSpec => ImplementsContract
  <1>1. Init => Contract!Init
    <2> SUFFICES ASSUME Init PROVE Contract!Init
      OBVIOUS
    <2>1. \A m \in Matches : RowsOf(m) = {}
      BY DEF Init, RowsOf, GenerationsOf
    <2>2. \A m \in Matches : Phase(m) = "none"
      BY <2>1, PhaseIsPhaseOf, PhaseOfFirst
    <2> QED BY <2>2 DEF Contract!Init
  <1>2. NoOverlapSpec => []IInv
    <2>1. NoOverlapNext => Next
      BY DEF NoOverlapNext, Next
    <2> QED BY <2>1, Invariance, PTL DEF NoOverlapSpec, Spec
  <1> QED BY <1>1, <1>2, StepImplements, SerialInvariance, PTL
          DEF NoOverlapSpec, ImplementsContract, Contract!Spec
=============================================================================
