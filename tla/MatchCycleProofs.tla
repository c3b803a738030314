-------------------------- MODULE MatchCycleProofs --------------------------
(***************************************************************************)
(* Proofs about MatchCycle, for any finite sets of users and postings, any *)
(* filters, and any number of cycles, edits, workers, posts and timestamps.*)
(***************************************************************************)
EXTENDS MatchCycle, TLAPS, FiniteSetTheorems

-----------------------------------------------------------------------------
(* Finite sets and the initial records.                                    *)

LEMMA PairsFinite ==
    ASSUME NEW S \in SUBSET Pairs
    PROVE  IsFiniteSet(S) /\ Cardinality(S) \in Nat
  <1>1. IsFiniteSet(Pairs)
    BY MatchConstants, FS_Product DEF Pairs
  <1>2. IsFiniteSet(S)
    BY <1>1, FS_Subset
  <1> QED
    BY <1>2, FS_CardinalityType

\* The rows that a cycle writes for some pairs, and those of one user.
Rows(c, pairs) == {[cycle |-> c, user |-> p[1], job |-> p[2]] : p \in pairs}

LEMMA RowsFinite ==
    ASSUME NEW c \in Cycles, NEW S \in SUBSET Pairs
    PROVE  /\ Rows(c, S) \subseteq Match
           /\ IsFiniteSet(Rows(c, S)) /\ Cardinality(Rows(c, S)) <= Cardinality(S)
  <1> DEFINE row == [p \in S |-> [cycle |-> c, user |-> p[1], job |-> p[2]]]
  <1>1. row \in [S -> Rows(c, S)]
    BY DEF Rows
  <1>2. \A m \in Rows(c, S) : \E p \in S : row[p] = m
    BY DEF Rows
  <1>3. row \in Surjection(S, Rows(c, S))
    <2> HIDE DEF row
    <2> QED
      BY <1>1, <1>2 DEF Surjection
  <1>4. Rows(c, S) \subseteq Match
    BY DEF Rows, Match, Pairs
  <1> HIDE DEF row
  <1> QED
    BY <1>3, <1>4, PairsFinite, FS_Surjection

LEMMA InitialRecords ==
    /\ \A e \in Edits : IdleEdit \in Edit
    /\ IdleCycle \in Cycle
    /\ IdleExtractor \in Extractor
    /\ [posts |-> 0, state |-> "none"] \in Task
    /\ [ingestedAt |-> 0, extractedAt |-> 0] \in Job
  <1>1. (CHOOSE m \in Modes : TRUE) \in Modes
    BY MatchConstants
  <1>2. 0 \in Time /\ 0 \in 0..MaxPosts
    BY MatchConstants DEF Time
  <1>3. IdleCycle \in Cycle
    BY <1>1, <1>2 DEF IdleCycle, Cycle, CyclePc
  <1>4. [posts |-> 0, state |-> "none"] \in Task /\ [ingestedAt |-> 0, extractedAt |-> 0] \in Job
    BY <1>2 DEF Task, TaskState, Job
  <1>5. IdleExtractor \in Extractor
    BY <1>2 DEF IdleExtractor, Extractor
  <1> QED
    BY <1>3, <1>4, <1>5 DEF IdleEdit, Edit, Profile

-----------------------------------------------------------------------------
(* Types.                                                                  *)

Typed == TypeOK /\ IsFiniteSet(matches)

LEMMA Ticks == ASSUME clock \in Time, Tick
               PROVE  clock' \in Time /\ clock' = clock + 1 /\ clock' > clock /\ clock' # 0
  BY MatchConstants DEF Time, Tick

LEMMA Laters == \A a, b \in Time : Later(a, b) \in Time /\ Later(a, b) >= a /\ Later(a, b) >= b
  BY MatchConstants DEF Later, Time

LEMMA IngestTypes ==
    ASSUME Typed, NEW j \in Jobs, IngestStamp(j) \/ IngestCommit(j) \/ IngestFails(j)
    PROVE  Typed'
  <1>1. 0 \in Time /\ jobs[j] \in Job /\ ingests[j] \in Time
    BY MatchConstants DEF Typed, TypeOK, Time
  <1>2. CASE IngestStamp(j)
    BY <1>2, Ticks DEF IngestStamp, Typed, TypeOK
  <1>3. CASE IngestCommit(j)
    <2>1. jobs' \in [Jobs -> Job]
      BY <1>1, <1>3 DEF IngestCommit, Typed, TypeOK, Job
    <2> QED
      BY <1>1, <1>3, <2>1 DEF IngestCommit, Typed, TypeOK
  <1>4. CASE IngestFails(j)
    BY <1>1, <1>4 DEF IngestFails, Typed, TypeOK
  <1> QED
    BY <1>2, <1>3, <1>4

LEMMA EditTypes ==
    ASSUME Typed, NEW e \in Edits,
           (\E u \in Users : EditRead(e, u)) \/ EditCommit(e) \/ EditFails(e)
    PROVE  Typed'
  <1>1. edits[e] \in Edit
    BY DEF Typed, TypeOK
  <1>2. ASSUME NEW u \in Users, EditRead(e, u) PROVE Typed'
    <2>1. [pc |-> "open", user |-> u, loaded |-> profiles[u]] \in Edit
      BY DEF Edit, Typed, TypeOK
    <2> QED
      BY <1>2, <2>1 DEF EditRead, Typed, TypeOK
  <1>3. ASSUME edits' = [edits EXCEPT ![e].pc = "done"] PROVE edits' \in [Edits -> Edit]
    BY <1>1, <1>3 DEF Edit, Typed, TypeOK
  <1>4. CASE EditCommit(e)
    <2> DEFINE u == edits[e].user
               old == edits[e].loaded
               x == [version |-> old.version + 1, content |-> e,
                     rematch |-> IF old.rematch THEN profiles[u].rematch ELSE TRUE]
    <2>1. profiles' \in [Users -> Profile]
      <3>1. CASE u \in Users
        <4>1. old \in Profile /\ profiles[u] \in Profile
          BY <1>1, <3>1 DEF Typed, TypeOK, Edit
        <4>2. old.version + 1 \in Nat
          BY <4>1 DEF Profile
        <4>3. x \in Profile
          <5>1. profiles[u].rematch \in BOOLEAN
            BY <4>1 DEF Profile
          <5>2. (IF old.rematch THEN profiles[u].rematch ELSE TRUE) \in BOOLEAN
            BY <5>1, Zenon
          <5> QED
            BY <4>2, <5>2 DEF Profile
        <4>4. profiles' = [profiles EXCEPT ![u] = x]
          BY <1>4, <3>1 DEF EditCommit, Typed, TypeOK
        <4> QED
          BY <4>3, <4>4 DEF Typed, TypeOK
      <3>2. CASE u \notin Users
        BY <1>4, <3>2 DEF EditCommit, Typed, TypeOK
      <3> QED
        BY <3>1, <3>2
    <2> QED
      BY <1>3, <1>4, <2>1 DEF EditCommit, Typed, TypeOK
  <1>5. CASE EditFails(e)
    BY <1>3, <1>5 DEF EditFails, Typed, TypeOK
  <1> QED
    BY <1>2, <1>4, <1>5

\* What a cycle's step has to leave in its record.
LEMMA CycleTypes ==
    ASSUME Typed, NEW c \in Cycles,
           \/ \E mode \in Modes : CycleStart(c, mode)
           \/ CycleRead(c) \/ CycleCommit(c) \/ CycleFails(c)
           \/ CycleFlush(c) \/ CycleFlushFails(c)
    PROVE  Typed'
  <1>1. cycles \in [Cycles -> Cycle] /\ cycles[c] \in Cycle /\ watermark \in Time /\ clock \in Time
    BY DEF Typed, TypeOK
  <1>2. ASSUME NEW mode \in Modes, CycleStart(c, mode) PROVE Typed'
    <2> DEFINE chosen == SelectUserIds(mode)
               x == [IdleCycle EXCEPT
                        !.pc = IF chosen = {} THEN "done" ELSE "started",
                        !.mode = mode, !.ts = clock', !.users = chosen,
                        !.since = IF mode = "incremental" THEN watermark ELSE 0]
    <2>1. clock' \in Time /\ 0 \in Time
      <3>1. 0 \in Time
        BY MatchConstants DEF Time
      <3> QED
        BY <1>1, <1>2, <3>1, Ticks DEF CycleStart
    <2>2. chosen \subseteq Users
      BY DEF SelectUserIds, Dirty
    <2>3. x \in Cycle
      <3> HIDE DEF chosen
      <3> QED
        BY <1>1, <2>1, <2>2, InitialRecords DEF Cycle, CyclePc
    <2>4. cycles' = [cycles EXCEPT ![c] = x] /\ watermark' \in Time
      BY <1>1, <1>2, <2>1, Laters DEF CycleStart
    <2> HIDE DEF x
    <2> QED
      BY <1>2, <2>1, <2>3, <2>4 DEF CycleStart, Typed, TypeOK
  <1>3. CASE CycleRead(c)
    <2> DEFINE x == [cycles[c] EXCEPT
                        !.pc = "read",
                        !.fresh = {p \in Candidates(c) : jobs[p[2]].extractedAt = 0},
                        !.ready = {p \in Candidates(c) : jobs[p[2]].extractedAt # 0},
                        !.contents = [u \in Users |-> profiles[u].content],
                        !.today = [u \in Users |-> MatchesToday(u)]]
    <2>1. Candidates(c) \subseteq Pairs
      BY MatchConstants DEF Candidates, Pairs
    <2>2. \A u \in Users : MatchesToday(u) \in Nat
      <3>1. \A u \in Users : IsFiniteSet({m \in matches : m.user = u})
        BY FS_Subset DEF Typed
      <3> QED
        BY <3>1, FS_CardinalityType DEF MatchesToday
    <2>3. \A u \in Users : profiles[u].content \in Edits \cup {Original}
      BY DEF Typed, TypeOK, Profile
    <2>4. x \in Cycle
      BY <1>1, <2>1, <2>2, <2>3 DEF Cycle, CyclePc
    <2>5. cycles' = [cycles EXCEPT ![c] = x]
      BY <1>3 DEF CycleRead
    <2> HIDE DEF x
    <2> QED
      BY <1>1, <1>3, <2>4, <2>5 DEF CycleRead, Typed, TypeOK
  <1>4. CASE CycleCommit(c)
    <2>1. PICK picked \in SUBSET cycles[c].ready :
             /\ matches' = matches \cup Rows(c, picked)
             /\ \E above \in SUBSET picked :
                   cycles' = [cycles EXCEPT ![c].pc = "flush", ![c].buffer = Rows(c, above)]
      BY <1>4 DEF CycleCommit, Rows
    <2>2. picked \in SUBSET Pairs
      BY <1>1 DEF Cycle
    <2>3. matches' \subseteq Match /\ IsFiniteSet(matches')
      BY <2>1, <2>2, RowsFinite, FS_Union DEF Typed, TypeOK
    <2>4. cycles' \in [Cycles -> Cycle]
      <3>1. PICK above \in SUBSET picked :
               cycles' = [cycles EXCEPT ![c].pc = "flush", ![c].buffer = Rows(c, above)]
        BY <2>1
      <3>2. Rows(c, above) \subseteq Match
        BY <2>2, RowsFinite
      <3> QED
        BY <1>1, <3>1, <3>2 DEF Cycle, CyclePc
    <2>5. profiles' \in [Users -> Profile]
      BY <1>4 DEF CycleCommit, ClearFlags, Typed, TypeOK, Profile
    <2>6. watermark' \in Time
      BY <1>1, <1>4, Laters DEF CycleCommit, Cycle
    <2> QED
      BY <1>4, <2>3, <2>4, <2>5, <2>6 DEF CycleCommit, Typed, TypeOK
  <1>5. CASE CycleFails(c)
    <2>1. cycles' \in [Cycles -> Cycle]
      BY <1>1, <1>5 DEF CycleFails, Cycle, CyclePc
    <2> QED
      BY <1>5, <2>1 DEF CycleFails, Typed, TypeOK
  <1>6. ASSUME NEW fresh \in SUBSET FreshJobs(c), NEW above \in SUBSET cycles[c].buffer,
               HandOver(c, fresh, above),
               \E pc \in CyclePc : cycles' = [cycles EXCEPT ![c].pc = pc, ![c].buffer = {}]
        PROVE  Typed'
    <2>1. cycles' \in [Cycles -> Cycle]
      <3>1. PICK pc \in CyclePc :
               cycles' = [cycles EXCEPT ![c] = [cycles[c] EXCEPT !.pc = pc, !.buffer = {}]]
        BY <1>1, <1>6
      <3>2. [cycles[c] EXCEPT !.pc = pc, !.buffer = {}] \in Cycle
        BY <1>1 DEF Cycle
      <3> QED
        BY <1>1, <3>1, <3>2
    <2>2. extracts' \in [Keys -> Task]
      BY <1>6 DEF HandOver, Typed, TypeOK, Task, TaskState
    <2>3. screens' \subseteq Match
      BY <1>1, <1>6 DEF HandOver, Typed, TypeOK, Cycle
    <2> QED
      BY <1>6, <2>1, <2>2, <2>3 DEF HandOver, Typed, TypeOK
  <1>7. CASE CycleFlush(c)
    BY <1>6, <1>7 DEF CycleFlush, CyclePc
  <1>8. CASE CycleFlushFails(c)
    BY <1>6, <1>8 DEF CycleFlushFails, CyclePc
  <1> QED
    BY <1>2, <1>3, <1>4, <1>5, <1>7, <1>8

\* A cycle's tasks exist once it has flushed; a queued one may still be posted,
\* and what a worker serves was queued before.
TasksOK ==
    /\ \A t \in Keys : cycles[t[1]].pc \notin {"done", "lost"} =>
                           extracts[t] = [posts |-> 0, state |-> "none"]
    /\ \A t \in Keys : extracts[t].state = "queued" => extracts[t].posts < MaxPosts
    /\ \A w \in Workers : extractors[w].pc # "idle" =>
                              /\ extractors[w].task \in Keys
                              /\ extracts[extractors[w].task].state # "none"

\* What a step of extract-job changes: the task of the worker, and perhaps the
\* extraction of its job.
LEMMA ExtractSteps ==
    ASSUME Typed, TasksOK, NEW w \in Workers,
           \/ \E t \in Keys : ExtractPost(w, t)
           \/ ExtractStamp(w) \/ ExtractCommit(w) \/ ExtractPermanent(w) \/ ExtractFails(w)
    PROVE  /\ extracts' \in [Keys -> Task] /\ extractors' \in [Workers -> Extractor]
           /\ \A v \in Workers : v # w => extractors'[v] = extractors[v]
           /\ extractors'[w].pc # "idle" => extractors'[w].task \in Keys
           /\ \E t \in Keys :
                 /\ extracts[t].state # "none" /\ extracts'[t].state # "none"
                 /\ extracts'[t].state = "queued" => extracts'[t].posts < MaxPosts
                 /\ \A k \in Keys : k # t => extracts'[k] = extracts[k]
                 /\ extractors'[w].pc # "idle" => extractors'[w].task = t
  <1>1. /\ extractors[w] \in Extractor /\ extracts \in [Keys -> Task]
        /\ extractors \in [Workers -> Extractor] /\ clock \in Time /\ 0 \in Time
    BY MatchConstants DEF Typed, TypeOK, Time
  <1> DEFINE Moves(t, x, y) ==
        /\ extracts' = [extracts EXCEPT ![t] = x] /\ extractors' = [extractors EXCEPT ![w] = y]
        /\ x.state # "none" /\ (x.state = "queued" => x.posts < MaxPosts)
        /\ y.pc # "idle" => y.task = t
  <1>2. ASSUME NEW t \in Keys, NEW x \in Task, NEW y \in Extractor,
               extracts[t].state # "none", Moves(t, x, y)
        PROVE  /\ extracts' \in [Keys -> Task] /\ extractors' \in [Workers -> Extractor]
               /\ \A v \in Workers : v # w => extractors'[v] = extractors[v]
               /\ extractors'[w].pc # "idle" => extractors'[w].task \in Keys
               /\ extracts'[t].state # "none"
               /\ extracts'[t].state = "queued" => extracts'[t].posts < MaxPosts
               /\ \A k \in Keys : k # t => extracts'[k] = extracts[k]
               /\ extractors'[w].pc # "idle" => extractors'[w].task = t
    <2>1. extracts'[t] = x /\ \A k \in Keys : k # t => extracts'[k] = extracts[k]
      BY <1>1, <1>2
    <2>2. extractors'[w] = y /\ \A v \in Workers : v # w => extractors'[v] = extractors[v]
      BY <1>1, <1>2
    <2>3. extracts' \in [Keys -> Task] /\ extractors' \in [Workers -> Extractor]
      BY <1>1, <1>2
    <2> QED
      BY <1>2, <2>1, <2>2, <2>3
  <1>3. ASSUME NEW t \in Keys, ExtractPost(w, t)
        PROVE  \E x \in Task, y \in Extractor : extracts[t].state # "none" /\ Moves(t, x, y)
    <2>1. extracts[t].state = "queued" /\ extracts[t].posts < MaxPosts /\ extracts[t] \in Task
      BY <1>1, <1>3 DEF ExtractPost, TasksOK
    <2>2. CASE jobs[t[2]].extractedAt # 0
      <3> DEFINE x == [extracts[t] EXCEPT !.state = "done"]
      <3>1. x \in Task /\ x.state = "done"
        BY <2>1 DEF Task, TaskState
      <3>2. extracts' = [extracts EXCEPT ![t] = x]
        BY <1>1, <1>3, <2>2 DEF ExtractPost, Result
      <3>3. extractors' = [extractors EXCEPT ![w] = extractors[w]] /\ extractors[w].pc = "idle"
        BY <1>1, <1>3, <2>2 DEF ExtractPost
      <3> HIDE DEF x
      <3> QED
        BY <1>1, <2>1, <3>1, <3>2, <3>3
    <2>3. CASE jobs[t[2]].extractedAt = 0
      <3> DEFINE x == [posts |-> extracts[t].posts + 1, state |-> "posting"]
                 y == [pc |-> "llm", task |-> t, at |-> 0]
      <3>1. extracts[t].posts + 1 \in 0..MaxPosts
        BY <2>1, MatchConstants DEF Task
      <3>2. x \in Task /\ y \in Extractor /\ x.state = "posting" /\ y.task = t
        BY <1>1, <3>1 DEF Task, TaskState, Extractor
      <3>3. extracts' = [extracts EXCEPT ![t] = x] /\ extractors' = [extractors EXCEPT ![w] = y]
        BY <1>1, <1>3, <2>3 DEF ExtractPost
      <3> HIDE DEF x, y
      <3> QED
        BY <2>1, <3>2, <3>3
    <2> QED
      BY <2>2, <2>3
  <1> DEFINE k == extractors[w].task
             Served == ExtractStamp(w) \/ ExtractCommit(w) \/ ExtractPermanent(w) \/ ExtractFails(w)
  <1>4. Served => k \in Keys /\ extracts[k].state # "none" /\ extracts[k] \in Task
    <2>1. Served => extractors[w].pc # "idle"
      BY DEF ExtractStamp, ExtractCommit, ExtractPermanent, ExtractFails
    <2> QED
      BY <1>1, <2>1 DEF TasksOK
  <1>5. ASSUME NEW state \in TaskState, k \in Keys, extracts[k] \in Task, state # "none",
               state = "queued" => extracts[k].posts < MaxPosts,
               Result(k, state), extractors' = [extractors EXCEPT ![w] = IdleExtractor]
        PROVE  \E x \in Task, y \in Extractor : Moves(k, x, y)
    <2> DEFINE x == [extracts[k] EXCEPT !.state = state]
    <2>1. x \in Task /\ x.state = state /\ x.posts = extracts[k].posts
      BY <1>5 DEF Task
    <2>2. extracts' = [extracts EXCEPT ![k] = x]
      BY <1>1, <1>5 DEF Result
    <2>3. IdleExtractor.pc = "idle"
      BY DEF IdleExtractor
    <2> HIDE DEF x
    <2> QED
      BY <1>5, <2>1, <2>2, <2>3, InitialRecords
  <1>6. CASE ExtractStamp(w)
    <2> DEFINE y == [extractors[w] EXCEPT !.pc = "write", !.at = clock']
    <2>1. clock' \in Time
      BY <1>1, <1>6, Ticks DEF ExtractStamp
    <2>2. y \in Extractor /\ y.task = k
      BY <1>1, <2>1 DEF Extractor
    <2>3. extractors' = [extractors EXCEPT ![w] = y] /\ extracts' = extracts
      BY <1>1, <1>6 DEF ExtractStamp
    <2>4. extracts' = [extracts EXCEPT ![k] = extracts[k]]
      BY <1>1, <2>3
    <2>5. k \in Keys /\ extracts[k].state # "none" /\ extracts[k] \in Task
      BY <1>4, <1>6
    <2>6. extracts[k].state = "queued" => extracts[k].posts < MaxPosts
      BY <2>5 DEF TasksOK
    <2> HIDE DEF y, k
    <2>7. Moves(k, extracts[k], y)
      BY <2>2, <2>3, <2>4, <2>5, <2>6
    <2> HIDE DEF Moves
    <2> QED
      BY <1>2, <2>2, <2>5, <2>7
  <1>7. CASE ExtractCommit(w) \/ ExtractPermanent(w) \/ ExtractFails(w)
    <2>1. \E state \in TaskState :
             /\ state # "none" /\ Result(k, state)
             /\ state = "queued" => extracts[k].posts < MaxPosts
      BY <1>7 DEF ExtractCommit, ExtractPermanent, ExtractFails, Retry, TaskState
    <2>2. extractors' = [extractors EXCEPT ![w] = IdleExtractor]
      BY <1>7 DEF ExtractCommit, ExtractPermanent, ExtractFails
    <2>3. k \in Keys /\ extracts[k].state # "none" /\ extracts[k] \in Task
      BY <1>4, <1>7
    <2>4. PICK x \in Task, y \in Extractor : Moves(k, x, y)
      BY <1>5, <2>1, <2>2, <2>3
    <2> HIDE DEF Moves, k
    <2> QED
      BY <1>2, <2>3, <2>4
  <1>8. CASE \E t \in Keys : ExtractPost(w, t)
    <2>1. PICK t \in Keys, x \in Task, y \in Extractor :
             extracts[t].state # "none" /\ Moves(t, x, y)
      BY <1>3, <1>8
    <2> HIDE DEF Moves
    <2> QED
      BY <1>2, <2>1
  <1> QED
    BY <1>6, <1>7, <1>8

LEMMA ExtractTypes ==
    ASSUME Typed, TasksOK, NEW w \in Workers,
           \/ \E t \in Keys : ExtractPost(w, t)
           \/ ExtractStamp(w) \/ ExtractCommit(w) \/ ExtractPermanent(w) \/ ExtractFails(w)
    PROVE  Typed' /\ TasksOK'
  <1>1. extracts' \in [Keys -> Task] /\ extractors' \in [Workers -> Extractor]
    BY ExtractSteps
  <1>2. clock' \in Time /\ jobs' \in [Jobs -> Job]
    <2>1. /\ clock \in Time /\ jobs \in [Jobs -> Job] /\ extractors[w] \in Extractor
          /\ extractors[w].at \in Time
      BY DEF Typed, TypeOK, Extractor
    <2>2. CASE ExtractCommit(w)
      <3>1. clock' = clock
        BY <2>2 DEF ExtractCommit
      <3>2. \E j : jobs' = [jobs EXCEPT ![j].extractedAt =
                                IF @ = 0 THEN extractors[w].at ELSE @]
        BY <2>2 DEF ExtractCommit
      <3> QED
        BY <2>1, <3>1, <3>2 DEF Job
    <2>3. CASE ~ExtractCommit(w)
      BY <2>1, <2>3, Ticks DEF ExtractPost, ExtractStamp, ExtractPermanent, ExtractFails
    <2> QED
      BY <2>2, <2>3
  <1>3. /\ UNCHANGED <<ingests, profiles, edits, cycles, watermark, matches, screens>>
    BY DEF ExtractPost, ExtractStamp, ExtractCommit, ExtractPermanent, ExtractFails
  <1>4. TasksOK'
    <2>1. PICK t \in Keys :
             /\ extracts[t].state # "none" /\ extracts'[t].state # "none"
             /\ extracts'[t].state = "queued" => extracts'[t].posts < MaxPosts
             /\ \A k \in Keys : k # t => extracts'[k] = extracts[k]
             /\ extractors'[w].pc # "idle" => extractors'[w].task = t
      BY ExtractSteps
    <2>2. \A k \in Keys : extracts[k].state # "none" => extracts'[k].state # "none"
      BY <2>1
    <2>3. \A k \in Keys : extracts'[k].state = "queued" => extracts'[k].posts < MaxPosts
      BY <2>1 DEF TasksOK
    <2>4. cycles[t[1]].pc \in {"done", "lost"}
      BY <2>1 DEF TasksOK
    <2>5. \A k \in Keys : cycles[k[1]].pc \notin {"done", "lost"} =>
                              extracts'[k] = [posts |-> 0, state |-> "none"]
      BY <2>1, <2>4 DEF TasksOK
    <2>6. ASSUME NEW v \in Workers, extractors'[v].pc # "idle"
          PROVE  extractors'[v].task \in Keys /\ extracts'[extractors'[v].task].state # "none"
      BY <2>1, <2>2, <2>6, ExtractSteps DEF TasksOK
    <2> QED
      BY <1>3, <2>3, <2>5, <2>6 DEF TasksOK
  <1> QED
    BY <1>1, <1>2, <1>3, <1>4 DEF Typed, TypeOK

LEMMA CycleTasks ==
    ASSUME Typed, TasksOK, NEW c \in Cycles,
           \/ \E mode \in Modes : CycleStart(c, mode)
           \/ CycleRead(c) \/ CycleCommit(c) \/ CycleFails(c)
           \/ CycleFlush(c) \/ CycleFlushFails(c)
    PROVE  TasksOK'
  <1>1. /\ extractors' = extractors /\ cycles[c].pc \notin {"done", "lost"}
        /\ \A d \in Cycles : d # c => cycles'[d] = cycles[d]
    BY DEF CycleStart, CycleRead, CycleCommit, CycleFails, CycleFlush, CycleFlushFails,
           HandOver, Typed, TypeOK
  <1>2. \A t \in Keys : t[1] \in Cycles
    BY DEF Keys
  <1>3. CASE extracts' = extracts
    BY <1>1, <1>2, <1>3 DEF TasksOK
  <1>4. ASSUME NEW fresh, NEW above, HandOver(c, fresh, above), cycles'[c].pc \in {"done", "lost"}
        PROVE  TasksOK'
    <2>1. \A t \in Keys :
             \/ extracts'[t] = extracts[t]
             \/ /\ t[1] = c /\ extracts'[t] = [extracts[t] EXCEPT !.state = "queued"]
      BY <1>4 DEF HandOver
    <2>2. \A t \in Keys : t[1] = c => extracts[t] = [posts |-> 0, state |-> "none"]
      BY <1>1 DEF TasksOK
    <2>3. \A t \in Keys :
             \/ extracts'[t] = extracts[t]
             \/ t[1] = c /\ extracts'[t] = [posts |-> 0, state |-> "queued"]
      <3>1. [[posts |-> 0, state |-> "none"] EXCEPT !.state = "queued"] =
                [posts |-> 0, state |-> "queued"]
        OBVIOUS
      <3> QED
        BY <2>1, <2>2, <3>1
    <2>4. 0 < MaxPosts
      BY MatchConstants
    <2> QED
      BY <1>1, <1>2, <1>4, <2>3, <2>4 DEF TasksOK
  <1>5. CASE CycleFlush(c) \/ CycleFlushFails(c)
    <2>1. cycles'[c].pc \in {"done", "lost"}
      BY <1>5 DEF CycleFlush, CycleFlushFails, Typed, TypeOK, Cycle
    <2> QED
      BY <1>4, <1>5, <2>1 DEF CycleFlush, CycleFlushFails
  <1>6. extracts' = extracts \/ CycleFlush(c) \/ CycleFlushFails(c)
    BY DEF CycleStart, CycleRead, CycleCommit, CycleFails
  <1> QED
    BY <1>3, <1>5, <1>6

-----------------------------------------------------------------------------
(* The invariant of Spec, whatever overlaps and crashes.                   *)

\* A candidate that was ranked has its extraction, and what a cycle will hand
\* to the queue was committed.
CycleOK(c) ==
    /\ \A p \in cycles[c].ready : jobs[p[2]].extractedAt # 0
    /\ cycles[c].pc = "flush" => cycles[c].buffer \subseteq matches

IInv == Typed /\ TasksOK /\ (\A c \in Cycles : CycleOK(c)) /\ ScreensNameMatches

\* An extraction, once written, and the time a posting came, never change.
LEMMA StampsKept ==
    ASSUME TypeOK, [Next]_vars, NEW j \in Jobs
    PROVE  /\ jobs[j].extractedAt # 0 => jobs'[j].extractedAt = jobs[j].extractedAt
           /\ jobs[j].ingestedAt # 0 => jobs'[j].ingestedAt = jobs[j].ingestedAt
  <1>1. \/ jobs' = jobs
        \/ \E i \in Jobs : IngestCommit(i)
        \/ \E w \in Workers : ExtractCommit(w)
    BY DEF Next, Work, Error, Crash, vars, IngestStamp, IngestFails, EditRead, EditCommit, EditFails,
           CycleStart, CycleRead, CycleCommit, CycleFails, CycleFlush, CycleFlushFails, HandOver,
           ExtractPost, ExtractStamp, ExtractPermanent, ExtractFails
  <1>2. ASSUME NEW i \in Jobs, IngestCommit(i)
        PROVE  /\ jobs'[j].extractedAt = jobs[j].extractedAt
               /\ jobs[j].ingestedAt # 0 => jobs'[j].ingestedAt = jobs[j].ingestedAt
    BY <1>2 DEF IngestCommit, TypeOK, Job
  <1>3. ASSUME NEW w \in Workers, ExtractCommit(w)
        PROVE  /\ jobs[j].extractedAt # 0 => jobs'[j].extractedAt = jobs[j].extractedAt
               /\ jobs'[j].ingestedAt = jobs[j].ingestedAt
    BY <1>3 DEF ExtractCommit, TypeOK, Job
  <1> QED
    BY <1>1, <1>2, <1>3

\* The record of a cycle that has just started.
LEMMA StartedCycle ==
    ASSUME TypeOK, NEW c \in Cycles, NEW mode \in Modes, CycleStart(c, mode)
    PROVE  /\ cycles'[c].pc = IF SelectUserIds(mode) = {} THEN "done" ELSE "started"
           /\ cycles'[c].mode = mode /\ cycles'[c].ts = clock'
           /\ cycles'[c].users = SelectUserIds(mode)
           /\ cycles'[c].since = IF mode = "incremental" THEN watermark ELSE 0
           /\ cycles'[c].fresh = {} /\ cycles'[c].ready = {}
  <1> DEFINE pc == IF SelectUserIds(mode) = {} THEN "done" ELSE "started"
             since == IF mode = "incremental" THEN watermark ELSE 0
  <1>1. IdleCycle \in Cycle /\ IdleCycle.fresh = {} /\ IdleCycle.ready = {}
    BY InitialRecords DEF IdleCycle
  <1>2. cycles'[c] = [IdleCycle EXCEPT !.pc = pc, !.mode = mode, !.ts = clock',
                                       !.users = SelectUserIds(mode), !.since = since]
    BY DEF CycleStart, TypeOK
  <1> HIDE DEF pc, since
  <1>3. /\ cycles'[c].pc = pc /\ cycles'[c].mode = mode /\ cycles'[c].ts = clock'
        /\ cycles'[c].users = SelectUserIds(mode) /\ cycles'[c].since = since
        /\ cycles'[c].fresh = {} /\ cycles'[c].ready = {}
    BY <1>1, <1>2 DEF Cycle
  <1> QED
    BY <1>3 DEF pc, since

\* Steps other than a cycle's leave the cycles, the matches and the screens.
LEMMA OtherStep ==
    ASSUME IInv, [Next]_vars, Typed', TasksOK', UNCHANGED <<cycles, matches, screens>>
    PROVE  IInv'
  <1>1. TypeOK
    BY DEF IInv, Typed
  <1>2. \A j \in Jobs : jobs[j].extractedAt # 0 => jobs'[j].extractedAt # 0
    BY <1>1, StampsKept
  <1>3. ASSUME NEW c \in Cycles PROVE CycleOK(c)'
    <2>1. \A p \in cycles[c].ready : p[2] \in Jobs
      BY <1>1 DEF TypeOK, Cycle, Pairs
    <2> QED
      BY <1>2, <2>1 DEF IInv, CycleOK
  <1>4. ScreensNameMatches'
    <2>1. \A m \in matches : m.job \in Jobs
      BY <1>1 DEF TypeOK, Match
    <2> QED
      BY <1>2, <2>1 DEF IInv, ScreensNameMatches
  <1> QED
    BY <1>3, <1>4 DEF IInv

LEMMA CycleStep ==
    ASSUME IInv, Typed', TasksOK', NEW c \in Cycles,
           \/ \E mode \in Modes : CycleStart(c, mode)
           \/ CycleRead(c) \/ CycleCommit(c) \/ CycleFails(c)
           \/ CycleFlush(c) \/ CycleFlushFails(c)
    PROVE  IInv'
  <1>1. /\ cycles \in [Cycles -> Cycle] /\ cycles[c] \in Cycle /\ jobs' = jobs
        /\ \A d \in Cycles : d # c => cycles'[d] = cycles[d]
        /\ matches \subseteq matches'
    BY DEF CycleStart, CycleRead, CycleCommit, CycleFails, CycleFlush, CycleFlushFails,
           HandOver, IInv, Typed, TypeOK
  <1>2. ASSUME CycleOK(c)', ScreensNameMatches' PROVE IInv'
    BY <1>1, <1>2 DEF IInv, CycleOK
  <1>3. CASE \E mode \in Modes : CycleStart(c, mode)
    <2>1. cycles'[c].ready = {} /\ cycles'[c].pc # "flush"
      BY <1>3, StartedCycle DEF IInv, Typed
    <2> QED
      BY <1>2, <1>3, <2>1 DEF CycleStart, CycleOK, IInv, ScreensNameMatches
  <1>4. CASE CycleRead(c)
    <2>1. cycles'[c].ready = {p \in Candidates(c) : jobs[p[2]].extractedAt # 0}
          /\ cycles'[c].pc = "read"
      BY <1>1, <1>4 DEF CycleRead, Cycle
    <2> QED
      BY <1>1, <1>2, <1>4, <2>1 DEF CycleRead, CycleOK, IInv, ScreensNameMatches
  <1>5. CASE CycleCommit(c)
    <2>0. PICK picked \in SUBSET cycles[c].ready :
             /\ matches' = matches \cup Rows(c, picked)
             /\ \E above \in SUBSET picked :
                   cycles' = [cycles EXCEPT ![c].pc = "flush", ![c].buffer = Rows(c, above)]
      BY <1>5 DEF CycleCommit, Rows
    <2>1. PICK above \in SUBSET picked :
             /\ matches' = matches \cup Rows(c, picked)
             /\ cycles' = [cycles EXCEPT ![c].pc = "flush", ![c].buffer = Rows(c, above)]
      BY <2>0
    <2>2. cycles'[c].ready = cycles[c].ready /\ cycles'[c].buffer = Rows(c, above)
      BY <1>1, <2>1 DEF Cycle
    <2>3. Rows(c, above) \subseteq Rows(c, picked)
      BY DEF Rows
    <2>4. CycleOK(c)'
      BY <1>1, <2>1, <2>2, <2>3 DEF CycleOK, IInv
    <2>5. \A m \in Rows(c, picked) : jobs[m.job].extractedAt # 0
      BY <2>1 DEF Rows, IInv, CycleOK
    <2>6. ScreensNameMatches'
      BY <1>1, <1>5, <2>1, <2>5 DEF CycleCommit, IInv, ScreensNameMatches
    <2> QED
      BY <1>2, <2>4, <2>6
  <1>6. CASE CycleFails(c)
    <2>1. cycles'[c].ready = cycles[c].ready /\ cycles'[c].pc = "failed"
      BY <1>1, <1>6 DEF CycleFails, Cycle
    <2> QED
      BY <1>1, <1>2, <1>6, <2>1 DEF CycleFails, CycleOK, IInv, ScreensNameMatches
  <1>7. CASE CycleFlush(c) \/ CycleFlushFails(c)
    <2>1. cycles'[c].ready = cycles[c].ready /\ cycles'[c].pc \in {"done", "lost"}
      BY <1>1, <1>7 DEF CycleFlush, CycleFlushFails, Cycle
    <2>2. cycles[c].pc = "flush" /\ \E above \in SUBSET cycles[c].buffer : screens' = screens \cup above
      BY <1>7 DEF CycleFlush, CycleFlushFails, HandOver
    <2>3. matches' = matches
      BY <1>7 DEF CycleFlush, CycleFlushFails, HandOver
    <2>4. ScreensNameMatches'
      BY <1>1, <2>2, <2>3 DEF IInv, CycleOK, ScreensNameMatches
    <2>5. CycleOK(c)'
      BY <1>1, <2>1 DEF IInv, CycleOK
    <2> QED
      BY <1>2, <2>4, <2>5
  <1> QED
    BY <1>3, <1>4, <1>5, <1>6, <1>7

-----------------------------------------------------------------------------
(* The theorems of Spec.                                                   *)

LEMMA InitialState == Init => IInv
  <1> SUFFICES ASSUME Init PROVE IInv
    OBVIOUS
  <1>1. 0 \in Time
    BY MatchConstants DEF Time
  <1>2. /\ clock \in Time /\ watermark \in Time /\ ingests \in [Jobs -> Time]
        /\ jobs \in [Jobs -> Job] /\ profiles \in [Users -> Profile]
    BY <1>1, InitialRecords DEF Init, Profile
  <1>3. /\ edits \in [Edits -> Edit] /\ cycles \in [Cycles -> Cycle]
        /\ extracts \in [Keys -> Task] /\ extractors \in [Workers -> Extractor]
    BY InitialRecords DEF Init
  <1>4. matches = {} /\ screens = {} /\ IsFiniteSet(matches)
    BY FS_EmptySet DEF Init
  <1>5. Typed
    BY <1>2, <1>3, <1>4 DEF Typed, TypeOK
  <1>6. TasksOK
    BY DEF Init, TasksOK, IdleExtractor
  <1>7. \A c \in Cycles : CycleOK(c)
    BY DEF Init, CycleOK, IdleCycle
  <1> QED
    BY <1>4, <1>5, <1>6, <1>7 DEF IInv, ScreensNameMatches

LEMMA NextStep == IInv /\ [Next]_vars => IInv'
  <1> SUFFICES ASSUME IInv, [Next]_vars PROVE IInv'
    OBVIOUS
  <1>1. Typed /\ TasksOK
    BY DEF IInv
  <1>2. ASSUME NEW j \in Jobs, IngestStamp(j) \/ IngestCommit(j) \/ IngestFails(j) PROVE IInv'
    <2>1. UNCHANGED <<cycles, matches, screens, extracts, extractors>>
      BY <1>2 DEF IngestStamp, IngestCommit, IngestFails
    <2>2. Typed' /\ TasksOK'
      BY <1>1, <1>2, <2>1, IngestTypes DEF TasksOK
    <2> QED
      BY <2>1, <2>2, OtherStep
  <1>3. ASSUME NEW e \in Edits, (\E u \in Users : EditRead(e, u)) \/ EditCommit(e) \/ EditFails(e)
        PROVE  IInv'
    <2>1. UNCHANGED <<cycles, matches, screens, extracts, extractors>>
      BY <1>3 DEF EditRead, EditCommit, EditFails
    <2>2. Typed' /\ TasksOK'
      BY <1>1, <1>3, <2>1, EditTypes DEF TasksOK
    <2> QED
      BY <2>1, <2>2, OtherStep
  <1>4. ASSUME NEW c \in Cycles,
               \/ \E mode \in Modes : CycleStart(c, mode)
               \/ CycleRead(c) \/ CycleCommit(c) \/ CycleFails(c)
               \/ CycleFlush(c) \/ CycleFlushFails(c)
        PROVE  IInv'
    BY <1>1, <1>4, CycleTypes, CycleTasks, CycleStep
  <1>5. ASSUME NEW w \in Workers,
               \/ \E t \in Keys : ExtractPost(w, t)
               \/ ExtractStamp(w) \/ ExtractCommit(w) \/ ExtractPermanent(w) \/ ExtractFails(w)
        PROVE  IInv'
    <2>1. UNCHANGED <<cycles, matches, screens>>
      BY <1>5 DEF ExtractPost, ExtractStamp, ExtractCommit, ExtractPermanent, ExtractFails
    <2> QED
      BY <1>1, <1>5, <2>1, ExtractTypes, OtherStep
  <1>6. CASE UNCHANGED vars
    BY <1>6 DEF vars, IInv, Typed, TypeOK, TasksOK, CycleOK, ScreensNameMatches
  <1> QED
    BY <1>2, <1>3, <1>4, <1>5, <1>6 DEF Next, Work, Error, Crash

\* Whatever overlaps, fails or crashes, cycles hold committed and extracted rows.
THEOREM Invariance == Spec => []IInv
  BY InitialState, NextStep, PTL DEF Spec

\* The types of the tables, the requests and the tasks.
THEOREM TypeCorrect == Spec => []TypeOK
<1>1. IInv => TypeOK
  BY DEF IInv, Typed
<1> QED
  BY <1>1, Invariance, PTL

\* A screen-job names a committed match, of a job that has its extraction.
THEOREM ScreensAreCommitted == Spec => []ScreensNameMatches
<1>1. IInv => ScreensNameMatches
  BY DEF IInv
<1> QED
  BY <1>1, Invariance, PTL

\* An extraction and the time a posting came are written once.
THEOREM StampsStay == Spec => StampsAreFinal
<1>1. TypeOK /\ [Next]_vars =>
          [\A j \in Jobs :
              /\ jobs[j].extractedAt # 0 => jobs'[j].extractedAt = jobs[j].extractedAt
              /\ jobs[j].ingestedAt # 0 => jobs'[j].ingestedAt = jobs[j].ingestedAt]_vars
  BY StampsKept
<1> QED
  BY <1>1, TypeCorrect, PTL DEF Spec, StampsAreFinal

-----------------------------------------------------------------------------
(* When cycles do not overlap each other or the edits of their users: the  *)
(* cap and the flag, with crashes.                                         *)

\* An open edit still has the row as it stands.
EditOK(e) ==
    edits[e].pc = "open" => edits[e].user \in Users /\ edits[e].loaded = profiles[edits[e].user]

\* So has a cycle that is ranking, with the day's counts.
ReadOK(c) ==
    cycles[c].pc = "read" =>
        \A u \in Users :
            /\ cycles[c].today[u] = MatchesToday(u)
            /\ cycles[c].mode = "dirty" /\ u \in cycles[c].users =>
                   cycles[c].contents[u] = profiles[u].content

QuietInv ==
    /\ IInv /\ Quiet
    /\ \A e \in Edits : EditOK(e)
    /\ \A c \in Cycles : ReadOK(c)
    /\ WithinDailyCap /\ FlagDownMeansMatched

LEMMA LeastOfThree ==
    ASSUME NEW a \in Nat, NEW b \in Nat, NEW c \in Nat
    PROVE  Least({a, b, c}) <= b
  <1>1. \E n \in {a, b, c} : \A m \in {a, b, c} : n <= m
    OBVIOUS
  <1>2. \A m \in {a, b, c} : Least({a, b, c}) <= m
    BY <1>1 DEF Least
  <1> QED
    BY <1>2

LEMMA CountsAreNat ==
    ASSUME Typed
    PROVE  \A u \in Users : IsFiniteSet({m \in matches : m.user = u}) /\ MatchesToday(u) \in Nat
  <1>1. \A u \in Users : IsFiniteSet({m \in matches : m.user = u})
    BY FS_Subset DEF Typed
  <1> QED
    BY <1>1, FS_CardinalityType DEF MatchesToday

\* A commit that counted today's matches keeps the cap.
LEMMA CommitWithinCap ==
    ASSUME Typed, Typed', WithinDailyCap, NEW c \in Cycles, CycleCommit(c), ReadOK(c)
    PROVE  WithinDailyCap'
  <1> SUFFICES ASSUME NEW u \in Users PROVE MatchesToday(u)' <= DailyCap
    BY DEF WithinDailyCap
  <1>1. PICK picked \in SUBSET cycles[c].ready :
           Survivors(c, picked) /\ matches' = matches \cup Rows(c, picked)
    BY DEF CycleCommit, Rows
  <1> DEFINE old == {m \in matches : m.user = u}
             mine == OfUser(picked, u)
  <1>2. cycles[c] \in Cycle /\ cycles[c].pc = "read" /\ cycles[c].today[u] = MatchesToday(u)
    BY DEF Typed, TypeOK, CycleCommit, ReadOK
  <1>3. picked \in SUBSET Pairs /\ cycles[c].ready \in SUBSET Pairs
    BY <1>1, <1>2 DEF Cycle
  <1>4. mine \in SUBSET Pairs /\ OfUser(cycles[c].ready, u) \in SUBSET Pairs
    BY <1>3 DEF OfUser
  <1>5. MatchesToday(u) \in Nat /\ IsFiniteSet(old) /\ DailyCap \in Nat /\ TopN \in Nat
    BY CountsAreNat, MatchConstants
  <1>6. Remaining(c, u) \in Nat /\ MatchesToday(u) + Remaining(c, u) <= DailyCap
    BY <1>2, <1>5 DEF Remaining, Later, WithinDailyCap
  <1>7. Cardinality(mine) <= Remaining(c, u)
    <2>1. Cardinality(OfUser(cycles[c].ready, u)) \in Nat
      BY <1>4, PairsFinite
    <2>2. Cardinality(mine) = Least({TopN, Remaining(c, u), Cardinality(OfUser(cycles[c].ready, u))})
      BY <1>1 DEF Survivors
    <2> QED
      BY <1>5, <1>6, <2>1, <2>2, LeastOfThree
  <1>8. {m \in matches' : m.user = u} = old \cup Rows(c, mine)
    BY <1>1 DEF Rows, OfUser
  <1>9. /\ IsFiniteSet(Rows(c, mine)) /\ Cardinality(Rows(c, mine)) <= Cardinality(mine)
        /\ Cardinality(mine) \in Nat
    BY <1>4, RowsFinite, PairsFinite
  <1> HIDE DEF old, mine
  <1>10. Cardinality(old \cup Rows(c, mine)) =
            Cardinality(old) + Cardinality(Rows(c, mine)) - Cardinality(old \cap Rows(c, mine))
    BY <1>5, <1>9, FS_Union
  <1>11. /\ Cardinality(old \cap Rows(c, mine)) \in Nat
         /\ Cardinality(old) \in Nat /\ Cardinality(Rows(c, mine)) \in Nat
    BY <1>5, <1>9, FS_Intersection, FS_CardinalityType
  <1>12. Cardinality(old) = MatchesToday(u)
    BY DEF old, MatchesToday
  <1>13. MatchesToday(u)' = Cardinality(old \cup Rows(c, mine))
    BY <1>8 DEF MatchesToday
  <1> QED
    BY <1>5, <1>6, <1>7, <1>9, <1>10, <1>11, <1>12, <1>13

\* A commit of a dirty cycle lowers the flags of the users it has matched.
LEMMA CommitFlags ==
    ASSUME QuietInv, NEW c \in Cycles, CycleCommit(c)
    PROVE  /\ \A u \in Users : profiles'[u].content = profiles[u].content
           /\ \A u \in Users : u \notin cycles[c].users \/ cycles[c].mode # "dirty" =>
                                   profiles'[u] = profiles[u]
  BY DEF CycleCommit, ClearFlags, QuietInv, IInv, Typed, TypeOK, Profile

\* What a committed cycle has read does not change.
LEMMA CommittedStay ==
    ASSUME TypeOK, [Next]_vars, NEW c \in Committed
    PROVE  /\ c \in Committed' /\ cycles'[c].mode = cycles[c].mode
           /\ cycles'[c].users = cycles[c].users /\ cycles'[c].contents = cycles[c].contents
           /\ cycles'[c].ready = cycles[c].ready
  <1>1. cycles \in [Cycles -> Cycle] /\ cycles[c] \in Cycle
        /\ cycles[c].pc \in {"flush", "done", "lost"}
    BY DEF TypeOK, Committed
  <1>2. ASSUME NEW d \in Cycles,
               \/ \E mode \in Modes : CycleStart(d, mode)
               \/ CycleRead(d) \/ CycleCommit(d) \/ CycleFails(d)
        PROVE  cycles'[c] = cycles[c]
    <2>1. d # c /\ cycles[d].pc \in {"idle", "started", "read"}
      BY <1>1, <1>2 DEF CycleStart, CycleRead, CycleCommit, CycleFails
    <2>2. ASSUME NEW mode \in Modes, CycleStart(d, mode) PROVE cycles'[c] = cycles[c]
      BY <1>1, <2>1, <2>2 DEF CycleStart
    <2>3. CASE CycleRead(d)
      BY <1>1, <2>1, <2>3 DEF CycleRead
    <2>4. CASE CycleCommit(d)
      <3>1. \E rows : cycles' = [cycles EXCEPT ![d].pc = "flush", ![d].buffer = rows]
        BY <2>4 DEF CycleCommit
      <3>2. PICK rows : cycles' = [cycles EXCEPT ![d] = [cycles[d] EXCEPT !.pc = "flush", !.buffer = rows]]
        BY <1>1, <3>1
      <3> QED
        BY <1>1, <2>1, <3>2
    <2>5. CASE CycleFails(d)
      BY <1>1, <2>1, <2>5 DEF CycleFails
    <2> QED
      BY <1>2, <2>2, <2>3, <2>4, <2>5
  <1>3. ASSUME NEW d \in Cycles, CycleFlush(d) \/ CycleFlushFails(d)
        PROVE  /\ cycles'[c].pc \in {"flush", "done", "lost"} /\ cycles'[c].mode = cycles[c].mode
               /\ cycles'[c].users = cycles[c].users /\ cycles'[c].contents = cycles[c].contents
               /\ cycles'[c].ready = cycles[c].ready
    <2>1. \E pc \in {"done", "lost"} :
             cycles' = [cycles EXCEPT ![d] = [cycles[d] EXCEPT !.pc = pc, !.buffer = {}]]
      BY <1>1, <1>3 DEF CycleFlush, CycleFlushFails
    <2> QED
      BY <1>1, <2>1 DEF Cycle
  <1>4. \/ cycles' = cycles
        \/ \E d \in Cycles :
              \/ \E mode \in Modes : CycleStart(d, mode)
              \/ CycleRead(d) \/ CycleCommit(d) \/ CycleFails(d)
              \/ CycleFlush(d) \/ CycleFlushFails(d)
    BY DEF Next, Work, Error, Crash, vars, IngestStamp, IngestCommit, IngestFails, EditRead, EditCommit,
           EditFails, ExtractPost, ExtractStamp, ExtractCommit, ExtractPermanent, ExtractFails
  <1> QED
    BY <1>1, <1>2, <1>3, <1>4 DEF Committed

\* The flag's meaning only needs what a step does to the flag and the content.
LEMMA FlagKept ==
    ASSUME QuietInv, [Next]_vars,
           \A u \in Users : ~profiles'[u].rematch =>
               \/ ~profiles[u].rematch /\ profiles'[u].content = profiles[u].content
               \/ \E c \in Committed' : /\ cycles'[c].mode = "dirty" /\ u \in cycles'[c].users
                                        /\ cycles'[c].contents[u] = profiles'[u].content
    PROVE  FlagDownMeansMatched'
  <1>1. TypeOK
    BY DEF QuietInv, IInv, Typed
  <1>2. ASSUME NEW u \in Users, ~profiles[u].rematch, profiles'[u].content = profiles[u].content
        PROVE  \E c \in Committed' : /\ cycles'[c].mode = "dirty" /\ u \in cycles'[c].users
                                     /\ cycles'[c].contents[u] = profiles'[u].content
    <2>1. PICK c \in Committed : /\ cycles[c].mode = "dirty" /\ u \in cycles[c].users
                                 /\ cycles[c].contents[u] = profiles[u].content
      BY <1>2 DEF QuietInv, FlagDownMeansMatched
    <2> QED
      BY <1>1, <1>2, <2>1, CommittedStay
  <1> QED
    BY <1>2 DEF FlagDownMeansMatched

\* The content of a profile changes with a commit of an edit that raises the
\* version and leaves the flag up.
LEMMA EditMarks ==
    ASSUME QuietInv, NEW e \in Edits, EditCommit(e)
    PROVE  LET u == edits[e].user IN
           /\ u \in Users /\ profiles'[u].rematch /\ profiles'[u].version > profiles[u].version
           /\ \A v \in Users : v # u => profiles'[v] = profiles[v]
  <1> DEFINE u == edits[e].user
             old == edits[e].loaded
             x == [version |-> old.version + 1, content |-> e,
                   rematch |-> IF old.rematch THEN profiles[u].rematch ELSE TRUE]
  <1>1. u \in Users /\ old = profiles[u] /\ profiles[u] \in Profile
    BY DEF EditCommit, QuietInv, EditOK, IInv, Typed, TypeOK
  <1>2. profiles' = [profiles EXCEPT ![u] = x]
    BY <1>1 DEF EditCommit, QuietInv, IInv, Typed, TypeOK
  <1>3. profiles'[u] = x /\ \A v \in Users : v # u => profiles'[v] = profiles[v]
    BY <1>1, <1>2 DEF QuietInv, IInv, Typed, TypeOK
  <1>4. x.rematch
    <2>1. x.rematch = IF profiles[u].rematch THEN profiles[u].rematch ELSE TRUE
      BY <1>1
    <2> QED
      BY <2>1, Zenon
  <1>5. x.version > profiles[u].version
    BY <1>1 DEF Profile
  <1> QED
    BY <1>1, <1>3, <1>4, <1>5

LEMMA QuietEdit ==
    ASSUME QuietInv, IInv', Quiet', NEW e \in Edits, [Next]_vars,
           (\E u \in Users : EditRead(e, u)) \/ EditCommit(e) \/ EditFails(e)
    PROVE  QuietInv'
  <1>1. /\ cycles' = cycles /\ matches' = matches /\ edits \in [Edits -> Edit]
        /\ \A f \in Edits : f # e => edits'[f] = edits[f]
    BY DEF EditRead, EditCommit, EditFails, QuietInv, IInv, Typed, TypeOK
  <1>2. CASE EditCommit(e)
    <2> DEFINE u == edits[e].user
    <2>1. /\ u \in Users /\ profiles'[u].rematch
          /\ \A v \in Users : v # u => profiles'[v] = profiles[v]
      BY <1>2, EditMarks
    <2>2. e \in Editing(u)
      BY <1>2 DEF EditCommit, Editing
    <2>3. \A f \in Edits : f # e => EditOK(f)'
      <3>1. \A f \in Edits : f # e /\ edits[f].pc = "open" => edits[f].user # u
        BY <2>1, <2>2 DEF QuietInv, Quiet, AtMostOne, Editing
      <3> QED
        BY <1>1, <2>1, <3>1 DEF QuietInv, EditOK
    <2>4. EditOK(e)'
      BY <1>1, <1>2 DEF EditCommit, EditOK, Edit
    <2>5. \A c \in Cycles : ReadOK(c)'
      <3>1. \A c \in Cycles : cycles[c].pc = "read" /\ cycles[c].mode = "dirty" => u \notin cycles[c].users
        BY <2>1, <2>2 DEF QuietInv, Quiet, Running
      <3>2. \A v \in Users : MatchesToday(v)' = MatchesToday(v)
        BY <1>1 DEF MatchesToday
      <3> QED
        BY <1>1, <2>1, <3>1, <3>2 DEF QuietInv, ReadOK
    <2>6. WithinDailyCap'
      BY <1>1 DEF QuietInv, WithinDailyCap, MatchesToday
    <2>7. FlagDownMeansMatched'
      BY <2>1, FlagKept
    <2> QED
      BY <2>3, <2>4, <2>5, <2>6, <2>7 DEF QuietInv
  <1>3. ASSUME profiles' = profiles, EditOK(e)' PROVE QuietInv'
    <2>1. (\A f \in Edits : EditOK(f)') /\ WithinDailyCap' /\ \A c \in Cycles : ReadOK(c)'
      BY <1>1, <1>3 DEF QuietInv, EditOK, ReadOK, WithinDailyCap, MatchesToday
    <2>2. FlagDownMeansMatched'
      BY <1>3, FlagKept
    <2> QED
      BY <2>1, <2>2 DEF QuietInv
  <1>4. ASSUME NEW u \in Users, EditRead(e, u) PROVE QuietInv'
    <2>1. profiles' = profiles /\ edits'[e] = [pc |-> "open", user |-> u, loaded |-> profiles[u]]
      BY <1>1, <1>4 DEF EditRead
    <2> QED
      BY <1>3, <2>1 DEF EditOK
  <1>5. CASE EditFails(e)
    <2>1. profiles' = profiles /\ edits'[e].pc = "done"
      BY <1>1, <1>5 DEF EditFails, Edit
    <2> QED
      BY <1>3, <2>1 DEF EditOK
  <1> QED
    BY <1>2, <1>4, <1>5

LEMMA QuietCycle ==
    ASSUME QuietInv, IInv', Quiet', NEW c \in Cycles, [Next]_vars,
           \/ \E mode \in Modes : CycleStart(c, mode)
           \/ CycleRead(c) \/ CycleCommit(c) \/ CycleFails(c)
           \/ CycleFlush(c) \/ CycleFlushFails(c)
    PROVE  QuietInv'
  <1>1. /\ edits' = edits /\ cycles \in [Cycles -> Cycle] /\ cycles' \in [Cycles -> Cycle]
        /\ cycles[c] \in Cycle /\ profiles \in [Users -> Profile]
    BY DEF CycleStart, CycleRead, CycleCommit, CycleFails, CycleFlush, CycleFlushFails, HandOver,
           QuietInv, IInv, Typed, TypeOK
  <1>2. \A d \in Cycles : d # c => cycles'[d] = cycles[d]
    BY <1>1 DEF CycleStart, CycleRead, CycleCommit, CycleFails, CycleFlush, CycleFlushFails, HandOver
  <1>3. ASSUME profiles' = profiles, matches' = matches, ReadOK(c)' PROVE QuietInv'
    <2>1. (\A f \in Edits : EditOK(f)') /\ WithinDailyCap'
      BY <1>1, <1>3 DEF QuietInv, EditOK, WithinDailyCap, MatchesToday
    <2>2. \A d \in Cycles : d # c => ReadOK(d)'
      BY <1>2, <1>3 DEF QuietInv, ReadOK, MatchesToday
    <2>3. FlagDownMeansMatched'
      BY <1>3, FlagKept
    <2> QED
      BY <1>3, <2>1, <2>2, <2>3 DEF QuietInv
  <1>4. CASE CycleRead(c)
    <2>1. /\ profiles' = profiles /\ matches' = matches
          /\ cycles'[c].contents = [u \in Users |-> profiles[u].content]
          /\ cycles'[c].today = [u \in Users |-> MatchesToday(u)]
      BY <1>1, <1>4 DEF CycleRead, Cycle
    <2>2. ReadOK(c)'
      BY <2>1 DEF ReadOK, MatchesToday
    <2> QED
      BY <1>3, <2>1, <2>2
  <1>5. CASE CycleCommit(c)
    <2>1. cycles[c].pc = "read" /\ c \in Running
      BY <1>5 DEF CycleCommit, Running
    <2>2. \E rows : cycles' = [cycles EXCEPT ![c] = [cycles[c] EXCEPT !.pc = "flush", !.buffer = rows]]
      BY <1>1, <1>5 DEF CycleCommit
    <2>3. /\ cycles'[c].pc = "flush" /\ cycles'[c].mode = cycles[c].mode
          /\ cycles'[c].users = cycles[c].users /\ cycles'[c].contents = cycles[c].contents
      BY <1>1, <2>2 DEF Cycle
    <2>4. \A d \in Cycles : ReadOK(d)'
      <3>1. \A d \in Cycles : d # c => cycles[d].pc # "read"
        BY <2>1 DEF QuietInv, Quiet, AtMostOne, Running
      <3> QED
        BY <1>2, <2>3, <3>1 DEF ReadOK
    <2>5. \A f \in Edits : EditOK(f)'
      <3>1. \A f \in Edits : edits[f].pc = "open" /\ cycles[c].mode = "dirty" =>
                edits[f].user \notin cycles[c].users
        BY <2>1 DEF QuietInv, EditOK, Quiet, Editing
      <3> QED
        BY <1>1, <1>5, <3>1, CommitFlags DEF QuietInv, EditOK
    <2>6. WithinDailyCap'
      BY <1>5, CommitWithinCap DEF QuietInv, IInv
    <2>7. FlagDownMeansMatched'
      <3>1. c \in Committed'
        BY <2>3 DEF Committed
      <3>2. ASSUME NEW u \in Users, cycles[c].mode = "dirty", u \in cycles[c].users
            PROVE  /\ cycles'[c].mode = "dirty" /\ u \in cycles'[c].users
                   /\ cycles'[c].contents[u] = profiles'[u].content
        BY <1>5, <2>1, <2>3, <3>2, CommitFlags DEF QuietInv, ReadOK
      <3>3. ASSUME NEW u \in Users, u \notin cycles[c].users \/ cycles[c].mode # "dirty"
            PROVE  profiles'[u] = profiles[u]
        BY <1>5, <3>3, CommitFlags
      <3> QED
        BY <3>1, <3>2, <3>3, FlagKept
    <2> QED
      BY <2>4, <2>5, <2>6, <2>7 DEF QuietInv
  <1>6. ASSUME NEW mode \in Modes, CycleStart(c, mode) PROVE QuietInv'
    <2>1. cycles'[c].pc # "read" /\ profiles' = profiles /\ matches' = matches
      <3>1. TypeOK
        BY DEF QuietInv, IInv, Typed
      <3>2. cycles'[c].pc # "read"
        BY <1>6, <3>1, StartedCycle
      <3> QED
        BY <1>6, <3>2 DEF CycleStart
    <2> QED
      BY <1>3, <2>1 DEF ReadOK
  <1>7. CASE CycleFails(c) \/ CycleFlush(c) \/ CycleFlushFails(c)
    <2>1. cycles'[c].pc # "read" /\ profiles' = profiles /\ matches' = matches
      BY <1>1, <1>7 DEF CycleFails, CycleFlush, CycleFlushFails, HandOver, Cycle
    <2> QED
      BY <1>3, <2>1 DEF ReadOK
  <1> QED
    BY <1>4, <1>5, <1>6, <1>7

LEMMA QuietNextStep ==
    ASSUME QuietInv, Next, Quiet'
    PROVE  QuietInv'
  <1>1. IInv'
    BY NextStep DEF QuietInv
  <1>2. ASSUME UNCHANGED <<profiles, edits, cycles, matches>> PROVE QuietInv'
    <2>1. (\A e \in Edits : EditOK(e)') /\ (\A c \in Cycles : ReadOK(c)') /\ WithinDailyCap'
      BY <1>2 DEF QuietInv, EditOK, ReadOK, WithinDailyCap, MatchesToday
    <2>2. FlagDownMeansMatched'
      BY <1>2, FlagKept
    <2> QED
      BY <1>1, <2>1, <2>2 DEF QuietInv
  <1>3. ASSUME NEW j \in Jobs, IngestStamp(j) \/ IngestCommit(j) \/ IngestFails(j) PROVE QuietInv'
    BY <1>2, <1>3 DEF IngestStamp, IngestCommit, IngestFails
  <1>4. ASSUME NEW e \in Edits, (\E u \in Users : EditRead(e, u)) \/ EditCommit(e) \/ EditFails(e)
        PROVE  QuietInv'
    BY <1>1, <1>4, QuietEdit
  <1>5. ASSUME NEW c \in Cycles,
               \/ \E mode \in Modes : CycleStart(c, mode)
               \/ CycleRead(c) \/ CycleCommit(c) \/ CycleFails(c)
               \/ CycleFlush(c) \/ CycleFlushFails(c)
        PROVE  QuietInv'
    BY <1>1, <1>5, QuietCycle
  <1>6. ASSUME NEW w \in Workers,
               \/ \E t \in Keys : ExtractPost(w, t)
               \/ ExtractStamp(w) \/ ExtractCommit(w) \/ ExtractPermanent(w) \/ ExtractFails(w)
        PROVE  QuietInv'
    BY <1>2, <1>6 DEF ExtractPost, ExtractStamp, ExtractCommit, ExtractPermanent, ExtractFails
  <1> QED
    BY <1>3, <1>4, <1>5, <1>6 DEF Next, Work, Error, Crash

LEMMA QuietInitialState == Init => QuietInv
  <1> SUFFICES ASSUME Init PROVE QuietInv
    OBVIOUS
  <1>1. IInv
    BY InitialState
  <1>2. Running = {} /\ \A u \in Users : Editing(u) = {}
    BY DEF Init, Running, Editing, IdleCycle, IdleEdit
  <1>3. Quiet
    BY <1>2 DEF Quiet, AtMostOne
  <1>4. \A u \in Users : MatchesToday(u) = 0
    <2>1. \A u \in Users : {m \in matches : m.user = u} = {}
      BY DEF Init
    <2> QED
      BY <2>1, FS_EmptySet DEF MatchesToday
  <1>5. WithinDailyCap
    BY <1>4, MatchConstants DEF WithinDailyCap
  <1>6. FlagDownMeansMatched
    BY DEF Init, FlagDownMeansMatched
  <1>7. (\A e \in Edits : EditOK(e)) /\ \A c \in Cycles : ReadOK(c)
    BY DEF Init, EditOK, ReadOK, IdleEdit, IdleCycle
  <1> QED
    BY <1>1, <1>3, <1>5, <1>6, <1>7 DEF QuietInv

\* While cycles and the edits of their users stay apart, each works on rows
\* that still stand when it commits.
THEOREM QuietInvariance == QuietCrashSpec => []QuietInv
<1>1. QuietInv /\ UNCHANGED vars => QuietInv'
  <2> SUFFICES ASSUME QuietInv, UNCHANGED vars PROVE QuietInv'
    OBVIOUS
  <2>1. IInv'
    BY NextStep DEF QuietInv
  <2>2. Quiet'
    BY DEF vars, QuietInv, Quiet, AtMostOne, Running, Stamped, Editing
  <2>3. (\A e \in Edits : EditOK(e)') /\ (\A c \in Cycles : ReadOK(c)') /\ WithinDailyCap'
    BY DEF vars, QuietInv, EditOK, ReadOK, WithinDailyCap, MatchesToday
  <2>4. FlagDownMeansMatched'
    BY DEF vars, QuietInv, FlagDownMeansMatched, Committed
  <2> QED
    BY <2>1, <2>2, <2>3, <2>4 DEF QuietInv
<1> QED
  BY <1>1, QuietNextStep, QuietInitialState, PTL DEF QuietCrashSpec

\* No user gets more matches in a day than the daily candidate cap.
THEOREM CapHolds == QuietCrashSpec => []WithinDailyCap
<1>1. QuietInv => WithinDailyCap
  BY DEF QuietInv
<1> QED
  BY <1>1, QuietInvariance, PTL

\* Once the dirty flag is down, a dirty cycle has matched the profile as it is.
THEOREM FlagsMeanMatched == QuietCrashSpec => []FlagDownMeansMatched
<1>1. QuietInv => FlagDownMeansMatched
  BY DEF QuietInv
<1> QED
  BY <1>1, QuietInvariance, PTL

\* An edit that changes a profile raises its version and its flag.
THEOREM EditsMark == QuietCrashSpec => EditAlwaysMarks
<1>1. ASSUME QuietInv, [Next /\ Quiet']_vars, NEW u \in Users,
             profiles'[u].content # profiles[u].content
      PROVE  profiles'[u].version > profiles[u].version /\ profiles'[u].rematch
  <2>1. \/ profiles' = profiles
        \/ \E c \in Cycles : CycleCommit(c)
        \/ \E e \in Edits : EditCommit(e)
    BY <1>1 DEF Next, Work, Error, Crash, vars, IngestStamp, IngestCommit, IngestFails, EditRead,
           EditFails, CycleStart, CycleRead, CycleFails, CycleFlush, CycleFlushFails, HandOver,
           ExtractPost, ExtractStamp, ExtractCommit, ExtractPermanent, ExtractFails
  <2>2. PICK e \in Edits : EditCommit(e)
    BY <1>1, <2>1, CommitFlags
  <2> QED
    BY <1>1, <2>2, EditMarks
<1>2. QuietInv /\ [Next /\ Quiet']_vars =>
          [\A u \in Users :
              profiles'[u].content # profiles[u].content =>
                  /\ profiles'[u].version > profiles[u].version
                  /\ profiles'[u].rematch]_vars
  BY <1>1
<1> QED
  BY <1>2, QuietInvariance, PTL DEF QuietCrashSpec, EditAlwaysMarks

-----------------------------------------------------------------------------
(* The watermark, when moreover no flush is lost and all cycles are        *)
(* incremental: nothing that it passes was left out.                       *)

\* The watermark is older than any timestamp that is not yet committed, and
\* equal to none.
StampsOK ==
    /\ watermark <= clock
    /\ \A j \in Jobs :
          /\ jobs[j].extractedAt <= clock /\ jobs[j].ingestedAt <= clock
          /\ jobs[j].extractedAt # 0 => jobs[j].extractedAt # watermark
          /\ jobs[j].ingestedAt # 0 => jobs[j].ingestedAt # watermark
          /\ ingests[j] # 0 => watermark < ingests[j] /\ ingests[j] <= clock
    /\ \A w \in Workers : extractors[w].pc = "write" =>
          watermark < extractors[w].at /\ extractors[w].at <= clock

\* Extractions are asked for, and written, for known postings.
KnownOK ==
    /\ \A j \in Jobs : jobs[j].extractedAt # 0 => jobs[j].ingestedAt # 0
    /\ \A c \in Cycles : \A p \in cycles[c].fresh : jobs[p[2]].ingestedAt # 0
    /\ \A t \in Keys : extracts[t].state # "none" => jobs[t[2]].ingestedAt # 0

\* A running cycle began at the watermark, after all that is committed; once it
\* has read, it holds every pair that is recent.
RunningOK(c) ==
    c \in Running =>
        /\ cycles[c].users = Users /\ cycles[c].since = watermark
        /\ watermark < cycles[c].ts /\ cycles[c].ts <= clock
        /\ \A j \in Jobs : jobs[j].extractedAt < cycles[c].ts /\ jobs[j].ingestedAt < cycles[c].ts
        /\ cycles[c].pc = "read" =>
               \A p \in Passes :
                   jobs[p[2]].ingestedAt # 0 /\ Recent(p[2], watermark) =>
                       p \in (IF jobs[p[2]].extractedAt # 0 THEN cycles[c].ready ELSE cycles[c].fresh)

WatermarkInv ==
    /\ StampsOK /\ KnownOK
    /\ \A c \in Cycles : RunningOK(c)
    /\ NothingSkipped /\ ExtractionIsAsked

LEMMA TimesAreNat ==
    ASSUME TypeOK
    PROVE  /\ clock \in Nat /\ watermark \in Nat
           /\ \A j \in Jobs : /\ jobs[j].extractedAt \in Nat /\ jobs[j].ingestedAt \in Nat
                              /\ ingests[j] \in Nat
           /\ \A w \in Workers : extractors[w].at \in Nat
           /\ \A c \in Cycles : cycles[c].ts \in Nat /\ cycles[c].since \in Nat
  <1>1. \A t \in Time : t \in Nat
    BY DEF Time
  <1> QED
    BY <1>1 DEF TypeOK, Job, Extractor, Cycle

\* A task that was asked for is never forgotten, nor is a candidate.
LEMMA StillAsked ==
    ASSUME ExtractionIsAsked, NEW p \in Passes,
           \A t \in Keys : extracts[t].state # "none" => extracts'[t].state # "none",
           \A c \in Cycles : cycles[c].pc = "flush" => cycles'[c].pc = "flush" /\ FreshJobs(c)' = FreshJobs(c),
           jobs[p[2]].ingestedAt # 0, jobs[p[2]].ingestedAt < watermark, jobs[p[2]].extractedAt = 0
    PROVE  \/ \E c \in Cycles : cycles'[c].pc = "flush" /\ p[2] \in FreshJobs(c)'
           \/ \E t \in Keys : t[2] = p[2] /\ extracts'[t].state # "none"
  BY DEF ExtractionIsAsked

\* Steps that leave the cycles, the watermark and the jobs alone.
LEMMA AsideStep ==
    ASSUME IInv, WatermarkInv, [Next]_vars, IInv',
           UNCHANGED <<cycles, watermark, jobs>>, clock' \in Nat, clock <= clock',
           \A j \in Jobs : ingests'[j] \in {0, ingests[j]} \/
                           (watermark < ingests'[j] /\ ingests'[j] <= clock'),
           \A w \in Workers : extractors'[w].pc = "write" =>
               extractors'[w] = extractors[w] \/
               (watermark < extractors'[w].at /\ extractors'[w].at <= clock'),
           \A t \in Keys : extracts[t].state # "none" <=> extracts'[t].state # "none"
    PROVE  WatermarkInv'
  <1>1. /\ clock \in Nat /\ watermark \in Nat
        /\ \A j \in Jobs : jobs[j].extractedAt \in Nat /\ jobs[j].ingestedAt \in Nat /\ ingests[j] \in Nat
        /\ \A w \in Workers : extractors[w].at \in Nat
        /\ \A c \in Cycles : cycles[c].ts \in Nat
    BY TimesAreNat DEF IInv, Typed
  <1>2. StampsOK'
    <2>1. watermark' <= clock' /\ \A j \in Jobs :
             /\ jobs'[j].extractedAt <= clock' /\ jobs'[j].ingestedAt <= clock'
             /\ jobs'[j].extractedAt # 0 => jobs'[j].extractedAt # watermark'
             /\ jobs'[j].ingestedAt # 0 => jobs'[j].ingestedAt # watermark'
      BY <1>1 DEF WatermarkInv, StampsOK
    <2>2. \A j \in Jobs : ingests'[j] # 0 => watermark < ingests'[j] /\ ingests'[j] <= clock'
      BY <1>1 DEF WatermarkInv, StampsOK
    <2>3. \A w \in Workers : extractors'[w].pc = "write" =>
             watermark < extractors'[w].at /\ extractors'[w].at <= clock'
      BY <1>1 DEF WatermarkInv, StampsOK
    <2> QED
      BY <2>1, <2>2, <2>3 DEF StampsOK
  <1>3. KnownOK'
    BY DEF WatermarkInv, KnownOK
  <1>4. \A c \in Cycles : RunningOK(c)'
    <2>1. \A c \in Cycles : cycles[c].ts <= clock => cycles[c].ts <= clock'
      BY <1>1
    <2>2. Running' = Running
      BY DEF Running
    <2> QED
      BY <2>1, <2>2 DEF WatermarkInv, RunningOK, Recent
  <1>5. NothingSkipped'
    BY DEF WatermarkInv, NothingSkipped, Committed
  <1>6. ExtractionIsAsked'
    BY DEF WatermarkInv, ExtractionIsAsked, FreshJobs
  <1> QED
    BY <1>2, <1>3, <1>4, <1>5, <1>6 DEF WatermarkInv

\* A posting or an extraction becomes visible: only outside of cycles, with a
\* timestamp that is newer than the watermark.
LEMMA StampStep ==
    ASSUME IInv, WatermarkInv, [Next]_vars, IInv', Running = {},
           UNCHANGED <<clock, cycles, watermark>>,
           \A j \in Jobs :
               /\ \/ jobs'[j].ingestedAt = jobs[j].ingestedAt
                  \/ watermark < jobs'[j].ingestedAt /\ jobs'[j].ingestedAt <= clock
               /\ \/ jobs'[j].extractedAt = jobs[j].extractedAt
                  \/ /\ watermark < jobs'[j].extractedAt /\ jobs'[j].extractedAt <= clock
                     /\ jobs[j].ingestedAt # 0,
           \A j \in Jobs : ingests'[j] \in {0, ingests[j]},
           \A w \in Workers : extractors'[w].pc = "write" => extractors'[w] = extractors[w],
           \A t \in Keys : extracts[t].state # "none" <=> extracts'[t].state # "none"
    PROVE  WatermarkInv'
  <1>1. /\ clock \in Nat /\ watermark \in Nat
        /\ \A j \in Jobs : /\ jobs[j].extractedAt \in Nat /\ jobs[j].ingestedAt \in Nat
                           /\ ingests[j] \in Nat
                           /\ jobs'[j].extractedAt \in Nat /\ jobs'[j].ingestedAt \in Nat
    <2>1. TypeOK /\ TypeOK'
      BY DEF IInv, Typed
    <2>2. \A t \in Time : t \in Nat
      BY DEF Time
    <2> QED
      BY <2>1, <2>2 DEF TypeOK, Job
  <1>2. \A j \in Jobs : jobs[j].ingestedAt # 0 => jobs'[j].ingestedAt = jobs[j].ingestedAt
    BY StampsKept DEF IInv, Typed
  <1>3. \A j \in Jobs : jobs[j].extractedAt # 0 => jobs'[j].extractedAt = jobs[j].extractedAt
    BY StampsKept DEF IInv, Typed
  <1>4. StampsOK'
    <2>1. watermark' <= clock' /\ \A j \in Jobs :
             /\ jobs'[j].extractedAt <= clock' /\ jobs'[j].ingestedAt <= clock'
             /\ jobs'[j].extractedAt # 0 => jobs'[j].extractedAt # watermark'
             /\ jobs'[j].ingestedAt # 0 => jobs'[j].ingestedAt # watermark'
      BY <1>1 DEF WatermarkInv, StampsOK
    <2>2. /\ \A j \in Jobs : ingests'[j] # 0 => watermark < ingests'[j] /\ ingests'[j] <= clock
          /\ \A w \in Workers : extractors'[w].pc = "write" =>
                watermark < extractors'[w].at /\ extractors'[w].at <= clock
      BY DEF WatermarkInv, StampsOK
    <2> QED
      BY <2>1, <2>2 DEF StampsOK
  <1>5. KnownOK'
    <2>1. \A c \in Cycles : \A p \in cycles[c].fresh : p[2] \in Jobs
      BY DEF IInv, Typed, TypeOK, Cycle, Pairs
    <2>2. \A t \in Keys : t[2] \in Jobs
      BY DEF Keys
    <2>3. \A j \in Jobs : jobs[j].ingestedAt # 0 => jobs'[j].ingestedAt # 0
      BY <1>2
    <2>4. \A j \in Jobs : jobs'[j].extractedAt # 0 => jobs'[j].ingestedAt # 0
      BY <2>3 DEF WatermarkInv, KnownOK
    <2> QED
      BY <2>1, <2>2, <2>3, <2>4 DEF WatermarkInv, KnownOK
  <1>6. \A c \in Cycles : RunningOK(c)'
    BY DEF RunningOK, Running
  <1>7. NothingSkipped'
    <2>1. \A p \in Passes : p[2] \in Jobs
      BY MatchConstants
    <2>2. \A p \in Passes : jobs'[p[2]].extractedAt < watermark =>
                                jobs'[p[2]].extractedAt = jobs[p[2]].extractedAt
      BY <1>1, <2>1
    <2> QED
      BY <2>2 DEF WatermarkInv, NothingSkipped, Committed
  <1>8. ExtractionIsAsked'
    <2> SUFFICES ASSUME NEW p \in Passes, jobs'[p[2]].ingestedAt # 0,
                        jobs'[p[2]].ingestedAt < watermark, jobs'[p[2]].extractedAt = 0
                 PROVE  \/ \E c \in Cycles : cycles'[c].pc = "flush" /\ p[2] \in FreshJobs(c)'
                        \/ \E t \in Keys : t[2] = p[2] /\ extracts'[t].state # "none"
      BY DEF ExtractionIsAsked
    <2>1. p[2] \in Jobs
      BY MatchConstants
    <2>2. jobs'[p[2]].ingestedAt = jobs[p[2]].ingestedAt /\ jobs[p[2]].extractedAt = 0
      BY <1>1, <1>3, <2>1
    <2>3. \A c \in Cycles : FreshJobs(c)' = FreshJobs(c)
      BY DEF FreshJobs
    <2> QED
      BY <2>2, <2>3, StillAsked DEF WatermarkInv
  <1> QED
    BY <1>4, <1>5, <1>6, <1>7, <1>8 DEF WatermarkInv

LEMMA WatermarkIngest ==
    ASSUME IInv, Quiet, WatermarkInv, [Next]_vars, IInv', Quiet', NEW j \in Jobs,
           IngestStamp(j) \/ IngestCommit(j) \/ IngestFails(j)
    PROVE  WatermarkInv'
  <1>1. /\ TypeOK /\ clock \in Nat /\ watermark \in Nat
        /\ ingests \in [Jobs -> Time] /\ jobs \in [Jobs -> Job] /\ ingests[j] \in Nat
    BY TimesAreNat DEF IInv, Typed, TypeOK
  <1>2. UNCHANGED <<cycles, watermark, extracts, extractors>>
    BY DEF IngestStamp, IngestCommit, IngestFails
  <1>3. CASE IngestStamp(j)
    <2>1. clock' = clock + 1 /\ clock' \in Nat /\ watermark < clock'
      BY <1>1, <1>3 DEF IngestStamp, Tick, WatermarkInv, StampsOK
    <2>2. \A i \in Jobs : ingests'[i] = ingests[i] \/ ingests'[i] = clock'
      BY <1>1, <1>3 DEF IngestStamp
    <2>3. jobs' = jobs
      BY <1>3 DEF IngestStamp
    <2> QED
      BY <1>1, <1>2, <2>1, <2>2, <2>3, AsideStep
  <1>4. CASE IngestCommit(j)
    <2>1. Running = {}
      BY <1>4 DEF IngestCommit, Quiet, Stamped
    <2>2. watermark < ingests[j] /\ ingests[j] <= clock
      BY <1>4 DEF IngestCommit, WatermarkInv, StampsOK
    <2>3. \A i \in Jobs : /\ jobs'[i].extractedAt = jobs[i].extractedAt
                          /\ jobs'[i].ingestedAt \in {jobs[i].ingestedAt, ingests[j]}
                          /\ ingests'[i] \in {0, ingests[i]}
      BY <1>1, <1>4 DEF IngestCommit, Job
    <2>4. clock' = clock
      BY <1>4 DEF IngestCommit
    <2> QED
      BY <1>2, <2>1, <2>2, <2>3, <2>4, StampStep
  <1>5. CASE IngestFails(j)
    <2>1. \A i \in Jobs : ingests'[i] \in {0, ingests[i]}
      BY <1>1, <1>5 DEF IngestFails
    <2>2. clock' = clock /\ jobs' = jobs
      BY <1>5 DEF IngestFails
    <2> QED
      BY <1>1, <1>2, <2>1, <2>2, AsideStep
  <1> QED
    BY <1>3, <1>4, <1>5

LEMMA WatermarkExtract ==
    ASSUME IInv, Quiet, WatermarkInv, [Next]_vars, IInv', Quiet', NEW w \in Workers,
           \/ \E t \in Keys : ExtractPost(w, t)
           \/ ExtractStamp(w) \/ ExtractCommit(w) \/ ExtractPermanent(w) \/ ExtractFails(w)
    PROVE  WatermarkInv'
  <1>1. /\ TypeOK /\ clock \in Nat /\ watermark \in Nat
        /\ jobs \in [Jobs -> Job] /\ extractors \in [Workers -> Extractor]
    BY TimesAreNat DEF IInv, Typed, TypeOK
  <1>2. UNCHANGED <<cycles, watermark, ingests>>
    BY DEF ExtractPost, ExtractStamp, ExtractCommit, ExtractPermanent, ExtractFails
  <1>3. /\ \A t \in Keys : extracts[t].state # "none" <=> extracts'[t].state # "none"
        /\ \A v \in Workers : v # w => extractors'[v] = extractors[v]
    BY ExtractSteps DEF IInv
  <1>4. CASE ExtractStamp(w)
    <2>1. clock' = clock + 1 /\ clock' \in Nat /\ watermark < clock'
      BY <1>1, <1>4 DEF ExtractStamp, Tick, WatermarkInv, StampsOK
    <2>2. extractors'[w].at = clock' /\ jobs' = jobs
      BY <1>1, <1>4 DEF ExtractStamp, Extractor
    <2>3. \A v \in Workers : extractors'[v].pc = "write" =>
             extractors'[v] = extractors[v] \/
             (watermark < extractors'[v].at /\ extractors'[v].at <= clock')
      BY <1>3, <2>1, <2>2
    <2> QED
      BY <1>1, <1>2, <1>3, <2>1, <2>2, <2>3, AsideStep
  <1>5. CASE ExtractCommit(w)
    <2> DEFINE t == extractors[w].task
               at == extractors[w].at
    <2>1. Running = {} /\ extractors[w].pc = "write"
      BY <1>5 DEF ExtractCommit, Quiet, Stamped
    <2>2. watermark < at /\ at <= clock
      BY <2>1 DEF WatermarkInv, StampsOK
    <2>3. t \in Keys /\ t[2] \in Jobs /\ jobs[t[2]].ingestedAt # 0
      BY <2>1 DEF IInv, TasksOK, WatermarkInv, KnownOK, Keys
    <2>4. \A i \in Jobs : /\ jobs'[i].ingestedAt = jobs[i].ingestedAt
                          /\ \/ jobs'[i].extractedAt = jobs[i].extractedAt
                             \/ i = t[2] /\ jobs'[i].extractedAt = at
      BY <1>1, <1>5, <2>3 DEF ExtractCommit, Job
    <2>5. extractors'[w].pc = "idle" /\ clock' = clock
      BY <1>1, <1>5 DEF ExtractCommit, IdleExtractor
    <2> HIDE DEF t, at
    <2> QED
      BY <1>2, <1>3, <2>1, <2>2, <2>3, <2>4, <2>5, StampStep
  <1>6. CASE (\E t \in Keys : ExtractPost(w, t)) \/ ExtractPermanent(w) \/ ExtractFails(w)
    <2>1. clock' = clock /\ jobs' = jobs
      BY <1>6 DEF ExtractPost, ExtractPermanent, ExtractFails
    <2>2. extractors'[w].pc = "write" => extractors'[w] = extractors[w]
      BY <1>1, <1>6 DEF ExtractPost, ExtractPermanent, ExtractFails, IdleExtractor
    <2> QED
      BY <1>1, <1>2, <1>3, <2>1, <2>2, AsideStep
  <1> QED
    BY <1>4, <1>5, <1>6

LEMMA WatermarkStart ==
    ASSUME Modes = {"incremental"}, Users # {},
           IInv, Quiet, WatermarkInv, [Next]_vars, IInv', Quiet', NEW c \in Cycles,
           \E mode \in Modes : CycleStart(c, mode)
    PROVE  WatermarkInv'
  <1>1. /\ TypeOK /\ clock \in Nat /\ watermark \in Nat /\ cycles \in [Cycles -> Cycle]
        /\ \A j \in Jobs : /\ jobs[j].extractedAt \in Nat /\ jobs[j].ingestedAt \in Nat
                           /\ ingests[j] \in Nat
        /\ \A w \in Workers : extractors[w].at \in Nat
    BY TimesAreNat DEF IInv, Typed, TypeOK
  <1>2. CycleStart(c, "incremental") /\ SelectUserIds("incremental") = Users
    BY DEF SelectUserIds
  <1>3. /\ clock' = clock + 1 /\ watermark' = watermark /\ extracts' = extracts
        /\ UNCHANGED <<jobs, ingests, extractors>>
        /\ \A d \in Cycles : d # c => cycles'[d] = cycles[d]
    BY <1>1, <1>2 DEF CycleStart, Tick
  <1>4. /\ cycles'[c].pc = "started" /\ cycles'[c].ts = clock' /\ cycles'[c].users = Users
        /\ cycles'[c].since = watermark /\ cycles'[c].fresh = {}
    BY <1>1, <1>2, StartedCycle
  <1>5. StampsOK'
    BY <1>1, <1>3 DEF WatermarkInv, StampsOK
  <1>6. KnownOK'
    BY <1>3, <1>4 DEF WatermarkInv, KnownOK
  <1>7. \A d \in Cycles : RunningOK(d)'
    <2>1. c \in Running'
      BY <1>4 DEF Running
    <2>2. \A d \in Running' : d = c
      BY <2>1 DEF Quiet, AtMostOne
    <2>3. RunningOK(c)'
      <3>1. watermark < clock' /\ clock' <= clock' /\ \A j \in Jobs :
               jobs[j].extractedAt < clock' /\ jobs[j].ingestedAt < clock'
        BY <1>1, <1>3 DEF WatermarkInv, StampsOK
      <3> QED
        BY <1>3, <1>4, <3>1 DEF RunningOK
    <2> QED
      BY <2>2, <2>3 DEF RunningOK
  <1>8. NothingSkipped'
    BY <1>1, <1>3, CommittedStay DEF WatermarkInv, NothingSkipped
  <1>9. ExtractionIsAsked'
    <2>1. cycles[c].pc = "idle"
      BY <1>2 DEF CycleStart
    <2>2. \A d \in Cycles : cycles[d].pc = "flush" => cycles'[d].pc = "flush" /\ FreshJobs(d)' = FreshJobs(d)
      BY <1>3, <2>1 DEF FreshJobs
    <2>3. \A t \in Keys : extracts[t].state # "none" => extracts'[t].state # "none"
      BY <1>3
    <2> QED
      BY <1>3, <2>2, <2>3, StillAsked DEF WatermarkInv, ExtractionIsAsked
  <1> QED
    BY <1>5, <1>6, <1>7, <1>8, <1>9 DEF WatermarkInv

LEMMA WatermarkRead ==
    ASSUME IInv, Quiet, WatermarkInv, [Next]_vars, IInv', Quiet', NEW c \in Cycles, CycleRead(c)
    PROVE  WatermarkInv'
  <1>1. /\ TypeOK /\ cycles \in [Cycles -> Cycle] /\ cycles[c] \in Cycle
    BY DEF IInv, Typed, TypeOK
  <1>2. /\ UNCHANGED <<clock, watermark, extracts, jobs, ingests, extractors>>
        /\ cycles[c].pc = "started" /\ c \in Running
        /\ \A d \in Cycles : d # c => cycles'[d] = cycles[d]
    BY <1>1 DEF CycleRead, Running
  <1>3. /\ cycles'[c].pc = "read" /\ cycles'[c].ts = cycles[c].ts /\ cycles'[c].users = cycles[c].users
        /\ cycles'[c].since = cycles[c].since
        /\ cycles'[c].fresh = {p \in Candidates(c) : jobs[p[2]].extractedAt = 0}
        /\ cycles'[c].ready = {p \in Candidates(c) : jobs[p[2]].extractedAt # 0}
    BY <1>1 DEF CycleRead, Cycle
  <1>4. StampsOK'
    BY <1>2 DEF WatermarkInv, StampsOK
  <1>5. KnownOK'
    <2>1. \A p \in Candidates(c) : jobs[p[2]].ingestedAt # 0
      BY DEF Candidates
    <2> QED
      BY <1>2, <1>3, <2>1 DEF WatermarkInv, KnownOK
  <1>6. \A d \in Cycles : RunningOK(d)'
    <2>1. \A d \in Cycles : d # c => RunningOK(d)'
      BY <1>2 DEF WatermarkInv, RunningOK, Running, Recent
    <2>2. RunningOK(c)'
      <3>1. cycles[c].users = Users /\ cycles[c].since = watermark
        BY <1>2 DEF WatermarkInv, RunningOK
      <3>2. \A p \in Passes : jobs[p[2]].ingestedAt # 0 /\ Recent(p[2], watermark) => p \in Candidates(c)
        <4>1. \A p \in Passes : p[1] \in Users
          BY MatchConstants
        <4> QED
          BY <3>1, <4>1 DEF Candidates
      <3>3. \A p \in Passes : Recent(p[2], watermark)' <=> Recent(p[2], watermark)
        BY <1>2 DEF Recent
      <3> QED
        BY <1>2, <1>3, <3>1, <3>2, <3>3 DEF WatermarkInv, RunningOK
    <2> QED
      BY <2>1, <2>2
  <1>7. NothingSkipped'
    BY <1>1, <1>2, CommittedStay DEF WatermarkInv, NothingSkipped
  <1>8. ExtractionIsAsked'
    <2>1. \A d \in Cycles : cycles[d].pc = "flush" => cycles'[d].pc = "flush" /\ FreshJobs(d)' = FreshJobs(d)
      BY <1>2 DEF FreshJobs
    <2>2. \A t \in Keys : extracts[t].state # "none" => extracts'[t].state # "none"
      BY <1>2
    <2> QED
      BY <1>2, <2>1, <2>2, StillAsked DEF WatermarkInv, ExtractionIsAsked
  <1> QED
    BY <1>4, <1>5, <1>6, <1>7, <1>8 DEF WatermarkInv

LEMMA WatermarkCommit ==
    ASSUME IInv, Quiet, WatermarkInv, [Next]_vars, IInv', Quiet', NEW c \in Cycles, CycleCommit(c)
    PROVE  WatermarkInv'
  <1>1. /\ TypeOK /\ cycles \in [Cycles -> Cycle] /\ cycles[c] \in Cycle
        /\ clock \in Nat /\ watermark \in Nat /\ cycles[c].ts \in Nat
        /\ \A j \in Jobs : jobs[j].extractedAt \in Nat /\ jobs[j].ingestedAt \in Nat
    BY TimesAreNat DEF IInv, Typed, TypeOK
  <1>2. /\ UNCHANGED <<clock, extracts, jobs, ingests, extractors>>
        /\ cycles[c].pc = "read" /\ c \in Running /\ watermark' = Later(watermark, cycles[c].ts)
        /\ \A d \in Cycles : d # c => cycles'[d] = cycles[d]
    <2>1. \E rows : cycles' = [cycles EXCEPT ![c] = [cycles[c] EXCEPT !.pc = "flush", !.buffer = rows]]
      BY <1>1 DEF CycleCommit
    <2> QED
      BY <1>1, <2>1 DEF CycleCommit, Running
  <1>3. /\ cycles'[c].pc = "flush" /\ cycles'[c].fresh = cycles[c].fresh
        /\ cycles'[c].ready = cycles[c].ready
    <2>1. \E rows : cycles' = [cycles EXCEPT ![c] = [cycles[c] EXCEPT !.pc = "flush", !.buffer = rows]]
      BY <1>1 DEF CycleCommit
    <2> QED
      BY <1>1, <2>1 DEF Cycle
  <1>4. /\ watermark < cycles[c].ts /\ cycles[c].ts <= clock
        /\ \A j \in Jobs : jobs[j].extractedAt < cycles[c].ts /\ jobs[j].ingestedAt < cycles[c].ts
        /\ \A p \in Passes : jobs[p[2]].ingestedAt # 0 /\ Recent(p[2], watermark) =>
               p \in (IF jobs[p[2]].extractedAt # 0 THEN cycles[c].ready ELSE cycles[c].fresh)
    BY <1>2 DEF WatermarkInv, RunningOK
  <1>5. watermark' = cycles[c].ts
    BY <1>1, <1>2, <1>4 DEF Later
  <1>6. ~Stamped /\ \A d \in Running : d = c
    BY <1>2 DEF Quiet, AtMostOne
  <1>7. StampsOK'
    <2>1. (\A j \in Jobs : ingests[j] = 0) /\ \A w \in Workers : extractors[w].pc # "write"
      BY <1>6 DEF Stamped
    <2>2. \A j \in Jobs : jobs[j].extractedAt # cycles[c].ts /\ jobs[j].ingestedAt # cycles[c].ts
      BY <1>1, <1>4
    <2> QED
      BY <1>2, <1>4, <1>5, <2>1, <2>2 DEF WatermarkInv, StampsOK
  <1>8. KnownOK'
    BY <1>2, <1>3 DEF WatermarkInv, KnownOK
  <1>9. \A d \in Cycles : RunningOK(d)'
    BY <1>2, <1>3, <1>6 DEF RunningOK, Running
  <1>10. \A p \in Passes : p[2] \in Jobs
    BY MatchConstants
  <1>11. NothingSkipped'
    <2> SUFFICES ASSUME NEW p \in Passes, jobs[p[2]].extractedAt # 0
                 PROVE  \E d \in Committed' : p \in cycles'[d].ready
      BY <1>2 DEF NothingSkipped
    <2>1. CASE jobs[p[2]].extractedAt < watermark
      <3>1. PICK d \in Committed : p \in cycles[d].ready
        BY <2>1 DEF WatermarkInv, NothingSkipped
      <3> QED
        BY <1>1, <3>1, CommittedStay
    <2>2. CASE ~(jobs[p[2]].extractedAt < watermark)
      <3>1. jobs[p[2]].extractedAt > watermark
        BY <1>1, <1>10, <2>2 DEF WatermarkInv, StampsOK
      <3>2. Recent(p[2], watermark) /\ jobs[p[2]].ingestedAt # 0
        BY <1>10, <3>1 DEF Recent, WatermarkInv, KnownOK
      <3>3. c \in Committed'
        BY <1>3 DEF Committed
      <3> QED
        BY <1>3, <1>4, <3>2, <3>3
    <2> QED
      BY <2>1, <2>2
  <1>12. ExtractionIsAsked'
    <2> SUFFICES ASSUME NEW p \in Passes, jobs[p[2]].ingestedAt # 0, jobs[p[2]].extractedAt = 0
                 PROVE  \/ \E d \in Cycles : cycles'[d].pc = "flush" /\ p[2] \in FreshJobs(d)'
                        \/ \E t \in Keys : t[2] = p[2] /\ extracts'[t].state # "none"
      BY <1>2 DEF ExtractionIsAsked
    <2>1. CASE jobs[p[2]].ingestedAt < watermark
      <3>1. \A d \in Cycles : cycles[d].pc = "flush" => cycles'[d].pc = "flush" /\ FreshJobs(d)' = FreshJobs(d)
        BY <1>2 DEF FreshJobs
      <3>2. \A t \in Keys : extracts[t].state # "none" => extracts'[t].state # "none"
        BY <1>2
      <3> QED
        BY <2>1, <3>1, <3>2, StillAsked DEF WatermarkInv
    <2>2. CASE ~(jobs[p[2]].ingestedAt < watermark)
      <3>1. jobs[p[2]].ingestedAt > watermark
        BY <1>1, <1>10, <2>2 DEF WatermarkInv, StampsOK
      <3>2. Recent(p[2], watermark)
        BY <3>1 DEF Recent
      <3>3. p \in cycles[c].fresh
        BY <1>4, <3>2
      <3> QED
        BY <1>3, <3>3 DEF FreshJobs
    <2> QED
      BY <2>1, <2>2
  <1> QED
    BY <1>7, <1>8, <1>9, <1>11, <1>12 DEF WatermarkInv

LEMMA WatermarkEnd ==
    ASSUME IInv, Quiet, WatermarkInv, [Next]_vars, IInv', Quiet', NEW c \in Cycles,
           CycleFlush(c) \/ CycleFails(c)
    PROVE  WatermarkInv'
  <1>1. TypeOK /\ cycles \in [Cycles -> Cycle] /\ cycles[c] \in Cycle
    BY DEF IInv, Typed, TypeOK
  <1>2. /\ UNCHANGED <<clock, watermark, jobs, ingests, extractors>>
        /\ cycles'[c].pc \in {"done", "failed"} /\ cycles'[c].fresh = cycles[c].fresh
        /\ \A d \in Cycles : d # c => cycles'[d] = cycles[d]
    BY <1>1 DEF CycleFlush, CycleFails, HandOver, Cycle
  <1>3. /\ \A t \in Keys : extracts'[t] = extracts[t] \/ (t[1] = c /\ t[2] \in FreshJobs(c))
        /\ \A t \in Keys : extracts[t].state # "none" => extracts'[t].state # "none"
    <2>1. CASE CycleFlush(c)
      BY <2>1 DEF CycleFlush, HandOver, IInv, Typed, TypeOK, Task
    <2>2. CASE CycleFails(c)
      BY <2>2 DEF CycleFails
    <2> QED
      BY <2>1, <2>2
  <1>4. StampsOK'
    BY <1>2 DEF WatermarkInv, StampsOK
  <1>5. KnownOK'
    <2>1. \A j \in FreshJobs(c) : jobs[j].ingestedAt # 0
      BY DEF FreshJobs, WatermarkInv, KnownOK
    <2> QED
      BY <1>2, <1>3, <2>1 DEF WatermarkInv, KnownOK
  <1>6. \A d \in Cycles : RunningOK(d)'
    BY <1>2 DEF WatermarkInv, RunningOK, Running, Recent
  <1>7. NothingSkipped'
    BY <1>1, <1>2, CommittedStay DEF WatermarkInv, NothingSkipped
  <1>8. ExtractionIsAsked'
    <2> SUFFICES ASSUME NEW p \in Passes, jobs[p[2]].ingestedAt # 0,
                        jobs[p[2]].ingestedAt < watermark, jobs[p[2]].extractedAt = 0
                 PROVE  \/ \E d \in Cycles : cycles'[d].pc = "flush" /\ p[2] \in FreshJobs(d)'
                        \/ \E t \in Keys : t[2] = p[2] /\ extracts'[t].state # "none"
      BY <1>2 DEF ExtractionIsAsked
    <2>1. \/ \E d \in Cycles : cycles[d].pc = "flush" /\ p[2] \in FreshJobs(d)
          \/ \E t \in Keys : t[2] = p[2] /\ extracts[t].state # "none"
      BY DEF WatermarkInv, ExtractionIsAsked
    <2>2. ASSUME NEW d \in Cycles, d # c, cycles[d].pc = "flush", p[2] \in FreshJobs(d)
          PROVE  cycles'[d].pc = "flush" /\ p[2] \in FreshJobs(d)'
      BY <1>2, <2>2 DEF FreshJobs
    <2>3. ASSUME cycles[c].pc = "flush", p[2] \in FreshJobs(c)
          PROVE  \E t \in Keys : t[2] = p[2] /\ extracts'[t].state # "none"
      <3>1. CycleFlush(c)
        BY <2>3 DEF CycleFails
      <3>2. p[2] \in Jobs
        BY MatchConstants
      <3>3. <<c, p[2]>> \in Keys
        BY <3>2 DEF Keys
      <3>4. extracts'[<<c, p[2]>>].state = "queued"
        BY <2>3, <3>1, <3>3 DEF CycleFlush, HandOver, IInv, Typed, TypeOK, Task
      <3> QED
        BY <3>3, <3>4
    <2> QED
      BY <1>3, <2>1, <2>2, <2>3
  <1> QED
    BY <1>4, <1>5, <1>6, <1>7, <1>8 DEF WatermarkInv

-----------------------------------------------------------------------------
(* The theorems of the watermark.                                          *)

LEMMA WatermarkStep ==
    ASSUME Modes = {"incremental"}, Users # {}, IInv, Quiet, WatermarkInv, QuietNext, IInv', Quiet'
    PROVE  WatermarkInv'
  <1>0. Next
    BY DEF QuietNext, Next
  <1>1. ASSUME NEW j \in Jobs, IngestStamp(j) \/ IngestCommit(j) \/ IngestFails(j)
        PROVE  WatermarkInv'
    BY <1>0, <1>1, WatermarkIngest
  <1>2. ASSUME NEW e \in Edits, (\E u \in Users : EditRead(e, u)) \/ EditCommit(e) \/ EditFails(e)
        PROVE  WatermarkInv'
    <2>1. UNCHANGED <<clock, jobs, ingests, cycles, watermark, extracts, extractors>>
      BY <1>2 DEF EditRead, EditCommit, EditFails
    <2>2. clock \in Nat
      BY TimesAreNat DEF IInv, Typed
    <2> QED
      BY <1>0, <2>1, <2>2, AsideStep
  <1>3. ASSUME NEW w \in Workers,
               \/ \E t \in Keys : ExtractPost(w, t)
               \/ ExtractStamp(w) \/ ExtractCommit(w) \/ ExtractPermanent(w) \/ ExtractFails(w)
        PROVE  WatermarkInv'
    BY <1>0, <1>3, WatermarkExtract
  <1>4. ASSUME NEW c \in Cycles,
               \/ \E mode \in Modes : CycleStart(c, mode)
               \/ CycleRead(c) \/ CycleCommit(c) \/ CycleFails(c) \/ CycleFlush(c)
        PROVE  WatermarkInv'
    BY <1>0, <1>4, WatermarkStart, WatermarkRead, WatermarkCommit, WatermarkEnd
  <1> QED
    BY <1>1, <1>2, <1>3, <1>4 DEF QuietNext, Work, Error

\* What the watermark says holds in every state of a quiet system that only
\* runs incremental cycles.
THEOREM WatermarkInvariance ==
    ASSUME Modes = {"incremental"}, Users # {}
    PROVE  QuietSpec => [](IInv /\ Quiet /\ WatermarkInv)
<1>1. Init => IInv /\ Quiet /\ WatermarkInv
  <2> SUFFICES ASSUME Init PROVE IInv /\ Quiet /\ WatermarkInv
    OBVIOUS
  <2>1. IInv /\ Quiet
    BY QuietInitialState DEF QuietInv
  <2>2. StampsOK /\ KnownOK
    BY DEF Init, StampsOK, KnownOK, IdleExtractor, IdleCycle
  <2>3. \A c \in Cycles : RunningOK(c)
    BY DEF Init, RunningOK, Running, IdleCycle
  <2>4. NothingSkipped /\ ExtractionIsAsked
    BY MatchConstants DEF Init, NothingSkipped, ExtractionIsAsked
  <2> QED
    BY <2>1, <2>2, <2>3, <2>4 DEF WatermarkInv
<1>2. IInv /\ Quiet /\ WatermarkInv /\ [QuietNext]_vars => (IInv /\ Quiet /\ WatermarkInv)'
  <2> SUFFICES ASSUME IInv, Quiet, WatermarkInv, [QuietNext]_vars
               PROVE  IInv' /\ Quiet' /\ WatermarkInv'
    OBVIOUS
  <2>1. IInv'
    BY NextStep DEF QuietNext, Next
  <2>2. CASE QuietNext
    <3>1. Quiet'
      BY <2>2 DEF QuietNext
    <3> QED
      BY <2>1, <2>2, <3>1, WatermarkStep
  <2>3. CASE UNCHANGED vars
    <3>1. UNCHANGED <<clock, jobs, ingests, edits, cycles, watermark, extracts, extractors>>
      BY <2>3 DEF vars
    <3>2. Quiet'
      BY <3>1 DEF Quiet, AtMostOne, Running, Stamped, Editing
    <3>3. clock \in Nat
      BY TimesAreNat DEF IInv, Typed
    <3> QED
      BY <2>1, <2>3, <3>1, <3>2, <3>3, AsideStep
  <2> QED
    BY <2>2, <2>3
<1> QED
  BY <1>1, <1>2, PTL DEF QuietSpec

\* Once the watermark has passed an extraction, every user whose filters the
\* job passes has had it as a candidate for a match.
THEOREM NothingIsSkipped ==
    ASSUME Modes = {"incremental"}
    PROVE  QuietSpec => []NothingSkipped
<1>1. CASE Users = {}
  <2>1. NothingSkipped
    BY <1>1, MatchConstants DEF NothingSkipped
  <2> QED
    BY <2>1, PTL
<1>2. CASE Users # {}
  <2>1. QuietSpec => [](IInv /\ Quiet /\ WatermarkInv)
    BY <1>2, WatermarkInvariance
  <2>2. IInv /\ Quiet /\ WatermarkInv => NothingSkipped
    BY DEF WatermarkInv
  <2> QED
    BY <2>1, <2>2, PTL
<1> QED
  BY <1>1, <1>2

\* A posting that is wanted but has no extraction is not forgotten when the
\* watermark passes it.
THEOREM ExtractionsAreAsked ==
    ASSUME Modes = {"incremental"}
    PROVE  QuietSpec => []ExtractionIsAsked
<1>1. CASE Users = {}
  <2>1. ExtractionIsAsked
    BY <1>1, MatchConstants DEF ExtractionIsAsked
  <2> QED
    BY <2>1, PTL
<1>2. CASE Users # {}
  <2>1. QuietSpec => [](IInv /\ Quiet /\ WatermarkInv)
    BY <1>2, WatermarkInvariance
  <2>2. IInv /\ Quiet /\ WatermarkInv => ExtractionIsAsked
    BY DEF WatermarkInv
  <2> QED
    BY <2>1, <2>2, PTL
<1> QED
  BY <1>1, <1>2
=============================================================================
