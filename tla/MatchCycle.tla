----------------------------- MODULE MatchCycle -----------------------------
(***************************************************************************)
(* The match cycle: postings are ingested, profiles are edited, and        *)
(* match-batch joins the two, on two triggers.  An incremental cycle takes *)
(* the jobs that are newer than the last completed cycle, for every user;  *)
(* a dirty cycle takes the whole corpus for the users whose rematch flag   *)
(* is set and clears the flag.  Jobs without an extraction are sent to     *)
(* extract-job and wait for a later cycle.                                 *)
(*                                                                         *)
(* Each operation is a transaction (READ COMMITTED) that reads, works for  *)
(* seconds (LLM, embedder, reranker) and commits.  Timestamps are taken    *)
(* inside it: ingested_at and extracted_at by the handler, the cycle's     *)
(* event by now(), which is the start of its transaction.                  *)
(*                                                                         *)
(* Left out: the payload overrides of match-batch (since, user_ids, caps,  *)
(* cycle_at) and invalid_mode, expiry of postings, the change of day, and  *)
(* the contents of postings and matches.  The metadata join is a constant  *)
(* relation.                                                               *)
(***************************************************************************)
EXTENDS Integers, Sequences, FiniteSets

CONSTANTS
    Users,      \* users with a profile and filters, ordered like their ids
    Jobs,       \* postings, by url_hash
    Passes,     \* METADATA_PREDICATE: the pairs <<user, job>> of the join
    Edits,      \* requests to edit or re-ingest a profile
    Cycles,     \* requests to POST /handlers/match-batch
    Modes,      \* the triggers in use
    Workers,    \* threads that can run extract-job
    TopN,       \* MATCH_TOP_N
    DailyCap,   \* DAILY_CANDIDATE_CAP
    DirtyCap,   \* DIRTY_PROFILE_CAP
    MaxPosts,   \* _MAX_ATTEMPTS of the queue
    MaxClock    \* how many timestamps are ever taken

ASSUME MatchConstants ==
    /\ Users \subseteq Int /\ IsFiniteSet(Users)
    /\ IsFiniteSet(Jobs)
    /\ Passes \subseteq Users \X Jobs
    /\ Modes \subseteq {"incremental", "dirty"} /\ Modes # {}
    /\ {TopN, DailyCap, DirtyCap, MaxPosts} \subseteq Nat \ {0}
    /\ MaxClock \in Nat

CONSTANTS
    Original,   \* what profile ingest first stored
    NoTask      \* an execution that serves no task

ASSUME NullsAssumption == Original \notin Edits /\ NoTask \notin Cycles \X Jobs

VARIABLES
    clock,      \* the last timestamp taken
    jobs,       \* the jobs table: two timestamps, 0 for NULL (no row at all)
    ingests,    \* the timestamp held by an open ingest-job, 0 for none
    profiles,   \* user_profiles
    edits,      \* where each edit request is, with the row it loaded
    cycles,     \* where each match-batch is, with what it read
    watermark,  \* max ts of the events match-batch/completed, 0 for none
    matches,    \* the matches table
    screens,    \* the matches whose screen-job was handed to the queue
    extracts,   \* the extract-job tasks, by the cycle that enqueued them and job
    extractors  \* the extract-job executions

vars == <<clock, jobs, ingests, profiles, edits, cycles, watermark, matches,
          screens, extracts, extractors>>

-----------------------------------------------------------------------------
(* Vocabulary                                                              *)

Time == 0..MaxClock
Pairs == Users \X Jobs

Job == [ingestedAt : Time, extractedAt : Time]

\* "content" stands for everything an edit can change.
Profile == [version : Nat, content : Edits \cup {Original}, rematch : BOOLEAN]

Edit == [pc : {"idle", "open", "done"}, user : Users \cup {0}, loaded : Profile]

Match == [cycle : Cycles, user : Users, job : Jobs]

CyclePc == {"idle", "started", "read", "flush", "done", "failed", "lost"}
Cycle == [pc : CyclePc, mode : Modes, ts : Time, since : Time,
          users : SUBSET Users,
          fresh : SUBSET Pairs,  \* candidates without an extraction
          ready : SUBSET Pairs,  \* candidates with one
          contents : [Users -> Edits \cup {Original}],
          today : [Users -> Nat],
          buffer : SUBSET Match]

TaskState == {"none", "queued", "posting", "done", "permanent", "dropped"}
Task == [posts : 0..MaxPosts, state : TaskState]
Keys == Cycles \X Jobs
Extractor == [pc : {"idle", "llm", "write"}, task : Keys \cup {NoTask}, at : Time]

IdleEdit == [pc |-> "idle", user |-> 0,
             loaded |-> [version |-> 0, content |-> Original, rematch |-> FALSE]]
IdleCycle ==
    [pc |-> "idle", mode |-> CHOOSE m \in Modes : TRUE, ts |-> 0, since |-> 0,
     users |-> {}, fresh |-> {}, ready |-> {},
     contents |-> [u \in Users |-> Original], today |-> [u \in Users |-> 0],
     buffer |-> {}]
IdleExtractor == [pc |-> "idle", task |-> NoTask, at |-> 0]

\* Every user has just been ingested: version 1, to be matched.
Init ==
    /\ clock = 0
    /\ jobs = [j \in Jobs |-> [ingestedAt |-> 0, extractedAt |-> 0]]
    /\ ingests = [j \in Jobs |-> 0]
    /\ profiles = [u \in Users |-> [version |-> 1, content |-> Original, rematch |-> TRUE]]
    /\ edits = [e \in Edits |-> IdleEdit]
    /\ cycles = [c \in Cycles |-> IdleCycle]
    /\ watermark = 0
    /\ matches = {}
    /\ screens = {}
    /\ extracts = [t \in Keys |-> [posts |-> 0, state |-> "none"]]
    /\ extractors = [w \in Workers |-> IdleExtractor]

\* Reading a clock; no two readings are equal.
Tick ==
    /\ clock < MaxClock
    /\ clock' = clock + 1

Least(S) == CHOOSE n \in S : \A m \in S : n <= m

-----------------------------------------------------------------------------
(* ingest-job: an upsert on url_hash.                                      *)

IngestStamp(j) ==
    /\ ingests[j] = 0
    /\ Tick
    /\ ingests' = [ingests EXCEPT ![j] = clock']
    /\ UNCHANGED <<jobs, profiles, edits, cycles, watermark, matches, screens,
                   extracts, extractors>>

\* The conflict update of a known posting leaves ingested_at alone.
IngestCommit(j) ==
    /\ ingests[j] # 0
    /\ jobs' = [jobs EXCEPT ![j].ingestedAt = IF @ = 0 THEN ingests[j] ELSE @]
    /\ ingests' = [ingests EXCEPT ![j] = 0]
    /\ UNCHANGED <<clock, profiles, edits, cycles, watermark, matches, screens,
                   extracts, extractors>>

IngestFails(j) ==
    /\ ingests[j] # 0
    /\ ingests' = [ingests EXCEPT ![j] = 0]
    /\ UNCHANGED <<clock, jobs, profiles, edits, cycles, watermark, matches,
                   screens, extracts, extractors>>

-----------------------------------------------------------------------------
(* edit_profile, and ingest_profile for a user who has a profile.          *)

EditRead(e, u) ==
    /\ edits[e].pc = "idle"
    /\ edits' = [edits EXCEPT ![e] =
           [pc |-> "open", user |-> u, loaded |-> profiles[u]]]
    /\ UNCHANGED <<clock, jobs, ingests, profiles, cycles, watermark, matches,
                   screens, extracts, extractors>>

\* Mutant: the edit forgets the flag.
EditWithoutFlag(e) ==
    LET u == edits[e].user IN
    /\ edits[e].pc = "open"
    /\ profiles' = [profiles EXCEPT ![u].version = edits[e].loaded.version + 1,
                                    ![u].content = e]
    /\ edits' = [edits EXCEPT ![e].pc = "done"]
    /\ UNCHANGED <<clock, jobs, ingests, cycles, watermark, matches, screens,
                   extracts, extractors>>

\* profile_version is written as a number, one more than was loaded.  The ORM
\* sends the columns that differ from what was loaded: the flag is written only
\* if it was down when the row was read.
EditCommit(e) ==
    LET u == edits[e].user
        old == edits[e].loaded
    IN
    /\ edits[e].pc = "open"
    /\ profiles' = [profiles EXCEPT ![u] =
           [version |-> old.version + 1, content |-> e,
            rematch |-> IF old.rematch THEN @.rematch ELSE TRUE]]
    /\ edits' = [edits EXCEPT ![e].pc = "done"]
    /\ UNCHANGED <<clock, jobs, ingests, cycles, watermark, matches, screens,
                   extracts, extractors>>

EditFails(e) ==
    /\ edits[e].pc = "open"
    /\ edits' = [edits EXCEPT ![e].pc = "done"]
    /\ UNCHANGED <<clock, jobs, ingests, profiles, cycles, watermark, matches,
                   screens, extracts, extractors>>

-----------------------------------------------------------------------------
(* match-batch: the start of the transaction.                              *)

\* _select_user_ids: the dirty users in the order of their ids, up to the cap.
Dirty == {u \in Users : profiles[u].rematch}
SelectUserIds(mode) ==
    IF mode = "incremental" THEN Users
    ELSE {u \in Dirty : Cardinality({v \in Dirty : v < u}) < DirtyCap}

Later(a, b) == IF a >= b THEN a ELSE b

\* A cycle without users completes at once, and moves the watermark too.
CycleStart(c, mode) ==
    LET chosen == SelectUserIds(mode) IN
    /\ cycles[c].pc = "idle"
    /\ Tick
    /\ cycles' = [cycles EXCEPT ![c] =
           [IdleCycle EXCEPT
               !.pc = IF chosen = {} THEN "done" ELSE "started",
               !.mode = mode, !.ts = clock', !.users = chosen,
               !.since = IF mode = "incremental" THEN watermark ELSE 0]]
    /\ watermark' = IF chosen = {} THEN Later(watermark, clock') ELSE watermark
    /\ UNCHANGED <<jobs, ingests, profiles, edits, matches, screens, extracts,
                   extractors>>

-----------------------------------------------------------------------------
(* match-batch: candidate_query and the counts that follow it.             *)

\* Mutant: only new postings are recent, new extractions are not.
RecentByIngest(j, since) == since = 0 \/ jobs[j].ingestedAt > since

\* JOB_SINCE_PREDICATE; since = 0 is NULL.
Recent(j, since) ==
    \/ since = 0
    \/ jobs[j].ingestedAt > since
    \/ jobs[j].extractedAt > since

Candidates(c) ==
    {p \in Passes :
        /\ p[1] \in cycles[c].users
        /\ jobs[p[2]].ingestedAt # 0
        /\ Recent(p[2], cycles[c].since)}

\* _matches_since_day_start, with cycle_at in the day of the model.
MatchesToday(u) == Cardinality({m \in matches : m.user = u})

\* Mutant: jobs without an extraction are ranked too.
ReadAllAsReady(c) ==
    /\ cycles[c].pc = "started"
    /\ cycles' = [cycles EXCEPT ![c] =
           [cycles[c] EXCEPT !.pc = "read", !.ready = Candidates(c)]]
    /\ UNCHANGED <<clock, jobs, ingests, profiles, edits, watermark, matches,
                   screens, extracts, extractors>>

CycleRead(c) ==
    /\ cycles[c].pc = "started"
    /\ cycles' = [cycles EXCEPT ![c] =
           [cycles[c] EXCEPT
               !.pc = "read",
               !.fresh = {p \in Candidates(c) : jobs[p[2]].extractedAt = 0},
               !.ready = {p \in Candidates(c) : jobs[p[2]].extractedAt # 0},
               !.contents = [u \in Users |-> profiles[u].content],
               !.today = [u \in Users |-> MatchesToday(u)]]]
    /\ UNCHANGED <<clock, jobs, ingests, profiles, edits, watermark, matches,
                   screens, extracts, extractors>>

-----------------------------------------------------------------------------
(* match-batch: the reranker has answered, the transaction commits.        *)

OfUser(pairs, u) == {p \in pairs : p[1] = u}

Remaining(c, u) == Later(0, DailyCap - cycles[c].today[u])

\* Mutant: TopN alone limits a user's matches.
SurvivorsUncapped(c, picked) ==
    \A u \in Users :
        Cardinality(OfUser(picked, u)) =
            Least({TopN, Cardinality(OfUser(cycles[c].ready, u))})

\* The top of the ranking, in any order the reranker may return.
Survivors(c, picked) ==
    \A u \in Users :
        Cardinality(OfUser(picked, u)) =
            Least({TopN, Remaining(c, u), Cardinality(OfUser(cycles[c].ready, u))})

\* Mutant: every flag is cleared, those of users beyond the cap too.
ClearEveryFlag(c) == [u \in Users |-> [profiles[u] EXCEPT !.rematch = FALSE]]

ClearFlags(c) ==
    [u \in Users |-> IF u \in cycles[c].users
                       THEN [profiles[u] EXCEPT !.rematch = FALSE] ELSE profiles[u]]

\* The matches, the flags and the completed event.  "above" are the survivors
\* that reach SCREEN_SCORE_FLOOR.
CycleCommit(c) ==
    LET row(p) == [cycle |-> c, user |-> p[1], job |-> p[2]] IN
    /\ cycles[c].pc = "read"
    /\ \E picked \in SUBSET cycles[c].ready :
          /\ Survivors(c, picked)
          /\ matches' = matches \cup {row(p) : p \in picked}
          /\ \E above \in SUBSET picked :
                cycles' = [cycles EXCEPT ![c].pc = "flush",
                                         ![c].buffer = {row(p) : p \in above}]
    /\ profiles' = IF cycles[c].mode = "dirty" THEN ClearFlags(c) ELSE profiles
    /\ watermark' = Later(watermark, cycles[c].ts)
    /\ UNCHANGED <<clock, jobs, ingests, edits, screens, extracts, extractors>>

\* An exception before the commit: rolled back, only an event is written.
CycleFails(c) ==
    /\ cycles[c].pc \in {"started", "read"}
    /\ cycles' = [cycles EXCEPT ![c].pc = "failed"]
    /\ UNCHANGED <<clock, jobs, ingests, profiles, edits, watermark, matches,
                   screens, extracts, extractors>>

-----------------------------------------------------------------------------
(* match-batch: the flush.                                                 *)

\* _enqueue_extracts: once per job, whatever number of users wait for it.
FreshJobs(c) == {p[2] : p \in cycles[c].fresh}

HandOver(c, fresh, above) ==
    /\ extracts' = [t \in Keys |->
           IF t[1] = c /\ t[2] \in fresh THEN [extracts[t] EXCEPT !.state = "queued"]
           ELSE extracts[t]]
    /\ screens' = screens \cup above
    /\ UNCHANGED <<clock, jobs, ingests, profiles, edits, watermark, matches,
                   extractors>>

\* Mutant: the extractions are not flushed.
FlushScreensOnly(c) ==
    /\ cycles[c].pc = "flush"
    /\ HandOver(c, {}, cycles[c].buffer)
    /\ cycles' = [cycles EXCEPT ![c].pc = "done", ![c].buffer = {}]

CycleFlush(c) ==
    /\ cycles[c].pc = "flush"
    /\ HandOver(c, FreshJobs(c), cycles[c].buffer)
    /\ cycles' = [cycles EXCEPT ![c].pc = "done", ![c].buffer = {}]

\* The queue refuses a task in the middle, or the server dies: the rest of the
\* buffer is gone.  The extractions come first.
CycleFlushFails(c) ==
    /\ cycles[c].pc = "flush"
    /\ \/ \E fresh \in SUBSET FreshJobs(c) : HandOver(c, fresh, {})
       \/ \E above \in SUBSET cycles[c].buffer : HandOver(c, FreshJobs(c), above)
    /\ cycles' = [cycles EXCEPT ![c].pc = "lost", ![c].buffer = {}]

-----------------------------------------------------------------------------
(* extract-job.                                                            *)

Result(t, state) == extracts' = [extracts EXCEPT ![t].state = state]

\* After a 5xx the task is posted again, MaxPosts times in all.
Retry(t) ==
    Result(t, IF extracts[t].posts < MaxPosts THEN "queued" ELSE "dropped")

\* A job that has its extraction is answered skipped_cached before any LLM call.
ExtractPost(w, t) ==
    /\ extractors[w].pc = "idle"
    /\ extracts[t].state = "queued"
    /\ IF jobs[t[2]].extractedAt # 0
         THEN /\ Result(t, "done")
              /\ UNCHANGED extractors
         ELSE /\ extracts' = [extracts EXCEPT ![t] =
                     [posts |-> @.posts + 1, state |-> "posting"]]
              /\ extractors' = [extractors EXCEPT ![w] =
                     [pc |-> "llm", task |-> t, at |-> 0]]
    /\ UNCHANGED <<clock, jobs, ingests, profiles, edits, cycles, watermark,
                   matches, screens>>

\* The LLM and the embedder have answered: extracted_at is taken.
ExtractStamp(w) ==
    /\ extractors[w].pc = "llm"
    /\ Tick
    /\ extractors' = [extractors EXCEPT ![w].pc = "write", ![w].at = clock']
    /\ UNCHANGED <<jobs, ingests, profiles, edits, cycles, watermark, matches,
                   screens, extracts>>

\* Mutant: the write-back is unconditional.
ExtractOverwrites(w) ==
    LET t == extractors[w].task IN
    /\ extractors[w].pc = "write"
    /\ jobs' = [jobs EXCEPT ![t[2]].extractedAt = extractors[w].at]
    /\ Result(t, "done")
    /\ extractors' = [extractors EXCEPT ![w] = IdleExtractor]
    /\ UNCHANGED <<clock, ingests, profiles, edits, cycles, watermark, matches,
                   screens>>

\* UPDATE ... WHERE extracted_at IS NULL, and the commit.
ExtractCommit(w) ==
    LET t == extractors[w].task IN
    /\ extractors[w].pc = "write"
    /\ jobs' = [jobs EXCEPT ![t[2]].extractedAt =
                   IF @ = 0 THEN extractors[w].at ELSE @]
    /\ Result(t, "done")
    /\ extractors' = [extractors EXCEPT ![w] = IdleExtractor]
    /\ UNCHANGED <<clock, ingests, profiles, edits, cycles, watermark, matches,
                   screens>>

\* unparseable and llm_permanent_failure: a 2xx, the row stays as it was.
ExtractPermanent(w) ==
    /\ extractors[w].pc = "llm"
    /\ Result(extractors[w].task, "permanent")
    /\ extractors' = [extractors EXCEPT ![w] = IdleExtractor]
    /\ UNCHANGED <<clock, jobs, ingests, profiles, edits, cycles, watermark,
                   matches, screens>>

\* skills_taxonomy_missing, a retryable LLM or embedder error, or a failing
\* commit.
ExtractFails(w) ==
    /\ extractors[w].pc \in {"llm", "write"}
    /\ Retry(extractors[w].task)
    /\ extractors' = [extractors EXCEPT ![w] = IdleExtractor]
    /\ UNCHANGED <<clock, jobs, ingests, profiles, edits, cycles, watermark,
                   matches, screens>>

-----------------------------------------------------------------------------
(* Specifications, by what may overlap.                                    *)

Work ==
    \/ \E j \in Jobs : IngestStamp(j) \/ IngestCommit(j)
    \/ \E e \in Edits : EditCommit(e) \/ \E u \in Users : EditRead(e, u)
    \/ \E c \in Cycles : \E mode \in Modes : CycleStart(c, mode)
    \/ \E c \in Cycles : CycleRead(c) \/ CycleCommit(c) \/ CycleFlush(c)
    \/ \E w \in Workers : \E t \in Keys : ExtractPost(w, t)
    \/ \E w \in Workers : ExtractStamp(w) \/ ExtractCommit(w) \/ ExtractPermanent(w)

Error ==
    \/ \E j \in Jobs : IngestFails(j)
    \/ \E e \in Edits : EditFails(e)
    \/ \E c \in Cycles : CycleFails(c)
    \/ \E w \in Workers : ExtractFails(w)

Crash == \E c \in Cycles : CycleFlushFails(c)

Next == Work \/ Error \/ Crash

Running == {c \in Cycles : cycles[c].pc \in {"started", "read"}}

AtMostOne(S) == \A x, y \in S : x = y

\* What must not overlap for the watermark and the flag to be right: two cycles;
\* a cycle and a timestamp that is taken but not committed; two edits of a
\* user; an edit and a dirty cycle of its user.
Stamped ==
    \/ \E j \in Jobs : ingests[j] # 0
    \/ \E w \in Workers : extractors[w].pc = "write"
Editing(u) == {e \in Edits : edits[e].pc = "open" /\ edits[e].user = u}
Quiet ==
    /\ AtMostOne(Running)
    /\ Running # {} => ~Stamped
    /\ \A u \in Users :
          /\ AtMostOne(Editing(u))
          /\ \A c \in Running :
                cycles[c].mode = "dirty" /\ u \in cycles[c].users => Editing(u) = {}

\* One match-batch at a time, everything else overlaps.
SingleCycleNext == Next /\ AtMostOne(Running')

\* Quiet all along, and no crash; an extraction's LLM call overlaps anything.
QuietNext == (Work \/ Error) /\ Quiet'

Spec == Init /\ [][Next]_vars
SingleCycleSpec == Init /\ [][SingleCycleNext]_vars
QuietSpec == Init /\ [][QuietNext]_vars

\* Quiet all along, with crashes between a commit and its flush.
QuietCrashSpec == Init /\ [][Next /\ Quiet']_vars

-----------------------------------------------------------------------------
(* Properties                                                              *)

\* Every variable has the type of the table, task or request it models.
TypeOK ==
    /\ clock \in Time
    /\ jobs \in [Jobs -> Job]
    /\ ingests \in [Jobs -> Time]
    /\ profiles \in [Users -> Profile]
    /\ edits \in [Edits -> Edit]
    /\ cycles \in [Cycles -> Cycle]
    /\ watermark \in Time
    /\ matches \subseteq Match
    /\ screens \subseteq Match
    /\ extracts \in [Keys -> Task]
    /\ extractors \in [Workers -> Extractor]

\* extract_job and ingest_posting: an extraction is cached permanently and a
\* posting keeps its first ingested_at, whatever executions race or are
\* delivered again; else incremental cycles would take old jobs for new ones.
StampsAreFinal ==
    [][\A j \in Jobs :
          /\ jobs[j].extractedAt # 0 => jobs'[j].extractedAt = jobs[j].extractedAt
          /\ jobs[j].ingestedAt # 0 => jobs'[j].ingestedAt = jobs[j].ingestedAt]_vars

\* match_batch: no user gets more matches in a day than the daily candidate cap.
WithinDailyCap == \A u \in Users : MatchesToday(u) <= DailyCap

\* match_batch flushes after its commit: a screen-job names a committed match,
\* of a job that has its extraction.
ScreensNameMatches ==
    /\ screens \subseteq matches
    /\ \A m \in matches : jobs[m.job].extractedAt # 0

Committed == {c \in Cycles : cycles[c].pc \in {"flush", "done", "lost"}}

\* The dirty flag: once it is down, a dirty cycle has matched the profile as it
\* stands now.
FlagDownMeansMatched ==
    \A u \in Users :
        ~profiles[u].rematch =>
            \E c \in Committed :
                /\ cycles[c].mode = "dirty"
                /\ u \in cycles[c].users
                /\ cycles[c].contents[u] = profiles[u].content

\* edit_profile "always bumps profile_version and rematch_needed".
EditAlwaysMarks ==
    [][\A u \in Users :
          profiles'[u].content # profiles[u].content =>
              /\ profiles'[u].version > profiles[u].version
              /\ profiles'[u].rematch]_vars

\* JOB_SINCE_PREDICATE: "a job extracted after cycle N is recalled in cycle
\* N+1".  Once the watermark has passed an extraction, every user whose filters
\* the job passes has had it as a candidate for a match.
NothingSkipped ==
    \A p \in Passes :
        LET at == jobs[p[2]].extractedAt IN
        at # 0 /\ at < watermark => \E c \in Committed : p \in cycles[c].ready

\* _enqueue_extracts: a posting that is wanted but has no extraction is not
\* forgotten when the watermark passes it: a task for it was handed over.
ExtractionIsAsked ==
    \A p \in Passes :
        LET job == jobs[p[2]] IN
        /\ job.ingestedAt # 0 /\ job.ingestedAt < watermark
        /\ job.extractedAt = 0
        => \/ \E c \in Cycles : cycles[c].pc = "flush" /\ p[2] \in FreshJobs(c)
           \/ \E t \in Keys : t[2] = p[2] /\ extracts[t].state # "none"

\* ingest_posting: a known posting that is delivered again "must not look like
\* a new posting" to incremental cycles, which would match and screen it again.
OneMatchPerJob ==
    \A m, n \in matches : m.user = n.user /\ m.job = n.job => m = n

\* extract_job on a missing skill graph: "match-batch re-enqueues on later
\* cycles".  A cycle for a user whose filters an unextracted job passes takes
\* the job as a candidate when no task for it is left.
Abandoned(j) ==
    /\ jobs[j].ingestedAt # 0 /\ jobs[j].extractedAt = 0
    /\ \A t \in Keys : t[2] = j => extracts[t].state \in {"none", "dropped"}
    /\ \A c \in Cycles : cycles[c].pc # "flush"

AbandonedIsRetried ==
    [][\A c \in Cycles :
          cycles[c].pc = "started" /\ cycles'[c].pc = "read" =>
              \A p \in Passes :
                  p[1] \in cycles[c].users /\ Abandoned(p[2]) => p \in cycles'[c].fresh]_vars
=============================================================================
