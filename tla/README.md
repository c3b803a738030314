# TLA+ for the job match pipeline

This directory holds a formal model of the pipeline's server: the task handlers,
the queue between them, the tables they share, the admin jobs that start them,
and the skill graph that jobs, profiles and resumes are compared by. TLC checks
the models on small instances. TLAPS proves for all instances every safety
property, every action property and both refinements that the runs check; what is
left to TLC alone is liveness.

    tlc -workers 4 -config ResumeFull.cfg MCResumeLoop     # one run
    tlapm ResumeLoopProofs.tla                             # the proofs

`PROJECT.json` lists the runs, the source lines behind every definition, the
hazards the properties are for, and a mutant for every property: a plausible bug
that makes the property fail.

1. [The system](#1-the-system)
2. [The modules](#2-the-modules)
3. [The runs](#3-the-runs)
4. [Where code and documentation disagree](#4-where-code-and-documentation-disagree)
5. [Fairness](#5-fairness)
6. [The proofs](#6-the-proofs)
7. [Plan](#7-plan)
8. [Not modelled](#8-not-modelled)

## 1. The system

A FastAPI process serves the API and the handlers. All state is in PostgreSQL
(`app/db/models.py`), except the local queue's tasks and the registry of admin
jobs, which are in the process's memory. A handler is a POST that a queue sends.
It opens a session (autocommit off, READ COMMITTED), reads its rows, talks to an
LLM, an embedder or a job board for seconds, writes, commits, and only then hands
its follow-on tasks to the queue (`BufferedTaskQueue`, `commit` then `flush`).

    fetch-link-list -> ingest-job -> (jobs) -> match-batch -> extract-job -> (jobs)
                                     profile edit -> (dirty flag) -> match-batch
    match-batch -> screen-job -> (label) -> analyze-batch -> analyze-match
    click "generate" -> generate-resume -> verify-resume -> generate-resume (once)
    ESCO, O*NET -> build_skill_graph.py -> (concepts, aliases) -> linker
    linker -> extract-job, profile ingest, verify-resume;   (ids) -> match buckets -> feed

| Component | State | Operations | What is hard | What makes it correct |
|---|---|---|---|---|
| task queue `queue.py` | tasks in daemon threads, the semaphore, the handler's buffer | enqueue, post with retries, flush | delivery at least once, a timeout over a running handler, tasks die with the process | a task is posted `_MAX_ATTEMPTS` times and no more, permits are not lost; a follow-on task names committed rows |
| handlers `handlers.py` | the open transaction | nine POST routes; commit, flush, 2xx or 5xx | the commit and the flush are two steps | a 5xx only after a rollback; a permanent failure is not retried |
| generate `generate/service.py` | `generations` | one attempt | the count is read before the LLM call, the row written after it | one draft per attempt |
| verify `verify/service.py`, `graph.py` | `generations.status`, `verify_failures` | three stages, decide, fail safe | two verifications of one draft | a final verdict, with evidence, at most one rewrite |
| verify deterministic checks `verify/deterministic.py` | none | employers, titles, dates, numbers, skills of a resume against the profile | each comes in several shapes: lists, claims, text | a planted fact is caught; a resume that only repeats its source is refused for nothing but the name of a skill that leads to another |
| quota and click `quota.py`, `api/service.py` | `users.quota_remaining` | trigger_generate | the task leaves before the commit | every click answered "enqueued" costs one unit and has one task |
| feed API `api/service.py`, `router.py` | `pipeline_events` of stage `ui` | list the matches, record an event, search and neighbourhood of the explorer | a rematch adds a row, its older rows keep events and drafts; ids get new names | one card per job, the newest; marks follow the job |
| match `match/*` | `matches`, the dirty flag, the watermark event | incremental and dirty cycles | a transaction that lasts seconds and is stamped at its start | no job is skipped, no edit is unmatched, the daily cap |
| match skill buckets `match/skills.py` | `matches.*_skills` | matched, adjacent, missing | stored for good, while ids are rewritten | a rewrite moves no skill to another bucket |
| ingest `ingest/store.py`, ... | `jobs` | upsert a posting | a known posting again, with an older or a newer text | first timestamps stay, texts do not fall back |
| fetch-link-list `ingest/fetch.py` | `companies` | list a board, one task per new posting | no constraint on companies; the flush after the commit | one company per board, no listed posting vanishes |
| ATS adapters `ats/*` | none | HTTP, normalisation | the board changes between listing and fetching | their outcomes only |
| extract `extract/service.py` | `jobs.extracted_at` and what goes with it | one LLM phase per job | two deliveries | an extraction is never redone or lost |
| extract clients `extract/llm.py`, `embed.py`, ... | none | provider I/O | | not modelled |
| profile `profile/service.py` | `user_profiles` | ingest, edit | edits race with cycles | every edit bumps the version and sets the flag |
| profile parsing `profile/parse.py`, ... | none | text to structure | | not modelled |
| screen `screen/service.py` | `matches.qualification_label` | label one match | two deliveries | the first label stays |
| screen gate `screen/gate.py` | none | skill overlap, recorded on an event | | not modelled |
| analyze `analyze/*` | `match_analyses`, usage events | the budgeted batch, one report | the budget is read before the tasks run | one report per match, the budget |
| llm `llm/*` | none | structured calls, error classes, usage | a malformed completion is asked again | an error that may pass is retried, a poison request is not |
| admin jobs `api/admin_jobs.py` | the registry | start, run, progress | threads, timeouts, restarts | no two match batches, the button comes back |
| schema `db/models.py` | the tables | constraints | | what the handlers rely on |
| skill graph and linker `skills/*` | `concept`, `concept_alias`, `concept_edge`, `source_*` | link a span, scan a text, explore | two linkers over two indexes; labels several concepts claim | both linkers agree, an answer is exact or says it is cut |
| skill importers `skills/importers/*` | the same tables, the file cache | import ESCO and O*NET, reconcile, in one transaction | four stages that each see what the ones before wrote; re-runs with other inputs | mappings are final, no concept is founded twice, no name gets contested |
| skill embeddings `skills/embeddings.py` | none | HTTP batches | retries | not modelled |
| privacy, configuration, entry points | none | | | not modelled |
| seed and scripts `scripts/*`, `skills/taxonomy.py` | ids in `jobs`, `user_profiles`, `matches` | backfill of old skill ids | runs beside the handlers, resolves by what it read first | no id loses its meaning, no old id stays |
| evals, poc | files | one-shot programs | | not modelled |
| frontend `frontend/` | browser state | requests to the API | | appears as clicks, edits and starts |

Every operation that races with another does so through a table row, and the code
defends each in one of four ways: a conditional `UPDATE` (quota, extraction,
label), a unique constraint (reports, postings), a check at the start of the
handler (drafts, verdicts, companies, views), or nothing (the watermark, the dirty
flag, the caps, the budget, the text of a posting, the backfill). The first two hold under every interleaving; the runs find
where the last two do not.

## 2. The modules

| Module | Models | From |
|---|---|---|
| `ResumeLoop` | click, generate-resume, verify-resume, queue | `api/service.py`, `quota.py`, `queue.py`, `handlers.py`, `generate/`, `verify/` |
| `ResumeContract` | what the loop promises per match | `generate/service.py`, `verify/graph.py` |
| `ResumeRefinement` | the refinement mapping from the first to the second | |
| `MatchCycle` | ingest-job, profile edits, match-batch, extract-job | `match/`, `ingest/`, `extract/`, `profile/service.py` |
| `Analysis` | screen-job, analyze-batch, analyze-match | `screen/`, `analyze/`, `llm/structured.py` |
| `TaskQueue` | what a queue promises its senders | `queue.py` |
| `LocalQueue` | the threads and the semaphore of the local queue; refines `TaskQueue` | `queue.py` |
| `Intake` | fetch-link-list, ingest-job and extract-job, on an instance of `TaskQueue` | `ingest/`, `ats/`, `extract/`, `handlers.py` |
| `AdminJobs` | the registry and its threads | `api/admin_jobs.py` |
| `SkillLabels` | labels, keys, derived names, the alias rows of a bundle | `skills/normalize.py`, `skills/enrich.py`, `importers/` |
| `SkillGraph` | a build of the graph, stage by stage | `build_skill_graph.py`, `importers/` |
| `SkillLinker` | both linkers and the scan of a text, over a graph | `pg_linker.py`, `linker.py`, `factory.py`, `repository.py` |
| `SkillExplorer` | search and neighbourhood, against a reference | `skills/graph.py` |
| `Fabrication` | the deterministic checks, honest and tampered resumes | `verify/deterministic.py`, `generate/schema.py` |
| `SkillIds` | the ids in jobs, profiles and matches; the backfill | `extract/`, `profile/`, `match/skills.py`, `backfill_skill_ids.py` |
| `Feed` | cards, events, drafts | `api/service.py` |
| `MC...` | instances, bounds, symmetry, and history variables of the runs | |
| `ResumeLoopProofs` | theorems about `ResumeLoop`, `MCResumeLoop` and the refinement of `ResumeContract` | |
| `MatchCycleProofs`, `LocalQueueProofs` | theorems about `MatchCycle`, `LocalQueue` | |
| `SkillGraphProofs` | theorems about `SkillGraph` and `SkillExplorer` | |
| `SkillIdsProofs` | theorems about `SkillLinker`, `Fabrication`, `SkillIds` and `Feed`, and about searching | |
| `AnalysisProofs`, `AdminJobsProofs`, `IntakeProofs` | theorems about `Analysis`, `AdminJobs`, `Intake` and the history variables of their `MC` modules | |

`Intake` and `LocalQueue` meet in a module of their own, `TaskQueue`: the one
is built on it, the other implements it. The skill modules are a chain, in which
each EXTENDS the one before:

    SkillLabels <- SkillGraph <- SkillLinker <- Fabrication <- SkillIds <- Feed
                                            <- SkillExplorer

`SkillGraph` and `SkillIds` and `Feed` have variables, the other three are
functions of a graph; a step of `Feed` is one of the builds, of the writers of
ids, of the backfill, or of the API. The remaining modules share no variables:
the resume loop only touches `generations` and `users.quota_remaining`, the match
cycle `jobs`, `user_profiles` and `matches`, the analysis the labels and reports.
`Analysis` takes the appearance of a match
row, with or without its screen-job, as an action of its environment, which is
what `MatchCycle` does in `CycleCommit` and `CycleFlush`.

**Grain.** A handler is split where another execution can see or change what it
uses: at its reads, at its commit, at its flush, at its answer. In between is the
LLM call. `RunVerifyGraph` runs the whole graph as one step because its nodes
touch nothing shared before `_write_status`. Each commit is one step, since
PostgreSQL makes it one.

**`ResumeLoop`.** `TriggerRead`, `TryConsumeQuota`, `TriggerEnqueue`,
`TriggerCommit` and `TriggerRollback` are `trigger_generate` inside `db_session`:
the task leaves through the raw queue before the commit. `rowLock` is the row
lock that the conditional `UPDATE` of `try_consume_quota` takes. `Post` is one
POST of `_post_with_retries` together with the reads of the handler it starts
(`BeginGenerate`, `BeginVerify`); `GenerateOk`, `GeneratePermanent`,
`RunVerifyGraph` are the commits; `Flush` and `FlushFails` the buffer; `Respond`
the answer and what the queue makes of it (`AfterError`). `PostTimeout` leaves
the handler running, so that `Respond` asks whether anyone still waits
(`Awaited`). `WorkerCrash` is a handler instance of the cloud queue that dies,
`ProcessCrash` the local process that takes its tasks along. `WriteStatus` keeps
`verify_failures` when the verdict names none, as the ORM does.

**`MatchCycle`.** A cycle is `CycleStart` (mode, users, watermark and `now()`),
`CycleRead` (the candidates, the profiles and the counts of today),
`CycleCommit` (matches, flags and the completed event) and `CycleFlush`. The
watermark is the greatest `ts` of a completed cycle, and that is the start of its
transaction. Time is a counter; reading a clock takes a step, so that a timestamp
and its commit are apart, as in the code (`IngestStamp`/`IngestCommit`,
`ExtractStamp`/`ExtractCommit`). `EditCommit` writes the version it read plus one
and sends the flag only if it was down when read. Who passes whose filters is the
constant `Passes`; the reranker is free to choose.

**`Analysis`.** `recorded` is the sum that `_spent_today` computes, `billed` what
the provider charges; they part where `structured_call` drops the usage of a
malformed completion or a handler dies after the call. `Calls` is every way a
`structured_call` can end: what an invocation raises goes through `MapException`
(first the class, then the HTTP status), and a malformed completion is asked for
once more. `Report`, `AnalyzePermanent` and `HandlerFails` take a call each.
`Batch` reads the sum and
the candidates in two steps. The label order, the score and the newer cycle give
the order of `_select_candidates`.

**`TaskQueue`, `LocalQueue`.** The contract knows for each task whether it is
queued, posting, done or dropped, and how often it was posted. The local queue
has a thread per task with the places of `_dispatch` and `_post_with_retries`,
and the counter of the semaphore. A thread keeps its permit from `Acquire` to
`Release`, through every sleep ("backoff"), also the one after the last failure.
`Breaks` is an exception that is not an `httpx.HTTPError`: it passes the `except`
and reaches the `finally`.

**`Intake`.** The handlers of fetch-link-list and ingest-job are coroutines
without an `await`: `LoopFree` says that a process runs one of them at a time,
flush included. So a request can wait in `requests` until its client has given
up, and run all the same. The text of a posting is the version the board showed
when it was listed (if the listing had it, `inline`) or when ingest-job asks
(`IngestReads`). `FetchResolve` is `_resolve_company`; the row it adds becomes
visible at the commit, also when the listing is a permanent failure, not when the
provider is unknown (`FetchRefused`). `IngestCommits` is the upsert: it replaces
the text, and leaves the extraction that `ExtractCommits` wrote once.

**`AdminJobs`.** `StartJob` holds the lock of the registry; `Step(j)` is the
thread of job `j`, with the loop over companies in `_run_fetch_all`.
`PostTimesOut` is `httpx` giving up: the thread finishes, the handler stays in
`handlers` until `OrphanEnds`. `ProcessRestart` empties the registry and ends the
handlers, which live in the same process.

**`SkillLabels`, `SkillGraph`.** A label is a sequence of words with two
features, a parenthesis at its end and capitals: all that normalisation, bare
forms and acronyms tell apart. `graph` is what is committed, `tx` what the build
in progress has flushed. `StartBuild` chooses versions, overrides, provider and
flags; `ImportEsco` and `ImportOnet` write whole bundles (`Upsert` keeps rows
that a newer bundle lacks, as the code does); `Download` leaves its file also if
the build aborts. `reconcile_onet` works a queue of unmapped technologies off in
four stages, one technology a step (`queue` is the set of those that are left, `Turn`
takes them in the order of their keys): labels and aliases (`MatchLabel`,
`MatchAlias`), trigrams (`MatchTrgm`), vectors (`MatchSemantic`,
`LeaveUnresolved` for what is ambiguous), founding (`FoundConcept`). Similarities
are constants, the thresholds and margins are the code's.

**`SkillLinker`, `SkillExplorer`.** `PgLinkSpan` and `MemoryExact` are the two
linkers, with the tables each asks; `PgLinkReport` is the report of a list of
spans; `PgScan` and `MemoryScan` find names in a text. `concept_neighborhood` is
the breadth-first search of `graph.py` with its two caps; `Within` is the ball it
should be part of, written from the definition of a neighbour and not from the
search.

**`Fabrication`.** `run_deterministic_checks` returns the codes of the
differences. `HonestResume` builds a resume from a history and ids, `Planted`
puts one invented fact or one skill of somebody else into it in every place the
schema has for it, `WithRange` one more date range, true or false. In `SkillIds`,
`Misleads` says when the name of a profile's skill leads elsewhere: to a concept
by an alias inside it, or by the link of the name itself.

**`SkillIds`.** A job, profile or match stores a list of ids, new or old
(`resolve` is the resolver of the backfill). `ExtractJob`, `IngestProfile`,
`EditProfile`, `MatchRead`/`MatchCommit` write ids; `BackfillLoad`,
`BackfillJobs`, `BackfillProfiles`, `BackfillMatches`, `BackfillCommit` are the
script's reads: what it read is rewritten when the next read flushes it, and a
flushed row is locked (`Locked`).

**`Feed`.** `list_matches` is the answer of `GET /api/matches` as a set of cards.
`BeginEvent` and `CommitEvent` are a post's check and its commit; `InsertDraft`
adds a draft whose random id may sort anywhere.

**Helpers named "Mutant".** Next to an action stands the form a bug could give
it. No specification uses them; `PROJECT.json` tells which property each breaks.

## 3. The runs

Counts are distinct states under the symmetry of the cfg.

| Run | Checks | Instance |
|---|---|---|
| `ResumeFull` (787k) | types, `FollowOnAfterCommit`, `VerdictHasEvidence`, `SecondAttemptHasCause`, `QuotaLedger`, `ChargeIsDispatched`, `NeverDroppedWithoutCrash` under every failure | 2 clicks of one match and user, quota 1, 2 threads, 2 posts |
| `ResumeOneClick` (104k) | `OneDraftPerAttempt`, `SkipIsRedundant`, the refinement `ImplementsContract`, `ChargedClickSettlesOrCrash` without timeouts | 1 click, 3 posts, 3 faults |
| `MatchQuiet` (1.45M) | `NothingSkipped`, `ExtractionIsAsked` when cycles do not overlap commits | 2 users, 2 jobs, 3 incremental cycles, 2 threads, 2 posts, 7 timestamps |
| `MatchEdits` (1.93M) | `FlagDownMeansMatched`, `WithinDailyCap`, `ScreensNameMatches`, `EditAlwaysMarks`, `StampsAreFinal` under the same condition, and with crashes that lose a flush | 2 users (one more than `DirtyCap`), 1 job, 1 edit, 3 cycles of both modes |
| `AnalysisFull` (1.09M) | `ReportsFollowScreens`, `LabelIsFinal`, `WithinBudgetWhenCalm` | 2 rows of one pair, 2 batches, 2 threads, 2 posts, budget 3 for estimates of 2, every outcome of an LLM call |
| `AdminFull` (3.9k) | `FetchCoversAll`, `MatchBatchAloneWhenCalm`, `RunningEnds` | 2 companies, 2 accepted starts |
| `IntakeFull` (1.57M) | `ListedIsCovered`; `TextNeverRegresses` while fetches do not overlap; `ExtractionDescribesText` while no post times out either | 2 fetches of a board with 1 posting in 2 versions and 1 that stays queued, 1 process with its queue, 2 posts, flushes that fail halfway, errors and crashes without bound |
| `QueueFull` (20k) | `PermitsBalance`, `EveryTaskEnds`, the refinement of `TaskQueue` | 3 tasks, 2 permits, 3 attempts |
| `SkillsFull` (23k) | `FoundedIsNew`, `ContestedOnlyByEsco`, `MappingsAreFinal` over every sequence of builds; `LinkersAgree`, `NeighbourhoodIsExact` of every graph that results | 4 ESCO rows, 8 technologies, 2 override files, with and without O*NET, relations, download and vectors, 3 builds |
| `SkillIdsFull` (105k) | `StoredSkillsKeepMeaning`, `BackfillSettles`, `HonestResumesPass`, `FabricationsAreCaught`, `CardIsCurrent` | 2 jobs and 1 profile, old and new, 2 builds, 1 backfill at a time, 2 match rows, 1 event, 1 draft; a name that two concepts have, with another's alias in it; 3 date ranges, 2 of them false |

Further invariants stand in the modules and hold under the same instances, but no
run lists them: `TypeOK` of `MatchCycle`, `Analysis`, `AdminJobs`, `Intake` and
`LocalQueue` and `OneCompanyPerBoard`, which are proved, and `PassedNamesNothing`,
`OneMatchPerJob`, `OneReportPerMatch`. `SkillsMore.cfg` checks four more of the
graph on the instance of `SkillsFull`, each of which is also proved:
`NothingDangles` (no row refers to one that is not there), `RebuildConverges`
(building again changes nothing, unless it maps what was left unmapped),
`LinksMoveOnlyByBundles` (a span's exact link moves only if a bundle or the
overrides say something new of that very span), `SearchFindsLinks` (typing a name
that links finds the concept).

**Bounds.** `MaxFaults` bounds errors, timeouts, crashes and further clicks
together: each lets a task run once more, and each further run may write a row
and a task, so that without it the state space is infinite. Two faults suffice
for what needs two (two timeouts overlap three executions; an error and a crash;
two clicks and a crash), and the counterexamples of section 4 need at most two.
`MaxPosts` and `MaxAttempts` are 2 or 3 for the code's 5: the last post and one
or two before it, since nothing distinguishes the earlier ones. `MaxClock` is the number of timestamps
ever taken: an ingest, an extraction and three cycles, in any order, fit in 5.
Two users and `DirtyCap = 1` make the cap bite. Two analyses, a budget of one and
a half estimates and costs below and at the estimate make the division leave a
remainder.
Two rows of the same user and job are what `Latest` distinguishes. Two companies
are an answered and a failed board. One posting in two versions is enough for the
texts of `Intake`, which are per posting. The second one is there for a flush that
hands over one of two tasks and fails, for the fetch that lists both again, and
for the crash that takes one of them along: `FlushBound` lists it throughout with
its text and leaves its tasks unposted. Three tasks are one more
than the permits, so that one waits while two fail. Two starts are enough for
every pair of jobs, in the same or different groups.
The bundle and the O*NET file of `MCSkills` have a row for each way a technology
can end: by label, by alias, by trigram (93 against a threshold of 92), by
vector, ambiguous, founded; two that would found the same short form; an
alternative label that two ESCO skills claim; a relation to a row that is
missing; an acronym. Three builds are a first one, one with other inputs,
and a return to the first inputs. The depths, limits and caps of
`NeighbourhoodIsExact` are the smallest that cut and the largest that do not.
In `MCSkillIds` the stored ids are one of every kind `resolve` distinguishes,
with a match row from before its rematch; one word is both a skill and prose.
`Bounds` leaves the feed and the second match row to the time after the builds,
since neither writes what a build reads. Two ESCO concepts are called "python
programming", and "programming" alone is an alias of a third: of the profiles that
arise some mislead by a link, some by an alias in a name, some not at all. Of the
false ranges one begins in a year of the history and one does not. `AnalysisFull` looks at `billed` only
until `calm` ends (`VIEW SeenWhenCalm`): no guard reads it.

**Deadlock** is not checked: a finite set of requests ends, and so do the runs.

**What a condition in a run means.** `MatchQuiet` runs under `QuietSpec`,
`MatchEdits` under `QuietCrashSpec`: no two cycles overlap, no cycle runs while a
timestamp is taken but not committed, no dirty cycle overlaps an edit of its user;
under `QuietSpec` nothing crashes either. The LLM
phase of extractions, ingests and edits still interleave with everything. The
code does not enforce this. The runs say how much must be arranged outside (by
the scheduler, by one operator) for the promise to hold; the counterexamples show
that each part is needed. `NeverDroppedWithoutCrash`, `WithinBudgetWhenCalm`,
`MatchBatchAloneWhenCalm`, `TextNeverRegresses` and `ExtractionDescribesText`
state their condition in the property, with a history variable of the MC module.
`WithinBudgetWhenCalm` further assumes that no completion costs more than the
estimate (`Costs` in the cfg): the code divides by the estimate and stops nothing
that turns out dearer.

`SkillIdsFull` runs under `Calm`: while a backfill runs no build commits, no match
cycle is open, and no profile is written once it has read them. Jobs are
extracted, profiles ingested and edited before that, and everything else goes on.
The script asks for none of it. It is run by hand, once, after the first build,
and section 4 has what happens otherwise.

`HonestResumesPass` and `FabricationsAreCaught` hold of every profile, old ids and
names that several concepts share included; what the checks cannot tell apart is
said in their conclusions.

- An honest resume is refused for nothing but a skill (`out_of_set_skill`), and is
  refused whenever the name of one of its skills misleads (`Misleads`). Without
  that, and if the prose shares no word with an alias that is scanned for, it
  passes. The histories are those whose employers have at most one corporate
  suffix (`OneSuffix`). The resume names the skills that the profile has as
  concepts of the graph; for an id from before the graph there is no name to write.
- An invented employer, title or number is caught in every place it can be put.
  A skill that the profile lacks is caught by its id, by a claim of its name if
  that name has owners and none of them is in the profile, and in the text by its
  name if the concept owns it, it is not ambiguous and not too long to scan.
- A date range is refused exactly if its first year is no year of the history
  (`BeginsInHistory`): a false range that begins in a true year passes.

## 4. Where code and documentation disagree

Each is a run that TLC ends with a counterexample.

| Run | The documentation | The code |
|---|---|---|
| `ResumeRaceDuplicates` | `TASKS_AND_HANDLERS.md:269`: redelivery of an attempt "is a no-op" | two executions of a task both count zero rows, both insert |
| `MatchDirtyWatermark` | `TASKS_AND_HANDLERS.md:148`, `match/sql.py:57`: a job extracted after cycle N is recalled in cycle N+1 | a dirty cycle, for some users only, moves the watermark of all |

Further counterexamples, each with its cfg beside the runs:

| cfg, module | Property violated | Because |
|---|---|---|
| `MatchFlagLost`, `MCMatchCycle` | `FlagDownMeansMatched` | `docs/UI.md:86` and `TASKS_AND_HANDLERS.md:124` say that edits are collapsed regardless of timing; a dirty cycle clears a flag that an edit set after the cycle read the profile |
| `ResumeCrashLosesTask`, `MCResumeLoop` | `NeverSilentlyDropped` | `TASKS_AND_HANDLERS.md:298` says "never silently dropped"; the process dies between commit and flush, and the redelivered generate-resume answers `skipped_existing` without enqueueing verify-resume |
| `AnalysisMalformed`, `MCAnalysis` | `WithinBudget` | `COST_MODEL.md:160` calls the budget a "hard cap"; the usage of a malformed completion is not recorded |
| `ResumeRaceVerdict`, `MCResumeLoop` | `VerdictIsFinal` | two verifications overlap after a timeout, the second overwrites the first |
| `ResumeDoubleClick`, `MCResumeLoop` | `SkipIsRedundant` | two clicks before the first draft: the rows of one count as attempts of the other |
| `MatchLateCommit`, `MCMatchCycle` | `NothingSkipped` | a stamp taken before a cycle is committed after its read |
| `MatchCapRace`, `MCMatchCycle` | `WithinDailyCap` | two cycles count today's matches before either commits |
| `MatchNeverRetried`, `MCMatchCycle` | `AbandonedIsRetried` | `extract/service.py:87` counts on later cycles, but the watermark has passed the job |
| `IntakeStale`, `MCIntake` | `ExtractionIsCurrent` | a second ingest-job replaces a text that is already extracted |
| `AdminTimeout`, `MCAdminJobs` | `MatchBatchAlone` | the admin thread gives up a post whose handler still runs, and frees the group |
| `SkillsVectors`, `MCSkills` | `RebuildRestoresVectors` | `OPEN_ISSUES.md:196` and `SKILL_GRAPH.md:163` advise to rebuild with a provider to restore vectors; a concept that a technology founded is not founded again and keeps the model of its first build, while `factory.py:220` wants all models to agree |
| `BackfillRace`, `MCSkillIds` | `StoredSkillsKeepMeaning` | `backfill_skill_ids.py:19` calls itself idempotent and `SKILL_GRAPH.md:133` a no-op the second time; a resolver that was loaded before the first build committed drops every id it does not know. With `BackfillSettles` in its place, a profile ingested between the read and the flush stays old |
| `FeedViewed`, `MCSkillIds` | `ViewedOnce` | `UI.md:305` says "at most one row per user + job"; two posts both find none |

Variants of these, each one of the cfgs above with other values:

| Take | with | violates | Because |
|---|---|---|---|
| `ResumeDoubleClick` | | `RollbackDispatchesNothing` | the task is out before a commit that fails |
| `MatchFlagLost` | a second edit | `EditAlwaysMarks` | the ORM does not send a flag that was up when read, or a version that two edits both computed |
| `AnalysisMalformed` | `MCSpec` | `WithinBudget` | a batch sums while the tasks of the one before still run |
| `IntakeStale` | | `TextNeverOlder` | two fetches overlap, their tasks for one posting arrive in the other order |
| `IntakeStale` | two processes, `QueueInProcess = FALSE` | `OneCompany` | two processes look for a new company before either commits it |
| `FeedViewed` | `MaxEvents = 0`, `MaxOpen = 1`, `MaxDrafts = 2` | `CardShowsLastDraft` | the newest draft is taken to be the one with the largest id (`api/service.py:546`), and ids are random (`db/models.py:383`) |

Seen while modelling, without a cfg of their own:

- A range of dates passes when its first year is one of the source, whatever the
  second is (`deterministic.py:226`), although the module says at line 3 that
  planted fabrications "must always be caught". `FabricationsAreCaught` says of a
  range that it is refused exactly if its first year is not, so this is part of
  what it states. Nor is a skill that another concept of the same name hides
  behind always caught: a claim links to one of the owners only.
- An invented employer that only the text mentions passes if the claim map names
  another employer.
- An honest resume is refused when the name of one of the profile's skills holds
  an alias of another concept, or links to another of its owners:
  `HonestResumesPass` has this as its second conclusion. So is one that names a
  skill whose id is from before the graph, since the scan finds the concept and the
  set to compare with has the old id.
- `BucketsAreDisjoint` fails for a match row whose two old ids become one concept.
- A backfill before the first build resolves by an empty graph and drops every id.
- "docker" and "docker software", founded in the same build, are two concepts of
  one name; a label curated after a technology was founded is owned by both, and so is
  a short form that a newer ESCO bundle derives.
- A technology that is matched by vector lends its concept its own short form.
  Another technology of that name, which the label stage has passed already, then
  founds a second concept: with "Amazon Web Services AWS software" mapped to an
  ESCO concept and "AWS" founded, there are two concepts called "aws".
  (`FoundedIsNew` therefore speaks of the graph in which the reconciliation began.)
- The in-memory linker derives short forms anew, from the labels that
  `load_skill_records` gives it (`repository.py:22`), the database linker reads the
  derived rows that builds stored. They part where the two differ: a technology
  named "x software" is stored with the short form "x", which the in-memory linker
  does not derive (it strips parentheses only); and a label "storage (unit)" that a
  newer bundle spells otherwise keeps the derived row "storage", which no label
  derives any more. Hence the condition on `OnlyDerived` keys in `LinkersAgree`.
- The database is scanned for names of at most six words (`pg_linker.py:51`, `:165`),
  the snapshot for names of any length (`linker.py:229`): a longer label is found
  by one linker only. Hence the condition on the length.
- Of an employer's name one corporate suffix is stripped (`deterministic.py:254`), so
  an honest resume with "Acme Co" for a profile's "Acme Co Inc" is flagged; and
  prose that happens to hold a word of a skill's alias is flagged as a claim of it.
- A name that a technology brought to a concept is not that concept's for good: a
  newer bundle may give it to another, with a type that goes first. And a name that
  two ESCO skills claim is mapped, by vector, to one of them, while its exact link
  may be the other.
- The node that stands for an unmapped source concept has no version in its id:
  those of two versions fall together in the explorer.
- A completion without usage metadata is recorded as free (`usage.py:38`).

## 5. Fairness

Three liveness properties are checked, each under the weakest fairness it needs.

- `ChargedClickSettlesOrCrash` (`MCFairCrashSpec`): weak fairness of each click's
  request, of each handler thread and of the queue's posting. The operating
  system schedules these threads, and none waits for a condition that another can
  take away for ever: a click waits for a row lock that its holder gives up when
  it ends. No fairness is put on errors and crashes, which are never owed, nor on
  a single task: any queued task that gets a thread will do, since only finitely
  many are ever queued. An LLM call that never ends would break this, but the
  clients have timeouts, and their error is a step of the handler.
- `RunningEnds` (`MCFairSpec`): weak fairness of each job's thread, where a post
  ends with its answer or at the latest with its timeout. It includes
  `PostTimesOut`, so the handler itself need not be fair.
- `EveryTaskEnds` (`FairSpec` of `LocalQueue`): weak fairness of each queue thread.
  A post ends with its timeout at the latest. Python's semaphore wakes its waiters
  in no promised order, but a waiter is passed over only by threads that take a
  permit for the last time, and there are finitely many.

## 6. The proofs

Every theorem holds for all values of the constants that the module's named
assumption allows: any finite sets of clicks, users, jobs, matches, boards or
tasks, any threads, cycles and edits, any limits. The assumptions are types,
finiteness where a set is counted, and limits above zero
(`ConstantsAssumption` and `FreeAssumption`, `MatchConstants` and
`NullsAssumption`, `AnalysisConstants`, `AdminConstants`, `IntakeConstants`,
`LocalQueueConstants`). For the skill modules they say what the data is:
`SkillGraphConstants` that labels are not blank and every technology of the file
has its place in `Order`; `SkillExplorerConstants` that labels order the nodes
without ties (`graph.py` breaks them by id) and that depths, limits and caps are
at least one (`graph.py:212` clamps them); `FabricationConstants` that no history
has an invented name (a corporate suffix aside) or number, and that a range has
dates and a year (nothing about whether it is true); `SkillIdsConstants`
and `FeedConstants` give types. Each stands in the module that declares the
constants, and TLC evaluates it in every run. What a theorem assumes
beyond them is in the third column.

| Module | Theorem | Under | States |
|---|---|---|---|
| `ResumeLoopProofs` | `TypeCorrect` | `Spec` | `[]TypeOK` |
| | `FollowOnTasksAreCommitted` | `Spec` | `[]FollowOnAfterCommit` |
| | `SecondAttemptsAreCaused` | `Spec` | `[]SecondAttemptHasCause` |
| | `VerdictsHaveEvidence` | `Spec` | `[]VerdictHasEvidence` |
| | `QuotaIsConserved` | `Spec` | `[]QuotaLedger` |
| | `ChargesAreDispatched` | `Spec` | `[]ChargeIsDispatched` |
| | `NothingDroppedWithoutCrash` | `MCSpec` | `[]NeverDroppedWithoutCrash` |
| | `RedeliveryIsANoOp` | `NoOverlapSpec`, one click per match | `[]OneDraftPerAttempt` |
| | `SkipsAreRedundant` | the same | `[]SkipIsRedundant` |
| | `LoopImplementsContract` | the same | `ImplementsContract` |
| `MatchCycleProofs` | `TypeCorrect` | `Spec` | `[]TypeOK` |
| | `ScreensAreCommitted` | `Spec` | `[]ScreensNameMatches` |
| | `StampsStay` | `Spec` | `StampsAreFinal` |
| | `CapHolds` | `QuietCrashSpec` | `[]WithinDailyCap` |
| | `FlagsMeanMatched` | `QuietCrashSpec` | `[]FlagDownMeansMatched` |
| | `EditsMark` | `QuietCrashSpec` | `EditAlwaysMarks` |
| | `NothingIsSkipped` | `QuietSpec`, `Modes = {"incremental"}` | `[]NothingSkipped` |
| | `ExtractionsAreAsked` | the same | `[]ExtractionIsAsked` |
| `AnalysisProofs` | `TypeCorrect` | `Spec` | `[]TypeOK` |
| | `ReportsAreScreened` | `Spec` | `[]ReportsFollowScreens` |
| | `LabelsAreFinal` | `Spec` | `LabelIsFinal` |
| | `BudgetHolds` | `MCSpec`, no cost above `Estimate` | `[]WithinBudgetWhenCalm` |
| `IntakeProofs` | `TypeCorrect` | `Spec` | `[]TypeOK` |
| | `NothingListedIsLost` | `Spec` | `[]ListedIsCovered` |
| | `OneProcessOneCompany` | `Spec` | `[]OneCompanyPerBoard` |
| | `TextsStayNew` | `MCSpec`, one process | `TextNeverRegresses` |
| | `ExtractionsAreCurrent` | `MCSpec` | `[]ExtractionDescribesText` |
| `AdminJobsProofs` | `TypeCorrect` | `Spec` | `[]TypeOK` |
| | `FetchesCoverAll` | `Spec` | `[]FetchCoversAll` |
| | `MatchBatchesExclude` | `MCInit`, `MCNext` | `[]MatchBatchAloneWhenCalm` |
| `LocalQueueProofs` | `TypeCorrect` | `Spec` | `[]TypeOK` |
| | `PermitsAreBalanced` | `Spec` | `[]PermitsBalance` |
| | `Refinement` | `Spec` | `ImplementsTaskQueue` |
| `SkillGraphProofs` | `MappingsStay` | `Spec` | `MappingsAreFinal` |
| | `FoundedAreNew` | `Spec` | `FoundedIsNew` |
| | `ContestsAreEscos` | `Spec` | `[]ContestedOnlyByEsco` |
| | `NothingEverDangles` | `Spec` | `[]NothingDangles` |
| | `RebuildsConverge` | `Spec` | `RebuildConverges` |
| | `NeighbourhoodsAreExact` | `Spec` | `[]NeighbourhoodIsExact` |
| `SkillIdsProofs` | `IdsKeepMeaning` | `CalmSpec` | `StoredSkillsKeepMeaning` |
| | `BackfillIsComplete` | `CalmSpec` | `BackfillSettles` |
| | `CardsAreCurrent` | `CalmFeedSpec` | `[]CardIsCurrent` |
| | `LinkersStayAlike` | `Spec` | `[]LinkersAgree` |
| | `LinksStay` | `Spec` | `LinksMoveOnlyByBundles` |
| | `SearchesFindLinks` | `Spec` | `[]SearchFindsLinks` |
| | `FabricationsNeverPass` | `IdsSpec` | `[]FabricationsAreCaught` |
| | `HonestResumesArePassed` | `IdsSpec` | `[]HonestResumesPass` |

`Spec` has every failure the module models, crashes, timeouts and redeliveries
among them. The other specifications are restrictions that section 4 shows to be
needed: `NoOverlapSpec` leaves out `PostTimeout` only; `QuietSpec` and
`QuietCrashSpec` are explained in section 3, and so is `Calm`, of which `CalmSpec`
and `CalmFeedSpec` are the specifications; `MCSpec` is `Spec` with a history
variable, and the property names its condition. `IdsSpec` is the graph with the
writers of ids, without a condition.

**Why the invariants are what they are.** Each module has an inductive `IInv`
(`Invariance`) and what the conditional theorems add to it. Where a run is named, TLC
checked the invariant on its instance first.

- *Resume loop* (`ResumeFull`). `TypeOK` is not inductive: that `posts` stays
  within `MaxPosts` needs that a queued task has a post left (`QueueOK`), that
  `attempt` stays within `MAX_ATTEMPT` needs that a handler serves a task of its
  own kind (`WorkerOK`), and that `quota` stays in `Nat` needs that a click in its
  transaction holds the row lock and has seen a unit under it (`LockOK`); `Core`
  is these four. `AllSound` says of every task, queued or buffered, that the row
  it names is committed and matches, and that a second attempt has a cause;
  `FollowOnAfterCommit` and `SecondAttemptHasCause` are its two halves and have to
  be carried together, because a handler copies match and attempt from the task it
  serves to the row and the task it writes. Rows and payloads stay (`RowsKept`,
  `PayloadsKept`, once per step), which makes both stable. `LedgerStep` counts the
  one click that is added to `Paid`.
- *No charge, no draft without a task* (`ResumeFull`). `DispatchOK` counts the
  clicks on a match whose task is out against its root tasks. `FollowedInv` says
  of each draft without verdict that its verify-resume is buffered or not yet
  answered, of each rejected first draft that its regeneration is buffered or
  handed over; it needs that an answered verify-resume has its verdict
  (`VerdictBeforeAnswer`) and that a buffer holds one task (`OneBuffered`), so that
  a flush hands over all of it. Only a crash falsifies it, and a flush that the
  queue refuses counts as one; any other error comes before the commit and leaves
  the task unanswered.
- *No overlap* (`ResumeOneClick`). `SerialInv` says what tasks, executions,
  buffers, clicks and rows of one match can be together: no payload is enqueued
  twice, a task has one execution, what a handler read before its LLM call is still
  so (`ReadFine`), and a second attempt is asked for only when the first draft has
  failed (`PayloadFine`). From it every row that is written is the next move of the contract; the
  refinement (`LoopImplementsContract`) has one case per action that writes a row,
  all others are stutters.
- *Match cycle* (`MatchEdits`). `TasksOK`: a task comes from a cycle that has ended
  and has a post left while it is queued; `CycleOK`: what a cycle wants screened is
  extracted, and in the buffer of a committed cycle are rows. `QuietInv` adds
  `ReadOK`: what the open cycle read (matches of the day, contents of the profiles)
  is still so when it commits, and `EditOK`: so is what an open edit read. That is
  exactly what overlap would break. The daily cap then follows by counting rows
  (`RowsFinite`, `LeastOfThree`).
- *Watermark* (`MatchQuiet`). `WatermarkInv`: no committed timestamp equals the
  watermark, an open timestamp lies above it (`StampsOK`); a cycle's pairs
  are known postings (`KnownOK`); a running cycle began at the watermark of now, above all that is
  committed, and once it has read, holds every recent pair (`RunningOK`). With a
  dirty cycle `users = Users` fails, and with it the theorem: `MatchDirtyWatermark`.
- *Analysis* (`AnalysisFull`). A batch's choice was screened, an analyze-match was
  chosen by a batch. For the budget, `OwedFits`: recorded cost plus one estimate
  per analysis that can still bill (`Owed`) is within the budget; `PostsApart`: one
  execution per task, so that a report takes one estimate off; `ChoiceFits`: a
  batch sums with nothing owed, and its division leaves room for all it chose.
- *Intake* (`IntakeFull`, and a variant of it with two processes). `PassedOn`: past the filter every listed posting is in the table, in
  the buffer or handed over; `TaskOK`: a task that is done has its row or a
  named refusal. `CompaniesOK` counts rows against committed fetches. With one
  process `OneCoroutine` and `CreatesOnlyFirst` follow from `LoopFree`. While
  fetches do not overlap, `WritesNewer`: what is about to be written is not older
  than the table; without timeouts also `OnePost` and `WritesOnce`: one request or
  execution per task, for a posting that is not in the table yet.
- *Admin jobs* (`AdminFull`). `FetchOK`: done, under way and left add up to all
  companies. `GroupOK`: one thread per group. That handlers exclude each other
  takes `AllAwaited`: each has a thread that waits for it, as long as no post
  timed out.
- *Local queue* (`QueueFull`). That `permits` stays in range needs the balance,
  that `attempt` does needs that a thread at the top of the loop has one left, and
  the refinement needs that a thread has an outcome exactly from the end of its
  loop on (`ThreadsOK`). `OneTaskMoves` tells what a step of one thread does to the
  statuses; `Acquire`, `WakeUp` and `Release` are stutters.
- *Skill graph* (`SkillsFull`, and two instances with other rows and
  similarities). `BuildOK`: a technology waits once, and unmapped, so no mapping is
  written for one that has one. `Keeps`: the transaction has all committed
  concepts and mappings. `EscoMapped`: an ESCO concept of any version is mapped by its
  uri, which is why importing another version moves none. `OneTechnology`: a key
  has one technology, since what is taken is left alone. `UnheardOK`: what is left
  after the label stage had no owner of any of its names in `build.snap`.
- *Rows that refer* (`SkillsFull`). `RInv`: the rows of `graph` and of `tx` refer to
  rows of the same table set (`RowsRefer`), are of concepts the inputs can name and
  are stored under the key of their label (`RowsKnown`), and what waits is of the
  file (`PlanOK`). The import keeps it because the rows of a bundle do so among
  themselves (`EscoRefer`, `OnetRefer`, with `EscoAliasFacts` for what overrides,
  short forms and `Dedupe` leave of the labels), and an upsert adds rows without
  taking any (`RowsAdded`).
- *Building again* (`SkillsFull`). `ConvergeInv`: what the last plan imports is in
  the committed tables (`EscoIn`, `OnetIn`), so that importing it again is the
  identity; no stage touches such a row, since technologies write under ids and
  keys of their own. From the import on, the transaction either equals the
  committed graph or has mapped more.
- *Links.* `TakenInv`: under a key of which the plan says nothing new, the transaction has
  the aliases that are committed, because a key that has an alias is taken. With it the
  choice of `ExactLink` is made among the same rows. For the agreement of the two
  linkers, `NamesInv`: a concept of ESCO has its name among its labels, one of a
  technology its name with or without a suffix, unless another concept had it.
- *Neighbourhoods.* `ExplorerInv` adds to `RInv` that a source concept has one mapping
  and a place among the nodes. The search is then compared with the reference round by
  round. After the round for depth d, `NoMore`: all that is seen lies within d
  hops, synthetic nodes within d - 1 and one; and as long as no cap was hit
  `NoLess`: all within d hops is seen, and what was expanded has all its
  neighbours and categories there. One more round adds no more than one more hop
  (`RoundAddsNoMore`) and misses nothing of it (`RoundMissesNothing`). The two
  recursive functions get their values by counting up (`BallsExist`, `RoundsExist`).
  That a cut keeps the first n of an order is `FirstOfOrder`.
- *Stored ids* (`SkillIdsFull`). `IdsInv`: a match row was made of ids that each
  graph since resolves alike, and what a backfill has read is what is stored
  (`BackfillOK`; jobs may have been extracted since, with ids of concepts, which a
  rewrite leaves alone). That an id is resolved for good rests on `MappingsStay` and on
  `EscoExternalIs`, the links of seed labels and `PgLinkSpanKnown`: whatever resolves, resolves to a
  concept. The cards follow from it: what lies in a bucket is a skill of the job now.
- *Resumes.* `NamedInv`: the name of a concept is a sequence of words. A planted fact
  is caught by the one check that is there for it, and the proof goes through each
  of the shapes of `Planted`; a claimed name links to one of its owners
  (`OwnedLinks`), and what a text holds of a name is found there (`NameInText`). Of
  the four ways in which `DateInSource` lets a range pass, each needs the first
  year, and that is enough (`RangesByYear`). For honest resumes the text is
  compared with its names both ways (`SentenceIsProse`): every run of words in a
  name is in the text, so what misleads is found; and every run of words in the
  text, prose apart, lies within one name, so nothing else is.

**What the proofs changed.** `FoundedIsNew` and `ContestedOnlyByEsco` were
stronger once, true of the rows of `MCSkills` and false in general: no invariant
could be found, and TLC gave counterexamples on other rows (section 4). They now
say what the code does ensure. `Phase` in `ResumeRefinement` was a `CASE` with
overlapping guards, whose value is open; it is an `IF` in the order of its arms.
`SkillGraph` keeps its queue as a set with an order in place of a sequence (same
states), and `SkillIds` the ids of a row as a set, since no property tells their
order apart. `LinkersAgree` was false for long labels and for short forms that are
no longer derived, `HonestResumesPass` for names with two suffixes, for prose
that shares a word with an alias and for names that mislead: both held on the
instances as they were, and each proof attempt stopped at a case that is in section
4 now. Two properties of `SkillsMore`, that
a technology's name links to the concept it is mapped to and that links
move to curated names only, held on the instance and not in general; what holds is
`LinksMoveOnlyByBundles`.

**Only model-checked.** The three liveness properties, `ChargedClickSettlesOrCrash`,
`RunningEnds` and `EveryTaskEnds`: the prover has no `ENABLED`. The invariants of
section 3 that only repeat a constraint of the database. The conditional theorems
claim nothing outside their conditions.

Induction over data is out of the prover's reach in the form of the library's
theorems, which take an operator as a parameter. Where it is needed here it is made
over sets of numbers: a set that holds 0 and with each n below a bound also n + 1
holds all (`CountUp`), a set that is not empty has a least (`LeastNumber`). That
suffices for the searches, the priorities and the orders; folds have been avoided.

## 7. Plan

Done: `ResumeLoop` with its contract, `MatchCycle`, `Analysis` with the outcomes
of an LLM call, `AdminJobs`, `TaskQueue` with `LocalQueue`, `Intake`; the skill graph
from import to explorer, both linkers, the deterministic checks, the buckets, the
backfill, the feed; and the proofs of what they promise, liveness apart.

Left to model, in this order: the screen gate, the retry loop of the embedder,
the batches of `skills/embeddings.py`, the merge of a parsed profile.

Left to prove: the refinement of `ResumeContract` for two clicks that do not
overlap, in place of one click per match.

## 8. Not modelled

- Text: resumes, prompts, postings, profiles, reasons, reports. What a stage or a
  model finds is a free choice.
- Provider and job board I/O, apart from its outcomes: an answer, a permanent
  error, a retryable error.
- Read endpoints beside the feed, search and neighbourhood; log redaction,
  configuration, command line: no state that another component depends on.
- Export and deletion of a user's data: `PRIVACY_AND_COMPLIANCE.md` asks for
  them, the application has neither (`OPEN_ISSUES.md:177`).
- The demo rows, the calibration of thresholds, evals and poc: offline programs
  that only read, or that run once on an empty database. The browser client.
- Similarity, distance and parsing in the skill graph: constants and rows of the
  instances. Two builds at a time.
- The change of the day in the caps and the budget, and payload overrides of
  match-batch: each is a parameter of a query, fixed during a run.
- The Cloud Tasks client is modelled by what the handlers see of it: posts, at
  least once, a limited number of times.
