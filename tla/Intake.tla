------------------------------- MODULE Intake -------------------------------
(***************************************************************************)
(* How postings enter: fetch-link-list lists the board of a company and    *)
(* enqueues one ingest-job per posting it does not know, ingest-job        *)
(* upserts the posting, extract-job extracts what the row says, once.      *)
(*                                                                         *)
(* fetch-link-list and ingest-job are coroutines that never await: in a    *)
(* process they run one at a time, and requests wait for each other, also  *)
(* those nobody waits for any more.  extract-job runs in a thread.         *)
(*                                                                         *)
(* Left out: a listing with two postings of the same url_hash, the number  *)
(* of posts in flight at a time (see LocalQueue), two extractions of one   *)
(* job and its timestamps (see MatchCycle).                                *)
(***************************************************************************)
EXTENDS Integers, FiniteSets

CONSTANTS
    Fetches,        \* requests to POST /handlers/fetch-link-list, for one board
    Urls,           \* its postings, by url_hash
    Processes,      \* server processes, each with an event loop
    QueueInProcess, \* the queue is LocalTaskQueue
    MaxAttempts,    \* _MAX_ATTEMPTS of the queue
    MaxVersion      \* how often a text on the board is written

ASSUME IntakeConstants ==
    /\ IsFiniteSet(Fetches) /\ IsFiniteSet(Urls)
    /\ IsFiniteSet(Processes) /\ Processes # {}
    /\ QueueInProcess \in BOOLEAN
    /\ QueueInProcess => Cardinality(Processes) = 1
    /\ MaxAttempts \in Nat \ {0}
    /\ MaxVersion \in Nat

VARIABLES
    board,      \* the job board: the version of each text, and whether it is listed
    companies,  \* the rows of companies for this provider and token
    jobs,       \* the jobs table: the version in raw_jd and the one extracted
    fetches,    \* the fetch-link-list executions
    status,     \* the ingest-job tasks, see TaskQueue
    posts,
    requests,   \* posts that no event loop has taken up
    ingests,    \* the ingest-job executions
    refused,    \* the tasks whose posting ended in a permanent failure
    extracting  \* the version that the extract-job of each job has read

vars == <<board, companies, jobs, fetches, status, posts, requests, ingests,
          refused, extracting>>

-----------------------------------------------------------------------------

\* Version 0 stands for nothing: unpublished, not in the listing, no row.
Version == 0..MaxVersion
Tasks == Fetches \X Urls
Queue == INSTANCE TaskQueue
queueVars == <<status, posts>>
tables == <<companies, jobs>>

Request == [task : Tasks, post : 1..MaxAttempts]
Ingest == [pc : {"read", "committed"}, process : Processes, task : Tasks,
           post : 1..MaxAttempts, text : Version]
FetchPc == {"idle", "resolved", "listed", "filtered", "flush", "done", "failed"}
Fetch == [pc : FetchPc, process : Processes,
          creates : BOOLEAN,        \* the company is new in this transaction
          listing : [Urls -> Version],
          inline : SUBSET Urls,     \* the postings whose text is in the listing
          buffer : SUBSET Urls]

FetchOf(task) == task[1]
UrlOf(task) == task[2]

Init ==
    /\ board = [u \in Urls |-> [version |-> 0, listed |-> FALSE]]
    /\ companies = 0
    /\ jobs = [u \in Urls |-> [text |-> 0, extracted |-> 0]]
    /\ fetches \in [Fetches -> [pc : {"idle"}, process : Processes, creates : {FALSE},
                                listing : {[u \in Urls |-> 0]}, inline : {{}},
                                buffer : {{}}]]
    /\ Queue!Init
    /\ requests = {}
    /\ ingests = {}
    /\ refused = {}
    /\ extracting = [u \in Urls |-> 0]

Running(f) == fetches[f].pc \notin {"idle", "done", "failed"}

\* Mutant: the handlers are plain functions, which FastAPI runs in threads.
LoopNeverBlocks(p) == p \in Processes

\* The event loop of p has finished the coroutine it took up last.
LoopFree(p) ==
    /\ \A f \in Fetches : Running(f) => fetches[f].process # p
    /\ \A i \in ingests : i.process # p

-----------------------------------------------------------------------------
(* The board.                                                              *)

BoardPublishes(u) ==
    /\ board[u].version < MaxVersion
    /\ board' = [board EXCEPT ![u] = [version |-> @.version + 1, listed |-> TRUE]]
    /\ UNCHANGED <<tables, fetches, queueVars, requests, ingests, refused, extracting>>

BoardRemoves(u) ==
    /\ board[u].listed
    /\ board' = [board EXCEPT ![u].listed = FALSE]
    /\ UNCHANGED <<tables, fetches, queueVars, requests, ingests, refused, extracting>>

-----------------------------------------------------------------------------
(* fetch-link-list.                                                        *)

FetchGoes(f, pc) ==
    /\ fetches' = [fetches EXCEPT ![f].pc = pc]
    /\ UNCHANGED <<board, queueVars, requests, ingests, refused, extracting>>

\* _resolve_company, for a payload with provider and token: no constraint keeps
\* a second row out.  For one with a company_id it finds the row.
FetchResolve(f) ==
    /\ LoopFree(fetches[f].process)
    /\ fetches[f].pc = "idle"
    /\ fetches' = [fetches EXCEPT ![f] =
           [@ EXCEPT !.pc = "resolved", !.creates = (companies = 0)]]
    /\ UNCHANGED <<board, tables, queueVars, requests, ingests, refused, extracting>>

\* A ValueError: no such company, or a provider without adapter.  The session
\* rolls back, the answer is a 2xx.
FetchRefused(f) ==
    /\ fetches[f].pc = "resolved"
    /\ FetchGoes(f, "done")
    /\ UNCHANGED tables

\* The row of the company, if the transaction has one, becomes visible.
CommitsCompany(f) ==
    /\ companies' = companies + (IF fetches[f].creates THEN 1 ELSE 0)
    /\ UNCHANGED jobs

\* A PermanentIngestError of the listing, or a company without board.
FetchPermanent(f) ==
    /\ fetches[f].pc = "resolved"
    /\ FetchGoes(f, "done")
    /\ CommitsCompany(f)

FetchLists(f) ==
    /\ fetches[f].pc = "resolved"
    /\ \E inline \in SUBSET {u \in Urls : board[u].listed} :
           fetches' = [fetches EXCEPT ![f] = [@ EXCEPT !.pc = "listed", !.inline = inline,
               !.listing = [u \in Urls |-> IF board[u].listed THEN board[u].version ELSE 0]]]
    /\ UNCHANGED <<board, tables, queueVars, requests, ingests, refused, extracting>>

Listed(f) == {u \in Urls : fetches[f].listing[u] # 0}

FetchGathers(f, urls) ==
    /\ fetches[f].pc = "listed"
    /\ fetches' = [fetches EXCEPT ![f] = [@ EXCEPT !.pc = "filtered", !.buffer = urls]]
    /\ UNCHANGED <<board, tables, queueVars, requests, ingests, refused, extracting>>

\* Mutant: postings that are in the table already are enqueued again.
FetchEnqueuesAll(f) == FetchGathers(f, Listed(f))

FetchFilters(f) == FetchGathers(f, {u \in Listed(f) : jobs[u].text = 0})

FetchCommits(f) ==
    /\ fetches[f].pc = "filtered"
    /\ FetchGoes(f, "flush")
    /\ CommitsCompany(f)

\* Any other exception, up to the commit: rollback and 500.
FetchFails(f) ==
    /\ fetches[f].pc \in {"resolved", "listed", "filtered"}
    /\ FetchGoes(f, "failed")
    /\ UNCHANGED tables

FetchFlushes(f) ==
    /\ fetches[f].pc = "flush"
    /\ \E u \in fetches[f].buffer :
           /\ Queue!Accept(<<f, u>>)
           /\ fetches' = [fetches EXCEPT ![f].buffer = @ \ {u}]
    /\ UNCHANGED <<board, tables, requests, ingests, refused, extracting>>

\* enqueue raises: what is left of the buffer is gone, the answer is a 500.
FetchFlushFails(f) ==
    /\ fetches[f].pc = "flush" /\ fetches[f].buffer # {}
    /\ FetchGoes(f, "failed")
    /\ UNCHANGED tables

FetchAnswers(f) ==
    /\ fetches[f].pc = "flush" /\ fetches[f].buffer = {}
    /\ FetchGoes(f, "done")
    /\ UNCHANGED tables

-----------------------------------------------------------------------------
(* ingest-job.                                                             *)

Post(t) ==
    /\ Queue!Post(t)
    /\ requests' = requests \cup {[task |-> t, post |-> posts[t] + 1]}
    /\ UNCHANGED <<board, tables, fetches, ingests, refused, extracting>>

\* The client gives up; the request stays.
PostTimeout(t) ==
    /\ Queue!Fail(t)
    /\ UNCHANGED <<board, tables, fetches, requests, ingests, refused, extracting>>

\* r is a request or the execution that serves it.
Awaited(r) == status[r.task] = "posting" /\ posts[r.task] = r.post
Answer(r, ok) ==
    IF Awaited(r) THEN IF ok THEN Queue!Deliver(r.task) ELSE Queue!Fail(r.task)
    ELSE UNCHANGED queueVars

\* _materialize_posting: the text of the payload, or the board's of now.
IngestReads(p, r) ==
    LET u == UrlOf(r.task)
        f == FetchOf(r.task)
    IN
    /\ LoopFree(p)
    /\ u \in fetches[f].inline \/ board[u].listed
    /\ requests' = requests \ {r}
    /\ ingests' = ingests \cup
           {[pc |-> "read", process |-> p, task |-> r.task, post |-> r.post,
             text |-> IF u \in fetches[f].inline THEN fetches[f].listing[u]
                                                  ELSE board[u].version]}
    /\ UNCHANGED <<board, tables, fetches, queueVars, refused, extracting>>

\* Dead link, not a posting, unparseable, expired: a 2xx without a row.
IngestPermanent(p, r) ==
    /\ LoopFree(p)
    /\ requests' = requests \ {r}
    /\ refused' = refused \cup {r.task}
    /\ Answer(r, TRUE)
    /\ UNCHANGED <<board, tables, fetches, ingests, extracting>>

\* The upsert: the conflict update replaces raw_jd, and leaves what extract-job
\* wrote.
IngestCommits(i) ==
    /\ i.pc = "read"
    /\ jobs' = [jobs EXCEPT ![UrlOf(i.task)].text = i.text]
    /\ ingests' = (ingests \ {i}) \cup {[i EXCEPT !.pc = "committed"]}
    /\ UNCHANGED <<board, companies, fetches, queueVars, requests, refused, extracting>>

IngestEnds(i, ok) ==
    /\ ingests' = ingests \ {i}
    /\ Answer(i, ok)
    /\ UNCHANGED <<board, tables, fetches, requests, refused, extracting>>

IngestAnswers(i) == i.pc = "committed" /\ IngestEnds(i, TRUE)

\* Mutant: an error is answered with a 2xx.
IngestFailsQuietly(i) == i.pc = "read" /\ IngestEnds(i, TRUE)

\* Any exception: rollback and 500.
IngestFails(i) == i.pc = "read" /\ IngestEnds(i, FALSE)

-----------------------------------------------------------------------------
(* extract-job, once it is asked for.                                      *)

ExtractReads(u) ==
    /\ jobs[u].text # 0 /\ jobs[u].extracted = 0
    /\ extracting[u] = 0
    /\ extracting' = [extracting EXCEPT ![u] = jobs[u].text]
    /\ UNCHANGED <<board, tables, fetches, queueVars, requests, ingests, refused>>

ExtractEnds(u) ==
    /\ extracting[u] # 0
    /\ extracting' = [extracting EXCEPT ![u] = 0]
    /\ UNCHANGED <<board, companies, fetches, queueVars, requests, ingests, refused>>

\* The compare-and-set on extracted_at; it does not look at raw_jd again.
ExtractCommits(u) ==
    /\ ExtractEnds(u)
    /\ jobs' = [jobs EXCEPT ![u].extracted = IF @ = 0 THEN extracting[u] ELSE @]

ExtractFails(u) == ExtractEnds(u) /\ UNCHANGED jobs

-----------------------------------------------------------------------------

\* A process dies: its coroutine and, with the local queue, the tasks, their
\* requests and the threads.
Crash(p) ==
    /\ fetches' = [f \in Fetches |->
           IF Running(f) /\ fetches[f].process = p
           THEN [fetches[f] EXCEPT !.pc = "failed"] ELSE fetches[f]]
    /\ ingests' = {i \in ingests : i.process # p}
    /\ IF QueueInProcess
       THEN /\ Queue!Lose
            /\ requests' = {}
            /\ extracting' = [u \in Urls |-> 0]
       ELSE UNCHANGED <<queueVars, requests, extracting>>
    /\ UNCHANGED <<board, tables, refused>>

Board(u) == BoardPublishes(u) \/ BoardRemoves(u)

FetchStep(f) ==
    \/ FetchRefused(f) \/ FetchPermanent(f) \/ FetchLists(f) \/ FetchFilters(f)
    \/ FetchCommits(f) \/ FetchFails(f)
    \/ FetchFlushes(f) \/ FetchFlushFails(f) \/ FetchAnswers(f)

IngestStep ==
    \/ \E p \in Processes, r \in requests : IngestReads(p, r) \/ IngestPermanent(p, r)
    \/ \E i \in ingests : IngestCommits(i) \/ IngestAnswers(i) \/ IngestFails(i)

ExtractStep(u) == ExtractReads(u) \/ ExtractCommits(u) \/ ExtractFails(u)

Step ==
    \/ \E u \in Urls : Board(u) \/ ExtractStep(u)
    \/ \E f \in Fetches : FetchStep(f)
    \/ \E t \in Tasks : Post(t)
    \/ IngestStep
    \/ \E p \in Processes : Crash(p)

Next ==
    \/ Step
    \/ \E f \in Fetches : FetchResolve(f)
    \/ \E t \in Tasks : PostTimeout(t)

Spec == Init /\ [][Next]_vars

-----------------------------------------------------------------------------
(* Properties                                                              *)

TypeOK ==
    /\ board \in [Urls -> [version : Version, listed : BOOLEAN]]
    /\ companies \in 0..Cardinality(Fetches)
    /\ jobs \in [Urls -> [text : Version, extracted : Version]]
    /\ fetches \in [Fetches -> Fetch]
    /\ status \in [Tasks -> Queue!Status]
    /\ posts \in [Tasks -> 0..MaxAttempts]
    /\ requests \subseteq Request
    /\ ingests \subseteq Ingest
    /\ refused \subseteq Tasks
    /\ extracting \in [Urls -> Version]
    \* a task in the queue has a post left
    /\ \A t \in Tasks : status[t] = "queued" => posts[t] < MaxAttempts

\* fetch_link_list and ingest_posting: a posting that an answered fetch has
\* listed is in the table, or on its way there, or somebody said why not: a
\* permanent failure, or a task that the queue gave up.
ListedIsCovered ==
    \A f \in Fetches : fetches[f].pc = "done" =>
        \A u \in Listed(f) :
            \/ jobs[u].text # 0
            \/ \E g \in Fetches :
                   \/ status[<<g, u>>] \in {"queued", "posting", "dropped"}
                   \/ <<g, u>> \in refused

\* _resolve_company: a board has one company, although no constraint says so.
OneCompany == companies <= 1

\* In a single process, whose event loop runs one fetch at a time, it has.
OneCompanyPerBoard == Cardinality(Processes) = 1 => OneCompany

\* ingest_posting never replaces raw_jd by an older text of the posting.
TextNeverOlder == [][\A u \in Urls : jobs'[u].text >= jobs[u].text]_vars

\* ingest_posting, extract_job: the extraction, made once and for good,
\* describes the text in its row.
ExtractionIsCurrent == \A u \in Urls : jobs[u].extracted \in {0, jobs[u].text}

\* No ingest-job is queued, posted, waiting for an event loop or running.
Settled ==
    /\ \A t \in Tasks : status[t] \notin {"queued", "posting"}
    /\ requests = {} /\ ingests = {}
=============================================================================
