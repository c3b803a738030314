-------------------------------- MODULE Feed --------------------------------
(***************************************************************************)
(* The match feed: what GET /api/matches shows of the stored rows, and the *)
(* events that clicks on its cards leave in pipeline_events.  A rematch    *)
(* inserts a newer row of the same job and keeps the older ones.           *)
(*                                                                         *)
(* An event is stamped with the start of its transaction; it is in events  *)
(* from then on, and visible to others once it is committed.               *)
(*                                                                         *)
(* Left out: requests that are refused (they change nothing), reports, the *)
(* order of the cards, the columns of jobs and companies.  Cycles do not   *)
(* overlap, so the newest cycle's row is the one inserted last.            *)
(***************************************************************************)
EXTENDS SkillIds

CONSTANTS
    UiEvents,   \* what a client may post, [action, detail], valid by the schema
    MaxEvents,  \* bound on the posts
    MaxOpen,    \* bound on the posts that are handled at the same time
    MaxDrafts   \* bound on the drafts

UiActions == {"viewed", "skipped", "generate_requested", "marked_applied", "outcome"}

ASSUME FeedConstants ==
    /\ \A e \in UiEvents : e.action \in UiActions /\ e.detail # "none"
    /\ {MaxEvents, MaxOpen, MaxDrafts} \subseteq Nat

VARIABLES
    events,     \* the events of stage "ui", [match, user, job, action, detail,
                \* committed]: match is in the path of the post, not in the row
    drafts      \* the generations, [match, attempt], in the order of their ids

feedVars == <<events, drafts>>
everything == <<allVars, feedVars>>

FeedInit == IdsInit /\ events = <<>> /\ drafts = <<>>

-----------------------------------------------------------------------------
(***************************************************************************)
(* GET /api/matches.                                                       *)
(***************************************************************************)
RowsOf(user, job) == {m \in DOMAIN matches : matches[m].user = user /\ matches[m].job = job}
MatchedJobs(user) == {matches[m].job : m \in {x \in DOMAIN matches : matches[x].user = user}}

\* A mutant: the first row, and not the newest.
OldestRow(user, job) == Min(RowsOf(user, job))

LatestRow(user, job) == Max(RowsOf(user, job))

\* A mutant: of the events, those that were posted to the row on the card.
EventsOfRow(user, job) ==
    {i \in DOMAIN events : /\ events[i].committed
                           /\ events[i].user = user /\ events[i].job = job
                           /\ events[i].match = LatestRow(user, job)}

EventsOf(user, job) ==
    {i \in DOMAIN events : /\ events[i].committed
                           /\ events[i].user = user /\ events[i].job = job}

\* For each action the newest of its events.
UiState(user, job) ==
    LET of(action) == {i \in EventsOf(user, job) : events[i].action = action}
    IN  [action \in UiActions |-> IF of(action) = {} THEN "none"
                                  ELSE events[Max(of(action))].detail]

\* An id that is not a concept's is its own label.
SkillRefs(ids) ==
    {[id |-> id,
      label |-> IF id \in ConceptIds(graph) THEN SkillName(graph, id) ELSE id] : id \in ids}

DraftsOf(m) == {i \in DOMAIN drafts : drafts[i].match = m}

\* The draft of a row whose id is largest.
LatestGeneration(m) == IF DraftsOf(m) = {} THEN <<>> ELSE <<drafts[Max(DraftsOf(m))]>>

Card(user, job) ==
    LET m == LatestRow(user, job)
    IN  [match |-> m, job |-> job, ui |-> UiState(user, job),
         skills |-> [f \in Buckets |-> SkillRefs(matches[m].buckets[f])],
         generation |-> LatestGeneration(m)]

list_matches(user) == {Card(user, j) : j \in MatchedJobs(user)}

-----------------------------------------------------------------------------
(***************************************************************************)
(* POST /api/matches/{id}/events, and the drafts of generate-resume.       *)
(***************************************************************************)
Open == {i \in DOMAIN events : ~events[i].committed}

\* A mutant: every view is recorded.
ViewedAnyway(m) == FALSE

AlreadyViewed(m) ==
    \E i \in DOMAIN events \ Open :
        /\ events[i].action = "viewed"
        /\ events[i].user = matches[m].user
        /\ events[i].job = matches[m].job

\* The view of a job is recorded once.
BeginEvent(m, e) ==
    /\ Len(events) < MaxEvents
    /\ Cardinality(Open) < MaxOpen
    /\ e.action = "viewed" => ~AlreadyViewed(m)
    /\ events' = Append(events, [match |-> m, user |-> matches[m].user,
                                 job |-> matches[m].job, action |-> e.action,
                                 detail |-> e.detail, committed |-> FALSE])
    /\ UNCHANGED <<allVars, drafts>>

CommitEvent(i) ==
    /\ events' = [events EXCEPT ![i].committed = TRUE]
    /\ UNCHANGED <<allVars, drafts>>

EventFails(i) ==
    /\ events' = RemoveAt(events, i)
    /\ UNCHANGED <<allVars, drafts>>

\* The id of a new draft is random, so it may sort anywhere among the others.
InsertDraft(m) ==
    /\ Len(drafts) < MaxDrafts
    /\ LET attempt == Cardinality(DraftsOf(m)) + 1 IN
       \E i \in 1..(Len(drafts) + 1) :
           drafts' = InsertAt(drafts, i, [match |-> m, attempt |-> attempt])
    /\ UNCHANGED <<allVars, events>>

FeedStep ==
    \/ \E m \in DOMAIN matches, e \in UiEvents : BeginEvent(m, e)
    \/ \E i \in Open : CommitEvent(i) \/ EventFails(i)
    \/ \E m \in DOMAIN matches : InsertDraft(m)

FeedNext ==
    \/ IdsNext /\ UNCHANGED feedVars
    \/ FeedStep

FeedSpec == FeedInit /\ [][FeedNext]_everything

\* The backfills are run with care.
CalmFeedSpec == FeedInit /\ [][FeedNext /\ Calm]_everything

-----------------------------------------------------------------------------
(***************************************************************************)
(* Properties.                                                             *)
(***************************************************************************)
\* One card per job, that of its newest row, however often the job has been
\* matched again; its chips are the skills of the job as it is stored now, under
\* the names they have now, and its marks are what the user has said of the job,
\* also on the cards of earlier rows.
CardIsCurrent ==
    \A user \in Users :
        LET cards == list_matches(user) IN
        /\ Cardinality(cards) = Cardinality({c.job : c \in cards})
        /\ \A c \in cards :
               LET refs == UNION {c.skills[f] : f \in Buckets} IN
               /\ \A m \in DOMAIN matches : m > c.match =>
                      <<matches[m].user, matches[m].job>> # <<user, c.job>>
               /\ {r.id : r \in refs} = jobs[c.job]
               /\ \A r \in refs : r.id \in ConceptIds(graph) =>
                      r.label = SkillName(graph, r.id)
               /\ \A e \in ToSet(events) :
                      e.committed /\ e.user = user /\ e.job = c.job => c.ui[e.action] # "none"

\* docs/UI.md, of viewed: "deduped: at most one row per user + job".
ViewedOnce ==
    \A i \in DOMAIN events \ Open, k \in DOMAIN events \ Open :
        /\ {events[i].action, events[k].action} = {"viewed"}
        /\ <<events[i].user, events[i].job>> = <<events[k].user, events[k].job>>
        => i = k

\* The draft that a card leads to is the last attempt.
CardShowsLastDraft ==
    \A user \in Users : \A c \in list_matches(user) :
        c.generation # <<>> =>
            \A d \in ToSet(drafts) : d.match = c.match => d.attempt <= c.generation[1].attempt
=============================================================================
