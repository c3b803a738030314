------------------------------ MODULE SkillIds ------------------------------
(***************************************************************************)
(* The skill ids that jobs, profiles and match rows store, while the graph *)
(* they refer to is built and rebuilt: extract-job and profile ingest link *)
(* them, match-batch sorts those of a job into buckets, and after the      *)
(* graph has replaced the old taxonomy scripts/backfill_skill_ids.py       *)
(* rewrites what was stored before.                                        *)
(*                                                                         *)
(* An id is that of a concept, <<"esco", uri>> or <<"onet", external>>, or *)
(* one from before: <<"uri", uri>> of the old skills table, or             *)
(* <<"seed", slug>> of the in-repo seed.                                   *)
(*                                                                         *)
(* A build and a backfill are transactions: others see what they have      *)
(* committed.  The backfill reads each table when it gets there, and its   *)
(* rewrites wait in the session until the next read flushes them; a row it *)
(* has flushed is locked until it commits.                                 *)
(*                                                                         *)
(* Left out: the order of the ids in an array and duplicates in one, which *)
(* pairs a cycle looks at and why (MatchCycle), the dry run (it ends like  *)
(* an abort), requests for rows that are not there.                        *)
(***************************************************************************)
EXTENDS Fabrication

CONSTANTS
    Jobs, Users,
    JobIds,         \* skill_ids of the jobs extracted before the graph
    ProfileIds,     \* skill_ids of the profiles ingested before it
    JobSpans,       \* the lists of spans that extraction may find in a posting
    ResumeSpans,    \* those that a parser may find in a resume
    Payloads,       \* skill_ids a client may send in an edit
    SeedSlugs,      \* the seed taxonomy
    SeedLabels,     \* the keys of the labels of each of its records
    Siblings,       \* _SIBLING_LABEL_GROUPS
    MaxMatches      \* bound on the match rows

None == {<<"none">>}   \* no array

ASSUME SkillIdsConstants ==
    /\ DOMAIN JobIds \subseteq Jobs /\ DOMAIN ProfileIds \subseteq Users
    /\ DOMAIN SeedLabels = SeedSlugs
    /\ \A s \in SeedSlugs : SeedLabels[s] \in Seq(Seq(STRING))
    /\ \A j \in DOMAIN JobIds : \A id \in JobIds[j] : id[1] \in {"uri", "seed"}
    /\ MaxMatches \in Nat

VARIABLES
    jobs,       \* jobs.skill_ids, None before the extraction
    profiles,   \* user_profiles.skill_ids, None before the ingest
    matches,    \* match rows, [user, job, buckets], in the order of their insertion
    cycle,      \* the row that a running match-batch is about to insert
    backfill    \* the running backfill: where it is and what it has read

rowVars == <<jobs, profiles, matches>>
idVars == <<jobs, profiles, matches, cycle, backfill>>
allVars == <<vars, idVars>>

NoRow == <<>>
NoBackfill == [pc |-> "idle", resolver |-> EmptyGraph, jobs |-> <<>>, profiles |-> <<>>,
               matches |-> <<>>]

IdsInit ==
    /\ Init
    /\ jobs = [j \in Jobs |-> IF j \in DOMAIN JobIds THEN JobIds[j] ELSE None]
    /\ profiles = [u \in Users |-> IF u \in DOMAIN ProfileIds THEN ProfileIds[u] ELSE None]
    /\ matches = <<>>
    /\ cycle = NoRow
    /\ backfill = NoBackfill

-----------------------------------------------------------------------------
(***************************************************************************)
(* SkillIdResolver: what a stored id is rewritten to.                      *)
(***************************************************************************)
\* An official uri, by the mappings of the ESCO rows.
EscoExternal(g, uri) ==
    LET concepts == {m.concept : m \in {x \in g.mappings :
                                            x.source[1] = "esco" /\ x.source[3] = uri}}
    IN  IF concepts = {} THEN NoLink
        ELSE CHOOSE c \in concepts : \A d \in concepts : Rank(c) <= Rank(d)

\* A slug, by the labels of its record, if it has one, and by itself.
SeedKeys(slug) == (IF slug \in SeedSlugs THEN SeedLabels[slug] ELSE <<>>) \o <<slug>>

FirstLink(links) ==
    LET hits == {i \in DOMAIN links : links[i] # NoLink}
    IN  IF hits = {} THEN NoLink ELSE links[Min(hits)]

ResolveSeed(g, slug) ==
    LET keys == SeedKeys(slug)
    IN  FirstLink([i \in DOMAIN keys |-> ExactLink(g, keys[i])])

resolve(g, id) ==
    IF id \in ConceptIds(g) THEN id
    ELSE IF id[1] = "uri" THEN EscoExternal(g, id[2])
    ELSE IF id[1] = "seed" THEN ResolveSeed(g, id[2])
    ELSE NoLink

\* A mutant: an id that is a concept's already is not kept.
RewriteOldOnly(g, ids) == {resolve(g, id) : id \in ids \ ConceptIds(g)} \ {NoLink}

rewrite_skill_ids(g, ids) == {resolve(g, id) : id \in ids} \ {NoLink}

-----------------------------------------------------------------------------
(***************************************************************************)
(* Buckets.                                                                *)
(***************************************************************************)
\* The name of a concept, the slug of a seed id; other ids have no label that
\* is in a group.
LabelFor(g, id) ==
    IF id \in ConceptIds(g) THEN SkillName(g, id)
    ELSE IF id[1] = "seed" THEN id[2] ELSE <<>>

IsAdjacent(label, profileLabels) ==
    \E group \in Siblings : label \in group /\ (profileLabels \cap group) \ {label} # {}

\* A mutant: what is adjacent counts as nothing.
BucketsWithoutAdjacent(g, jobIds, profileIds) ==
    LET labels == {LabelFor(g, id) : id \in profileIds}
    IN  [matched |-> jobIds \cap profileIds,
         adjacent |-> {},
         missing |-> {id \in jobIds \ profileIds : ~IsAdjacent(LabelFor(g, id), labels)}]

skill_buckets(g, jobIds, profileIds) ==
    LET labels == {LabelFor(g, id) : id \in profileIds}
        adjacent == {id \in jobIds \ profileIds : IsAdjacent(LabelFor(g, id), labels)}
    IN  [matched |-> jobIds \cap profileIds,
         adjacent |-> adjacent,
         missing |-> (jobIds \ profileIds) \ adjacent]

Buckets == {"matched", "adjacent", "missing"}

-----------------------------------------------------------------------------
(***************************************************************************)
(* The writers of ids.                                                     *)
(***************************************************************************)
SeedLink(key) ==
    LET slugs == {s \in SeedSlugs : key \in ToSet(SeedKeys(s))}
    IN  IF slugs = {} THEN NoLink ELSE <<"seed", CHOOSE s \in slugs : TRUE>>

\* extract-job links once, and not to an empty graph.
ExtractJob(j) ==
    /\ jobs[j] = None
    /\ ConceptIds(graph) # {}
    /\ \E spans \in JobSpans :
           jobs' = [jobs EXCEPT ![j] = PgLinkReport(graph, NoModel, ToSet(spans))]
    /\ UNCHANGED <<vars, profiles, matches, cycle, backfill>>

\* The rewrite of a row, which the backfill omits when it changes nothing.
Rewrites(ids) == ids # None /\ rewrite_skill_ids(backfill.resolver, ids) # ids

Locked(u) == backfill.pc = "matches" /\ Rewrites(backfill.profiles[u])

\* Profile ingest falls back to the seed while there is no graph, and to a scan
\* of the text when no span links.
IngestProfile(u) ==
    /\ ~Locked(u)
    /\ LET seeded == ConceptIds(graph) = {}
           link(key) == IF seeded THEN SeedLink(key) ELSE PgLinkSpan(graph, NoModel, key)
           scan(words) == IF seeded THEN {SeedLink(k) : k \in Ngrams(words)} \ {NoLink}
                          ELSE PgScan(graph, words)
       IN  \E spans \in ResumeSpans :
               LET ids == link_span_report(link, ToSet(spans))
                   text == FlattenSeq([i \in DOMAIN spans |-> FlattenSeq(spans[i])])
               IN  profiles' = [profiles EXCEPT ![u] = IF ids # {} THEN ids ELSE scan(text)]
    /\ UNCHANGED <<vars, jobs, matches, cycle, backfill>>

\* An edit stores the ids it is sent as they are.
EditProfile(u, ids) ==
    /\ profiles[u] # None
    /\ ~Locked(u)
    /\ profiles' = [profiles EXCEPT ![u] = ids]
    /\ UNCHANGED <<vars, jobs, matches, cycle, backfill>>

\* match-batch reads a pair, calls the reranker, and inserts the row later.
MatchRead(u, j) ==
    /\ cycle = NoRow
    /\ Len(matches) < MaxMatches
    /\ None \notin {jobs[j], profiles[u]}
    /\ cycle' = [user |-> u, job |-> j,
                 buckets |-> skill_buckets(graph, jobs[j], profiles[u])]
    /\ UNCHANGED <<vars, rowVars, backfill>>

MatchCommit ==
    /\ cycle # NoRow
    /\ matches' = Append(matches, cycle)
    /\ cycle' = NoRow
    /\ UNCHANGED <<vars, jobs, profiles, backfill>>

MatchAborts ==
    /\ cycle # NoRow
    /\ cycle' = NoRow
    /\ UNCHANGED <<vars, rowVars, backfill>>

-----------------------------------------------------------------------------
(***************************************************************************)
(* The backfill: jobs, then profiles, then matches.                        *)
(***************************************************************************)
BackfillLoad ==
    /\ backfill.pc = "idle"
    /\ backfill' = [NoBackfill EXCEPT !.pc = "loaded", !.resolver = graph]
    /\ UNCHANGED <<vars, rowVars, cycle>>

BackfillJobs ==
    /\ backfill.pc = "loaded"
    /\ backfill' = [backfill EXCEPT !.pc = "jobs", !.jobs = jobs]
    /\ UNCHANGED <<vars, rowVars, cycle>>

BackfillProfiles ==
    /\ backfill.pc = "jobs"
    /\ backfill' = [backfill EXCEPT !.pc = "profiles", !.profiles = profiles]
    /\ UNCHANGED <<vars, rowVars, cycle>>

BackfillMatches ==
    /\ backfill.pc = "profiles"
    /\ backfill' = [backfill EXCEPT !.pc = "matches", !.matches = matches]
    /\ UNCHANGED <<vars, rowVars, cycle>>

\* What a row holds after the commit, now being what it holds before.
Backfilled(read, now) ==
    IF Rewrites(read) THEN rewrite_skill_ids(backfill.resolver, read) ELSE now

\* A mutant: the missing skills of the match rows are not rewritten.
BackfilledBucketsTwo(m, row) ==
    IF m \notin DOMAIN backfill.matches THEN row
    ELSE [row EXCEPT !.buckets = [f \in Buckets |->
             IF f = "missing" THEN row.buckets[f]
             ELSE Backfilled(backfill.matches[m].buckets[f], row.buckets[f])]]

BackfilledBuckets(m, row) ==
    IF m \notin DOMAIN backfill.matches THEN row
    ELSE [row EXCEPT !.buckets = [f \in Buckets |->
             Backfilled(backfill.matches[m].buckets[f], row.buckets[f])]]

BackfillCommit ==
    /\ backfill.pc = "matches"
    /\ jobs' = [j \in Jobs |-> Backfilled(backfill.jobs[j], jobs[j])]
    /\ profiles' = [u \in Users |-> Backfilled(backfill.profiles[u], profiles[u])]
    /\ matches' = [m \in DOMAIN matches |-> BackfilledBuckets(m, matches[m])]
    /\ backfill' = NoBackfill
    /\ UNCHANGED <<vars, cycle>>

BackfillAborts ==
    /\ backfill.pc # "idle"
    /\ backfill' = NoBackfill
    /\ UNCHANGED <<vars, rowVars, cycle>>

-----------------------------------------------------------------------------

RowStep ==
    \/ \E j \in Jobs : ExtractJob(j)
    \/ \E u \in Users : IngestProfile(u)
    \/ \E u \in Users, ids \in Payloads : EditProfile(u, ids)
    \/ \E u \in Users, j \in Jobs : MatchRead(u, j)
    \/ MatchCommit \/ MatchAborts

BackfillStep ==
    \/ BackfillLoad \/ BackfillJobs \/ BackfillProfiles \/ BackfillMatches
    \/ BackfillCommit \/ BackfillAborts

IdsNext ==
    \/ Next /\ UNCHANGED idVars
    \/ RowStep
    \/ BackfillStep

IdsSpec == IdsInit /\ [][IdsNext]_allVars

\* A backfill run with care: no build commits and no cycle is open while it
\* runs, and no profile is written once it has read them.  (What others do during
\* a build they may as well do before its commit: it reads none of their rows.)
Calm ==
    /\ build.pc # "idle" => UNCHANGED idVars
    /\ backfill'.pc # "idle" =>
           /\ graph' = graph
           /\ cycle' = NoRow
           /\ backfill.pc \in {"profiles", "matches"} => profiles' = profiles

CalmSpec == IdsInit /\ [][IdsNext /\ Calm]_allVars

-----------------------------------------------------------------------------
(***************************************************************************)
(* Properties.                                                             *)
(***************************************************************************)
Meaning(g, ids) == {resolve(g, id) : id \in ids} \ {NoLink}

Canonical(ids) == ids \subseteq ConceptIds(graph)

\* No step changes which concepts the stored ids of a job or of a match row
\* stand for: no rewrite loses an id that can be resolved or moves it to another
\* bucket, and no build gives an id that is not a seed another meaning.
StoredSkillsKeepMeaning ==
    [][/\ \A j \in Jobs : jobs[j] # None =>
              Meaning(graph', jobs[j]) = Meaning(graph', jobs'[j])
       /\ \A m \in DOMAIN matches, f \in Buckets :
              Meaning(graph', matches[m].buckets[f]) = Meaning(graph', matches'[m].buckets[f])
       /\ \A j \in Jobs : \A id \in {x \in jobs[j] : x[1] \in {"esco", "onet", "uri"}} :
              resolve(graph, id) \in {NoLink, resolve(graph', id)}]_allVars

\* A backfill leaves no old id behind, although jobs are extracted and profiles
\* edited and ingested while it runs: a second one would find nothing to do.
BackfillSettles ==
    [][BackfillCommit =>
           /\ \A j \in Jobs : jobs'[j] # None => Canonical(jobs'[j])
           /\ \A u \in Users : profiles'[u] # None => Canonical(profiles'[u])
           /\ \A m \in DOMAIN matches', f \in Buckets : Canonical(matches'[m].buckets[f])]_allVars

\* The buckets of a match do not overlap.
BucketsAreDisjoint ==
    \A m \in DOMAIN matches, f \in Buckets, h \in Buckets :
        f # h => matches[m].buckets[f] \cap matches[m].buckets[h] = {}

\* The profiles that have ids, old or new.
Profiled == {u \in Users : profiles[u] # None}

\* An employer has at most one of the suffixes: one is taken off a name.
OneSuffix(history) ==
    \A name \in SourceEmployers(history) : normalize_employer(name) = name

\* The aliases of other concepts that a text is scanned for.
Foreign(ids) ==
    {a \in DOMAIN graph.aliases :
        /\ a[1] \notin ids
        /\ a[2] \notin Ambiguous /\ Len(a[2]) <= ScanMaxNgram
        /\ graph.aliases[a].type # "derived"}

\* The name of a skill contains an alias of another concept, or links to one.
Misleads(name, ids) ==
    \/ \E a \in Foreign(ids) : a[2] \in Ngrams(name)
    \/ PgLinkSpan(graph, NoModel, name) \notin ids \cup {NoLink}

\* A resume that says no more than its history and profile is never refused for an
\* employer, a title, a date or a number.  It is for a skill if, and unless its
\* prose has a word of such an alias only if, the name of a skill of the profile
\* leads to a concept the profile has not.
HonestResumesPass ==
    Settled => \A u \in Profiled, history \in {h \in Histories : OneSuffix(h)} :
        LET ids == profiles[u]
            codes == run_deterministic_checks(graph, NoModel, HonestResume(graph, history, ids),
                                              history, ids)
            misled == \E name \in NamesOf(graph, ids) : Misleads(name, ids)
            plain == \A a \in Foreign(ids) : ToSet(a[2]) \cap ToSet(Prose) = {}
        IN  /\ codes \subseteq {"out_of_set_skill"}
            /\ misled => codes # {}
            /\ plain /\ ~misled => codes = {}

\* The first year in the range is one of the history.
BeginsInHistory(range, history) ==
    \E i \in DOMAIN range :
        /\ range[i].year # 0 /\ \A k \in 1..(i - 1) : range[k].year = 0
        /\ \E e \in history : range[i].year \in {e.start.year, e.end.year}

\* An employer, a title, a number or a skill that is not in the source is caught,
\* however it got into the resume, if the claim map names it or, for numbers and
\* for names of skills, the text does.  Of a date range only the first year is
\* compared: it is caught if and only if that is no year of the history.
FabricationsAreCaught ==
    Settled => \A u \in Profiled, history \in Histories :
        LET ids == profiles[u]
            honest == HonestResume(graph, history, ids)
            codes(resume) == run_deterministic_checks(graph, NoModel, resume, history, ids)
        IN  /\ \A p \in Planted(graph, honest, ids) : p[1] \in codes(p[2])
            /\ \A range \in Ranges : \A resume \in WithRange(honest, range) :
                   "unknown_date_range" \in codes(resume) <=> ~BeginsInHistory(range, history)
=============================================================================
