--------------------------- MODULE SkillIdsProofs ---------------------------
(***************************************************************************)
(* Theorems about stored skill ids, for any bundles, files, stored ids,    *)
(* spans, edits, jobs and users.  When a backfill is run with care (Calm), *)
(* what the rows mean stays, a backfill leaves nothing behind, and the     *)
(* cards of the feed are current.  However it is run, the two linkers      *)
(* agree, the deterministic checks pass what a profile supports and catch  *)
(* what it does not, links move only where a bundle says so, and the       *)
(* search finds what links.                                                *)
(***************************************************************************)
EXTENDS Feed, SkillGraphProofs, SequenceTheorems

-----------------------------------------------------------------------------
(***************************************************************************)
(* Links.                                                                  *)
(***************************************************************************)
\* Of the members of a set that come first by p one comes first by r.
LEMMA FirstOf ==
    ASSUME NEW S, S # {}, NEW p, NEW r, \A c \in S : p[c] \in Nat /\ r[c] \in Nat
    PROVE  \E c \in S : \A d \in S : p[c] < p[d] \/ (p[c] = p[d] /\ r[c] <= r[d])
<1> DEFINE P == {p[c] : c \in S}
<1>1. P \in SUBSET Nat /\ P # {}
  OBVIOUS
<1>2. PICK m \in P : \A n \in P : m <= n
  <2> HIDE DEF P
  <2> QED BY <1>1, LeastNumber
<1> DEFINE first == {c \in S : p[c] = m}
           R == {r[c] : c \in first}
<1>3. R \in SUBSET Nat /\ R # {}
  BY <1>2
<1>4. PICK k \in R : \A n \in R : k <= n
  <2> HIDE DEF R
  <2> QED BY <1>3, LeastNumber
<1>5. PICK c \in first : r[c] = k
  BY <1>4
<1>6. ASSUME NEW d \in S PROVE p[c] < p[d] \/ (p[c] = p[d] /\ r[c] <= r[d])
  <2>1. p[d] \in P /\ p[c] = m /\ p[d] \in Nat /\ p[c] \in Nat
    BY <1>5
  <2>2. m <= p[d]
    BY <1>2, <2>1
  <2>3. CASE p[d] = m
    BY <1>4, <1>5, <2>1, <2>3
  <2>4. CASE p[d] # m
    BY <2>1, <2>2, <2>4
  <2> QED BY <2>3, <2>4
<1> QED BY <1>5, <1>6

\* The best of some scores is one of them.
LEMMA BestIsThere ==
    ASSUME NEW score, DOMAIN score # {}, DOMAIN score \subseteq PossibleConcepts,
           \A c \in DOMAIN score : score[c] \in Percent
    PROVE  Best(score) \in DOMAIN score
<1> DEFINE p == [c \in DOMAIN score |-> 100 - score[c]]
           r == [c \in DOMAIN score |-> Rank(c)]
<1>1. \A c \in DOMAIN score : p[c] \in Nat /\ r[c] \in Nat
  BY SkillGraphConstants DEF Percent
<1>2. PICK c \in DOMAIN score :
          \A d \in DOMAIN score : p[c] < p[d] \/ (p[c] = p[d] /\ r[c] <= r[d])
  <2> HIDE DEF p, r
  <2> QED BY <1>1, FirstOf
<1>3. IsBest(score, c)
  BY <1>2 DEF IsBest, Percent
<1> QED BY <1>3 DEF Best

LEMMA ExactLinkIsOwner ==
    ASSUME NEW g, RowsRefer(g), RowsKnown(g), NEW key
    PROVE  /\ ExactLink(g, key) \in AliasOwners(g, key) \cup {NoLink}
           /\ AliasOwners(g, key) # {} => ExactLink(g, key) \in AliasOwners(g, key)
<1> DEFINE owners == AliasOwners(g, key)
           priority(c) == AliasPriority[g.aliases[<<c, key>>].type]
           p == [c \in owners |-> priority(c)]
           r == [c \in owners |-> Rank(c)]
<1>1. CASE owners = {}
  BY <1>1 DEF ExactLink
<1>2. CASE owners # {}
  <2>1. ASSUME NEW c \in owners PROVE p[c] \in Nat /\ r[c] \in Nat
    <3>1. PICK a \in DOMAIN g.aliases : a[1] = c /\ a[2] = key
      BY DEF AliasOwners
    <3>2. c \in PossibleConcepts
      BY <3>1 DEF RowsRefer, RowsKnown
    <3>3. <<c, key>> \in DOMAIN g.aliases
      BY <3>1 DEF RowsKnown
    <3>4. priority(c) \in Nat
      BY <3>3, Priorities DEF RowsKnown
    <3> QED BY <3>2, <3>4, SkillGraphConstants DEF RowsKnown
  <2>2. \E c \in owners : \A d \in owners : p[c] < p[d] \/ (p[c] = p[d] /\ r[c] <= r[d])
    <3> HIDE DEF p, r, owners
    <3> QED BY <1>2, <2>1, FirstOf
  <2>3. \E c \in owners : \A d \in owners :
            \/ priority(c) < priority(d)
            \/ priority(c) = priority(d) /\ Rank(c) <= Rank(d)
    BY <2>2
  <2>4. ExactLink(g, key) = CHOOSE c \in owners : \A d \in owners :
            \/ priority(c) < priority(d)
            \/ priority(c) = priority(d) /\ Rank(c) <= Rank(d)
    BY <1>2 DEF ExactLink
  <2> HIDE DEF owners, priority
  <2> QED BY <2>3, <2>4 DEF owners
<1> QED BY <1>1, <1>2

-----------------------------------------------------------------------------
(***************************************************************************)
(* What links are, in a graph whose rows refer to each other.              *)
(***************************************************************************)
Sound(g) == RowsRefer(g) /\ RowsKnown(g) /\ EscoMapped(g)

LEMMA ConceptsArePairs ==
    ASSUME NEW g, Sound(g)
    PROVE  /\ NoLink \notin ConceptIds(g)
           /\ \A c \in ConceptIds(g) : c[1] \in {"esco", "onet"} /\ c # <<"none">>
BY DEF Sound, RowsKnown, PossibleConcepts, canonical_concept_id, NoLink

LEMMA OwnersAreConcepts ==
    ASSUME NEW g, Sound(g), NEW key
    PROVE  AliasOwners(g, key) \subseteq ConceptIds(g)
BY DEF Sound, RowsRefer, AliasOwners

LEMMA ExactLinkKnown ==
    ASSUME NEW g, Sound(g), NEW key
    PROVE  ExactLink(g, key) \in ConceptIds(g) \cup {NoLink}
BY ExactLinkIsOwner, OwnersAreConcepts DEF Sound

LEMMA ScoresAreNumbers ==
    ASSUME NEW g, NEW keys, NEW threshold, NEW c \in DOMAIN TrgmScores(g, keys, threshold)
    PROVE  TrgmScores(g, keys, threshold)[c] \in Percent
<1> DEFINE similarities == {Similarity(a[2], k) : a \in {x \in DOMAIN g.aliases : x[1] = c},
                                                  k \in keys}
           found == {0} \cup (similarities \cap Percent)
<1>1. TrgmScores(g, keys, threshold)[c] = Max(found)
  BY DEF TrgmScores
<1>2. found \in SUBSET (0..100) /\ found # {}
  BY DEF Percent
<1> HIDE DEF found
<1>3. Max(found) \in found
  BY <1>2, MaxIsThere
<1> QED BY <1>1, <1>2, <1>3 DEF Percent

LEMMA TrgmLinkKnown ==
    ASSUME NEW g, Sound(g), NEW key
    PROVE  TrgmLink(g, key) \in ConceptIds(g) \cup {NoLink}
<1> DEFINE score == TrgmScores(g, {key}, TrgmLinkThreshold)
<1>1. DOMAIN score \subseteq ConceptIds(g)
  BY DEF TrgmScores, Sound, RowsRefer
<1>2. \A c \in DOMAIN score : score[c] \in Percent
  BY ScoresAreNumbers
<1>3. DOMAIN score \subseteq PossibleConcepts
  BY <1>1 DEF Sound, RowsKnown
<1>4. TrgmLink(g, key) = IF DOMAIN score = {} THEN NoLink ELSE Best(score)
  BY DEF TrgmLink
<1> HIDE DEF score
<1>5. DOMAIN score # {} => Best(score) \in DOMAIN score
  BY <1>2, <1>3, BestIsThere
<1> QED BY <1>1, <1>4, <1>5

\* Without a model there is no vector stage.
LEMMA NoVectorLink ==
    ASSUME NEW g, NEW key
    PROVE  VectorLink(g, NoModel, key) = NoLink
BY DEF VectorLink, VectorStage

LEMMA MinIsThere ==
    ASSUME NEW S \in SUBSET Nat, S # {}
    PROVE  Min(S) \in S /\ \A k \in S : Min(S) <= k
<1>1. \E m \in S : \A k \in S : m <= k
  BY LeastNumber
<1> QED BY <1>1 DEF Min

LEMMA FirstLinkKnown ==
    ASSUME NEW links, DOMAIN links \in SUBSET Nat, NEW C,
           \A i \in DOMAIN links : links[i] \in C \cup {NoLink}
    PROVE  FirstLink(links) \in C \cup {NoLink}
<1> DEFINE hits == {i \in DOMAIN links : links[i] # NoLink}
<1>1. FirstLink(links) = IF hits = {} THEN NoLink ELSE links[Min(hits)]
  BY DEF FirstLink
<1>2. hits \in SUBSET Nat /\ hits \subseteq DOMAIN links
  OBVIOUS
<1>3. hits # {} => Min(hits) \in hits
  <2> HIDE DEF hits
  <2> QED BY <1>2, MinIsThere
<1> QED BY <1>1, <1>2, <1>3

LEMMA PgLinkSpanKnown ==
    ASSUME NEW g, Sound(g), NEW key
    PROVE  PgLinkSpan(g, NoModel, key) \in ConceptIds(g) \cup {NoLink}
BY ExactLinkKnown, TrgmLinkKnown, NoVectorLink DEF PgLinkSpan

LEMMA PgLinkReportKnown ==
    ASSUME NEW g, Sound(g), NEW spans
    PROVE  PgLinkReport(g, NoModel, spans) \subseteq ConceptIds(g)
BY PgLinkSpanKnown DEF PgLinkReport, link_span_report

-----------------------------------------------------------------------------
(***************************************************************************)
(* What an id resolves to, and what a rewrite keeps.                       *)
(***************************************************************************)
LEMMA EscoExternalIs ==
    ASSUME NEW g, Sound(g), NEW uri
    PROVE  \/ /\ EscoExternal(g, uri) = NoLink
              /\ ~\E m \in g.mappings : m.source[1] = "esco" /\ m.source[3] = uri
           \/ /\ EscoExternal(g, uri) = canonical_concept_id("esco", uri)
              /\ canonical_concept_id("esco", uri) \in ConceptIds(g)
              /\ \E m \in g.mappings : m.source[1] = "esco" /\ m.source[3] = uri
<1> DEFINE concepts == {m.concept : m \in {x \in g.mappings :
                                               x.source[1] = "esco" /\ x.source[3] = uri}}
<1>1. EscoExternal(g, uri) = IF concepts = {} THEN NoLink
          ELSE CHOOSE c \in concepts : \A d \in concepts : Rank(c) <= Rank(d)
  BY DEF EscoExternal
<1>2. concepts \subseteq {<<"esco", uri>>} \cap ConceptIds(g)
  BY DEF Sound, EscoMapped, RowsRefer, canonical_concept_id
<1>3. CASE concepts = {}
  BY <1>1, <1>3
<1>4. CASE concepts # {}
  <2>1. concepts = {<<"esco", uri>>} /\ <<"esco", uri>> \in ConceptIds(g)
    BY <1>2, <1>4
  <2>2. Rank(<<"esco", uri>>) \in Nat
    BY <2>1, SkillGraphConstants DEF Sound, RowsKnown
  <2>3. \E m \in g.mappings : m.source[1] = "esco" /\ m.source[3] = uri
    BY <1>4
  <2> HIDE DEF concepts
  <2>4. EscoExternal(g, uri) \in concepts
    BY <1>1, <1>4, <2>1, <2>2
  <2> QED BY <2>1, <2>3, <2>4 DEF canonical_concept_id
<1> QED BY <1>3, <1>4

LEMMA SeedKeysAreSeq ==
    ASSUME NEW slug
    PROVE  DOMAIN SeedKeys(slug) \in SUBSET Nat
<1> DEFINE labels == IF slug \in SeedSlugs THEN SeedLabels[slug] ELSE <<>>
           X == Seq(STRING) \cup {slug}
<1>1. labels \in Seq(X) /\ <<slug>> \in Seq(X)
  BY SkillIdsConstants
<1>2. SeedKeys(slug) = labels \o <<slug>>
  BY DEF SeedKeys
<1> HIDE DEF labels, X
<1>3. SeedKeys(slug) \in Seq(X)
  BY <1>1, <1>2
<1> QED BY <1>3

LEMMA ResolveKnown ==
    ASSUME NEW g, Sound(g), NEW id
    PROVE  /\ resolve(g, id) \in ConceptIds(g) \cup {NoLink}
           /\ id \in ConceptIds(g) => resolve(g, id) = id
<1>1. ResolveSeed(g, id[2]) \in ConceptIds(g) \cup {NoLink}
  <2> DEFINE keys == SeedKeys(id[2])
             links == [i \in DOMAIN keys |-> ExactLink(g, keys[i])]
  <2>1. DOMAIN links \in SUBSET Nat
    BY SeedKeysAreSeq
  <2>2. \A i \in DOMAIN links : links[i] \in ConceptIds(g) \cup {NoLink}
    BY ExactLinkKnown
  <2>3. ResolveSeed(g, id[2]) = FirstLink(links)
    BY DEF ResolveSeed
  <2> HIDE DEF keys, links
  <2> QED BY <2>1, <2>2, <2>3, FirstLinkKnown
<1>2. EscoExternal(g, id[2]) \in ConceptIds(g) \cup {NoLink}
  <2>1. PICK uri : uri = id[2]
    OBVIOUS
  <2>2. EscoExternal(g, uri) \in ConceptIds(g) \cup {NoLink}
    BY EscoExternalIs
  <2> QED BY <2>1, <2>2
<1> QED BY <1>1, <1>2 DEF resolve

LEMMA RewriteKnown ==
    ASSUME NEW g, Sound(g), NEW ids
    PROVE  /\ rewrite_skill_ids(g, ids) \subseteq ConceptIds(g)
           /\ ids \subseteq ConceptIds(g) => rewrite_skill_ids(g, ids) = ids
           /\ Meaning(g, rewrite_skill_ids(g, ids)) = Meaning(g, ids)
<1>1. rewrite_skill_ids(g, ids) \subseteq ConceptIds(g)
  BY ResolveKnown DEF rewrite_skill_ids
<1>2. \A x : x \subseteq ConceptIds(g) => rewrite_skill_ids(g, x) = x
  BY ResolveKnown, ConceptsArePairs DEF rewrite_skill_ids
<1>3. \A x : Meaning(g, x) = rewrite_skill_ids(g, x)
  BY DEF Meaning, rewrite_skill_ids
<1> QED BY <1>1, <1>2, <1>3

\* What a graph resolves, a graph with the same mappings and more resolves alike.
LEMMA ResolveStays ==
    ASSUME NEW g, NEW h, Sound(g), Sound(h), Keeps(g, h),
           NEW id, id[1] \in {"esco", "onet", "uri"}
    PROVE  resolve(g, id) \in {NoLink, resolve(h, id)}
<1>1. CASE id \in ConceptIds(g)
  BY <1>1, ResolveKnown DEF Keeps, ConceptIds
<1>2. CASE id \notin ConceptIds(g) /\ id[1] # "uri"
  BY <1>2 DEF resolve
<1>3. CASE id[1] = "uri"
  <2>1. id \notin ConceptIds(g) /\ id \notin ConceptIds(h)
    BY <1>3, ConceptsArePairs
  <2>2. resolve(g, id) = EscoExternal(g, id[2]) /\ resolve(h, id) = EscoExternal(h, id[2])
    BY <1>3, <2>1 DEF resolve
  <2>3. (\E m \in g.mappings : m.source[1] = "esco" /\ m.source[3] = id[2])
            => \E m \in h.mappings : m.source[1] = "esco" /\ m.source[3] = id[2]
    BY DEF Keeps
  <2>4. PICK uri : uri = id[2]
    OBVIOUS
  <2> QED BY <2>2, <2>3, <2>4, EscoExternalIs
<1> QED BY <1>1, <1>2, <1>3

-----------------------------------------------------------------------------
(***************************************************************************)
(* The inductive invariant.                                                *)
(***************************************************************************)
\* The ids that a job or a match row may hold: those of concepts, and old ones.
StoredIds == PossibleConcepts \cup UNION {JobIds[j] : j \in DOMAIN JobIds}

MatchRow == [user : Users, job : Jobs, buckets : [Buckets -> SUBSET StoredIds]]

AllSkills(row) == UNION {row.buckets[f] : f \in Buckets}

\* The skills of a row are those of its job, as it is stored now.
RowCurrent(row) == jobs[row.job] # None /\ AllSkills(row) = jobs[row.job]

\* What a backfill has read is as it was; only, a job may have been extracted
\* since, with the ids of concepts.
JobsRead ==
    \A j \in Jobs :
        \/ backfill.jobs[j] = jobs[j]
        \/ backfill.jobs[j] = None /\ jobs[j] \subseteq ConceptIds(graph)

BackfillOK ==
    /\ DOMAIN backfill = {"pc", "resolver", "jobs", "profiles", "matches"}
    /\ backfill.pc \in {"idle", "loaded", "jobs", "profiles", "matches"}
    /\ backfill.pc # "idle" => backfill.resolver = graph /\ cycle = NoRow
    /\ backfill.pc \in {"jobs", "profiles", "matches"} => JobsRead
    /\ backfill.pc \in {"profiles", "matches"} => backfill.profiles = profiles
    /\ backfill.pc = "matches" => backfill.matches = matches

IdsInv ==
    /\ jobs \in [Jobs -> (SUBSET StoredIds) \cup {None}]
    /\ matches \in Seq(MatchRow)
    /\ cycle \in MatchRow \cup {NoRow}
    /\ \A m \in DOMAIN matches : RowCurrent(matches[m])
    /\ cycle # NoRow => RowCurrent(cycle)
    /\ BackfillOK

-----------------------------------------------------------------------------
(***************************************************************************)
(* The builds.                                                             *)
(***************************************************************************)
GraphInv == IInv /\ RInv

LEMMA GraphIsSound == GraphInv => Sound(graph)
BY DEF GraphInv, IInv, GraphOK, RInv, Sound

LEMMA GraphInit == Init => GraphInv
BY InitIInv, InitRInv DEF GraphInv

LEMMA GraphStep ==
    ASSUME GraphInv, [Next]_vars
    PROVE  GraphInv' /\ Sound(graph') /\ Keeps(graph, graph')
<1>1. GraphInv'
  BY NextIInv, NextRInv DEF GraphInv
<1>2. Sound(graph')
  BY <1>1 DEF GraphInv, IInv, GraphOK, RInv, Sound
<1>3. graph' \in {graph, tx}
  BY DEF Next, vars, StartBuild, ImportEsco, Download, UseCache, ImportOnet, StartReconcile,
      EndStage, MatchLabel, MatchAlias, MatchNoLabel, MatchTrgm, MatchNoTrgm, MatchSemantic,
      LeaveUnresolved, MatchNothing, FoundConcept, Commit, Abort
<1>4. Keeps(graph, graph')
  BY <1>3, KeepsItself DEF GraphInv, IInv
<1> QED BY <1>1, <1>2, <1>4

-----------------------------------------------------------------------------
(***************************************************************************)
(* The writers of ids.                                                     *)
(***************************************************************************)
LEMMA ConceptsAreStored ==
    ASSUME GraphInv
    PROVE  /\ ConceptIds(graph) \subseteq StoredIds
           /\ <<"none">> \notin StoredIds
<1>1. ConceptIds(graph) \subseteq StoredIds
  BY GraphIsSound DEF Sound, RowsKnown, StoredIds
<1>2. ASSUME NEW id \in StoredIds PROVE id # <<"none">>
  <2>1. CASE id \in PossibleConcepts
    BY <2>1 DEF PossibleConcepts, canonical_concept_id
  <2>2. CASE id \in UNION {JobIds[j] : j \in DOMAIN JobIds}
    BY <2>2, SkillIdsConstants
  <2> QED BY <2>1, <2>2 DEF StoredIds
<1> QED BY <1>1, <1>2

LEMMA ExtractedKeeps ==
    ASSUME GraphInv, IdsInv, NEW j \in Jobs, ExtractJob(j)
    PROVE  IdsInv'
<1>1. PICK ids : ids \subseteq ConceptIds(graph) /\ jobs' = [jobs EXCEPT ![j] = ids]
  BY GraphIsSound, PgLinkReportKnown DEF ExtractJob
<1>2. /\ jobs[j] = None /\ matches' = matches /\ cycle' = cycle
      /\ backfill' = backfill /\ profiles' = profiles /\ graph' = graph
  BY DEF ExtractJob, vars
<1>3. ids \in SUBSET StoredIds
  BY <1>1, ConceptsAreStored
<1>4. /\ jobs' \in [Jobs -> (SUBSET StoredIds) \cup {None}]
      /\ jobs'[j] = ids /\ \A i \in Jobs \ {j} : jobs'[i] = jobs[i]
  BY <1>1, <1>3 DEF IdsInv
<1>5. ASSUME NEW row \in MatchRow, RowCurrent(row) PROVE RowCurrent(row)'
  BY <1>2, <1>4, <1>5 DEF MatchRow, RowCurrent, AllSkills
<1>6. \A m \in DOMAIN matches' : RowCurrent(matches[m])'
  BY <1>2, <1>5 DEF IdsInv
<1>7. BackfillOK'
  BY <1>1, <1>2, <1>4 DEF IdsInv, BackfillOK, JobsRead
<1> QED BY <1>2, <1>4, <1>5, <1>6, <1>7 DEF IdsInv

LEMMA ProfileKeeps ==
    ASSUME IdsInv, Calm, NEW u \in Users,
           IngestProfile(u) \/ \E ids \in Payloads : EditProfile(u, ids)
    PROVE  IdsInv'
<1>1. UNCHANGED <<vars, jobs, matches, cycle, backfill>>
  BY DEF IngestProfile, EditProfile
<1>2. backfill.pc \in {"profiles", "matches"} => profiles' = profiles
  BY <1>1 DEF Calm
<1>3. graph' = graph
  BY <1>1 DEF vars
<1> QED BY <1>1, <1>2, <1>3 DEF IdsInv, BackfillOK, JobsRead, RowCurrent, AllSkills

LEMMA BucketsAreRow ==
    ASSUME GraphInv, IdsInv, NEW u \in Users, NEW j \in Jobs, jobs[j] # None
    PROVE  LET row == [user |-> u, job |-> j,
                       buckets |-> skill_buckets(graph, jobs[j], profiles[u])]
           IN  row \in MatchRow /\ RowCurrent(row)
<1> DEFINE buckets == skill_buckets(graph, jobs[j], profiles[u])
           row == [user |-> u, job |-> j, buckets |-> buckets]
<1>1. jobs[j] \in SUBSET StoredIds
  BY DEF IdsInv
<1>2. /\ buckets["matched"] = jobs[j] \cap profiles[u]
      /\ buckets["adjacent"] \subseteq jobs[j] \ profiles[u]
      /\ buckets["missing"] = (jobs[j] \ profiles[u]) \ buckets["adjacent"]
  BY DEF skill_buckets
<1>3. buckets = [f \in Buckets |-> buckets[f]]
  BY DEF skill_buckets, Buckets
<1> HIDE DEF buckets
<1>4. buckets \in [Buckets -> SUBSET StoredIds]
  BY <1>1, <1>2, <1>3 DEF Buckets
<1>5. UNION {buckets[f] : f \in Buckets} = jobs[j]
  BY <1>2 DEF Buckets
<1> QED BY <1>4, <1>5 DEF buckets, MatchRow, RowCurrent, AllSkills

LEMMA RowIsNoNoRow == NoRow \notin MatchRow
BY DEF NoRow, MatchRow

LEMMA CycleKeeps ==
    ASSUME GraphInv, IdsInv, Calm,
           (\E u \in Users, j \in Jobs : MatchRead(u, j)) \/ MatchCommit \/ MatchAborts
    PROVE  IdsInv'
<1>1. UNCHANGED <<graph, jobs, profiles, backfill>>
  BY DEF MatchRead, MatchCommit, MatchAborts, vars, rowVars
<1>2. \A row : RowCurrent(row)' <=> RowCurrent(row)
  BY <1>1 DEF RowCurrent, AllSkills
<1>3. ASSUME NEW u \in Users, NEW j \in Jobs, MatchRead(u, j) PROVE IdsInv'
  <2>1. /\ cycle' \in MatchRow /\ RowCurrent(cycle') /\ matches' = matches
    BY <1>3, BucketsAreRow DEF MatchRead, rowVars
  <2>2. backfill.pc = "idle"
    BY <1>1, <2>1, RowIsNoNoRow DEF Calm
  <2> QED BY <1>1, <1>2, <2>1, <2>2 DEF IdsInv, BackfillOK
<1>4. CASE MatchCommit
  <2>1. cycle # NoRow /\ matches' = Append(matches, cycle) /\ cycle' = NoRow
    BY <1>4 DEF MatchCommit
  <2>2. matches' \in Seq(MatchRow) /\ \A m \in DOMAIN matches' : RowCurrent(matches'[m])
    BY <2>1 DEF IdsInv
  <2>3. backfill.pc = "idle"
    BY <2>1 DEF IdsInv, BackfillOK
  <2> QED BY <1>1, <1>2, <2>1, <2>2, <2>3 DEF IdsInv, BackfillOK
<1>5. CASE MatchAborts
  BY <1>1, <1>2, <1>5 DEF MatchAborts, rowVars, IdsInv, BackfillOK, JobsRead
<1> QED BY <1>3, <1>4, <1>5

-----------------------------------------------------------------------------
(***************************************************************************)
(* The backfill.                                                           *)
(***************************************************************************)
\* What has been read of a row and is still there is rewritten.
LEMMA BackfilledIs ==
    ASSUME backfill.resolver = graph, NEW ids, ids # None
    PROVE  Backfilled(ids, ids) = rewrite_skill_ids(graph, ids)
BY DEF Backfilled, Rewrites

\* The commit of a backfill rewrites every array there is, by the present graph.
LEMMA BackfillRewrites ==
    ASSUME GraphInv, IdsInv, BackfillCommit
    PROVE  /\ graph' = graph /\ cycle' = NoRow
           /\ DOMAIN jobs' = Jobs /\ DOMAIN profiles' = Users
           /\ \A j \in Jobs : jobs'[j] = IF jobs[j] = None THEN None
                                         ELSE rewrite_skill_ids(graph, jobs[j])
           /\ \A u \in Users : profiles'[u] = IF profiles[u] = None THEN None
                                              ELSE rewrite_skill_ids(graph, profiles[u])
           /\ DOMAIN matches' = DOMAIN matches
           /\ \A m \in DOMAIN matches :
                  matches'[m] = [matches[m] EXCEPT !.buckets =
                      [f \in Buckets |-> rewrite_skill_ids(graph, matches[m].buckets[f])]]
<1>1. /\ backfill.pc = "matches" /\ backfill.resolver = graph /\ cycle = NoRow
      /\ JobsRead /\ backfill.profiles = profiles /\ backfill.matches = matches
  BY DEF BackfillCommit, IdsInv, BackfillOK
<1>2. graph' = graph /\ cycle' = NoRow
  BY <1>1 DEF BackfillCommit, vars
<1>3. Sound(graph)
  BY GraphIsSound
<1>4. ASSUME NEW j \in Jobs
      PROVE  jobs'[j] = IF jobs[j] = None THEN None ELSE rewrite_skill_ids(graph, jobs[j])
  <2>1. jobs'[j] = Backfilled(backfill.jobs[j], jobs[j])
    BY DEF BackfillCommit
  <2>2. Backfilled(None, jobs[j]) = jobs[j]
    BY DEF Backfilled, Rewrites
  <2>3. CASE backfill.jobs[j] = jobs[j] /\ jobs[j] # None
    BY <1>1, <2>1, <2>3, BackfilledIs
  <2>4. CASE jobs[j] = None /\ backfill.jobs[j] = None
    BY <2>1, <2>2, <2>4
  <2>5. CASE jobs[j] # None /\ backfill.jobs[j] = None /\ jobs[j] \subseteq ConceptIds(graph)
    BY <1>3, <2>1, <2>2, <2>5, RewriteKnown
  <2>6. None \subseteq ConceptIds(graph) => FALSE
    BY <1>3, ConceptsArePairs DEF None
  <2> QED BY <1>1, <2>3, <2>4, <2>5, <2>6 DEF JobsRead
<1>5. ASSUME NEW u \in Users
      PROVE  profiles'[u] = IF profiles[u] = None THEN None
                            ELSE rewrite_skill_ids(graph, profiles[u])
  <2>1. profiles'[u] = Backfilled(profiles[u], profiles[u])
    BY <1>1 DEF BackfillCommit
  <2>2. Backfilled(None, None) = None
    BY DEF Backfilled, Rewrites
  <2> QED BY <1>1, <2>1, <2>2, BackfilledIs
<1>6. DOMAIN matches' = DOMAIN matches
  BY DEF BackfillCommit
<1>7. ASSUME NEW m \in DOMAIN matches
      PROVE  matches'[m] = [matches[m] EXCEPT !.buckets =
                 [f \in Buckets |-> rewrite_skill_ids(graph, matches[m].buckets[f])]]
  <2>1. matches'[m] = [matches[m] EXCEPT !.buckets =
            [f \in Buckets |-> Backfilled(matches[m].buckets[f], matches[m].buckets[f])]]
    BY <1>1 DEF BackfillCommit, BackfilledBuckets
  <2>2. ASSUME NEW f \in Buckets
        PROVE  Backfilled(matches[m].buckets[f], matches[m].buckets[f])
                   = rewrite_skill_ids(graph, matches[m].buckets[f])
    <3>1. matches[m] \in MatchRow
      BY DEF IdsInv
    <3>2. matches[m].buckets[f] \in SUBSET StoredIds
      BY <3>1 DEF MatchRow
    <3>3. matches[m].buckets[f] # None
      BY <3>2, ConceptsAreStored DEF None
    <3> QED BY <1>1, <3>3, BackfilledIs
  <2> QED BY <2>1, <2>2
<1>8. DOMAIN jobs' = Jobs /\ DOMAIN profiles' = Users
  BY DEF BackfillCommit
<1> QED BY <1>2, <1>4, <1>5, <1>6, <1>7, <1>8

LEMMA RewriteOfUnion ==
    ASSUME NEW g, NEW buckets
    PROVE  UNION {rewrite_skill_ids(g, buckets[f]) : f \in Buckets}
               = rewrite_skill_ids(g, UNION {buckets[f] : f \in Buckets})
BY DEF rewrite_skill_ids

LEMMA BackfillCommitKeeps ==
    ASSUME GraphInv, IdsInv, BackfillCommit
    PROVE  IdsInv'
<1>1. ASSUME NEW ids
      PROVE  rewrite_skill_ids(graph, ids) \in SUBSET StoredIds
                 /\ rewrite_skill_ids(graph, ids) # None
  <2>1. rewrite_skill_ids(graph, ids) \subseteq StoredIds
    BY GraphIsSound, RewriteKnown, ConceptsAreStored
  <2> QED BY <2>1, ConceptsAreStored DEF None
<1>2. jobs' \in [Jobs -> (SUBSET StoredIds) \cup {None}]
  <2>1. \A j \in Jobs : jobs'[j] \in (SUBSET StoredIds) \cup {None}
    BY <1>1, BackfillRewrites
  <2>2. jobs' = [j \in Jobs |-> jobs'[j]]
    BY DEF BackfillCommit
  <2> QED BY <2>1, <2>2
<1>3. ASSUME NEW m \in DOMAIN matches
      PROVE  matches'[m] \in MatchRow /\ RowCurrent(matches[m])'
  <2> DEFINE new == [f \in Buckets |-> rewrite_skill_ids(graph, matches[m].buckets[f])]
  <2>1. matches[m] \in MatchRow /\ RowCurrent(matches[m])
    BY DEF IdsInv
  <2>2. new \in [Buckets -> SUBSET StoredIds]
    BY <1>1
  <2>3. UNION {new[f] : f \in Buckets} = rewrite_skill_ids(graph, jobs[matches[m].job])
    <3>1. UNION {new[f] : f \in Buckets}
              = UNION {rewrite_skill_ids(graph, matches[m].buckets[f]) : f \in Buckets}
      OBVIOUS
    <3>2. AllSkills(matches[m]) = jobs[matches[m].job]
      BY <2>1 DEF RowCurrent
    <3> HIDE DEF new
    <3> QED BY <3>1, <3>2, RewriteOfUnion DEF AllSkills
  <2>4. matches'[m] = [matches[m] EXCEPT !.buckets = new]
    BY BackfillRewrites
  <2> HIDE DEF new
  <2>5. /\ matches'[m] \in MatchRow /\ matches'[m].buckets = new
        /\ matches'[m].job = matches[m].job
    BY <2>1, <2>2, <2>4 DEF MatchRow
  <2>6. /\ jobs[matches[m].job] # None /\ matches[m].job \in Jobs
    BY <2>1 DEF RowCurrent, MatchRow
  <2>7. jobs'[matches[m].job] = rewrite_skill_ids(graph, jobs[matches[m].job])
    BY <2>6, BackfillRewrites
  <2>8. jobs'[matches'[m].job] # None /\ AllSkills(matches'[m]) = jobs'[matches'[m].job]
    BY <1>1, <2>3, <2>5, <2>7 DEF AllSkills
  <2> QED BY <2>5, <2>8 DEF RowCurrent
<1>4. matches' \in Seq(MatchRow) /\ DOMAIN matches' = DOMAIN matches
  <2>1. matches' = [m \in 1..Len(matches) |-> matches'[m]]
    BY DEF BackfillCommit, IdsInv
  <2>2. \A m \in 1..Len(matches) : matches'[m] \in MatchRow
    BY <1>3 DEF IdsInv
  <2>3. Len(matches) \in Nat /\ DOMAIN matches = 1..Len(matches)
    BY DEF IdsInv
  <2> QED BY <2>1, <2>2, <2>3
<1>5. cycle' = NoRow /\ backfill' = NoBackfill
  BY BackfillRewrites DEF BackfillCommit
<1> QED BY <1>2, <1>3, <1>4, <1>5 DEF IdsInv, BackfillOK, NoBackfill

LEMMA BackfillKeeps ==
    ASSUME GraphInv, IdsInv, Calm, BackfillStep
    PROVE  IdsInv'
<1>1. ASSUME UNCHANGED <<vars, rowVars, cycle>>, BackfillOK' PROVE IdsInv'
  BY <1>1 DEF IdsInv, vars, rowVars, RowCurrent, AllSkills
<1>2. CASE BackfillLoad
  BY <1>1, <1>2 DEF BackfillLoad, Calm, NoBackfill, BackfillOK, vars
<1>3. CASE BackfillJobs
  BY <1>1, <1>3 DEF BackfillJobs, BackfillOK, JobsRead, IdsInv, vars, rowVars
<1>4. CASE BackfillProfiles
  BY <1>1, <1>4 DEF BackfillProfiles, BackfillOK, JobsRead, IdsInv, vars, rowVars
<1>5. CASE BackfillMatches
  BY <1>1, <1>5 DEF BackfillMatches, BackfillOK, JobsRead, IdsInv, vars, rowVars
<1>6. CASE BackfillCommit
  BY <1>6, BackfillCommitKeeps
<1>7. CASE BackfillAborts
  BY <1>1, <1>7 DEF BackfillAborts, BackfillOK, NoBackfill
<1> QED BY <1>2, <1>3, <1>4, <1>5, <1>6, <1>7 DEF BackfillStep

LEMMA InitIdsInv == IdsInit => IdsInv
<1> SUFFICES ASSUME IdsInit PROVE IdsInv
  OBVIOUS
<1>1. jobs \in [Jobs -> (SUBSET StoredIds) \cup {None}]
  BY DEF IdsInit, StoredIds
<1> QED BY <1>1 DEF IdsInit, IdsInv, BackfillOK, NoBackfill

LEMMA BuildKeeps ==
    ASSUME GraphInv, IdsInv, Calm, [Next]_vars, UNCHANGED idVars
    PROVE  IdsInv'
<1>1. UNCHANGED <<jobs, profiles, matches, cycle, backfill>>
  BY DEF idVars
<1>2. backfill.pc # "idle" => graph' = graph
  BY <1>1 DEF Calm
<1>3. BackfillOK'
  BY <1>1, <1>2 DEF IdsInv, BackfillOK, JobsRead
<1>4. \A row : RowCurrent(row)' <=> RowCurrent(row)
  BY <1>1 DEF RowCurrent, AllSkills
<1> QED BY <1>1, <1>3, <1>4 DEF IdsInv

\* The invariants of the graph and of the ids.
AllInv == GraphInv /\ IdsInv

LEMMA InitAllInv == IdsInit => AllInv
BY GraphInit, InitIdsInv DEF AllInv, IdsInit

LEMMA VarsStep ==
    ASSUME [IdsNext]_allVars
    PROVE  /\ [Next]_vars
           /\ UNCHANGED idVars \/ (UNCHANGED vars /\ (RowStep \/ BackfillStep))
<1>1. CASE Next /\ UNCHANGED idVars
  BY <1>1
<1>2. CASE RowStep
  BY <1>2 DEF RowStep, ExtractJob, IngestProfile, EditProfile, MatchRead, MatchCommit,
      MatchAborts
<1>3. CASE BackfillStep
  BY <1>3 DEF BackfillStep, BackfillLoad, BackfillJobs, BackfillProfiles, BackfillMatches,
      BackfillCommit, BackfillAborts
<1>4. CASE UNCHANGED allVars
  BY <1>4 DEF allVars
<1> QED BY <1>1, <1>2, <1>3, <1>4 DEF IdsNext

LEMMA NextAllInv == AllInv /\ [IdsNext /\ Calm]_allVars => AllInv'
<1> SUFFICES ASSUME AllInv, [IdsNext /\ Calm]_allVars PROVE AllInv'
  OBVIOUS
<1>1. [Next]_vars /\ GraphInv'
  BY VarsStep, GraphStep DEF AllInv
<1>2. CASE UNCHANGED allVars
  <2>1. UNCHANGED <<graph, jobs, profiles, matches, cycle, backfill>>
    BY <1>2 DEF allVars, vars, idVars
  <2>2. BackfillOK'
    BY <2>1 DEF AllInv, IdsInv, BackfillOK, JobsRead
  <2>3. \A row : RowCurrent(row)' <=> RowCurrent(row)
    BY <2>1 DEF RowCurrent, AllSkills
  <2> QED BY <1>1, <2>1, <2>2, <2>3 DEF AllInv, IdsInv
<1>3. CASE Calm /\ UNCHANGED idVars
  BY <1>1, <1>3, BuildKeeps DEF AllInv
<1>4. CASE Calm /\ BackfillStep
  BY <1>1, <1>4, BackfillKeeps DEF AllInv
<1>5. CASE Calm /\ RowStep
  <2>1. ASSUME NEW j \in Jobs, ExtractJob(j) PROVE AllInv'
    BY <1>1, <2>1, ExtractedKeeps DEF AllInv
  <2>2. ASSUME NEW u \in Users, IngestProfile(u) \/ \E ids \in Payloads : EditProfile(u, ids)
        PROVE  AllInv'
    BY <1>1, <1>5, <2>2, ProfileKeeps DEF AllInv
  <2>3. CASE (\E u \in Users, j \in Jobs : MatchRead(u, j)) \/ MatchCommit \/ MatchAborts
    BY <1>1, <1>5, <2>3, CycleKeeps DEF AllInv
  <2> QED BY <1>5, <2>1, <2>2, <2>3 DEF RowStep
<1> QED BY <1>2, <1>3, <1>4, <1>5, VarsStep

-----------------------------------------------------------------------------
(***************************************************************************)
(* What the rows mean.                                                     *)
(***************************************************************************)
\* What the arrays of a step's rows stand for.
MeaningKept ==
    /\ \A j \in Jobs : jobs[j] # None =>
           Meaning(graph', jobs[j]) = Meaning(graph', jobs'[j])
    /\ \A m \in DOMAIN matches, f \in Buckets :
           Meaning(graph', matches[m].buckets[f]) = Meaning(graph', matches'[m].buckets[f])

LEMMA RowStepKeepsMeaning ==
    ASSUME AllInv, RowStep
    PROVE  MeaningKept
<1>1. ASSUME NEW j \in Jobs, ExtractJob(j) PROVE MeaningKept
  <2>1. /\ jobs[j] = None /\ matches' = matches
        /\ \E ids : jobs' = [jobs EXCEPT ![j] = ids]
    BY <1>1 DEF ExtractJob
  <2>2. \A i \in Jobs : jobs[i] # None => jobs'[i] = jobs[i]
    BY <2>1 DEF AllInv, IdsInv
  <2> QED BY <2>1, <2>2 DEF MeaningKept
<1>2. ASSUME NEW u \in Users, IngestProfile(u) \/ \E ids \in Payloads : EditProfile(u, ids)
      PROVE  MeaningKept
  BY <1>2 DEF IngestProfile, EditProfile, MeaningKept
<1>3. CASE (\E u \in Users, j \in Jobs : MatchRead(u, j)) \/ MatchAborts
  BY <1>3 DEF MatchRead, MatchAborts, rowVars, MeaningKept
<1>4. CASE MatchCommit
  <2>1. jobs' = jobs /\ matches' = Append(matches, cycle)
    BY <1>4 DEF MatchCommit
  <2>2. \A m \in DOMAIN matches : matches'[m] = matches[m]
    BY <2>1 DEF AllInv, IdsInv
  <2> QED BY <2>1, <2>2 DEF MeaningKept
<1> QED BY <1>1, <1>2, <1>3, <1>4 DEF RowStep

LEMMA BackfillKeepsMeaning ==
    ASSUME AllInv, BackfillStep
    PROVE  MeaningKept
<1>1. CASE BackfillCommit
  <2>1. Sound(graph) /\ graph' = graph
    BY <1>1, GraphIsSound, BackfillRewrites DEF AllInv
  <2>2. ASSUME NEW j \in Jobs, jobs[j] # None
        PROVE  Meaning(graph', jobs[j]) = Meaning(graph', jobs'[j])
    <3>1. jobs'[j] = rewrite_skill_ids(graph, jobs[j])
      BY <1>1, <2>2, BackfillRewrites DEF AllInv
    <3> QED BY <2>1, <3>1, RewriteKnown
  <2>3. ASSUME NEW m \in DOMAIN matches, NEW f \in Buckets
        PROVE  Meaning(graph', matches[m].buckets[f])
                   = Meaning(graph', matches'[m].buckets[f])
    <3>1. matches[m] \in MatchRow
      BY DEF AllInv, IdsInv
    <3>2. matches'[m] = [matches[m] EXCEPT !.buckets =
              [h \in Buckets |-> rewrite_skill_ids(graph, matches[m].buckets[h])]]
      BY <1>1, BackfillRewrites DEF AllInv
    <3>3. matches'[m].buckets[f] = rewrite_skill_ids(graph, matches[m].buckets[f])
      BY <3>1, <3>2 DEF MatchRow
    <3> QED BY <2>1, <3>3, RewriteKnown
  <2> QED BY <2>2, <2>3 DEF MeaningKept
<1>2. CASE BackfillStep /\ ~BackfillCommit
  BY <1>2 DEF BackfillStep, BackfillLoad, BackfillJobs, BackfillProfiles, BackfillMatches,
      BackfillAborts, rowVars, MeaningKept
<1> QED BY <1>1, <1>2

\* Whatever is built, linked, matched and rewritten with care, the ids of a job and
\* of each bucket of a match row stand for the same concepts before and after a step
\* (rewrite_skill_ids, _backfill_matches), and an id that a graph resolves by itself
\* or by its mapping resolves to the same concept in every later graph.
THEOREM IdsKeepMeaning == CalmSpec => StoredSkillsKeepMeaning
<1>1. ASSUME AllInv, [IdsNext]_allVars
      PROVE  MeaningKept
  <2>1. CASE UNCHANGED idVars
    BY <2>1 DEF idVars, MeaningKept
  <2>2. CASE RowStep \/ BackfillStep
    BY <1>1, <2>2, RowStepKeepsMeaning, BackfillKeepsMeaning
  <2> QED BY <1>1, <2>1, <2>2, VarsStep
<1>2. ASSUME AllInv, [IdsNext]_allVars,
             NEW id, id[1] \in {"esco", "onet", "uri"}
      PROVE  resolve(graph, id) \in {NoLink, resolve(graph', id)}
  <2>1. Sound(graph) /\ Sound(graph') /\ Keeps(graph, graph')
    BY <1>2, VarsStep, GraphStep, GraphIsSound DEF AllInv
  <2> QED BY <1>2, <2>1, ResolveStays
<1> DEFINE Kept ==
       /\ \A j \in Jobs : jobs[j] # None =>
              Meaning(graph', jobs[j]) = Meaning(graph', jobs'[j])
       /\ \A m \in DOMAIN matches, f \in Buckets :
              Meaning(graph', matches[m].buckets[f]) = Meaning(graph', matches'[m].buckets[f])
       /\ \A j \in Jobs : \A id \in {x \in jobs[j] : x[1] \in {"esco", "onet", "uri"}} :
              resolve(graph, id) \in {NoLink, resolve(graph', id)}
<1>3. AllInv /\ [IdsNext /\ Calm]_allVars => [Kept]_allVars
  BY <1>1, <1>2 DEF MeaningKept
<1>4. StoredSkillsKeepMeaning <=> [][Kept]_allVars
  BY DEF StoredSkillsKeepMeaning
<1> HIDE DEF Kept
<1> QED BY <1>3, <1>4, InitAllInv, NextAllInv, PTL DEF CalmSpec

\* A backfill that is run with care leaves only ids of concepts behind, in jobs that
\* were extracted after it had read the jobs as well: the next one changes nothing.
THEOREM BackfillIsComplete == CalmSpec => BackfillSettles
<1> DEFINE Settles ==
       BackfillCommit =>
           /\ \A j \in Jobs : jobs'[j] # None => Canonical(jobs'[j])
           /\ \A u \in Users : profiles'[u] # None => Canonical(profiles'[u])
           /\ \A m \in DOMAIN matches', f \in Buckets : Canonical(matches'[m].buckets[f])
<1>1. ASSUME AllInv, BackfillCommit PROVE Settles
  <2>1. \A ids : Canonical(rewrite_skill_ids(graph, ids))
    BY <1>1, GraphIsSound, RewriteKnown DEF AllInv, Canonical
  <2>2. \A j \in Jobs : jobs'[j] # None => Canonical(jobs'[j])
    BY <1>1, <2>1, BackfillRewrites DEF AllInv
  <2>3. \A u \in Users : profiles'[u] # None => Canonical(profiles'[u])
    BY <1>1, <2>1, BackfillRewrites DEF AllInv
  <2>4. ASSUME NEW m \in DOMAIN matches', NEW f \in Buckets
        PROVE  Canonical(matches'[m].buckets[f])
    <3>1. m \in DOMAIN matches /\ matches[m] \in MatchRow
      BY <1>1, BackfillRewrites DEF AllInv, IdsInv
    <3>2. matches'[m] = [matches[m] EXCEPT !.buckets =
              [h \in Buckets |-> rewrite_skill_ids(graph, matches[m].buckets[h])]]
      BY <1>1, <3>1, BackfillRewrites DEF AllInv
    <3>3. matches'[m].buckets[f] = rewrite_skill_ids(graph, matches[m].buckets[f])
      BY <3>1, <3>2 DEF MatchRow
    <3> QED BY <2>1, <3>3
  <2> QED BY <2>2, <2>3, <2>4
<1>2. AllInv /\ [IdsNext /\ Calm]_allVars => [Settles]_allVars
  BY <1>1
<1>3. BackfillSettles <=> [][Settles]_allVars
  BY DEF BackfillSettles
<1> HIDE DEF Settles
<1> QED BY <1>2, <1>3, InitAllInv, NextAllInv, PTL DEF CalmSpec

-----------------------------------------------------------------------------
(***************************************************************************)
(* The feed.                                                               *)
(***************************************************************************)
Details == {e.detail : e \in UiEvents}

Event == [match : Nat, user : Users, job : Jobs, action : UiActions, detail : Details,
          committed : BOOLEAN]

FeedInv == AllInv /\ events \in Seq(Event)

LEMMA RemoveKeepsType ==
    ASSUME NEW S, NEW s \in Seq(S), NEW i \in DOMAIN s
    PROVE  RemoveAt(s, i) \in Seq(S)
<1>1. i \in 1..Len(s) /\ Len(s) \in Nat
  OBVIOUS
<1>2. SubSeq(s, 1, i - 1) \in Seq(S) /\ SubSeq(s, i + 1, Len(s)) \in Seq(S)
  <2>1. \A k \in 1..(i - 1) : k \in 1..Len(s)
    BY <1>1
  <2>2. \A k \in (i + 1)..Len(s) : k \in 1..Len(s)
    BY <1>1
  <2> QED BY <1>1, <2>1, <2>2
<1> QED BY <1>2 DEF RemoveAt

LEMMA EventsAreEvents == FeedInv => \A i \in DOMAIN events : events[i] \in Event
BY DEF FeedInv

LEMMA EventsKeepType ==
    ASSUME FeedInv, FeedStep
    PROVE  events' \in Seq(Event)
<1>1. ASSUME NEW m \in DOMAIN matches, NEW e \in UiEvents, BeginEvent(m, e)
      PROVE  events' \in Seq(Event)
  <2>1. matches[m] \in MatchRow /\ m \in Nat
    BY DEF FeedInv, AllInv, IdsInv
  <2>2. e.action \in UiActions /\ e.detail \in Details
    BY FeedConstants DEF Details
  <2> DEFINE event == [match |-> m, user |-> matches[m].user, job |-> matches[m].job,
                       action |-> e.action, detail |-> e.detail, committed |-> FALSE]
  <2>3. event \in Event
    BY <2>1, <2>2 DEF Event, MatchRow
  <2>4. events' = Append(events, event)
    BY <1>1 DEF BeginEvent
  <2> QED BY <2>3, <2>4 DEF FeedInv
<1>2. ASSUME NEW i \in Open, CommitEvent(i) PROVE events' \in Seq(Event)
  <2>1. events[i] \in Event /\ i \in DOMAIN events
    BY EventsAreEvents DEF Open
  <2> DEFINE event == [events[i] EXCEPT !.committed = TRUE]
  <2>2. event \in Event
    BY <2>1 DEF Event
  <2>3. events' = [events EXCEPT ![i] = event]
    BY <1>2 DEF CommitEvent
  <2> HIDE DEF event
  <2> QED BY <2>1, <2>2, <2>3 DEF FeedInv
<1>3. ASSUME NEW i \in Open, EventFails(i) PROVE events' \in Seq(Event)
  BY <1>3, RemoveKeepsType DEF FeedInv, EventFails, Open
<1>4. ASSUME NEW m \in DOMAIN matches, InsertDraft(m) PROVE events' \in Seq(Event)
  BY <1>4 DEF FeedInv, InsertDraft
<1> QED BY <1>1, <1>2, <1>3, <1>4 DEF FeedStep

LEMMA FeedStepsApart ==
    /\ [FeedNext /\ Calm]_everything => [IdsNext /\ Calm]_allVars
    /\ [FeedNext /\ Calm]_everything => UNCHANGED events \/ FeedStep
<1>1. FeedStep => UNCHANGED allVars
  BY DEF FeedStep, BeginEvent, CommitEvent, EventFails, InsertDraft
<1> QED BY <1>1 DEF FeedNext, everything, feedVars

LEMMA FeedInvHolds == CalmFeedSpec => []FeedInv
<1>1. FeedInit => FeedInv
  BY InitAllInv DEF FeedInit, FeedInv
<1>2. FeedInv /\ [FeedNext /\ Calm]_everything => FeedInv'
  BY NextAllInv, FeedStepsApart, EventsKeepType DEF FeedInv
<1> QED BY <1>1, <1>2, PTL DEF CalmFeedSpec

\* The feed and the ids are one system: what holds of calm backfills holds of it.
LEMMA FeedIsCalm == CalmFeedSpec => CalmSpec
<1>1. FeedInit => IdsInit
  BY DEF FeedInit
<1> QED BY <1>1, FeedStepsApart, PTL DEF CalmFeedSpec, CalmSpec

-----------------------------------------------------------------------------
(***************************************************************************)
(* The cards.                                                              *)
(***************************************************************************)
LEMMA LatestRowIs ==
    ASSUME AllInv, NEW user, NEW job \in MatchedJobs(user)
    PROVE  /\ LatestRow(user, job) \in RowsOf(user, job)
           /\ \A m \in RowsOf(user, job) : m <= LatestRow(user, job)
<1> DEFINE rows == RowsOf(user, job)
<1>1. rows # {} /\ rows \subseteq DOMAIN matches
  BY DEF RowsOf, MatchedJobs
<1>2. DOMAIN matches \subseteq 0..Len(matches) /\ Len(matches) \in Nat
  BY DEF AllInv, IdsInv
<1> HIDE DEF rows
<1>3. Max(rows) \in rows /\ \A k \in rows : Max(rows) >= k
  BY <1>1, <1>2, MaxIsThere
<1>4. \A k \in rows : k \in Nat /\ Max(rows) \in Nat
  BY <1>1, <1>2, <1>3
<1> QED BY <1>3, <1>4 DEF rows, LatestRow

\* One card per job.
LEMMA OneCardPerJob ==
    ASSUME AllInv, NEW user
    PROVE  LET cards == list_matches(user)
           IN  Cardinality(cards) = Cardinality({c.job : c \in cards})
<1> DEFINE cards == list_matches(user)
           mine == {m \in DOMAIN matches : matches[m].user = user}
           job == [m \in mine |-> matches[m].job]
           card == [j \in MatchedJobs(user) |-> Card(user, j)]
<1>1. IsFiniteSet(MatchedJobs(user))
  <2>1. DOMAIN matches = 1..Len(matches) /\ Len(matches) \in Nat
    BY DEF AllInv, IdsInv
  <2>2. IsFiniteSet(1..Len(matches))
    BY <2>1, FS_Interval
  <2>3. IsFiniteSet(mine)
    BY <2>1, <2>2, FS_Subset
  <2>4. job \in Surjection(mine, MatchedJobs(user))
    BY DEF Surjection, MatchedJobs
  <2> HIDE DEF mine, job
  <2> QED BY <2>3, <2>4, FS_Surjection
<1>2. \A j : Card(user, j).job = j
  BY DEF Card
<1>3. card \in Surjection(MatchedJobs(user), cards)
  BY DEF Surjection, list_matches
<1>4. card \in Injection(MatchedJobs(user), cards)
  <2>1. \A i, j \in MatchedJobs(user) : card[i] = card[j] => i = j
    BY <1>2
  <2>2. card \in [MatchedJobs(user) -> cards]
    BY DEF list_matches
  <2> HIDE DEF card, cards
  <2> QED BY <2>1, <2>2 DEF Injection, IsInjective
<1>5. {c.job : c \in cards} = MatchedJobs(user)
  BY <1>2 DEF list_matches
<1> HIDE DEF cards, card
<1>6. Cardinality(cards) = Cardinality(MatchedJobs(user))
  BY <1>1, <1>3, <1>4, FS_Surjection
<1> QED BY <1>5, <1>6 DEF cards

\* The chips of a card.
LEMMA ChipsAreSkills ==
    ASSUME AllInv, NEW user, NEW job \in MatchedJobs(user)
    PROVE  LET refs == UNION {Card(user, job).skills[f] : f \in Buckets}
           IN  /\ {r.id : r \in refs} = jobs[job]
               /\ \A r \in refs : r.id \in ConceptIds(graph) =>
                      r.label = SkillName(graph, r.id)
<1> DEFINE row == matches[LatestRow(user, job)]
           refs == UNION {Card(user, job).skills[f] : f \in Buckets}
<1>1. LatestRow(user, job) \in DOMAIN matches /\ row.job = job
  BY LatestRowIs DEF RowsOf
<1>2. UNION {row.buckets[f] : f \in Buckets} = jobs[job]
  BY <1>1 DEF AllInv, IdsInv, RowCurrent, AllSkills
<1>3. \A f \in Buckets : Card(user, job).skills[f] = SkillRefs(row.buckets[f])
  BY DEF Card
<1>4. ASSUME NEW ids
      PROVE  /\ {r.id : r \in SkillRefs(ids)} = ids
             /\ \A r \in SkillRefs(ids) : r.id \in ConceptIds(graph) =>
                    r.label = SkillName(graph, r.id)
  <2> DEFINE label(id) == IF id \in ConceptIds(graph) THEN SkillName(graph, id) ELSE id
  <2>1. SkillRefs(ids) = {[id |-> id, label |-> label(id)] : id \in ids}
    BY DEF SkillRefs
  <2>2. \A id \in ConceptIds(graph) : label(id) = SkillName(graph, id)
    OBVIOUS
  <2> HIDE DEF label
  <2>3. \A r \in SkillRefs(ids) : r.id \in ids /\ r.label = label(r.id)
    BY <2>1
  <2>4. ASSUME NEW x \in ids PROVE \E r \in SkillRefs(ids) : r.id = x
    <3>1. [id |-> x, label |-> label(x)] \in SkillRefs(ids)
      BY <2>1
    <3>2. [id |-> x, label |-> label(x)].id = x
      OBVIOUS
    <3> QED BY <3>1, <3>2
  <2> QED BY <2>2, <2>3, <2>4
<1>5. refs = UNION {SkillRefs(row.buckets[f]) : f \in Buckets}
  BY <1>3
<1> HIDE DEF row, refs
<1>6. {r.id : r \in refs} = jobs[job]
  <2>1. ASSUME NEW r \in refs PROVE r.id \in jobs[job]
    BY <1>2, <1>4, <1>5
  <2>2. ASSUME NEW id \in jobs[job] PROVE \E r \in refs : r.id = id
    BY <1>2, <1>4, <1>5
  <2> QED BY <2>1, <2>2
<1>7. \A r \in refs : r.id \in ConceptIds(graph) => r.label = SkillName(graph, r.id)
  BY <1>4, <1>5
<1> QED BY <1>6, <1>7 DEF refs

\* What a user has said of a job is on the card.
LEMMA MarksAreShown ==
    ASSUME FeedInv, NEW user, NEW job, NEW e \in ToSet(events),
           e.committed, e.user = user, e.job = job
    PROVE  UiState(user, job)[e.action] # "none"
<1>1. PICK i \in DOMAIN events : events[i] = e
  BY DEF ToSet
<1> DEFINE newer == {k \in EventsOf(user, job) : events[k].action = e.action}
<1>2. e.action \in UiActions
  BY <1>1, EventsAreEvents DEF Event
<1>3. i \in newer /\ newer \subseteq DOMAIN events
  BY <1>1 DEF EventsOf
<1>4. DOMAIN events \subseteq 0..Len(events) /\ Len(events) \in Nat
  BY DEF FeedInv
<1>5. UiState(user, job)[e.action] = IF newer = {} THEN "none" ELSE events[Max(newer)].detail
  BY <1>2 DEF UiState
<1> HIDE DEF newer
<1>6. Max(newer) \in DOMAIN events
  BY <1>3, <1>4, MaxIsThere
<1>7. events[Max(newer)].detail \in Details
  BY <1>6, EventsAreEvents DEF Event
<1> QED BY <1>3, <1>5, <1>7, FeedConstants DEF Details

\* However often a job has been matched again, extracted, rebuilt under or rewritten,
\* the feed (list_matches) has one card per job, of its newest row, with the skills
\* the job has now under the names they have now and with all the user's marks.
THEOREM CardsAreCurrent == CalmFeedSpec => []CardIsCurrent
<1>1. ASSUME FeedInv PROVE CardIsCurrent
  <2>1. ASSUME NEW user \in Users, NEW c \in list_matches(user)
        PROVE  LET refs == UNION {c.skills[f] : f \in Buckets} IN
               /\ \A m \in DOMAIN matches : m > c.match =>
                      <<matches[m].user, matches[m].job>> # <<user, c.job>>
               /\ {r.id : r \in refs} = jobs[c.job]
               /\ \A r \in refs : r.id \in ConceptIds(graph) =>
                      r.label = SkillName(graph, r.id)
               /\ \A e \in ToSet(events) :
                      e.committed /\ e.user = user /\ e.job = c.job => c.ui[e.action] # "none"
    <3>1. PICK j \in MatchedJobs(user) : c = Card(user, j)
      BY DEF list_matches
    <3>2. c.match = LatestRow(user, j) /\ c.job = j /\ c.ui = UiState(user, j)
      BY <3>1 DEF Card
    <3>3. ASSUME NEW m \in DOMAIN matches, m > c.match, matches[m].user = user,
                 matches[m].job = j
          PROVE  FALSE
      <4>1. m \in RowsOf(user, j)
        BY <3>3 DEF RowsOf
      <4>2. LatestRow(user, j) \in RowsOf(user, j) /\ m <= LatestRow(user, j)
        BY <1>1, <4>1, LatestRowIs DEF FeedInv
      <4>3. m \in Nat /\ LatestRow(user, j) \in Nat
        BY <1>1, <4>2 DEF RowsOf, FeedInv, AllInv, IdsInv
      <4> QED BY <3>2, <3>3, <4>2, <4>3
    <3>4. LET refs == UNION {c.skills[f] : f \in Buckets}
          IN  /\ {r.id : r \in refs} = jobs[c.job]
              /\ \A r \in refs : r.id \in ConceptIds(graph) =>
                     r.label = SkillName(graph, r.id)
      BY <1>1, <3>1, <3>2, ChipsAreSkills DEF FeedInv
    <3>5. \A e \in ToSet(events) :
              e.committed /\ e.user = user /\ e.job = c.job => c.ui[e.action] # "none"
      BY <1>1, <3>2, MarksAreShown
    <3> QED BY <3>2, <3>3, <3>4, <3>5
  <2> QED BY <1>1, <2>1, OneCardPerJob DEF CardIsCurrent, FeedInv
<1> QED BY <1>1, FeedInvHolds, PTL

-----------------------------------------------------------------------------
(***************************************************************************)
(* The two linkers.  A concept has its name as a label, and not as a form  *)
(* derived from one: what the linker in memory scans for, the database has *)
(* as an alias that is scanned for.                                        *)
(***************************************************************************)
\* A technology is named by its examples in the file.
Examples(key) == {r.example : r \in {x \in OnetFile : normalize_label(x.example) = key}}

FirstExample(key) == CHOOSE l \in Examples(key) : l.caps \/ \A m \in Examples(key) : ~m.caps

OnetNamed(g) ==
    /\ \A s \in DOMAIN g.sources :
           s[1] = "onet" /\ s[3][1] = "software" => g.sources[s].names = Examples(s[3][2])
    /\ \A c \in ConceptIds(g) :
           c[1] = "onet" =>
               g.concepts[c].name = canonical_technology_name(FirstExample(c[2][2]))

NameIsLabel(g) ==
    \A c \in ConceptIds(g) :
        LET a == <<c, g.concepts[c].name>>
        IN  a \in DOMAIN g.aliases => g.aliases[a].type # "derived"

NamesInv(g) == OnetNamed(g) /\ NameIsLabel(g)

LEMMA UpsertConceptsNames ==
    ASSUME NEW f, NEW g, \A c \in DOMAIN f : "name" \in DOMAIN f[c]
    PROVE  /\ \A c \in DOMAIN f : UpsertConcepts(f, g)[c].name = f[c].name
           /\ \A c \in DOMAIN g \ DOMAIN f : UpsertConcepts(f, g)[c] = g[c]
BY DEF UpsertConcepts, Upsert

\* The name of a row is an alias of it, as what it prefers.
LEMMA NameIsPreferred ==
    ASSUME NEW rows, NEW overrides, NEW r \in rows
    PROVE  LET p == <<r.uri, normalize_label(r.name)>>
               table == BuildAliasRows(rows, overrides)
           IN  p \in DOMAIN table /\ table[p].type = "preferred"
<1> DEFINE uris == {x.uri : x \in rows}
           entries == AddCurated(rows, OwnLabels(rows), overrides)
           all == entries \cup DerivedEntries(entries)
           claim == Claim(r.uri, "preferred", r.name)
           p == <<r.uri, normalize_label(r.name)>>
<1>1. claim \in OwnLabels(rows)
  BY DEF OwnLabels
<1>2. claim \in all
  BY <1>1 DEF AddCurated
<1>3. \A e \in all : EntryOf(e, uris)
  <2>1. \A e \in OwnLabels(rows) : EntryOf(e, uris)
    BY OwnEntries
  <2>2. \A e \in entries : EntryOf(e, uris)
    BY <2>1, CuratedEntries
  <2> HIDE DEF entries, uris
  <2> QED BY <2>2, DerivedAreEntries
<1>4. BuildAliasRows(rows, overrides) = Dedupe(all)
  BY DEF BuildAliasRows
<1>5. /\ claim.uri = r.uri /\ claim.type = "preferred"
      /\ normalize_label(claim.label) = normalize_label(r.name)
  BY ClaimFields
<1> HIDE DEF all, uris, claim
<1>6. p \in DOMAIN Dedupe(all)
  BY <1>2, <1>5 DEF Dedupe
<1>7. /\ Dedupe(all)[p] \in all
      /\ AliasPriority[Dedupe(all)[p].type] <= AliasPriority["preferred"]
  <2>1. p[1] = r.uri /\ p[2] = normalize_label(r.name)
    OBVIOUS
  <2> HIDE DEF p
  <2> QED BY <1>2, <1>3, <1>5, <1>6, <2>1, DedupeFacts
<1>8. Dedupe(all)[p].type = "preferred"
  <2> HIDE DEF p
  <2>1. Dedupe(all)[p].type \in Types
    BY <1>3, <1>7 DEF EntryOf
  <2> QED BY <1>7, <2>1 DEF AliasPriority, Types
<1> QED BY <1>4, <1>6, <1>8

LEMMA EscoNamesArePreferred ==
    ASSUME NEW plan, NEW c \in DOMAIN EscoConcepts(plan)
    PROVE  LET a == <<c, EscoConcepts(plan)[c].name>>
           IN  a \in DOMAIN EscoAliases(plan) /\ EscoAliases(plan)[a].type = "preferred"
<1> DEFINE rows == CanonicalRows(plan.esco)
           table == BuildAliasRows(rows, plan.overrides)
           row == CHOOSE r \in rows : r.uri = c[2]
           key == normalize_label(row.name)
           a == <<c, key>>
<1>1. PICK r \in rows : c = canonical_concept_id("esco", r.uri)
  BY DEF EscoConcepts
<1>2. c = <<"esco", r.uri>> /\ c[2] = r.uri
  BY <1>1 DEF canonical_concept_id
<1>3. row \in rows /\ row.uri = c[2]
  BY <1>2
<1>4. EscoConcepts(plan)[c].name = key
  BY DEF EscoConcepts
<1> HIDE DEF rows, row
<1>5. <<c[2], key>> \in DOMAIN table /\ table[<<c[2], key>>].type = "preferred"
  BY <1>3, NameIsPreferred
<1> HIDE DEF table, key
<1>6. a = <<canonical_concept_id("esco", c[2]), key>> /\ a[1][2] = c[2] /\ a[2] = key
  BY <1>2 DEF canonical_concept_id
<1>7. DOMAIN EscoAliases(plan) = {<<canonical_concept_id("esco", p[1]), p[2]>> : p \in DOMAIN table}
  BY DEF EscoAliases, table, rows
<1>8. a \in DOMAIN EscoAliases(plan)
  BY <1>5, <1>6, <1>7
<1>9. EscoAliases(plan)[a] = [type |-> table[<<a[1][2], a[2]>>].type,
                              label |-> table[<<a[1][2], a[2]>>].label]
  BY <1>8 DEF EscoAliases, table, rows
<1> QED BY <1>4, <1>5, <1>6, <1>8, <1>9

LEMMA ImportEscoNames ==
    ASSUME GraphInv, NamesInv(tx), ImportEsco
    PROVE  NamesInv(tx')
<1>0. PICK plan : plan = build.plan
  OBVIOUS
<1>1. tx' = [sources |-> Upsert(EscoSources(plan), tx.sources),
             concepts |-> UpsertConcepts(EscoConcepts(plan), tx.concepts),
             aliases |-> Upsert(EscoAliases(plan), tx.aliases),
             mappings |-> ReplaceMappings(EscoMappings(plan), tx.mappings),
             sourceEdges |-> tx.sourceEdges \cup EscoSourceEdges(plan),
             conceptEdges |-> tx.conceptEdges \cup EscoConceptEdges(plan)]
  BY <1>0 DEF ImportEsco
<1>2. /\ tx'.sources = Upsert(EscoSources(plan), tx.sources)
      /\ tx'.concepts = UpsertConcepts(EscoConcepts(plan), tx.concepts)
      /\ tx'.aliases = Upsert(EscoAliases(plan), tx.aliases)
  BY <1>1
<1> DEFINE concepts == EscoConcepts(plan)
           aliases == EscoAliases(plan)
           sources == EscoSources(plan)
<1>3. /\ \A c \in DOMAIN concepts : c[1] = "esco" /\ "name" \in DOMAIN concepts[c]
      /\ \A s \in DOMAIN sources : s[1] = "esco"
      /\ \A a \in DOMAIN aliases : a[1] \in DOMAIN concepts
  <2>1. \A c \in DOMAIN concepts : c[1] = "esco" /\ "name" \in DOMAIN concepts[c]
    BY DEF EscoConcepts, canonical_concept_id
  <2>2. \A s \in DOMAIN sources : s[1] = "esco"
    BY DEF EscoSources, Upsert, source_concept_id
  <2>3. \A a \in DOMAIN aliases : a[1] \in DOMAIN concepts
    BY EscoAliasFacts
  <2> QED BY <2>1, <2>2, <2>3
<1>4. \A c \in DOMAIN concepts :
          LET a == <<c, concepts[c].name>> IN a \in DOMAIN aliases /\ aliases[a].type = "preferred"
  BY EscoNamesArePreferred
<1> HIDE DEF concepts, aliases, sources
<1>5. /\ ConceptIds(tx') = DOMAIN concepts \cup ConceptIds(tx)
      /\ \A c \in DOMAIN concepts : tx'.concepts[c].name = concepts[c].name
      /\ \A c \in ConceptIds(tx) \ DOMAIN concepts : tx'.concepts[c] = tx.concepts[c]
  <2>1. tx'.concepts = UpsertConcepts(concepts, tx.concepts)
    BY <1>2 DEF concepts
  <2>2. DOMAIN tx'.concepts = DOMAIN concepts \cup DOMAIN tx.concepts
    BY <2>1, UpsertConceptsFacts
  <2> QED BY <1>3, <2>1, <2>2, UpsertConceptsNames DEF ConceptIds
<1>6. /\ DOMAIN tx'.aliases = DOMAIN aliases \cup DOMAIN tx.aliases
      /\ \A a \in DOMAIN aliases : tx'.aliases[a] = aliases[a]
      /\ \A a \in DOMAIN tx.aliases \ DOMAIN aliases : tx'.aliases[a] = tx.aliases[a]
  BY <1>2 DEF Upsert, aliases
<1>7. /\ DOMAIN tx'.sources = DOMAIN sources \cup DOMAIN tx.sources
      /\ \A s \in DOMAIN tx.sources \ DOMAIN sources : tx'.sources[s] = tx.sources[s]
  BY <1>2 DEF Upsert, sources
<1>8. OnetNamed(tx')
  <2>1. ASSUME NEW s \in DOMAIN tx'.sources, s[1] = "onet", s[3][1] = "software"
        PROVE  tx'.sources[s].names = Examples(s[3][2])
    BY <1>3, <1>7, <2>1 DEF NamesInv, OnetNamed
  <2>2. ASSUME NEW c \in ConceptIds(tx'), c[1] = "onet"
        PROVE  tx'.concepts[c].name = canonical_technology_name(FirstExample(c[2][2]))
    BY <1>3, <1>5, <2>2 DEF NamesInv, OnetNamed
  <2> QED BY <2>1, <2>2 DEF OnetNamed
<1>9. ASSUME NEW c \in ConceptIds(tx'), <<c, tx'.concepts[c].name>> \in DOMAIN tx'.aliases
      PROVE  tx'.aliases[<<c, tx'.concepts[c].name>>].type # "derived"
  <2>1. CASE c \in DOMAIN concepts
    BY <1>4, <1>5, <1>6, <2>1
  <2>2. CASE c \notin DOMAIN concepts
    <3>1. /\ c \in ConceptIds(tx) /\ tx'.concepts[c] = tx.concepts[c]
          /\ <<c, tx.concepts[c].name>> \notin DOMAIN aliases
      BY <1>3, <1>5, <2>2
    <3> QED BY <1>6, <1>9, <3>1 DEF NamesInv, NameIsLabel
  <2> QED BY <2>1, <2>2
<1> QED BY <1>8, <1>9 DEF NamesInv, NameIsLabel

LEMMA ImportOnetNames ==
    ASSUME GraphInv, NamesInv(tx), ImportOnet
    PROVE  NamesInv(tx')
<1> DEFINE sources == OnetSources(build.plan)
<1>1. /\ tx'.sources = Upsert(sources, tx.sources)
      /\ tx'.concepts = tx.concepts
      /\ tx'.aliases = tx.aliases
  BY DEF ImportOnet, GraphInv, IInv, GraphOK, GraphFields
<1>2. ASSUME NEW s \in DOMAIN sources, s[3][1] = "software"
      PROVE  sources[s].names = Examples(s[3][2])
  <2> DEFINE id(external) == source_concept_id("onet", build.plan.onet, external)
             first == {id(Software(normalize_label(r.example))) : r \in OnetFile}
             second == {id(Category(r.category)) : r \in OnetFile}
             f == [s_1 \in first |-> [kind |-> "technology", names |-> Examples(s_1[3][2])]]
             g == [s_1 \in second |-> [kind |-> "technology_category",
                                       names |-> {Label(<<s_1[3][2]>>)}]]
  <2>1. sources = Upsert(f, g)
    BY DEF OnetSources, Examples
  <2>2. \A x \in second : x[3][1] = "category"
    BY DEF source_concept_id, Category
  <2>3. DOMAIN f = first /\ DOMAIN g = second
    OBVIOUS
  <2>4. \A x \in first : f[x].names = Examples(x[3][2])
    OBVIOUS
  <2> HIDE DEF f, g, first, second, sources
  <2>5. DOMAIN sources = first \cup second /\ \A x \in first : sources[x] = f[x]
    BY <2>1, <2>3, UpsertFacts
  <2>6. s \in first
    BY <1>2, <2>2, <2>5 DEF sources
  <2> QED BY <2>4, <2>5, <2>6 DEF sources
<1> HIDE DEF sources
<1>3. /\ DOMAIN tx'.sources = DOMAIN sources \cup DOMAIN tx.sources
      /\ \A s \in DOMAIN sources : tx'.sources[s] = sources[s]
      /\ \A s \in DOMAIN tx.sources \ DOMAIN sources : tx'.sources[s] = tx.sources[s]
  BY <1>1 DEF Upsert
<1>4. ASSUME NEW s \in DOMAIN tx'.sources, s[1] = "onet", s[3][1] = "software"
      PROVE  tx'.sources[s].names = Examples(s[3][2])
  BY <1>2, <1>3, <1>4 DEF NamesInv, OnetNamed
<1> QED BY <1>1, <1>4 DEF NamesInv, OnetNamed, NameIsLabel, ConceptIds

\* A technology is called by the first of its examples.
LEMMA SourceNameIs ==
    ASSUME GraphInv, NamesInv(tx), NEW q \in Waiting
    PROVE  SourceName(q.source) = FirstExample(q.source)
<1>1. /\ Source(q.source) \in DOMAIN tx.sources
      /\ Source(q.source)[1] = "onet" /\ Source(q.source)[3] = <<"software", q.source>>
  BY SourceIsOnet DEF GraphInv, IInv, BuildOK
<1>2. tx.sources[Source(q.source)].names = Examples(q.source)
  BY <1>1 DEF NamesInv, OnetNamed
<1> QED BY <1>2 DEF SourceName, FirstExample

LEMMA MapSourceNames ==
    ASSUME GraphInv, NamesInv(tx), NEW q \in Waiting, NEW c, NEW method,
           MapSource(q.source, c, method)
    PROVE  NamesInv(tx')
<1> DEFINE new == [a \in {<<c, k>> : k \in {x \in SourceNames(q.source) :
                                                AliasOwners(tx, x) = {}}} |->
                       [type |-> "alt", label |-> Label(a[2])]]
<1>1. /\ tx'.sources = tx.sources
      /\ tx'.concepts = tx.concepts
      /\ tx'.aliases = Upsert(new, tx.aliases)
  <2>1. DOMAIN tx = GraphFields
    BY DEF GraphInv, IInv, GraphOK
  <2>2. tx' = [tx EXCEPT
                  !.mappings = ReplaceMappings(
                      {Mapping(Source(q.source), c, method)}, tx.mappings),
                  !.aliases = Upsert(new, tx.aliases)]
    BY DEF MapSource, NewAliases
  <2> HIDE DEF new
  <2> QED BY <2>1, <2>2 DEF GraphFields
<1>2. \A a \in DOMAIN new : new[a].type # "derived"
  OBVIOUS
<1> HIDE DEF new
<1>3. /\ DOMAIN tx'.aliases = DOMAIN new \cup DOMAIN tx.aliases
      /\ \A a \in DOMAIN new : tx'.aliases[a] = new[a]
      /\ \A a \in DOMAIN tx.aliases \ DOMAIN new : tx'.aliases[a] = tx.aliases[a]
  BY <1>1 DEF Upsert
<1> QED BY <1>1, <1>2, <1>3 DEF NamesInv, OnetNamed, NameIsLabel, ConceptIds

LEMMA FoundConceptNames ==
    ASSUME GraphInv, NamesInv(tx), NEW q \in Waiting, FoundConcept(q)
    PROVE  NamesInv(tx')
<1> DEFINE c == canonical_concept_id("onet", Software(q.source))
           label == SourceName(q.source)
           name == canonical_technology_name(label)
           row == [name |-> name, kind |-> "technology", model |-> build.plan.model]
           rows == [x \in {c} |-> row]
           new == FoundedAliases(c, label)
<1>1. /\ tx'.sources = tx.sources
      /\ tx'.concepts = UpsertConcepts(rows, tx.concepts)
      /\ tx'.aliases = Upsert(new, tx.aliases)
  <2>1. DOMAIN tx = GraphFields
    BY DEF GraphInv, IInv, GraphOK
  <2>2. tx' = [tx EXCEPT
                  !.concepts = UpsertConcepts(rows, tx.concepts),
                  !.mappings = ReplaceMappings(
                      {Mapping(Source(q.source), c, "import")}, tx.mappings),
                  !.aliases = Upsert(new, tx.aliases)]
    BY DEF FoundConcept
  <2> HIDE DEF c, label, row, rows, new
  <2> QED BY <2>1, <2>2 DEF GraphFields
<1>2. \A a \in DOMAIN new : a[1] = c /\ (a[2] = name => new[a].type = "preferred")
  BY DEF FoundedAliases, NewAliases
<1>3. c[1] = "onet" /\ c[2][2] = q.source
  BY DEF canonical_concept_id, Software
<1>4. name = canonical_technology_name(FirstExample(q.source))
  BY SourceNameIs
<1>5. DOMAIN rows = {c} /\ rows[c].name = name /\ "name" \in DOMAIN rows[c]
  OBVIOUS
<1> HIDE DEF c, label, name, row, rows, new
<1>6. /\ ConceptIds(tx') = {c} \cup ConceptIds(tx)
      /\ tx'.concepts[c].name = name
      /\ \A x \in ConceptIds(tx) \ {c} : tx'.concepts[x] = tx.concepts[x]
  <2>1. DOMAIN tx'.concepts = DOMAIN rows \cup DOMAIN tx.concepts
    BY <1>1, UpsertConceptsFacts
  <2> QED BY <1>1, <1>5, <2>1, UpsertConceptsNames DEF ConceptIds
<1>7. /\ DOMAIN tx'.aliases = DOMAIN new \cup DOMAIN tx.aliases
      /\ \A a \in DOMAIN new : tx'.aliases[a] = new[a]
      /\ \A a \in DOMAIN tx.aliases \ DOMAIN new : tx'.aliases[a] = tx.aliases[a]
  BY <1>1 DEF Upsert
<1>8. OnetNamed(tx')
  BY <1>1, <1>3, <1>4, <1>6 DEF NamesInv, OnetNamed
<1>9. ASSUME NEW x \in ConceptIds(tx'), <<x, tx'.concepts[x].name>> \in DOMAIN tx'.aliases
      PROVE  tx'.aliases[<<x, tx'.concepts[x].name>>].type # "derived"
  <2>1. CASE x # c
    <3>1. /\ x \in ConceptIds(tx) /\ tx'.concepts[x] = tx.concepts[x]
          /\ <<x, tx.concepts[x].name>> \notin DOMAIN new
      BY <1>2, <1>6, <2>1
    <3> QED BY <1>7, <1>9, <3>1 DEF NamesInv, NameIsLabel
  <2>2. CASE x = c /\ <<c, name>> \in DOMAIN new
    BY <1>2, <1>6, <1>7, <2>2
  <2>3. CASE x = c /\ <<c, name>> \notin DOMAIN new
    <3>1. <<c, name>> \in DOMAIN tx.aliases
      BY <1>6, <1>7, <1>9, <2>3
    <3>2. c \in ConceptIds(tx)
      BY <3>1 DEF GraphInv, RInv, RowsRefer
    <3>3. tx.concepts[c].name = name
      BY <1>3, <1>4, <3>2 DEF NamesInv, OnetNamed
    <3> QED BY <1>6, <1>7, <2>3, <3>1, <3>2, <3>3 DEF NamesInv, NameIsLabel
  <2> QED BY <2>1, <2>2, <2>3
<1> QED BY <1>8, <1>9 DEF NamesInv, NameIsLabel

LinkInv == GraphInv /\ NamesInv(graph) /\ NamesInv(tx)

LEMMA InitLinkInv == Init => LinkInv
<1>1. NamesInv(EmptyGraph)
  BY DEF EmptyGraph, NamesInv, OnetNamed, NameIsLabel, ConceptIds
<1> QED BY <1>1, GraphInit DEF Init, LinkInv

LEMMA NextLinkInv == LinkInv /\ [Next]_vars => LinkInv'
<1> SUFFICES ASSUME LinkInv, [Next]_vars PROVE LinkInv'
  OBVIOUS
<1>1. GraphInv'
  BY GraphStep DEF LinkInv
<1>2. ASSUME tx' \in {tx, graph}, graph' \in {graph, tx} PROVE LinkInv'
  BY <1>1, <1>2 DEF LinkInv
<1>3. ASSUME UNCHANGED graph, NamesInv(tx') PROVE LinkInv'
  BY <1>1, <1>3 DEF LinkInv
<1>4. CASE ImportEsco
  BY <1>3, <1>4, ImportEscoNames DEF LinkInv, ImportEsco
<1>5. CASE ImportOnet
  BY <1>3, <1>5, ImportOnetNames DEF LinkInv, ImportOnet
<1>6. ASSUME NEW q \in build.queue,
             MatchLabel(q) \/ MatchAlias(q) \/ MatchTrgm(q) \/ MatchSemantic(q)
      PROVE  LinkInv'
  <2>1. UNCHANGED graph /\ \E c, method : MapSource(q.source, c, method)
    BY <1>6 DEF MatchLabel, MatchAlias, MatchTrgm, MatchSemantic
  <2> QED BY <1>3, <2>1, MapSourceNames DEF LinkInv, Waiting
<1>7. ASSUME NEW q \in build.queue, FoundConcept(q) PROVE LinkInv'
  <2>1. UNCHANGED graph
    BY <1>7 DEF FoundConcept
  <2> QED BY <1>3, <1>7, <2>1, FoundConceptNames DEF LinkInv, Waiting
<1>8. CASE /\ ~ImportEsco /\ ~ImportOnet
           /\ \A q \in build.queue :
                  ~(MatchLabel(q) \/ MatchAlias(q) \/ MatchTrgm(q) \/ MatchSemantic(q)
                        \/ FoundConcept(q))
  BY <1>2, <1>8 DEF Next, vars, StartBuild, Download, UseCache, StartReconcile, EndStage,
      MatchNoLabel, MatchNoTrgm, LeaveUnresolved, MatchNothing, Commit, Abort
<1> QED BY <1>4, <1>5, <1>6, <1>7, <1>8

\* A key with one owner.
LEMMA SingleOwner ==
    ASSUME GraphInv, NEW k, NEW c, AliasOwners(graph, k) = {c}
    PROVE  /\ ExactLink(graph, k) = c
           /\ c \in ConceptIds(graph) /\ Rank(c) \in Nat
           /\ <<c, k>> \in DOMAIN graph.aliases
<1>1. Sound(graph)
  BY GraphIsSound
<1>2. ExactLink(graph, k) \in {c} \cup {NoLink} /\ ExactLink(graph, k) \in ConceptIds(graph) \cup {NoLink}
  BY <1>1, ExactLinkIsOwner, ExactLinkKnown DEF Sound
<1>3. c \in ConceptIds(graph) /\ Rank(c) \in Nat
  BY <1>1, OwnersAreConcepts, SkillGraphConstants DEF Sound, RowsKnown
<1>4. <<c, k>> \in DOMAIN graph.aliases
  BY <1>1 DEF AliasOwners, Sound, RowsKnown
<1>5. AliasPriority[graph.aliases[<<c, k>>].type] \in Nat
  BY <1>1, <1>4, Priorities DEF Sound, RowsKnown
<1>6. ExactLink(graph, k) \in AliasOwners(graph, k)
  BY <1>3, <1>5 DEF ExactLink
<1> QED BY <1>3, <1>4, <1>6

\* In memory a label belongs to the owners that the database has of it.
LEMMA LabelledAreOwners ==
    ASSUME LinkInv, NEW k, Uncontested(k), NEW d \in LabelledBy(graph, k)
    PROVE  /\ d \in AliasOwners(graph, k)
           /\ graph.aliases[<<d, k>>].type # "derived"
<1>1. Sound(graph)
  BY GraphIsSound DEF LinkInv
<1>2. PICK l \in RecordLabels(graph, d) : normalize_label(l) = k
  BY DEF LabelledBy
<1>3. d \in ConceptIds(graph)
  BY DEF LabelledBy
<1>4. CASE l = Label(graph.concepts[d].name)
  <2>1. graph.concepts[d].name = k
    BY <1>2, <1>4 DEF Label, normalize_label
  <2>2. d \in AliasOwners(graph, k)
    BY <1>3, <2>1 DEF NameOwners, Uncontested, ConceptIds
  <2>3. <<d, k>> \in DOMAIN graph.aliases
    BY <1>1, <2>2 DEF AliasOwners, Sound, RowsKnown
  <2> QED BY <1>3, <2>1, <2>2, <2>3 DEF LinkInv, NamesInv, NameIsLabel
<1>5. ASSUME NEW a \in DOMAIN graph.aliases, a[1] = d, graph.aliases[a].type # "derived",
             l = graph.aliases[a].label
      PROVE  /\ d \in AliasOwners(graph, k)
             /\ graph.aliases[<<d, k>>].type # "derived"
  <2>1. a[2] = k /\ a = <<d, k>>
    BY <1>1, <1>2, <1>5 DEF Sound, RowsKnown
  <2> QED BY <1>5, <2>1 DEF AliasOwners
<1> QED BY <1>2, <1>4, <1>5 DEF RecordLabels

\* An alias that is no derived form is a label in memory.
LEMMA AliasesAreLabels ==
    ASSUME LinkInv, NEW a \in DOMAIN graph.aliases, graph.aliases[a].type # "derived"
    PROVE  a[1] \in LabelledBy(graph, a[2])
<1>1. Sound(graph)
  BY GraphIsSound DEF LinkInv
<1>2. a[1] \in ConceptIds(graph) /\ normalize_label(graph.aliases[a].label) = a[2]
  BY <1>1 DEF Sound, RowsRefer, RowsKnown
<1>3. graph.aliases[a].label \in RecordLabels(graph, a[1])
  BY DEF RecordLabels
<1> QED BY <1>2, <1>3 DEF LabelledBy

LEMMA OneLabelLinks ==
    ASSUME LinkInv, NEW k, Uncontested(k), LabelledBy(graph, k) # {}
    PROVE  \E c : /\ AliasOwners(graph, k) = {c} /\ LabelledBy(graph, k) = {c}
                  /\ MemoryExact(graph, k) = c
                  /\ graph.aliases[<<c, k>>].type # "derived"
<1>1. PICK c : c \in LabelledBy(graph, k)
  OBVIOUS
<1>2. /\ AliasOwners(graph, k) = {c} /\ LabelledBy(graph, k) = {c}
      /\ graph.aliases[<<c, k>>].type # "derived"
  BY <1>1, LabelledAreOwners DEF Uncontested
<1>3. Rank(c) \in Nat
  BY <1>2, SingleOwner DEF LinkInv
<1>4. MemoryExact(graph, k) = c
  BY <1>2, <1>3 DEF MemoryExact
<1> QED BY <1>2, <1>4

LEMMA KeysLinkAlike ==
    ASSUME LinkInv, NEW k \in Keys, Uncontested(k),
           OnlyDerived(k) => BareOwners(graph, k) = AliasOwners(graph, k)
    PROVE  MemoryExact(graph, k) = ExactLink(graph, k)
<1>1. PICK c : AliasOwners(graph, k) = {c}
  <2>1. AliasOwners(graph, k) # {}
    BY DEF Keys, AliasOwners
  <2> QED BY <2>1 DEF Uncontested
<1>2. ExactLink(graph, k) = c /\ <<c, k>> \in DOMAIN graph.aliases
  BY <1>1, SingleOwner DEF LinkInv
<1>3. CASE ~OnlyDerived(k)
  <2>1. graph.aliases[<<c, k>>].type # "derived"
    BY <1>1, <1>3 DEF OnlyDerived
  <2>2. c \in LabelledBy(graph, k)
    <3>1. <<c, k>>[1] = c /\ <<c, k>>[2] = k
      OBVIOUS
    <3> QED BY <1>2, <2>1, <3>1, AliasesAreLabels
  <2> QED BY <1>1, <1>2, <2>2, OneLabelLinks
<1>4. CASE OnlyDerived(k)
  <2>1. BareOwners(graph, k) = {c}
    BY <1>1, <1>4
  <2>2. LabelledBy(graph, k) = {}
    BY <2>1 DEF BareOwners
  <2>3. Cardinality({c}) = 1
    BY FS_Singleton
  <2> QED BY <1>2, <2>1, <2>2, <2>3 DEF MemoryExact
<1> QED BY <1>3, <1>4

LEMMA TextsScanAlike ==
    ASSUME LinkInv, NEW text,
           \A n \in Ngrams(text) :
               Uncontested(n) /\ (Len(n) <= ScanMaxNgram \/ LabelledBy(graph, n) = {})
    PROVE  PgScan(graph, text) = MemoryScan(graph, text)
<1>1. ASSUME NEW c \in PgScan(graph, text) PROVE c \in MemoryScan(graph, text)
  <2>1. PICK a \in DOMAIN graph.aliases :
            /\ a[1] = c /\ a[2] \in Ngrams(text) \ Ambiguous
            /\ graph.aliases[a].type # "derived"
    BY DEF PgScan
  <2>2. c \in LabelledBy(graph, a[2])
    BY <2>1, AliasesAreLabels
  <2>3. MemoryExact(graph, a[2]) = c
    BY <2>1, <2>2, OneLabelLinks
  <2> QED BY <2>1, <2>2, <2>3 DEF MemoryScan
<1>2. ASSUME NEW c \in MemoryScan(graph, text) PROVE c \in PgScan(graph, text)
  <2>1. PICK k \in Ngrams(text) \ Ambiguous :
            LabelledBy(graph, k) # {} /\ MemoryExact(graph, k) = c
    BY DEF MemoryScan
  <2>2. /\ AliasOwners(graph, k) = {c}
        /\ graph.aliases[<<c, k>>].type # "derived"
    BY <2>1, OneLabelLinks
  <2>3. <<c, k>> \in DOMAIN graph.aliases
    BY <2>2, SingleOwner DEF LinkInv
  <2>4. Len(k) <= ScanMaxNgram
    BY <2>1
  <2>5. <<c, k>>[1] = c /\ <<c, k>>[2] = k
    OBVIOUS
  <2> QED BY <2>1, <2>2, <2>3, <2>4, <2>5 DEF PgScan
<1> QED BY <1>1, <1>2

\* Whatever was built, the linker over the database (PostgresSkillLinker) and the one
\* over a snapshot (InMemorySkillLinker) link an uncontested label to the same
\* concept, a derived form too as long as what is stored derives it, and find the
\* same concepts in a text.
THEOREM LinkersStayAlike == Spec => []LinkersAgree
<1>1. LinkInv => LinkersAgree
  BY KeysLinkAlike, TextsScanAlike DEF LinkersAgree
<1> QED BY <1>1, InitLinkInv, NextLinkInv, PTL DEF Spec

-----------------------------------------------------------------------------
(***************************************************************************)
(* Sequences of sequences, and sentences.                                  *)
(***************************************************************************)
\* The function by which FlattenSeq goes through s.
Flattening(s, n, f) ==
    f = [i \in 1..n |-> IF i = 1 THEN s[i] ELSE f[i - 1] \o s[i]]

LEMMA FlatteningExists ==
    ASSUME NEW s, NEW n \in Nat
    PROVE  \E f : Flattening(s, n, f)
<1> DEFINE T == {k \in Nat : ~\E f : Flattening(s, k, f)}
<1>1. ASSUME T # {} PROVE FALSE
  <2>1. PICK k \in T : \A m \in T : k <= m
    <3>1. T \in SUBSET Nat
      OBVIOUS
    <3> HIDE DEF T
    <3> QED BY <1>1, <3>1, LeastNumber
  <2>2. CASE k = 0
    <3> DEFINE g == [i \in 1..0 |-> <<>>]
    <3>1. \A h : g = [i \in 1..0 |-> IF i = 1 THEN s[i] ELSE h[i - 1] \o s[i]]
      OBVIOUS
    <3> HIDE DEF g
    <3>2. Flattening(s, 0, g)
      BY <3>1 DEF Flattening
    <3> QED BY <2>2, <3>2
  <2>3. CASE k # 0
    <3>1. k - 1 \in Nat /\ k - 1 \notin T
      BY <2>1, <2>3
    <3>2. PICK g : Flattening(s, k - 1, g)
      BY <3>1
    <3> DEFINE h == [i \in 1..k |-> IF i = 1 THEN s[i] ELSE g[i - 1] \o s[i]]
    <3>3. ASSUME NEW i \in 1..k, i # 1 PROVE h[i - 1] = g[i - 1]
      <4>1. i - 1 \in 1..(k - 1) /\ i - 1 \in 1..k
        BY <3>3
      <4> QED BY <3>2, <4>1 DEF Flattening
    <3>4. h = [i \in 1..k |-> IF i = 1 THEN s[i] ELSE h[i - 1] \o s[i]]
      BY <3>3
    <3> HIDE DEF h
    <3>5. Flattening(s, k, h)
      BY <3>4 DEF Flattening
    <3> QED BY <2>1, <3>5
  <2> QED BY <2>2, <2>3
<1> QED BY <1>1

LEMMA FlattenSeqIs ==
    ASSUME NEW s, Len(s) \in Nat, Len(s) # 0
    PROVE  \E f : Flattening(s, Len(s), f) /\ FlattenSeq(s) = f[Len(s)]
<1> DEFINE f == CHOOSE f : f = [i \in 1..Len(s) |-> IF i = 1 THEN s[i] ELSE f[i - 1] \o s[i]]
<1>1. FlattenSeq(s) = f[Len(s)]
  BY DEF FlattenSeq
<1>2. f = [i \in 1..Len(s) |-> IF i = 1 THEN s[i] ELSE f[i - 1] \o s[i]]
  BY FlatteningExists DEF Flattening
<1> HIDE DEF f
<1> QED BY <1>1, <1>2 DEF Flattening

\* One sequence is what it is.
LEMMA FlattenOne ==
    ASSUME NEW t
    PROVE  FlattenSeq(<<t>>) = t
<1> DEFINE s == <<t>>
<1>1. Len(s) = 1 /\ s[1] = t
  OBVIOUS
<1> HIDE DEF s
<1>2. PICK f : Flattening(s, 1, f) /\ FlattenSeq(s) = f[1]
  <2>1. \E f : Flattening(s, Len(s), f) /\ FlattenSeq(s) = f[Len(s)]
    <3>1. Len(s) \in Nat /\ Len(s) # 0
      BY <1>1
    <3> QED BY <3>1, FlattenSeqIs
  <2> QED BY <1>1, <2>1
<1>3. f[1] = t
  BY <1>1, <1>2 DEF Flattening
<1> QED BY <1>2, <1>3 DEF s

\* The members of a finite set in a sequence.
LEMMA SetToSeqIs ==
    ASSUME NEW T, IsFiniteSet(T)
    PROVE  \E n \in Nat : /\ SetToSeq(T) \in [1..n -> T]
                          /\ Len(SetToSeq(T)) = n
                          /\ \A t \in T : \E i \in 1..n : SetToSeq(T)[i] = t
<1> DEFINE n == Cardinality(T)
<1>1. n \in Nat /\ ExistsBijection(1..n, T)
  BY FS_CardinalityType
<1>2. \E f \in [1..n -> T] : IsInjective(f)
  BY <1>1 DEF ExistsBijection, Bijection, Injection, IsInjective
<1>3. SetToSeq(T) \in [1..n -> T] /\ IsInjective(SetToSeq(T))
  BY <1>2 DEF SetToSeq
<1>6. SetToSeq(T) \in Surjection(1..n, T)
  <2>1. SetToSeq(T) \in Injection(1..n, T)
    BY <1>3 DEF Injection, IsInjective
  <2>2. Cardinality(1..n) = Cardinality(T)
    BY <1>1, FS_Interval
  <2> HIDE DEF n
  <2> QED BY <2>1, <2>2, FS_Injection
<1> HIDE DEF n
<1>4. SetToSeq(T) \in Seq(T) /\ DOMAIN SetToSeq(T) = 1..n
  BY <1>1, <1>3
<1>5. Len(SetToSeq(T)) = n
  BY <1>1, <1>4
<1> QED BY <1>1, <1>3, <1>5, <1>6 DEF Surjection

\* A text that ends in prose, of which the runs of words without a word of the
\* prose are in the names in T.
ProseOf(T, words) ==
    /\ words \in Names
    /\ words[Len(words)] \in ToSet(Prose)
    /\ \A gram \in Ngrams(words) :
           ToSet(gram) \cap ToSet(Prose) = {} => \E t \in T : gram \in Ngrams(t)

\* A run of words that is not empty.
LEMMA GramIs ==
    ASSUME NEW words \in Seq(STRING), NEW gram \in Ngrams(words)
    PROVE  \E i, j \in 1..Len(words) :
               /\ i <= j /\ gram = SubSeq(words, i, j)
               /\ \A k \in i..j : words[k] \in ToSet(gram)
<1>1. PICK i \in DOMAIN words, j \in DOMAIN words : gram = SubSeq(words, i, j)
  BY DEF Ngrams
<1>2. i \in 1..Len(words) /\ j \in 1..Len(words) /\ gram # <<>> /\ Len(words) \in Nat
  BY DEF Ngrams
<1>3. i <= j
  BY <1>1, <1>2, SubSeqEmpty
<1>4. ASSUME NEW k \in i..j PROVE words[k] \in ToSet(gram)
  <2>1. /\ gram \in Seq(STRING) /\ Len(gram) = j - i + 1
        /\ \A m \in 1..(j - i + 1) : gram[m] = words[i + m - 1]
    <3>1. \A m \in i..j : words[m] \in STRING
      BY <1>2
    <3>2. /\ gram \in Seq(STRING)
          /\ Len(gram) = IF i <= j THEN j - i + 1 ELSE 0
          /\ \A m \in 1..(j - i + 1) : gram[m] = words[i + m - 1]
      BY <1>1, <1>2, <3>1, SubSeqProperties
    <3> QED BY <1>3, <3>2
  <2>2. k - i + 1 \in 1..(j - i + 1) /\ i + (k - i + 1) - 1 = k
    BY <1>2
  <2>3. k - i + 1 \in DOMAIN gram /\ gram[k - i + 1] = words[k]
    BY <2>1, <2>2
  <2> QED BY <2>3 DEF ToSet
<1> QED BY <1>1, <1>2, <1>3, <1>4

LEMMA GramOf ==
    ASSUME NEW words \in Seq(STRING), NEW i \in 1..Len(words), NEW j \in i..Len(words)
    PROVE  SubSeq(words, i, j) \in Ngrams(words)
<1>1. i \in DOMAIN words /\ j \in DOMAIN words /\ \A m \in i..j : words[m] \in STRING
  OBVIOUS
<1>2. Len(SubSeq(words, i, j)) = j - i + 1
  BY <1>1, SubSeqProperties
<1>3. SubSeq(words, i, j) # <<>>
  <2>1. Len(SubSeq(words, i, j)) # 0
    BY <1>2
  <2> QED BY <2>1, EmptySeq
<1> DEFINE run(k, l) == SubSeq(words, k, l)
<1>4. Ngrams(words) = {run(k, l) : k \in DOMAIN words, l \in DOMAIN words} \ {<<>>}
  BY DEF Ngrams
<1>5. run(i, j) # <<>>
  BY <1>3
<1> HIDE DEF run
<1>6. run(i, j) \in Ngrams(words)
  BY <1>1, <1>4, <1>5
<1> QED BY <1>6 DEF run

LEMMA NameInText ==
    ASSUME NEW words \in Seq(STRING), NEW name \in Names
    PROVE  name \in Ngrams(words \o name \o Prose)
<1> DEFINE L == Len(words)
           M == Len(name)
           front == words \o name
           text == front \o Prose
<1>1. /\ Prose \in Seq(STRING) /\ Len(Prose) \in Nat
      /\ name \in Seq(STRING) /\ L \in Nat /\ M \in Nat \ {0}
  BY FabricationConstants DEF Names
<1>2. front \in Seq(STRING) /\ Len(front) = L + M
  BY <1>1
<1> HIDE DEF front
<1>3. text \in Seq(STRING) /\ Len(text) = L + M + Len(Prose)
  BY <1>1, <1>2
<1>4. L + 1 \in 1..Len(text) /\ L + M \in (L + 1)..Len(text)
  BY <1>1, <1>3
<1>5. SubSeq(text, L + 1, L + M) \in Ngrams(text)
  <2> HIDE DEF text, L, M
  <2> QED BY <1>3, <1>4, GramOf
<1>6. SubSeq(text, L + 1, L + M) = SubSeq(front, L + 1, L + M)
  <2>1. L + 1 \in 1..Len(front) /\ L + M \in 1..Len(front)
    BY <1>1, <1>2
  <2> QED BY <1>1, <1>2, <2>1, SubSeqOfConcat1
<1>7. SubSeq(front, L + 1, L + M) = SubSeq(name, (L + 1) - L, (L + M) - L)
  <2>1. L + 1 \in (L + 1)..(L + M) /\ L + M \in (L + 1)..(L + M)
    BY <1>1
  <2> QED BY <1>1, <2>1, SubSeqOfConcat2 DEF front
<1>8. (L + 1) - L = 1 /\ (L + M) - L = M
  BY <1>1
<1>9. SubSeq(name, 1, M) = name
  BY <1>1, SubSeqFull
<1> QED BY <1>5, <1>6, <1>7, <1>8, <1>9 DEF front

\* The parts of a part are parts.
LEMMA GramsOfGram ==
    ASSUME NEW words \in Seq(STRING), NEW gram \in Ngrams(words)
    PROVE  Ngrams(gram) \subseteq Ngrams(words)
<1>1. PICK i \in 1..Len(words), j \in 1..Len(words) : i <= j /\ gram = SubSeq(words, i, j)
  BY GramIs
<1>2. gram \in Seq(STRING) /\ Len(gram) = j - i + 1
  <2>1. \A m \in i..j : words[m] \in STRING
    OBVIOUS
  <2> QED BY <1>1, <2>1, SubSeqProperties
<1>3. ASSUME NEW part \in Ngrams(gram) PROVE part \in Ngrams(words)
  <2>1. PICK m \in 1..Len(gram), n \in 1..Len(gram) : m <= n /\ part = SubSeq(gram, m, n)
    BY <1>2, GramIs
  <2>2. part = SubSeq(words, i + m - 1, i + n - 1)
    BY <1>1, <1>2, <2>1, SubSeqOfSubSeq
  <2>3. i + m - 1 \in 1..Len(words) /\ i + n - 1 \in (i + m - 1)..Len(words)
    BY <1>1, <1>2, <2>1
  <2> QED BY <2>2, <2>3, GramOf
<1> QED BY <1>3

\* What is part of a text stays part of it when it goes on.
LEMMA GramsStay ==
    ASSUME NEW words \in Seq(STRING), NEW more \in Seq(STRING)
    PROVE  Ngrams(words) \subseteq Ngrams(words \o more)
<1>1. ASSUME NEW gram \in Ngrams(words) PROVE gram \in Ngrams(words \o more)
  <2>1. PICK i \in 1..Len(words), j \in 1..Len(words) : i <= j /\ gram = SubSeq(words, i, j)
    BY GramIs
  <2>2. gram = SubSeq(words \o more, i, j)
    BY <2>1, SubSeqOfConcat1
  <2>3. /\ words \o more \in Seq(STRING)
        /\ i \in 1..Len(words \o more) /\ j \in i..Len(words \o more)
    BY <2>1
  <2> QED BY <2>2, <2>3, GramOf
<1> QED BY <1>1

\* The text goes on with a name: what was part of it still is, and so are the
\* parts of the name.
LEMMA NameGoesOn ==
    ASSUME NEW words \in Seq(STRING), NEW name \in Names
    PROVE  /\ Ngrams(words) \subseteq Ngrams(words \o (name \o Prose))
           /\ Ngrams(name) \subseteq Ngrams(words \o (name \o Prose))
<1>1. Prose \in Seq(STRING) /\ name \in Seq(STRING)
  BY FabricationConstants DEF Names
<1>2. name \o Prose \in Seq(STRING) /\ words \o (name \o Prose) \in Seq(STRING)
  BY <1>1
<1>3. words \o (name \o Prose) = (words \o name) \o Prose
  BY <1>1, ConcatAssociative
<1>4. name \in Ngrams(words \o (name \o Prose))
  BY <1>3, NameInText
<1> QED BY <1>2, <1>4, GramsOfGram, GramsStay

LEMMA ProseIsProse ==
    ASSUME NEW T
    PROVE  ProseOf(T, Prose)
<1>1. Prose \in Seq(STRING) /\ Prose # <<>> /\ Len(Prose) \in Nat \ {0}
  BY FabricationConstants DEF Names
<1>2. \A k \in 1..Len(Prose) : Prose[k] \in ToSet(Prose)
  BY <1>1 DEF ToSet
<1>3. ASSUME NEW gram \in Ngrams(Prose) PROVE ToSet(gram) \cap ToSet(Prose) # {}
  BY <1>1, <1>2, GramIs
<1> QED BY <1>1, <1>2, <1>3 DEF ProseOf, Names

\* The text goes on with a name, and with prose again.
LEMMA ProseGoesOn ==
    ASSUME NEW T, NEW words, ProseOf(T, words), NEW t \in T, t \in Seq(STRING)
    PROVE  ProseOf(T, words \o (t \o Prose))
<1> DEFINE more == t \o Prose
           text == words \o more
           L == Len(words)
           M == Len(t)
           N == Len(Prose)
<1>1. /\ words \in Seq(STRING) /\ words # <<>> /\ L \in Nat \ {0}
      /\ Prose \in Seq(STRING) /\ N \in Nat \ {0} /\ M \in Nat
  BY FabricationConstants DEF ProseOf, Names
<1>2. /\ more \in Seq(STRING) /\ Len(more) = M + N
      /\ \A k \in 1..M : more[k] = t[k]
      /\ \A k \in 1..N : more[M + k] = Prose[k]
  BY <1>1
<1> HIDE DEF more
<1>3. /\ text \in Seq(STRING) /\ Len(text) = L + M + N
      /\ \A k \in 1..L : text[k] = words[k]
      /\ \A k \in 1..(M + N) : text[L + k] = more[k]
  <2>1. /\ text \in Seq(STRING) /\ Len(text) = L + Len(more)
        /\ \A k \in 1..(L + Len(more)) : text[k] = IF k <= L THEN words[k] ELSE more[k - L]
    <3>1. words \in Seq(STRING) /\ more \in Seq(STRING)
      BY <1>1, <1>2
    <3>2. /\ words \o more \in Seq(STRING)
          /\ Len(words \o more) = Len(words) + Len(more)
          /\ \A k \in 1..(Len(words) + Len(more)) :
                 (words \o more)[k] = IF k <= Len(words) THEN words[k] ELSE more[k - Len(words)]
      BY <3>1, ConcatProperties, Zenon
    <3> QED BY <3>2
  <2> HIDE DEF text, L, M, N
  <2>2. \A k \in 1..(M + N) : /\ L + k \in 1..(L + Len(more)) /\ ~(L + k <= L)
                             /\ (L + k) - L = k
    BY <1>1, <1>2
  <2>3. \A k \in 1..L : k \in 1..(L + Len(more))
    BY <1>1, <1>2
  <2>4. \A k \in 1..L : text[k] = words[k]
    BY <2>1, <2>3
  <2>5. \A k \in 1..(M + N) : text[L + k] = more[k]
    BY <2>1, <2>2
  <2>6. Len(text) = L + M + N
    BY <1>1, <1>2, <2>1
  <2> QED BY <2>1, <2>4, <2>5, <2>6
<1>4. text[L] \in ToSet(Prose) /\ \A k \in (L + M + 1)..(L + M + N) : text[k] \in ToSet(Prose)
  <2>1. text[L] \in ToSet(Prose)
    BY <1>1, <1>3 DEF ProseOf
  <2>2. ASSUME NEW k \in (L + M + 1)..(L + M + N) PROVE text[k] \in ToSet(Prose)
    <3>1. k - L \in 1..(M + N) /\ k - L - M \in 1..N /\ L + (k - L) = k /\ M + (k - L - M) = k - L
      BY <1>1
    <3>2. text[k] = Prose[k - L - M]
      BY <1>2, <1>3, <3>1
    <3> QED BY <1>1, <3>1, <3>2 DEF ToSet
  <2> QED BY <2>1, <2>2
<1> HIDE DEF text
<1>5. ASSUME NEW gram \in Ngrams(text), ToSet(gram) \cap ToSet(Prose) = {}
      PROVE  \E n \in T : gram \in Ngrams(n)
  <2>1. PICK i \in 1..Len(text), j \in 1..Len(text) :
            /\ i <= j /\ gram = SubSeq(text, i, j)
            /\ \A k \in i..j : text[k] \in ToSet(gram)
    BY <1>3, GramIs
  <2>2. \A k \in i..j : text[k] \notin ToSet(Prose)
    BY <1>5, <2>1
  <2>3. L \notin i..j /\ \A k \in (L + M + 1)..(L + M + N) : k \notin i..j
    BY <1>4, <2>2
  <2>4. CASE i <= L
    <3>1. j < L
      BY <1>1, <1>3, <2>1, <2>3, <2>4
    <3>2. gram = SubSeq(words, i, j)
      BY <1>1, <1>2, <1>3, <2>1, <2>4, <3>1, SubSeqOfConcat1 DEF text
    <3>3. gram \in Ngrams(words)
      BY <1>1, <2>1, <2>4, <3>1, <3>2, GramOf
    <3> QED BY <1>5, <3>3 DEF ProseOf
  <2>5. CASE L < i
    <3>1. i <= L + M
      BY <1>1, <1>3, <2>1, <2>3
    <3>2. j <= L + M
      BY <1>1, <1>3, <2>1, <2>3, <3>1
    <3>3. /\ i - L \in 1..M /\ j - L \in (i - L)..M
          /\ i \in (L + 1)..(L + Len(more)) /\ j \in (L + 1)..(L + Len(more))
      BY <1>1, <1>2, <2>1, <2>5, <3>1, <3>2
    <3>4. gram = SubSeq(more, i - L, j - L)
      BY <1>1, <1>2, <2>1, <3>3, SubSeqOfConcat2 DEF text
    <3>5. gram = SubSeq(t, i - L, j - L)
      <4>1. i - L \in 1..Len(t) /\ j - L \in 1..Len(t)
        BY <1>1, <3>3
      <4> QED BY <1>1, <3>4, <4>1, SubSeqOfConcat1 DEF more
    <3>6. gram \in Ngrams(t)
      BY <3>3, <3>5, GramOf
    <3> QED BY <3>6
  <2> QED BY <1>1, <2>1, <2>4, <2>5
<1>6. text \in Names /\ text[Len(text)] \in ToSet(Prose)
  <2>1. Len(text) \in (L + M + 1)..(L + M + N) /\ Len(text) # 0
    BY <1>1, <1>3
  <2>2. text # <<>>
    BY <2>1, EmptySeq
  <2> QED BY <1>3, <1>4, <2>1, <2>2 DEF Names
<1> QED BY <1>5, <1>6 DEF ProseOf, text, more

\* Names that are joined by prose: a run of words that has none of the prose is
\* part of a name, and all parts of the names are there.
LEMMA SentenceIsProse ==
    ASSUME NEW T \in SUBSET Names, IsFiniteSet(T)
    PROVE  /\ ProseOf(T, Sentence(SetToSeq(T)))
           /\ \A t \in T : Ngrams(t) \subseteq Ngrams(Sentence(SetToSeq(T)))
<1> DEFINE names == SetToSeq(T)
           s == [i \in DOMAIN names |-> names[i] \o Prose]
<1>1. PICK n \in Nat : /\ names \in [1..n -> T] /\ Len(names) = n
                       /\ \A t \in T : \E i \in 1..n : names[i] = t
  BY SetToSeqIs
<1>2. Prose \in Seq(STRING) /\ Prose # <<>>
  BY FabricationConstants DEF Names
<1>3. Sentence(names) = Prose \o FlattenSeq(s)
  BY DEF Sentence
<1> HIDE DEF names
<1>4. /\ \A i \in 1..n : names[i] \in T /\ names[i] \in Names /\ names[i] \in Seq(STRING)
      /\ \A i \in 1..n : s[i] = names[i] \o Prose /\ s[i] \in Seq(STRING)
      /\ DOMAIN s = 1..n
  BY <1>1, <1>2 DEF Names
<1> HIDE DEF s
<1>5. s \in Seq(Seq(STRING)) /\ Len(s) = n
  <2>1. s = [i \in 1..n |-> s[i]]
    BY <1>4 DEF s
  <2>2. s \in [1..n -> Seq(STRING)]
    BY <1>4, <2>1
  <2> QED BY <1>1, <2>2
<1>6. CASE n = 0
  <2>1. FlattenSeq(s) = s /\ s = <<>>
    BY <1>5, <1>6 DEF FlattenSeq
  <2>2. Prose \o <<>> = Prose
    BY <1>2
  <2>3. T = {}
    BY <1>1, <1>6
  <2> QED BY <1>3, <2>1, <2>2, <2>3, ProseIsProse DEF names
<1>7. CASE n # 0
  <2>1. PICK f : Flattening(s, n, f) /\ FlattenSeq(s) = f[n]
    <3>1. \E f : Flattening(s, Len(s), f) /\ FlattenSeq(s) = f[Len(s)]
      BY <1>5, <1>7, FlattenSeqIs
    <3> QED BY <1>5, <3>1
  <2> DEFINE Good(k) ==
                 /\ f[k] \in Seq(STRING) /\ ProseOf(T, Prose \o f[k])
                 /\ \A i \in 1..k : Ngrams(names[i]) \subseteq Ngrams(Prose \o f[k])
             bad == {k \in 1..n : ~Good(k)}
  <2>2. Good(1)
    <3>1. f[1] = names[1] \o Prose /\ names[1] \in T /\ names[1] \in Seq(STRING)
      BY <1>4, <1>7, <2>1 DEF Flattening
    <3>2. f[1] \in Seq(STRING)
      BY <1>2, <3>1
    <3>3. ProseOf(T, Prose \o (names[1] \o Prose))
      BY <3>1, ProseGoesOn, ProseIsProse
    <3>4. Ngrams(names[1]) \subseteq Ngrams(Prose \o (names[1] \o Prose))
      <4>1. names[1] \in Names
        BY <1>1, <1>4, <1>7
      <4> QED BY <1>2, <4>1, NameGoesOn
    <3>5. \A i \in 1..1 : i = 1
      OBVIOUS
    <3> QED BY <3>1, <3>2, <3>3, <3>4, <3>5
  <2>3. ASSUME NEW k \in 2..n, Good(k - 1) PROVE Good(k)
    <3>1. /\ f[k] = f[k - 1] \o (names[k] \o Prose)
          /\ names[k] \in T /\ names[k] \in Seq(STRING) /\ f[k - 1] \in Seq(STRING)
      <4>1. k \in 1..n /\ k # 1
        OBVIOUS
      <4>2. f[k] = f[k - 1] \o s[k]
        BY <2>1, <4>1 DEF Flattening
      <4> QED BY <1>4, <2>3, <4>1, <4>2
    <3>2. f[k] \in Seq(STRING)
      BY <1>2, <3>1
    <3>3. Prose \o f[k] = (Prose \o f[k - 1]) \o (names[k] \o Prose)
      <4>1. names[k] \o Prose \in Seq(STRING)
        BY <1>2, <3>1
      <4> DEFINE before == f[k - 1]
                 more == names[k] \o Prose
      <4> HIDE DEF before, more
      <4>2. Prose \o (before \o more) = (Prose \o before) \o more
        <5>1. before \in Seq(STRING) /\ more \in Seq(STRING)
          BY <3>1, <4>1 DEF before, more
        <5> QED BY <1>2, <5>1, ConcatAssociative
      <4> QED BY <3>1, <4>2 DEF before, more
    <3>4. ProseOf(T, (Prose \o f[k - 1]) \o (names[k] \o Prose))
      BY <2>3, <3>1, ProseGoesOn
    <3>5. ASSUME NEW i \in 1..k PROVE Ngrams(names[i]) \subseteq Ngrams(Prose \o f[k])
      <4>1. names[k] \in Names /\ Prose \o f[k - 1] \in Seq(STRING)
        BY <1>2, <1>4, <3>1
      <4>2. /\ Ngrams(Prose \o f[k - 1]) \subseteq Ngrams(Prose \o f[k])
            /\ Ngrams(names[k]) \subseteq Ngrams(Prose \o f[k])
        BY <3>3, <4>1, NameGoesOn
      <4>3. i = k \/ i \in 1..(k - 1)
        OBVIOUS
      <4>4. CASE i \in 1..(k - 1)
        <5>1. Ngrams(names[i]) \subseteq Ngrams(Prose \o f[k - 1])
          BY <2>3, <4>4
        <5> QED BY <4>2, <5>1
      <4> QED BY <4>2, <4>3, <4>4
    <3> QED BY <3>2, <3>3, <3>4, <3>5
  <2>4. ASSUME bad # {} PROVE FALSE
    <3>1. bad \in SUBSET Nat
      OBVIOUS
    <3>2. PICK k \in bad : \A m \in bad : k <= m
      <4> HIDE DEF bad
      <4> QED BY <2>4, <3>1, LeastNumber
    <3>3. k \in 1..n /\ ~Good(k) /\ k # 1
      BY <2>2, <3>2
    <3>4. k \in 2..n /\ k - 1 \in 1..n /\ ~(k <= k - 1)
      BY <3>3
    <3>5. Good(k - 1)
      BY <3>2, <3>4
    <3> HIDE DEF Good
    <3> QED BY <2>3, <3>3, <3>4, <3>5
  <2>5. Good(n)
    <3>1. n \in 1..n
      BY <1>1, <1>7
    <3> HIDE DEF Good
    <3> QED BY <2>4, <3>1
  <2>6. ASSUME NEW t \in T PROVE Ngrams(t) \subseteq Ngrams(Prose \o FlattenSeq(s))
    BY <1>1, <2>1, <2>5
  <2> QED BY <1>3, <2>1, <2>5, <2>6 DEF names
<1> QED BY <1>1, <1>6, <1>7

-----------------------------------------------------------------------------
(***************************************************************************)
(* Concepts have names.                                                    *)
(***************************************************************************)
Named(g) == \A c \in ConceptIds(g) : g.concepts[c].name \in Names

LEMMA FrontIsName ==
    ASSUME NEW words \in Names, Len(words) > 1
    PROVE  Front(words) \in Names
<1>1. words \in Seq(STRING) /\ Len(words) \in Nat /\ \A k \in 1..(Len(words) - 1) : words[k] \in STRING
  BY DEF Names
<1>2. Front(words) \in Seq(STRING) /\ Len(Front(words)) = Len(words) - 1
  <2>1. /\ SubSeq(words, 1, Len(words) - 1) \in Seq(STRING)
        /\ Len(SubSeq(words, 1, Len(words) - 1)) = Len(words) - 1
    BY <1>1, SubSeqProperties
  <2> QED BY <2>1 DEF Front
<1>3. Len(Front(words)) # 0
  BY <1>1, <1>2
<1> QED BY <1>2, <1>3, EmptySeq DEF Names

LEMMA TechnologyIsNamed ==
    ASSUME NEW label, label.words \in Names
    PROVE  canonical_technology_name(label) \in Names
<1>1. WithoutSuffix(label) \in Names
  BY FrontIsName DEF WithoutSuffix
<1> QED BY <1>1, FrontIsName DEF canonical_technology_name, NamesAcronym

LEMMA ImportEscoNamed ==
    ASSUME GraphInv, Named(tx), ImportEsco
    PROVE  Named(tx')
<1> DEFINE plan == build.plan
           concepts == EscoConcepts(plan)
<1>1. plan.esco \in EscoVersions
  BY DEF GraphInv, RInv, PlanOK, Plans, ImportEsco
<1>2. ASSUME NEW c \in DOMAIN concepts
      PROVE  "name" \in DOMAIN concepts[c] /\ concepts[c].name \in Names
  <2> DEFINE rows == CanonicalRows(plan.esco)
             row == CHOOSE r \in rows : r.uri = c[2]
  <2>1. PICK r \in rows : c = canonical_concept_id("esco", r.uri)
    BY DEF EscoConcepts
  <2>2. c[2] = r.uri
    BY <2>1 DEF canonical_concept_id
  <2>3. row \in rows
    BY <2>1, <2>2
  <2>4. "name" \in DOMAIN concepts[c] /\ concepts[c].name = normalize_label(row.name)
    BY DEF EscoConcepts
  <2> HIDE DEF row
  <2>5. row.name.words \in Names
    BY <1>1, <2>3, SkillGraphConstants DEF CanonicalRows
  <2> QED BY <2>4, <2>5 DEF normalize_label
<1>3. tx'.concepts = UpsertConcepts(concepts, tx.concepts)
  BY DEF ImportEsco
<1> HIDE DEF concepts
<1>4. ConceptIds(tx') = DOMAIN concepts \cup ConceptIds(tx)
  BY <1>3, UpsertConceptsFacts DEF ConceptIds
<1> QED BY <1>2, <1>3, <1>4, UpsertConceptsNames DEF Named, ConceptIds

LEMMA FoundConceptNamed ==
    ASSUME LinkInv, Named(tx), NEW q \in Waiting, FoundConcept(q)
    PROVE  Named(tx')
<1> DEFINE c == canonical_concept_id("onet", Software(q.source))
           label == SourceName(q.source)
           row == [name |-> canonical_technology_name(label), kind |-> "technology",
                   model |-> build.plan.model]
           rows == [x \in {c} |-> row]
<1>1. tx'.concepts = UpsertConcepts(rows, tx.concepts)
  <2>1. DOMAIN tx = GraphFields
    BY DEF LinkInv, GraphInv, IInv, GraphOK
  <2>2. tx' = [tx EXCEPT
                  !.concepts = UpsertConcepts(rows, tx.concepts),
                  !.mappings = ReplaceMappings(
                      {Mapping(Source(q.source), c, "import")}, tx.mappings),
                  !.aliases = Upsert(FoundedAliases(c, label), tx.aliases)]
    BY DEF FoundConcept
  <2> HIDE DEF c, label, row, rows
  <2> QED BY <2>1, <2>2 DEF GraphFields
<1>2. label.words \in Names
  <2> DEFINE s == Source(q.source)
  <2>1. s \in DOMAIN tx.sources /\ s[1] = "onet" /\ s[3] = <<"software", q.source>>
    BY SourceIsOnet DEF LinkInv, GraphInv, IInv, BuildOK
  <2>2. tx.sources[s].names = Examples(q.source)
    BY <2>1 DEF LinkInv, NamesInv, OnetNamed
  <2>3. Examples(q.source) # {}
    BY <2>1, <2>2 DEF LinkInv, GraphInv, IInv, GraphOK, SourcesNamed
  <2>4. label \in Examples(q.source)
    <3>1. \E l \in Examples(q.source) : l.caps \/ \A m \in Examples(q.source) : ~m.caps
      BY <2>3
    <3>2. label = CHOOSE l \in Examples(q.source) : l.caps \/ \A m \in Examples(q.source) : ~m.caps
      BY <2>2 DEF SourceName
    <3> QED BY <3>1, <3>2
  <2> QED BY <2>4, SkillGraphConstants DEF Examples
<1>3. row.name \in Names
  BY <1>2, TechnologyIsNamed
<1>4. DOMAIN rows = {c} /\ rows[c].name = row.name /\ "name" \in DOMAIN rows[c]
  OBVIOUS
<1> HIDE DEF c, label, row, rows
<1>5. ConceptIds(tx') = {c} \cup ConceptIds(tx)
  BY <1>1, <1>4, UpsertConceptsFacts DEF ConceptIds
<1> QED BY <1>1, <1>3, <1>4, <1>5, UpsertConceptsNames DEF Named, ConceptIds

NamedInv == LinkInv /\ Named(graph) /\ Named(tx)

LEMMA InitNamedInv == Init => NamedInv
BY InitLinkInv DEF Init, EmptyGraph, NamedInv, Named, ConceptIds

LEMMA NextNamedInv == NamedInv /\ [Next]_vars => NamedInv'
<1> SUFFICES ASSUME NamedInv, [Next]_vars PROVE NamedInv'
  OBVIOUS
<1>1. LinkInv'
  BY NextLinkInv DEF NamedInv
<1>2. CASE tx' \in {tx, graph} /\ graph' \in {graph, tx}
  BY <1>1, <1>2 DEF NamedInv
<1>3. CASE UNCHANGED graph /\ tx'.concepts = tx.concepts
  BY <1>1, <1>3 DEF NamedInv, Named, ConceptIds
<1>4. CASE ImportEsco
  BY <1>1, <1>4, ImportEscoNamed DEF NamedInv, LinkInv, ImportEsco
<1>5. CASE ImportOnet
  <2>1. tx'.concepts = tx.concepts /\ UNCHANGED graph
    BY <1>5 DEF ImportOnet, NamedInv, LinkInv, GraphInv, IInv, GraphOK, GraphFields
  <2> QED BY <1>3, <2>1
<1>6. ASSUME NEW q \in build.queue,
             MatchLabel(q) \/ MatchAlias(q) \/ MatchTrgm(q) \/ MatchSemantic(q)
      PROVE  NamedInv'
  <2>1. UNCHANGED graph /\ \E c, method : MapSource(q.source, c, method)
    BY <1>6 DEF MatchLabel, MatchAlias, MatchTrgm, MatchSemantic
  <2>2. tx'.concepts = tx.concepts
    BY <2>1 DEF MapSource, NamedInv, LinkInv, GraphInv, IInv, GraphOK, GraphFields
  <2> QED BY <1>3, <2>1, <2>2
<1>7. ASSUME NEW q \in build.queue, FoundConcept(q) PROVE NamedInv'
  <2>1. UNCHANGED graph
    BY <1>7 DEF FoundConcept
  <2> QED BY <1>1, <1>7, <2>1, FoundConceptNamed DEF NamedInv, Waiting
<1>8. CASE /\ ~ImportEsco /\ ~ImportOnet
           /\ \A q \in build.queue :
                  ~(MatchLabel(q) \/ MatchAlias(q) \/ MatchTrgm(q) \/ MatchSemantic(q)
                        \/ FoundConcept(q))
  BY <1>2, <1>8 DEF Next, vars, StartBuild, Download, UseCache, StartReconcile, EndStage,
      MatchNoLabel, MatchNoTrgm, LeaveUnresolved, MatchNothing, Commit, Abort
<1> QED BY <1>4, <1>5, <1>6, <1>7, <1>8

-----------------------------------------------------------------------------
(***************************************************************************)
(* Names as claims and in texts.                                           *)
(***************************************************************************)
\* What somebody owns links to an owner.
LEMMA OwnedLinks ==
    ASSUME NamedInv, NEW key, AliasOwners(graph, key) # {}
    PROVE  PgLinkSpan(graph, NoModel, key) \in AliasOwners(graph, key) \ {NoLink}
<1>1. Sound(graph)
  BY GraphIsSound DEF NamedInv, LinkInv
<1>2. ExactLink(graph, key) \in AliasOwners(graph, key)
  BY <1>1, ExactLinkIsOwner DEF Sound
<1>3. ExactLink(graph, key) # NoLink
  BY <1>1, <1>2, OwnersAreConcepts, ConceptsArePairs DEF NoLink, Sound
<1> QED BY <1>2, <1>3 DEF PgLinkSpan

\* The fragments of a span that is one name.
LEMMA NameIsFragment ==
    ASSUME NEW name \in Names
    PROVE  expand_compound_span(<<name>>) = {name}
<1>1. ToSet(<<name>>) = {name}
  BY DEF ToSet
<1>2. name # <<>>
  BY DEF Names
<1> QED BY <1>1, <1>2, FlattenOne DEF expand_compound_span

\* Claims that are names are linked one by one.
LEMMA ClaimsLink ==
    ASSUME NEW N \in SUBSET Names
    PROVE  PgLinkReport(graph, NoModel, {<<name>> : name \in N})
               = {PgLinkSpan(graph, NoModel, name) : name \in N} \ {NoLink}
<1> DEFINE spans == {<<name>> : name \in N}
<1>1. Fragments(spans) = N
  <2>1. ASSUME NEW f \in Fragments(spans) PROVE f \in N
    <3>1. PICK span \in spans : f \in expand_compound_span(span)
      BY DEF Fragments
    <3>2. PICK name \in N : span = <<name>>
      BY <3>1
    <3> HIDE DEF spans
    <3> QED BY <3>1, <3>2, NameIsFragment
  <2>2. ASSUME NEW name \in N PROVE name \in Fragments(spans)
    <3>1. <<name>> \in spans /\ name \in expand_compound_span(<<name>>)
      BY NameIsFragment
    <3> HIDE DEF spans
    <3> QED BY <3>1 DEF Fragments
  <2> HIDE DEF spans
  <2> QED BY <2>1, <2>2
<1> HIDE DEF spans
<1>2. PgLinkReport(graph, NoModel, spans)
          = {PgLinkSpan(graph, NoModel, f) : f \in Fragments(spans)} \ {NoLink}
  BY DEF PgLinkReport, link_span_report
<1> QED BY <1>1, <1>2 DEF spans

\* A concept that has its name as an alias is found by it, unless it is too long.
LEMMA ScanFinds ==
    ASSUME NamedInv, NEW c \in ConceptIds(graph), NEW words,
           SkillName(graph, c) \in Ngrams(words) \ Ambiguous,
           c \in AliasOwners(graph, SkillName(graph, c)),
           Len(SkillName(graph, c)) <= ScanMaxNgram
    PROVE  c \in PgScan(graph, words)
<1> DEFINE name == SkillName(graph, c)
<1>1. <<c, name>> \in DOMAIN graph.aliases
  <2>1. PICK a \in DOMAIN graph.aliases : a[1] = c /\ a[2] = name
    BY DEF AliasOwners
  <2> QED BY <2>1 DEF NamedInv, LinkInv, GraphInv, RInv, RowsKnown
<1>2. graph.aliases[<<c, name>>].type # "derived"
  BY <1>1 DEF NamedInv, LinkInv, NamesInv, NameIsLabel, SkillName
<1> QED BY <1>1, <1>2 DEF PgScan

-----------------------------------------------------------------------------
(***************************************************************************)
(* Resumes and the deterministic checks.                                   *)
(***************************************************************************)
LEMMA Checks ==
    ASSUME NEW g, NEW provider, NEW resume, NEW history, NEW ids
    PROVE  LET codes == run_deterministic_checks(g, provider, resume, history, ids) IN
           /\ "unknown_employer" \in codes <=>
                  \E e \in ClaimedEmployers(resume) :
                      normalize_employer(e) \notin SourceEmployers(history)
           /\ "unknown_title" \in codes <=>
                  \E t \in ClaimedTitles(resume) : t \notin SourceTitles(history)
           /\ "unknown_date_range" \in codes <=>
                  \E r \in ClaimedRanges(resume) : ~DateInSource(r, SourceDates(history))
           /\ "fabricated_number" \in codes <=>
                  \E n \in resume.doc.numbers : n \notin SourceNumbers(history)
           /\ "out_of_set_skill" \in codes <=>
                  \E c \in OutputSkills(g, provider, resume) : c \notin ids
           /\ codes \subseteq {"unknown_employer", "unknown_title", "unknown_date_range",
                               "fabricated_number", "out_of_set_skill"}
BY DEF run_deterministic_checks

ResumeShape(r) ==
    /\ DOMAIN r = {"doc", "map"}
    /\ DOMAIN r.doc = {"mentions", "numbers", "words"}
    /\ DOMAIN r.map = {"employers", "titles", "dateRanges", "skillIds", "claimIds", "claims"}
    /\ DOMAIN r.map.claims = ClaimKinds

LEMMA HonestShape ==
    ASSUME NEW g, NEW history, NEW ids
    PROVE  ResumeShape(HonestResume(g, history, ids))
BY DEF HonestResume, ResumeShape, NoClaims

\* What the history does not have is not in the sets it is compared with.
LEMMA InventionsAreUnknown ==
    ASSUME NEW history \in Histories, NEW fact \in Inventions
    PROVE  /\ normalize_employer(fact.name) \notin SourceEmployers(history)
           /\ fact.name \notin SourceTitles(history)
           /\ fact.number \notin SourceNumbers(history)
<1>1. \A e \in history :
          /\ normalize_employer(e.employer) # normalize_employer(fact.name)
          /\ e.title # fact.name
          /\ fact.number \notin e.numbers \cup {e.start.year, e.end.year}
  BY FabricationConstants
<1> QED BY <1>1 DEF SourceEmployers, SourceTitles, SourceNumbers

\* Facts that are not of the history.
LEMMA FactsAreCaught ==
    ASSUME NEW g, NEW history \in Histories, NEW ids, NEW fact \in Inventions,
           NEW resume, ResumeShape(resume), NEW p \in PlantedFacts(resume, fact)
    PROVE  p[1] \in run_deterministic_checks(g, NoModel, p[2], history, ids)
<1>0. /\ normalize_employer(fact.name) \notin SourceEmployers(history)
      /\ fact.name \notin SourceTitles(history)
      /\ fact.number \notin SourceNumbers(history)
  BY InventionsAreUnknown
<1>1. CASE p[1] = "unknown_employer"
  <2> DEFINE listed == [resume EXCEPT !.map.employers = @ \cup {fact.name}]
             claimed == [resume EXCEPT !.map.claims["employer"] = @ \cup {fact.name}]
             mentioned == [resume EXCEPT !.map.claims["employer"] = {}, !.map.employers = {},
                                         !.doc.mentions = @ \cup {fact.name}]
  <2>1. fact.name \in ClaimedEmployers(listed)
    <3>1. fact.name \in listed.map.employers
      BY DEF ResumeShape
    <3> QED BY <3>1 DEF ClaimedEmployers
  <2>2. fact.name \in ClaimedEmployers(claimed)
    <3>1. fact.name \in claimed.map.claims["employer"]
      BY DEF ResumeShape, ClaimKinds
    <3> QED BY <3>1 DEF ClaimedEmployers
  <2>3. fact.name \in ClaimedEmployers(mentioned)
    <3>1. /\ mentioned.map = [resume.map EXCEPT !.claims["employer"] = {}, !.employers = {}]
          /\ mentioned.doc = [resume.doc EXCEPT !.mentions = @ \cup {fact.name}]
      BY DEF ResumeShape
    <3>2. mentioned.map.employers = {} /\ mentioned.map.claims["employer"] = {}
      BY <3>1 DEF ResumeShape, ClaimKinds
    <3>3. fact.name \in mentioned.doc.mentions
      BY <3>1 DEF ResumeShape
    <3> HIDE DEF mentioned
    <3> QED BY <3>2, <3>3 DEF ClaimedEmployers
  <2> HIDE DEF listed, claimed, mentioned
  <2>4. p[2] \in {listed, claimed, mentioned}
    BY <1>1 DEF PlantedFacts, listed, claimed, mentioned
  <2> QED BY <1>0, <1>1, <2>1, <2>2, <2>3, <2>4, Checks
<1>2. CASE p[1] = "unknown_title"
  <2>1. fact.name \in ClaimedTitles(p[2])
    BY <1>2 DEF PlantedFacts, ClaimedTitles, ResumeShape, ClaimKinds
  <2> QED BY <1>0, <1>2, <2>1, Checks
<1>3. CASE p[1] = "fabricated_number"
  <2>1. fact.number \in p[2].doc.numbers
    BY <1>3 DEF PlantedFacts, ResumeShape
  <2> QED BY <1>0, <1>3, <2>1, Checks
<1> QED BY <1>1, <1>2, <1>3 DEF PlantedFacts

\* Skills that are not of the profile.
LEMMA SkillsAreCaught ==
    ASSUME NamedInv, NEW history, NEW ids, NEW c \in ConceptIds(graph) \ ids,
           NEW resume, ResumeShape(resume), resume.doc.words \in Seq(STRING),
           NEW N \in SUBSET Names, resume.map.claims["skill"] = {<<name>> : name \in N},
           NEW p \in PlantedSkills(graph, resume, ids, c)
    PROVE  p[1] \in run_deterministic_checks(graph, NoModel, p[2], history, ids)
<1> DEFINE name == SkillName(graph, c)
           owners == AliasOwners(graph, name)
           listed == [resume EXCEPT !.map.skillIds = @ \cup {c}]
           claimed == [resume EXCEPT !.map.claims["skill"] = @ \cup {<<name>>}]
           written == [resume EXCEPT !.doc.words = @ \o name \o Prose]
<1>0. name \in Names
  BY DEF NamedInv, Named, SkillName
<1>1. c \in OutputSkills(graph, NoModel, listed)
  <2>1. c \in listed.map.skillIds
    BY DEF ResumeShape
  <2> HIDE DEF listed
  <2> QED BY <2>1 DEF OutputSkills
<1>2. ASSUME owners # {}, owners \cap ids = {}
      PROVE  \E d \in OutputSkills(graph, NoModel, claimed) : d \notin ids
  <2> DEFINE d == PgLinkSpan(graph, NoModel, name)
  <2>1. d \in owners \ {NoLink}
    BY <1>2, OwnedLinks
  <2>2. claimed.map.claims["skill"] = {<<n>> : n \in N \cup {name}}
    <3>1. claimed.map.claims["skill"] = resume.map.claims["skill"] \cup {<<name>>}
      BY DEF ResumeShape, ClaimKinds
    <3> HIDE DEF claimed, name
    <3> QED BY <3>1
  <2>3. d \in PgLinkReport(graph, NoModel, claimed.map.claims["skill"])
    <3> HIDE DEF claimed, name
    <3>1. N \cup {name} \in SUBSET Names
      BY <1>0
    <3>2. PgLinkReport(graph, NoModel, {<<n>> : n \in N \cup {name}})
              = {PgLinkSpan(graph, NoModel, n) : n \in N \cup {name}} \ {NoLink}
      BY <3>1, ClaimsLink
    <3> QED BY <2>1, <2>2, <3>2
  <2> HIDE DEF claimed, d, name
  <2>4. d \in OutputSkills(graph, NoModel, claimed)
    BY <2>3 DEF OutputSkills
  <2> QED BY <1>2, <2>1, <2>4
<1>3. ASSUME name \notin Ambiguous, c \in owners, Len(name) <= ScanMaxNgram
      PROVE  c \in OutputSkills(graph, NoModel, written)
  <2>1. written.doc.words = resume.doc.words \o name \o Prose
    BY DEF ResumeShape
  <2>2. name \in Ngrams(written.doc.words)
    BY <1>0, <2>1, NameInText
  <2>3. c \in PgScan(graph, written.doc.words)
    BY <1>3, <2>2, ScanFinds
  <2> HIDE DEF written
  <2> QED BY <2>3 DEF OutputSkills
<1>4. /\ p[1] = "out_of_set_skill"
      /\ \/ p[2] = listed
         \/ p[2] = claimed /\ owners # {} /\ owners \cap ids = {}
         \/ p[2] = written /\ name \notin Ambiguous /\ c \in owners /\ Len(name) <= ScanMaxNgram
  <2> DEFINE asClaim(n) ==
                 <<"out_of_set_skill", [resume EXCEPT !.map.claims["skill"] = @ \cup {<<n>>}]>>
             inText(n) ==
                 <<"out_of_set_skill", [resume EXCEPT !.doc.words = @ \o n \o Prose]>>
             claimable == {x \in {name} : owners # {} /\ owners \cap ids = {}}
             scannable == {x \in {name} \ Ambiguous : c \in owners /\ Len(x) <= ScanMaxNgram}
  <2>1. /\ p \in {<<"out_of_set_skill", listed>>} \cup {asClaim(n) : n \in claimable}
                \cup {inText(n) : n \in scannable}
        /\ asClaim(name) = <<"out_of_set_skill", claimed>>
        /\ inText(name) = <<"out_of_set_skill", written>>
    BY DEF PlantedSkills
  <2> HIDE DEF listed, claimed, written, asClaim, inText, owners, name
  <2>2. CASE p = <<"out_of_set_skill", listed>>
    BY <2>2
  <2>3. CASE \E n \in claimable : p = asClaim(n)
    BY <2>1, <2>3
  <2>4. CASE \E n \in scannable : p = inText(n)
    BY <2>1, <2>4
  <2> QED BY <2>1, <2>2, <2>3, <2>4
<1> HIDE DEF listed, claimed, written, owners, name
<1>5. \E d \in OutputSkills(graph, NoModel, p[2]) : d \notin ids
  BY <1>1, <1>2, <1>3, <1>4
<1> QED BY <1>4, <1>5, Checks

-----------------------------------------------------------------------------
(***************************************************************************)
(* Date ranges: of all the ways in which DateInSource lets one pass, each  *)
(* needs the first year, and that is enough.                               *)
(***************************************************************************)
LEMMA FirstDated ==
    ASSUME NEW range \in Ranges
    PROVE  \E i \in DOMAIN range :
               /\ range[i].year # 0 /\ \A k \in 1..(i - 1) : range[k].year = 0
               /\ FirstYear(range) = <<YearOnly(range[i])>>
<1> DEFINE dated == {i \in DOMAIN range : range[i].year # 0}
<1>1. /\ range \in Seq(Dates) /\ DOMAIN range = 1..Len(range) /\ Len(range) \in Nat
      /\ dated # {}
  BY FabricationConstants
<1>2. FirstYear(range) = <<YearOnly(range[Min(dated)])>>
  BY <1>1 DEF FirstYear
<1>3. dated \in SUBSET Nat
  BY <1>1
<1>4. Min(dated) \in dated /\ \A k \in dated : Min(dated) <= k
  <2> HIDE DEF dated
  <2> QED BY <1>1, <1>3, MinIsThere
<1>5. ASSUME NEW k \in 1..(Min(dated) - 1) PROVE range[k].year = 0
  <2>1. Min(dated) \in 1..Len(range)
    BY <1>1, <1>4
  <2>2. k \in DOMAIN range /\ ~(Min(dated) <= k)
    BY <1>1, <2>1
  <2> QED BY <1>4, <2>2
<1> QED BY <1>2, <1>4, <1>5

LEMMA RangesByYear ==
    ASSUME NEW history, NEW range \in Ranges
    PROVE  DateInSource(range, SourceDates(history)) <=> BeginsInHistory(range, history)
<1> DEFINE source == SourceDates(history)
           Known(year) == \E e \in history : year \in {e.start.year, e.end.year}
<1>1. PICK i \in DOMAIN range :
          /\ range[i].year # 0 /\ \A k \in 1..(i - 1) : range[k].year = 0
          /\ FirstYear(range) = <<YearOnly(range[i])>>
  BY FirstDated
<1>2. range \in Seq(Dates) /\ DOMAIN range = 1..Len(range) /\ Len(range) \in Nat
  BY FabricationConstants
<1>3. BeginsInHistory(range, history) <=> Known(range[i].year)
  <2>1. ASSUME NEW j \in DOMAIN range, range[j].year # 0, \A k \in 1..(j - 1) : range[k].year = 0
        PROVE  j = i
    <3>1. i \in Nat /\ j \in Nat /\ i >= 1 /\ j >= 1
      BY <1>2
    <3>2. CASE i < j
      BY <1>1, <2>1, <3>1, <3>2
    <3>3. CASE j < i
      BY <1>1, <2>1, <3>1, <3>3
    <3> QED BY <3>1, <3>2, <3>3
  <2> QED BY <1>1, <2>1 DEF BeginsInHistory
<1>4. ASSUME NEW x \in source
      PROVE  \E e \in history : \/ x = <<e.start>> \/ x = <<e.end>> \/ x = <<e.start, e.end>>
                               \/ \E d \in {e.start, e.end} : x = <<YearOnly(d)>>
  BY DEF SourceDates
<1>5. ASSUME NEW d, d.year # 0, <<d>> \in source PROVE Known(d.year)
  <2>1. PICK e \in history :
            \/ <<d>> = <<e.start>> \/ <<d>> = <<e.end>> \/ <<d>> = <<e.start, e.end>>
            \/ \E f \in {e.start, e.end} : <<d>> = <<YearOnly(f)>>
    BY <1>4, <1>5
  <2>2. \A f : YearOnly(f).year = f.year
    BY DEF YearOnly, Date
  <2> QED BY <2>1, <2>2
<1>6. ASSUME Known(range[i].year) PROVE FirstYear(range) \in source
  <2>1. PICK e \in history : \E d \in {e.start, e.end} : range[i].year = d.year
    BY <1>6
  <2>2. PICK d \in {e.start, e.end} : range[i].year = d.year
    BY <2>1
  <2>3. d # Present
    BY <1>1, <2>2 DEF Present, Date
  <2>4. <<YearOnly(d)>> \in source
    BY <2>3 DEF SourceDates
  <2>5. YearOnly(d) = YearOnly(range[i])
    BY <2>2 DEF YearOnly
  <2> QED BY <1>1, <2>4, <2>5
<1>7. ASSUME FirstYear(range) \in source PROVE Known(range[i].year)
  <2>1. YearOnly(range[i]).year = range[i].year
    BY DEF YearOnly, Date
  <2> HIDE DEF source, Known
  <2> QED BY <1>1, <1>5, <1>7, <2>1
<1>8. ASSUME range \in source PROVE Known(range[i].year)
  <2>1. PICK e \in history : \/ range = <<e.start>> \/ range = <<e.end>>
                             \/ range = <<e.start, e.end>>
                             \/ \E d \in {e.start, e.end} : range = <<YearOnly(d)>>
    BY <1>4, <1>8
  <2>2. range[i] \in {e.start, e.end} \cup {YearOnly(e.start), YearOnly(e.end)}
    BY <2>1
  <2>3. \A f : YearOnly(f).year = f.year
    BY DEF YearOnly, Date
  <2> QED BY <2>2, <2>3
<1>9. ASSUME \A d \in ToSet(range) : <<d>> \in source PROVE Known(range[i].year)
  <2>1. range[i] \in ToSet(range)
    BY DEF ToSet
  <2> HIDE DEF source, Known
  <2> QED BY <1>1, <1>5, <1>9, <2>1
<1> HIDE DEF source, Known
<1>10. DateInSource(range, source) <=> Known(range[i].year)
  BY <1>6, <1>7, <1>8, <1>9 DEF DateInSource
<1> QED BY <1>3, <1>10 DEF source

\* The ranges of an honest resume are known.
LEMMA HonestRanges ==
    ASSUME NEW history, NEW ids, NEW r \in ClaimedRanges(HonestResume(graph, history, ids))
    PROVE  DateInSource(r, SourceDates(history))
<1>1. PICK e \in history :
          r = <<e.start, e.end>> \/ r = <<YearOnly(e.start), YearOnly(e.end)>>
  BY DEF ClaimedRanges, HonestResume, NoClaims, ClaimKinds
<1>2. CASE r = <<e.start, e.end>>
  BY <1>2 DEF DateInSource, SourceDates
<1>3. CASE r = <<YearOnly(e.start), YearOnly(e.end)>>
  <2>1. \A d \in {e.start, e.end} : <<YearOnly(d)>> \in SourceDates(history)
    BY DEF SourceDates, YearOnly, Present, Date
  <2>2. ToSet(r) = {YearOnly(e.start), YearOnly(e.end)}
    BY <1>3 DEF ToSet
  <2> QED BY <2>1, <2>2 DEF DateInSource
<1> QED BY <1>1, <1>2, <1>3

\* A range that is added is refused exactly if it begins in no year of the history.
LEMMA RangesAreCompared ==
    ASSUME NEW history, NEW ids, NEW range \in Ranges,
           NEW resume \in WithRange(HonestResume(graph, history, ids), range)
    PROVE  "unknown_date_range" \in
               run_deterministic_checks(graph, NoModel, resume, history, ids)
               <=> ~BeginsInHistory(range, history)
<1> DEFINE honest == HonestResume(graph, history, ids)
<1>1. ResumeShape(honest)
  BY HonestShape
<1>2. \A r \in ClaimedRanges(honest) : DateInSource(r, SourceDates(history))
  BY HonestRanges
<1>3. resume \in WithRange(honest, range)
  OBVIOUS
<1> HIDE DEF honest
<1>4. ClaimedRanges(resume) = ClaimedRanges(honest) \cup {range}
  <2>1. CASE resume = [honest EXCEPT !.map.dateRanges = @ \cup {range}]
    <3>1. /\ resume.map.dateRanges = honest.map.dateRanges \cup {range}
          /\ resume.map.claims = honest.map.claims
      BY <1>1, <2>1 DEF ResumeShape
    <3> QED BY <3>1 DEF ClaimedRanges
  <2>2. CASE resume = [honest EXCEPT !.map.claims["date_range"] = @ \cup {range}]
    <3>1. /\ resume.map.dateRanges = honest.map.dateRanges
          /\ resume.map.claims["date_range"] = honest.map.claims["date_range"] \cup {range}
      BY <1>1, <2>2 DEF ResumeShape, ClaimKinds
    <3> QED BY <3>1 DEF ClaimedRanges
  <2> QED BY <1>3, <2>1, <2>2 DEF WithRange
<1> QED BY <1>2, <1>4, Checks, RangesByYear

-----------------------------------------------------------------------------
(***************************************************************************)
(* Honest resumes.                                                         *)
(***************************************************************************)
LEMMA NamesAreFinite ==
    ASSUME NamedInv, NEW ids
    PROVE  NamesOf(graph, ids) \in SUBSET Names /\ IsFiniteSet(NamesOf(graph, ids))
<1> DEFINE known == ids \cap ConceptIds(graph)
           T == {SkillName(graph, c) : c \in known}
           f == [c \in known |-> SkillName(graph, c)]
<1>1. T \in SUBSET Names
  BY DEF NamedInv, Named, SkillName
<1>2. IsFiniteSet(known)
  <2>1. known \in SUBSET PossibleConcepts
    BY DEF NamedInv, LinkInv, GraphInv, RInv, RowsKnown
  <2> QED BY <2>1, FS_Subset, SkillGraphConstants
<1>3. f \in Surjection(known, T)
  BY DEF Surjection
<1>4. IsFiniteSet(T)
  <2> HIDE DEF T, f, known
  <2> QED BY <1>2, <1>3, FS_Surjection
<1> QED BY <1>1, <1>4 DEF NamesOf

LEMMA HonestText ==
    ASSUME NamedInv, NEW ids, NEW history
    PROVE  LET words == HonestResume(graph, history, ids).doc.words IN
           /\ ProseOf(NamesOf(graph, ids), words)
           /\ \A name \in NamesOf(graph, ids) : Ngrams(name) \subseteq Ngrams(words)
<1>1. HonestResume(graph, history, ids).doc.words = Sentence(SetToSeq(NamesOf(graph, ids)))
  BY DEF HonestResume
<1> QED BY <1>1, NamesAreFinite, SentenceIsProse

\* What the scan finds beyond the profile, it finds by an alias that is foreign.
LEMMA ScansOutside ==
    ASSUME NamedInv, NEW ids, NEW words
    PROVE  PgScan(graph, words) \ ids = {a[1] : a \in {x \in Foreign(ids) : x[2] \in Ngrams(words)}}
BY DEF PgScan, Foreign

LEMMA HonestSkills ==
    ASSUME NamedInv, NEW ids, NEW history
    PROVE  LET output == OutputSkills(graph, NoModel, HonestResume(graph, history, ids))
               misled == \E name \in NamesOf(graph, ids) : Misleads(name, ids)
               plain == \A a \in Foreign(ids) : ToSet(a[2]) \cap ToSet(Prose) = {}
           IN  /\ misled => ~(output \subseteq ids)
               /\ plain /\ ~misled => output \subseteq ids
<1> DEFINE honest == HonestResume(graph, history, ids)
           names == NamesOf(graph, ids)
           words == honest.doc.words
           link(name) == PgLinkSpan(graph, NoModel, name)
<1>1. /\ honest.map.skillIds = ids /\ honest.map.claimIds = ids
      /\ honest.map.claims["skill"] = {<<name>> : name \in names}
  BY DEF HonestResume, NoClaims, ClaimKinds
<1>2. PgLinkReport(graph, NoModel, honest.map.claims["skill"])
          = {link(name) : name \in names} \ {NoLink}
  BY <1>1, NamesAreFinite, ClaimsLink
<1>3. OutputSkills(graph, NoModel, honest)
          = ids \cup ({link(name) : name \in names} \ {NoLink}) \cup PgScan(graph, words)
  BY <1>1, <1>2 DEF OutputSkills
<1>4. ProseOf(names, words) /\ \A name \in names : Ngrams(name) \subseteq Ngrams(words)
  BY HonestText
<1>5. PgScan(graph, words) \ ids = {a[1] : a \in {x \in Foreign(ids) : x[2] \in Ngrams(words)}}
  BY ScansOutside
<1> HIDE DEF honest, names, words, link
<1>6. ASSUME NEW name \in names, Misleads(name, ids)
      PROVE  \E c \in OutputSkills(graph, NoModel, honest) : c \notin ids
  <2>1. CASE \E a \in Foreign(ids) : a[2] \in Ngrams(name)
    BY <1>3, <1>4, <1>5, <1>6, <2>1
  <2>2. CASE link(name) \notin ids \cup {NoLink}
    BY <1>3, <1>6, <2>2
  <2> QED BY <1>6, <2>1, <2>2 DEF Misleads, link
<1>7. ASSUME \A a \in Foreign(ids) : ToSet(a[2]) \cap ToSet(Prose) = {},
             NEW c \in OutputSkills(graph, NoModel, honest), c \notin ids
      PROVE  \E name \in names : Misleads(name, ids)
  <2>1. CASE c \in PgScan(graph, words)
    <3>1. PICK a \in Foreign(ids) : a[1] = c /\ a[2] \in Ngrams(words)
      BY <1>5, <1>7, <2>1
    <3>2. PICK name \in names : a[2] \in Ngrams(name)
      BY <1>4, <1>7, <3>1 DEF ProseOf
    <3> QED BY <3>2 DEF Misleads
  <2>2. CASE \E name \in names : c = link(name) /\ c # NoLink
    BY <1>7, <2>2 DEF Misleads, link
  <2> QED BY <1>3, <1>7, <2>1, <2>2
<1> QED BY <1>6, <1>7 DEF honest, names

LEMMA HonestPass == NamedInv => HonestResumesPass
<1> SUFFICES ASSUME NamedInv, NEW u \in Profiled, NEW history \in Histories,
                    OneSuffix(history), NEW ids, ids = profiles[u]
             PROVE  LET codes == run_deterministic_checks(graph, NoModel,
                                     HonestResume(graph, history, ids), history, ids)
                        misled == \E name \in NamesOf(graph, ids) : Misleads(name, ids)
                        plain == \A a \in Foreign(ids) : ToSet(a[2]) \cap ToSet(Prose) = {}
                    IN  /\ codes \subseteq {"out_of_set_skill"}
                        /\ misled => codes # {}
                        /\ plain /\ ~misled => codes = {}
  BY DEF HonestResumesPass
<1> DEFINE honest == HonestResume(graph, history, ids)
           codes == run_deterministic_checks(graph, NoModel, honest, history, ids)
<1>1. ASSUME NEW e \in ClaimedEmployers(honest)
      PROVE  normalize_employer(e) \in SourceEmployers(history)
  <2>1. e \in SourceEmployers(history) \cup {x.employer : x \in history}
    BY <1>1 DEF ClaimedEmployers, HonestResume, NoClaims, ClaimKinds, SourceEmployers
  <2> QED BY <2>1 DEF SourceEmployers, OneSuffix
<1>2. ClaimedTitles(honest) \subseteq SourceTitles(history)
  BY DEF ClaimedTitles, HonestResume, NoClaims, ClaimKinds
<1>3. \A r \in ClaimedRanges(honest) : DateInSource(r, SourceDates(history))
  BY HonestRanges
<1>4. honest.doc.numbers = SourceNumbers(history)
  BY DEF HonestResume
<1> HIDE DEF honest
<1>5. codes \subseteq {"out_of_set_skill"}
  BY <1>1, <1>2, <1>3, <1>4, Checks
<1>6. codes # {} <=> ~(OutputSkills(graph, NoModel, honest) \subseteq ids)
  <2>1. codes # {} <=> "out_of_set_skill" \in codes
    BY <1>5
  <2> QED BY <2>1, Checks
<1> QED BY <1>5, <1>6, HonestSkills DEF honest

LEMMA PlantedIsCaught == NamedInv => FabricationsAreCaught
<1> SUFFICES ASSUME NamedInv, NEW u \in Profiled, NEW history \in Histories,
                    NEW ids, ids = profiles[u]
             PROVE  LET honest == HonestResume(graph, history, ids)
                        codes(resume) ==
                            run_deterministic_checks(graph, NoModel, resume, history, ids)
                    IN  /\ \A p \in Planted(graph, honest, ids) : p[1] \in codes(p[2])
                        /\ \A range \in Ranges : \A resume \in WithRange(honest, range) :
                               "unknown_date_range" \in codes(resume)
                                   <=> ~BeginsInHistory(range, history)
  BY DEF FabricationsAreCaught
<1> DEFINE honest == HonestResume(graph, history, ids)
<1>1. /\ ResumeShape(honest) /\ honest.doc.words \in Seq(STRING)
      /\ NamesOf(graph, ids) \in SUBSET Names
      /\ honest.map.claims["skill"] = {<<name>> : name \in NamesOf(graph, ids)}
  <2>1. honest.map.claims["skill"] = {<<name>> : name \in NamesOf(graph, ids)}
    BY DEF HonestResume, NoClaims, ClaimKinds
  <2> QED BY <2>1, HonestShape, HonestText, NamesAreFinite DEF ProseOf, Names
<1> HIDE DEF honest
<1>2. ASSUME NEW p \in Planted(graph, honest, ids)
      PROVE  p[1] \in run_deterministic_checks(graph, NoModel, p[2], history, ids)
  <2>1. CASE \E fact \in Inventions : p \in PlantedFacts(honest, fact)
    BY <1>1, <2>1, FactsAreCaught
  <2>2. CASE \E c \in ConceptIds(graph) \ ids : p \in PlantedSkills(graph, honest, ids, c)
    BY <1>1, <2>2, SkillsAreCaught
  <2> QED BY <1>2, <2>1, <2>2 DEF Planted
<1>3. \A range \in Ranges : \A resume \in WithRange(honest, range) :
          "unknown_date_range" \in
              run_deterministic_checks(graph, NoModel, resume, history, ids)
              <=> ~BeginsInHistory(range, history)
  BY RangesAreCompared DEF honest
<1> QED BY <1>2, <1>3 DEF honest

LEMMA ResumesInv == IdsSpec => []NamedInv
<1>1. IdsInit => NamedInv
  BY InitNamedInv DEF IdsInit
<1>2. NamedInv /\ [IdsNext]_allVars => NamedInv'
  <2>1. [IdsNext]_allVars => [Next]_vars
    BY VarsStep
  <2> QED BY <2>1, NextNamedInv
<1> QED BY <1>1, <1>2, PTL DEF IdsSpec

\* For every profile, of whatever ids, in every graph that builds can make,
\* run_deterministic_checks refuses a resume with an employer, a title or a number
\* that the history lacks, or with a skill that the profile lacks: by its id, by a
\* name that is no alias of a skill of the profile, or by its own name in the text.
\* A date range it refuses exactly if no employment begins or ends in its first year.
THEOREM FabricationsNeverPass == IdsSpec => []FabricationsAreCaught
BY ResumesInv, PlantedIsCaught, PTL

\* It never refuses a resume that says what its history and profile hold for an
\* employer (of one corporate suffix at most), a title, a date or a number.  It
\* does for a skill if the name of one leads to a concept outside the profile, and,
\* the prose apart, for nothing else.
THEOREM HonestResumesArePassed == IdsSpec => []HonestResumesPass
BY ResumesInv, HonestPass, PTL

-----------------------------------------------------------------------------
(***************************************************************************)
(* What builds do to links, and where typing a name leads.                 *)
(***************************************************************************)
\* The aliases under a key are the same in two graphs.
SameAliases(g, h, k) ==
    \A a \in DOMAIN g.aliases \cup DOMAIN h.aliases :
        a[2] = k => /\ a \in DOMAIN g.aliases /\ a \in DOMAIN h.aliases
                    /\ g.aliases[a] = h.aliases[a]

\* A build leaves the keys alone of which its plan says nothing new.
TakenInv ==
    build.pc # "idle" =>
        \A k \in Keys : Brings(build.plan, k) \/ SameAliases(graph, tx, k)

LEMMA SameLinks ==
    ASSUME NEW g, NEW h, RowsKnown(g), NEW k, SameAliases(g, h, k)
    PROVE  ExactLink(h, k) = ExactLink(g, k)
<1> DEFINE owners == AliasOwners(g, k)
           inG(c) == AliasPriority[g.aliases[<<c, k>>].type]
           inH(c) == AliasPriority[h.aliases[<<c, k>>].type]
<1>1. AliasOwners(h, k) = owners
  BY DEF AliasOwners, SameAliases
<1>2. \A c \in owners : inG(c) = inH(c)
  <2>1. ASSUME NEW c \in owners
        PROVE  h.aliases[<<c, k>>] = g.aliases[<<c, k>>]
    <3>1. <<c, k>> \in DOMAIN g.aliases /\ <<c, k>>[2] = k
      BY DEF AliasOwners, RowsKnown
    <3> QED BY <3>1 DEF SameAliases
  <2> QED BY <2>1
<1> DEFINE firstG(c) == \A d \in owners :
               inG(c) < inG(d) \/ (inG(c) = inG(d) /\ Rank(c) <= Rank(d))
           firstH(c) == \A d \in owners :
               inH(c) < inH(d) \/ (inH(c) = inH(d) /\ Rank(c) <= Rank(d))
<1>3. ExactLink(g, k) = IF owners = {} THEN NoLink ELSE CHOOSE c \in owners : firstG(c)
  BY Zenon DEF ExactLink
<1>4. ExactLink(h, k) = IF owners = {} THEN NoLink ELSE CHOOSE c \in owners : firstH(c)
  <2> DEFINE theirs == AliasOwners(h, k)
             first(c) == \A d \in theirs :
                 inH(c) < inH(d) \/ (inH(c) = inH(d) /\ Rank(c) <= Rank(d))
  <2>1. ExactLink(h, k) = IF theirs = {} THEN NoLink ELSE CHOOSE c \in theirs : first(c)
    BY Zenon DEF ExactLink
  <2>2. theirs = owners
    BY <1>1
  <2> HIDE DEF theirs, owners, inH
  <2> QED BY <2>1, <2>2, Zenon
<1>5. ASSUME NEW c \in owners PROVE firstG(c) <=> firstH(c)
  <2> HIDE DEF owners, inG, inH
  <2> QED BY <1>2, Zenon
<1> HIDE DEF owners, firstG, firstH
<1>6. (CHOOSE c \in owners : firstG(c)) = (CHOOSE c \in owners : firstH(c))
  BY <1>5, Zenon
<1> DEFINE linkG == CHOOSE c \in owners : firstG(c)
           linkH == CHOOSE c \in owners : firstH(c)
<1>7. linkG = linkH
  BY <1>6
<1>8. /\ ExactLink(g, k) = IF owners = {} THEN NoLink ELSE linkG
      /\ ExactLink(h, k) = IF owners = {} THEN NoLink ELSE linkH
  BY <1>3, <1>4
<1> HIDE DEF linkG, linkH
<1> QED BY <1>7, <1>8

\* A key that has an alias is taken: no technology is lent it.
LEMMA TakenKeysStay ==
    ASSUME TakenInv, NEW q \in build.queue, build.pc \in Stages, UNCHANGED graph,
           build'.plan = build.plan,
           NEW c, NEW keys, NEW new,
           DOMAIN new = {<<c, k>> : k \in {x \in keys : AliasOwners(tx, x) = {}}},
           tx'.aliases = Upsert(new, tx.aliases)
    PROVE  TakenInv'
<1> SUFFICES ASSUME NEW k \in Keys, ~Brings(build.plan, k)
             PROVE  SameAliases(graph, tx', k)
  BY DEF TakenInv, Keys, Brings
<1>1. SameAliases(graph, tx, k)
  BY DEF TakenInv, Stages
<1>2. PICK a \in DOMAIN graph.aliases : a[2] = k
  BY DEF Keys
<1>3. a \in DOMAIN tx.aliases
  BY <1>1, <1>2 DEF SameAliases
<1>4. \A b \in DOMAIN new : b[2] # k
  BY <1>2, <1>3 DEF AliasOwners
<1>5. /\ DOMAIN tx'.aliases = DOMAIN new \cup DOMAIN tx.aliases
      /\ \A b \in DOMAIN tx.aliases \ DOMAIN new : tx'.aliases[b] = tx.aliases[b]
  <2>1. /\ DOMAIN Upsert(new, tx.aliases) = DOMAIN new \cup DOMAIN tx.aliases
        /\ \A b \in DOMAIN tx.aliases \ DOMAIN new :
               Upsert(new, tx.aliases)[b] = tx.aliases[b]
    BY UpsertFacts
  <2> QED BY <2>1
<1> QED BY <1>1, <1>4, <1>5 DEF SameAliases

LEMMA ImportEscoLinks ==
    ASSUME IInv, ConvergeInv, ImportEsco
    PROVE  TakenInv'
<1>0. PICK plan : plan = build.plan
  OBVIOUS
<1>1. /\ tx = graph /\ UNCHANGED graph /\ build'.plan = plan
  BY <1>0 DEF ImportEsco, ConvergeInv, IInv, BuildOK
<1>2. tx'.aliases = Upsert(EscoAliases(plan), graph.aliases)
  BY <1>0, <1>1 DEF ImportEsco
<1> SUFFICES ASSUME NEW k \in Keys, ~Brings(plan, k)
             PROVE  SameAliases(graph, tx', k)
  BY <1>1 DEF TakenInv, Keys, Brings
<1>3. /\ DOMAIN tx'.aliases = DOMAIN EscoAliases(plan) \cup DOMAIN graph.aliases
      /\ \A a \in DOMAIN EscoAliases(plan) : tx'.aliases[a] = EscoAliases(plan)[a]
      /\ \A a \in DOMAIN graph.aliases \ DOMAIN EscoAliases(plan) :
             tx'.aliases[a] = graph.aliases[a]
  <2> DEFINE old == graph.aliases
             rows == EscoAliases(plan)
  <2>1. /\ DOMAIN Upsert(rows, old) = DOMAIN rows \cup DOMAIN old
        /\ \A a \in DOMAIN rows : Upsert(rows, old)[a] = rows[a]
        /\ \A a \in DOMAIN old \ DOMAIN rows : Upsert(rows, old)[a] = old[a]
    <3> HIDE DEF old, rows
    <3> QED BY UpsertFacts
  <2> QED BY <1>2, <2>1
<1>4. \A a \in DOMAIN EscoAliases(plan) :
          a[2] = k => a \in DOMAIN graph.aliases /\ graph.aliases[a] = EscoAliases(plan)[a]
  BY DEF Brings
<1> QED BY <1>3, <1>4 DEF SameAliases

LEMMA NextTakenInv ==
    IInv /\ ConvergeInv /\ TakenInv /\ [Next]_vars => TakenInv'
<1> SUFFICES ASSUME IInv, ConvergeInv, TakenInv, [Next]_vars PROVE TakenInv'
  OBVIOUS
<1>1. CASE \E plan \in Plans : StartBuild(plan)
  <2>1. tx' = graph /\ UNCHANGED graph
    BY <1>1 DEF StartBuild
  <2> QED BY <2>1 DEF TakenInv, SameAliases
<1>2. CASE ImportEsco
  BY <1>2, ImportEscoLinks
<1>3. CASE \/ Download \/ UseCache \/ ImportOnet \/ StartReconcile \/ EndStage
           \/ UNCHANGED vars
  <2>1. /\ UNCHANGED graph /\ build'.plan = build.plan
        /\ build'.pc # "idle" => build.pc # "idle"
    BY <1>3 DEF Download, UseCache, ImportOnet, StartReconcile, EndStage, NextStage, vars,
        IInv, BuildOK
  <2>2. tx'.aliases = tx.aliases
    BY <1>3 DEF Download, UseCache, ImportOnet, StartReconcile, EndStage, vars, IInv,
        GraphOK, GraphFields
  <2> QED BY <2>1, <2>2 DEF TakenInv, Keys, Brings, SameAliases
<1>4. ASSUME NEW q \in build.queue,
             MatchLabel(q) \/ MatchAlias(q) \/ MatchTrgm(q) \/ MatchSemantic(q)
      PROVE  TakenInv'
  <2>1. PICK c, method : MapSource(q.source, c, method)
    BY <1>4 DEF MatchLabel, MatchAlias, MatchTrgm, MatchSemantic
  <2>2. build.pc \in Stages /\ UNCHANGED graph /\ build'.plan = build.plan
    BY <1>4 DEF MatchLabel, MatchAlias, MatchTrgm, MatchSemantic, Turn, Stages, Advance,
        IInv, BuildOK
  <2> DEFINE keys == SourceNames(q.source)
             new == [a \in {<<c, k>> : k \in {x \in keys : AliasOwners(tx, x) = {}}} |->
                        [type |-> "alt", label |-> Label(a[2])]]
  <2>3. tx' = [tx EXCEPT
                  !.mappings = ReplaceMappings({Mapping(Source(q.source), c, method)},
                                               tx.mappings),
                  !.aliases = Upsert(new, tx.aliases)]
    BY <2>1 DEF MapSource, NewAliases
  <2>4. DOMAIN new = {<<c, k>> : k \in {x \in keys : AliasOwners(tx, x) = {}}}
    OBVIOUS
  <2>5. "aliases" \in DOMAIN tx
    BY DEF IInv, GraphOK, GraphFields
  <2> HIDE DEF keys, new
  <2>6. tx'.aliases = Upsert(new, tx.aliases)
    BY <2>3, <2>5
  <2> QED BY <2>2, <2>4, <2>6, TakenKeysStay
<1>5. ASSUME NEW q \in build.queue, FoundConcept(q) PROVE TakenInv'
  <2>1. build.pc \in Stages /\ UNCHANGED graph /\ build'.plan = build.plan
    BY <1>5 DEF FoundConcept, Turn, Stages, Advance, IInv, BuildOK
  <2> DEFINE c == canonical_concept_id("onet", Software(q.source))
             label == SourceName(q.source)
             keys == technology_aliases(label)
             new == FoundedAliases(c, label)
  <2>2. DOMAIN new = {<<c, k>> : k \in {x \in keys : AliasOwners(tx, x) = {}}}
    BY DEF FoundedAliases, NewAliases
  <2>3. tx'.aliases = Upsert(new, tx.aliases)
    <3>1. "aliases" \in DOMAIN tx
      BY DEF IInv, GraphOK, GraphFields
    <3> HIDE DEF c, label, new
    <3> QED BY <1>5, <3>1 DEF FoundConcept, c, label, new
  <2> HIDE DEF c, label, keys, new
  <2> QED BY <2>1, <2>2, <2>3, TakenKeysStay
<1>6. ASSUME NEW q \in build.queue,
             MatchNoLabel(q) \/ MatchNoTrgm(q) \/ MatchNothing(q) \/ LeaveUnresolved(q)
      PROVE  TakenInv'
  <2>1. UNCHANGED <<graph, tx>>
    BY <1>6 DEF MatchNoLabel, MatchNoTrgm, MatchNothing, LeaveUnresolved
  <2>2. build'.plan = build.plan /\ build'.pc = build.pc
    BY <1>6 DEF MatchNoLabel, MatchNoTrgm, MatchNothing, LeaveUnresolved, Defer, Advance,
        IInv, BuildOK
  <2> QED BY <2>1, <2>2 DEF TakenInv, Keys, Brings, SameAliases
<1>7. CASE Commit \/ Abort
  BY <1>7 DEF Commit, Abort, Idle, TakenInv
<1> QED BY <1>1, <1>2, <1>3, <1>4, <1>5, <1>6, <1>7 DEF Next

\* However often the graph is rebuilt, from whatever bundles and overrides, a span
\* that linked (PostgresSkillLinker, first stage) links to the same concept unless
\* the build brought a row of that very name: reconcile_onet moves no link.
THEOREM LinksStay == Spec => LinksMoveOnlyByBundles
<1>1. Init => IInv /\ RInv /\ ConvergeInv /\ TakenInv
  <2>1. Init => TakenInv
    BY DEF Init, Idle, TakenInv
  <2> QED BY <2>1, InitIInv, InitRInv, InitConvergeInv
<1>2. IInv /\ RInv /\ ConvergeInv /\ TakenInv /\ [Next]_vars =>
          IInv' /\ RInv' /\ ConvergeInv' /\ TakenInv'
  BY NextIInv, NextRInv, NextConvergeInv, NextTakenInv
<1>3. IInv /\ RInv /\ TakenInv /\ [Next]_vars =>
          [\A k \in Keys : ExactLink(graph', k) # ExactLink(graph, k) =>
               Brings(build.plan, k)]_vars
  <2> SUFFICES ASSUME IInv, RInv, TakenInv, [Next]_vars, NEW k \in Keys,
                      ExactLink(graph', k) # ExactLink(graph, k)
               PROVE  Brings(build.plan, k)
    OBVIOUS
  <2>1. graph' # graph
    OBVIOUS
  <2>2. Commit
    BY <2>1 DEF Next, StartBuild, ImportEsco, Download, UseCache, ImportOnet,
        StartReconcile, EndStage, MatchLabel, MatchAlias, MatchNoLabel, MatchTrgm,
        MatchNoTrgm, MatchSemantic, LeaveUnresolved, MatchNothing, FoundConcept, Abort, vars
  <2>3. build.pc = "commit" /\ graph' = tx
    BY <2>2 DEF Commit
  <2>4. RowsKnown(graph)
    BY DEF RInv
  <2> QED BY <2>3, <2>4, SameLinks DEF TakenInv
<1> QED BY <1>1, <1>2, <1>3, PTL DEF Spec, LinksMoveOnlyByBundles

-----------------------------------------------------------------------------
\* Whatever else is similar to it, a name that links is found when it is typed.
LEMMA OwnersComeFirst ==
    ASSUME RInv, NEW k, NEW limit \in Nat, NEW c \in AliasOwners(graph, k),
           Cardinality(AliasOwners(graph, k)) <= limit
    PROVE  c \in search_concepts(graph, k, limit)
<1> DEFINE owners == AliasOwners(graph, k)
           exact(d) == <<d, k>> \in DOMAIN graph.aliases
           score == TrgmScores(graph, {k}, 0)
           found == {d \in DOMAIN score : exact(d) \/ score[d] >= SearchThreshold}
           before(d, e) == \/ exact(d) /\ ~exact(e)
                           \/ /\ exact(d) <=> exact(e)
                              /\ \/ score[d] > score[e]
                                 \/ score[d] = score[e] /\ Rank(d) < Rank(e)
           ahead == {d \in found : before(d, c)}
<1>1. owners = {d \in owners : exact(d)} /\ \A d : exact(d) => d \in owners
  BY DEF AliasOwners, RInv, RowsKnown
<1>2. c \in DOMAIN score
  <2>1. \E a \in DOMAIN graph.aliases : a[1] = c
    BY DEF AliasOwners
  <2> DEFINE similarities == {Similarity(a[2], x) : a \in {y \in DOMAIN graph.aliases : y[1] = c},
                                                    x \in {k}}
             S == {0} \cup (similarities \cap Percent)
  <2>2. S \in SUBSET (0..100) /\ S # {}
    BY DEF Percent
  <2>3. Max(S) \in 0..100
    <3> HIDE DEF S
    <3> QED BY <2>2, MaxIsThere
  <2>4. Max(S) >= 0
    <3> HIDE DEF S
    <3> QED BY <2>3
  <2> QED BY <2>1, <2>4 DEF TrgmScores
<1>3. score[c] \in Percent /\ Rank(c) \in Nat
  <2>1. c \in PossibleConcepts
    BY DEF AliasOwners, RInv, RowsRefer, RowsKnown
  <2>2. score[c] \in Percent
    BY <1>2, ScoresAreNumbers
  <2> QED BY <2>1, <2>2, SkillGraphConstants
<1>4. c \in found /\ exact(c)
  BY <1>1, <1>2
<1>5. ahead \subseteq owners \ {c}
  <2>1. ASSUME NEW d \in ahead PROVE d \in owners /\ d # c
    <3>1. exact(d)
      BY <1>4
    <3>2. d # c
      <4>1. SUFFICES ASSUME d = c PROVE FALSE
        OBVIOUS
      <4>2. score[c] > score[c] \/ Rank(c) < Rank(c)
        BY <4>1
      <4> HIDE DEF score
      <4> QED BY <1>3, <4>2 DEF Percent
    <3> QED BY <1>1, <3>1, <3>2
  <2> QED BY <2>1
<1>6. IsFiniteSet(owners) /\ Cardinality(owners) \in Nat
  <2>1. owners \subseteq PossibleConcepts
    BY DEF AliasOwners, RInv, RowsRefer, RowsKnown
  <2> QED BY <2>1, SkillGraphConstants, FS_Subset, FS_CardinalityType
<1>7. Cardinality(ahead) < limit
  <2> HIDE DEF owners, ahead
  <2>1. /\ IsFiniteSet(owners \ {c})
        /\ Cardinality(owners \ {c}) = Cardinality(owners) - 1
    BY <1>6, FS_RemoveElement DEF owners
  <2>2. Cardinality(ahead) <= Cardinality(owners \ {c})
    BY <1>5, <2>1, FS_Subset
  <2>3. Cardinality(ahead) \in Nat
    BY <1>5, <2>1, FS_Subset, FS_CardinalityType
  <2> QED BY <1>6, <2>1, <2>2, <2>3 DEF owners
<1>8. search_concepts(graph, k, limit) = {e \in found : Cardinality({d \in found : before(d, e)}) < limit}
  BY DEF search_concepts, Foremost
<1> QED BY <1>4, <1>7, <1>8

\* Typing a name that links finds the concept it links to (search_concepts), unless
\* more concepts than the limit own the name, however similar other names are.
THEOREM SearchesFindLinks == Spec => []SearchFindsLinks
<1>1. ASSUME RInv PROVE SearchFindsLinks
  <2> SUFFICES ASSUME NEW k \in Keys, NEW limit \in Limits,
                      Cardinality(AliasOwners(graph, k)) <= limit
               PROVE  ExactLink(graph, k) \in search_concepts(graph, k, limit)
    BY DEF SearchFindsLinks
  <2>1. AliasOwners(graph, k) # {}
    BY DEF Keys, AliasOwners
  <2>2. ExactLink(graph, k) \in AliasOwners(graph, k)
    BY <1>1, <2>1, ExactLinkIsOwner DEF RInv
  <2>3. limit \in Nat
    BY SkillExplorerConstants
  <2> QED BY <1>1, <2>2, <2>3, OwnersComeFirst
<1>2. Init => IInv /\ RInv
  BY InitIInv, InitRInv
<1>3. IInv /\ RInv /\ [Next]_vars => IInv' /\ RInv'
  BY NextIInv, NextRInv
<1> QED BY <1>1, <1>2, <1>3, PTL DEF Spec
=============================================================================
