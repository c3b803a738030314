----------------------------- MODULE SkillGraph -----------------------------
(***************************************************************************)
(* scripts/build_skill_graph.py: the skill graph is built, and rebuilt,    *)
(* in one transaction that imports an ESCO bundle, downloads and imports   *)
(* the O*NET file, and reconciles every O*NET technology that has no       *)
(* mapping yet with the concepts there are, or founds a new one.           *)
(*                                                                         *)
(* graph is what is committed, tx what the running transaction sees.  A    *)
(* run that fails anywhere leaves only the O*NET file in its cache.        *)
(*                                                                         *)
(* Left out: two builds at a time, descriptions and provenance, retired    *)
(* concepts (nothing in the code retires one), malformed input files.      *)
(***************************************************************************)
EXTENDS SkillLabels, TLC

CONSTANTS
    EscoVersions, OnetVersions,
    EscoRows,       \* the rows of each ESCO bundle, [uri, name, alts, kind]
    Broader,        \* its broader relations, pairs of uris, when it has them
    Related,        \* its skill-to-skill relations
    OverrideFiles,  \* the contents alias_overrides.json may have
    OnetFile,       \* the software-skills rows, [example, category]
    Order,          \* the O*NET technologies in the order of their external ids
    Models,         \* the providers of vectors, "hashing" and "gemini"
    MaxBuilds,      \* bound on the builds that start
    Rank(_),        \* the order of the uuids of concepts
    Similarity(_, _), \* pg_trgm similarity of two keys, in percent
    Cosine(_, _)    \* cosine of the vectors of two texts of one model, in percent

Kinds == {"skill", "knowledge", "group"}
NoModel == "none"
Percent == 0..100

\* A label is not blank.
Names == Seq(STRING) \ {<<>>}

canonical_concept_id(source, external) == <<source, external>>
Software(key) == <<"software", key>>

\* The concepts that a build may import or found.
PossibleConcepts ==
    {canonical_concept_id("esco", r.uri) :
        r \in {x \in UNION {EscoRows[v] : v \in EscoVersions} : x.kind # "group"}}
        \cup {canonical_concept_id("onet", Software(k)) : k \in ToSet(Order)}

ASSUME SkillGraphConstants ==
    /\ \A v \in EscoVersions : \A r \in EscoRows[v] :
           r.kind \in Kinds /\ r.name.words \in Names
    /\ \A r \in OnetFile : r.example.words \in Names
    /\ \A r \in OnetFile : normalize_label(r.example) \in ToSet(Order)
    /\ IsFiniteSet(PossibleConcepts)
    /\ Models \subseteq {"hashing", "gemini"}
    /\ MaxBuilds \in Nat
    /\ \A k \in ToSet(Order) : Similarity(k, k) = 100
    /\ \A c \in PossibleConcepts : Rank(c) \in Nat

VARIABLES
    graph,  \* the committed graph
    tx,     \* the graph as the running build has changed it
    build,  \* the running build, see Idle
    cached, \* the O*NET file is in the cache
    last,   \* the plan of the build committed last, <<>> before the first
    builds  \* how many builds have started

vars == <<graph, tx, build, cached, last, builds>>

-----------------------------------------------------------------------------

Plans == [esco : EscoVersions, onet : OnetVersions, broader : BOOLEAN,
          overrides : OverrideFiles, skipOnet : BOOLEAN,
          model : Models \cup {NoModel}]

EmptyGraph == [sources |-> <<>>, concepts |-> <<>>, aliases |-> <<>>,
               mappings |-> {}, sourceEdges |-> {}, conceptEdges |-> {}]

\* snap is the name and label index that reconcile_onet builds at its start;
\* queue holds the technologies that a stage has yet to look at, deferred those
\* it hands to the next one, [source, ambiguous].  Both are taken in Order.
Idle == [pc |-> "idle", plan |-> <<>>, snap |-> EmptyGraph, queue |-> {},
         deferred |-> {}]

Init ==
    /\ graph = EmptyGraph
    /\ tx = EmptyGraph
    /\ build = Idle
    /\ cached = FALSE
    /\ last = <<>>
    /\ builds = 0

(***************************************************************************)
(* Rows and upserts.                                                       *)
(***************************************************************************)
source_concept_id(source, version, external) == <<source, version, external>>

Upsert(rows, table) ==
    [x \in DOMAIN rows \cup DOMAIN table |->
        IF x \in DOMAIN rows THEN rows[x] ELSE table[x]]

\* A concept keeps its vector when the new row has none.
UpsertConcepts(rows, table) ==
    Upsert([c \in DOMAIN rows |->
               IF rows[c].model = NoModel /\ c \in DOMAIN table
               THEN [rows[c] EXCEPT !.model = table[c].model] ELSE rows[c]], table)

Mapping(source, concept, method) ==
    [source |-> source, concept |-> concept, method |-> method]

ReplaceMappings(rows, table) ==
    {m \in table : m.source \notin {r.source : r \in rows}} \cup rows

Mapped(g) == {m.source : m \in g.mappings}
AliasOwners(g, key) == {a[1] : a \in {x \in DOMAIN g.aliases : x[2] = key}}
NameOwners(g, key) == {c \in DOMAIN g.concepts : g.concepts[c].name = key}

-----------------------------------------------------------------------------
(***************************************************************************)
(* The ESCO import.                                                        *)
(***************************************************************************)
CanonicalRows(version) == {r \in EscoRows[version] : r.kind # "group"}

Hierarchy(plan) == IF plan.broader THEN Broader[plan.esco] ELSE {}

Relations(plan) ==
    {<<r[1], "IS_A", r[2]>> : r \in Hierarchy(plan)}
        \cup {<<r[1], "RELATED_TO", r[2]>> : r \in Related[plan.esco]}

\* Endpoints that the bundle has no row for.
Placeholders(plan) ==
    (UNION {{r[1], r[3]} : r \in Relations(plan)})
        \ {r.uri : r \in EscoRows[plan.esco]}

EscoSources(plan) ==
    LET id(uri) == source_concept_id("esco", plan.esco, uri)
        rows == EscoRows[plan.esco]
        row(uri) == CHOOSE r \in rows : r.uri = uri
    IN  Upsert([s \in {id(r.uri) : r \in rows} |->
                   [kind |-> row(s[3]).kind, names |-> {row(s[3]).name}]],
               [s \in {id(u) : u \in Placeholders(plan)} |->
                   [kind |-> "esco_unresolved", names |-> {Label(<<s[3]>>)}]])

EscoConcepts(plan) ==
    LET rows == CanonicalRows(plan.esco)
        row(c) == CHOOSE r \in rows : r.uri = c[2]
    IN  [c \in {canonical_concept_id("esco", r.uri) : r \in rows} |->
            [name |-> normalize_label(row(c).name), kind |-> row(c).kind,
             model |-> plan.model]]

EscoAliases(plan) ==
    LET rows == BuildAliasRows(CanonicalRows(plan.esco), plan.overrides)
    IN  [a \in {<<canonical_concept_id("esco", p[1]), p[2]>> : p \in DOMAIN rows} |->
            LET e == rows[<<a[1][2], a[2]>>]
            IN  [type |-> e.type, label |-> e.label]]

EscoMappings(plan) ==
    {Mapping(source_concept_id("esco", plan.esco, r.uri),
             canonical_concept_id("esco", r.uri), "import") :
        r \in CanonicalRows(plan.esco)}

EscoSourceEdges(plan) ==
    {[subject |-> source_concept_id("esco", plan.esco, r[1]), predicate |-> r[2],
      object |-> source_concept_id("esco", plan.esco, r[3])] :
        r \in {x \in Relations(plan) : x[1] # x[3]}}

\* Only a broader relation between two canonical rows is promoted.
EscoConceptEdges(plan) ==
    LET canonical == {r.uri : r \in CanonicalRows(plan.esco)} IN
    {[subject |-> canonical_concept_id("esco", r[1]),
      object |-> canonical_concept_id("esco", r[2])] :
        r \in {x \in Hierarchy(plan) : {x[1], x[2]} \subseteq canonical /\ x[1] # x[2]}}

StartBuild(plan) ==
    /\ build.pc = "idle"
    /\ builds < MaxBuilds
    /\ build' = [Idle EXCEPT !.pc = "esco", !.plan = plan]
    /\ tx' = graph
    /\ builds' = builds + 1
    /\ UNCHANGED <<graph, cached, last>>

ImportEsco ==
    /\ build.pc = "esco"
    /\ LET plan == build.plan IN
       tx' = [sources |-> Upsert(EscoSources(plan), tx.sources),
              concepts |-> UpsertConcepts(EscoConcepts(plan), tx.concepts),
              aliases |-> Upsert(EscoAliases(plan), tx.aliases),
              mappings |-> ReplaceMappings(EscoMappings(plan), tx.mappings),
              sourceEdges |-> tx.sourceEdges \cup EscoSourceEdges(plan),
              conceptEdges |-> tx.conceptEdges \cup EscoConceptEdges(plan)]
    /\ build' = [build EXCEPT !.pc = IF build.plan.skipOnet THEN "commit" ELSE "download"]
    /\ UNCHANGED <<graph, cached, last, builds>>

-----------------------------------------------------------------------------
(***************************************************************************)
(* The O*NET import: one technology per key of an example, one category    *)
(* per element, and an edge of the source layer for each association.      *)
(***************************************************************************)
Category(element) == <<"category", element>>

OnetSources(plan) ==
    LET id(external) == source_concept_id("onet", plan.onet, external)
        labels(key) == {r.example : r \in {x \in OnetFile : normalize_label(x.example) = key}}
    IN  Upsert([s \in {id(Software(normalize_label(r.example))) : r \in OnetFile} |->
                   [kind |-> "technology", names |-> labels(s[3][2])]],
               [s \in {id(Category(r.category)) : r \in OnetFile} |->
                   [kind |-> "technology_category", names |-> {Label(<<s[3][2]>>)}]])

OnetEdges(plan) ==
    {[subject |-> source_concept_id("onet", plan.onet, Software(normalize_label(r.example))),
      predicate |-> "IS_A",
      object |-> source_concept_id("onet", plan.onet, Category(r.category))] :
        r \in OnetFile}

\* The file is cached as soon as it is there, whatever becomes of the build; a
\* cached one is downloaded again only if the operator asks for it.
Download ==
    /\ build.pc = "download"
    /\ cached' = TRUE
    /\ build' = [build EXCEPT !.pc = "onet"]
    /\ UNCHANGED <<graph, tx, last, builds>>

UseCache ==
    /\ build.pc = "download"
    /\ cached
    /\ build' = [build EXCEPT !.pc = "onet"]
    /\ UNCHANGED <<graph, tx, cached, last, builds>>

ImportOnet ==
    /\ build.pc = "onet"
    /\ tx' = [tx EXCEPT !.sources = Upsert(OnetSources(build.plan), tx.sources),
                        !.sourceEdges = tx.sourceEdges \cup OnetEdges(build.plan)]
    /\ build' = [build EXCEPT !.pc = "reconcile"]
    /\ UNCHANGED <<graph, cached, last, builds>>

-----------------------------------------------------------------------------
(***************************************************************************)
(* Scores: the best candidate, ties broken by the uuid, and how far it     *)
(* leads the next.                                                         *)
(***************************************************************************)
IsBest(score, c) ==
    \A d \in DOMAIN score :
        score[c] > score[d] \/ (score[c] = score[d] /\ Rank(c) <= Rank(d))

Best(score) == CHOOSE c \in DOMAIN score : IsBest(score, c)

RunnerUp(score) ==
    Max({0} \cup {score[d] : d \in DOMAIN score \ {Best(score)}})

Lead(score) == score[Best(score)] - RunnerUp(score)

\* The concepts with an alias similar enough to one of the keys.
TrgmScores(g, keys, threshold) ==
    LET similarities(c) == {Similarity(a[2], k) : a \in {x \in DOMAIN g.aliases : x[1] = c},
                                                  k \in keys}
        score(c) == Max({0} \cup (similarities(c) \cap Percent))
    IN  [c \in {x \in {a[1] : a \in DOMAIN g.aliases} : score(x) >= threshold} |-> score(c)]

\* Vectors are compared with those of their own model only.
SemanticScores(g, model, key) ==
    [c \in {x \in DOMAIN g.concepts : g.concepts[x].model = model} |->
        Cosine(g.concepts[c].name, key)]

\* The two tiers of a semantic match: a score that is high, or one that is
\* good enough and leads.
Convincing(score, high, threshold, margin) ==
    /\ DOMAIN score # {}
    /\ \/ score[Best(score)] >= high
       \/ score[Best(score)] >= threshold /\ Lead(score) >= margin

-----------------------------------------------------------------------------
(***************************************************************************)
(* Reconciliation: each stage takes the technologies in order, maps those  *)
(* it can decide and defers the others to the next stage.                  *)
(***************************************************************************)
TrgmThreshold == 92
TrgmMargin == 5
SemanticHigh == 90
SemanticThreshold == 85
SemanticMargin == 5

Source(t) == source_concept_id("onet", build.plan.onet, Software(t))

\* The name of a technology is the first of its spellings; capitals come first.
SourceName(t) ==
    LET names == tx.sources[Source(t)].names
    IN  CHOOSE l \in names : l.caps \/ \A m \in names : ~m.caps

\* A mutant: a technology is looked up by its own name only.
OwnNameOnly(t) == {normalize_label(SourceName(t))}

SourceNames(t) == UNION {technology_aliases(l) : l \in tx.sources[Source(t)].names}

LabelOwners(t) ==
    UNION {NameOwners(build.snap, k) \cup AliasOwners(build.snap, k) : k \in SourceNames(t)}

\* An alias is added only under a key that no concept owns yet.
NewAliases(c, keys, type(_)) ==
    [a \in {<<c, k>> : k \in {x \in keys : AliasOwners(tx, x) = {}}} |->
        [type |-> type(a[2]), label |-> Label(a[2])]]

MapSource(t, c, method) ==
    LET alt(k) == "alt" IN
    tx' = [tx EXCEPT
              !.mappings = ReplaceMappings({Mapping(Source(t), c, method)}, tx.mappings),
              !.aliases = Upsert(NewAliases(c, SourceNames(t), alt), tx.aliases)]

Position(t) == CHOOSE i \in DOMAIN Order : Order[i] = t

\* It is the turn of q in a stage.
Turn(q, pc) ==
    /\ build.pc = pc
    /\ \A r \in build.queue : Position(q.source) <= Position(r.source)

Advance(q) == build' = [build EXCEPT !.queue = build.queue \ {q}]

Defer(q, ambiguous) ==
    build' = [build EXCEPT !.queue = build.queue \ {q},
                           !.deferred = build.deferred \cup
                               {[source |-> q.source, ambiguous |-> ambiguous]}]

NextStage == [labels |-> "trgm", trgm |-> "semantic", semantic |-> "create",
              create |-> "commit"]

\* A mutant: technologies that have a mapping are reconciled again.
PendingAgain(t) == Source(t) \in DOMAIN tx.sources

Pending(t) == Source(t) \in DOMAIN tx.sources /\ Source(t) \notin Mapped(tx)

StartReconcile ==
    /\ build.pc = "reconcile"
    /\ build' = [build EXCEPT
                    !.pc = "labels", !.snap = tx,
                    !.queue = {[source |-> t, ambiguous |-> FALSE] :
                                   t \in {x \in ToSet(Order) : Pending(x)}}]
    /\ UNCHANGED <<graph, tx, cached, last, builds>>

\* The stage has looked at all: the next one gets what it deferred.  Before the
\* semantic stage everything it gets is embedded, in one call.
EndStage ==
    /\ build.pc \in DOMAIN NextStage
    /\ build.queue = {}
    /\ build' = [build EXCEPT !.pc = NextStage[build.pc], !.queue = build.deferred,
                              !.deferred = {}]
    /\ UNCHANGED <<graph, tx, cached, last, builds>>

MatchLabel(q) ==
    /\ Turn(q, "labels")
    /\ \E c \in DOMAIN tx.concepts :
           /\ NameOwners(build.snap, q.source) = {c}
           /\ MapSource(q.source, c, "normalized_label")
    /\ Advance(q)
    /\ UNCHANGED <<graph, cached, last, builds>>

MatchAlias(q) ==
    /\ Turn(q, "labels")
    /\ Cardinality(NameOwners(build.snap, q.source)) # 1
    /\ \E c \in DOMAIN tx.concepts :
           /\ LabelOwners(q.source) = {c}
           /\ MapSource(q.source, c, "alias")
    /\ Advance(q)
    /\ UNCHANGED <<graph, cached, last, builds>>

MatchNoLabel(q) ==
    /\ Turn(q, "labels")
    /\ Cardinality(NameOwners(build.snap, q.source)) # 1
    /\ Cardinality(LabelOwners(q.source)) # 1
    /\ Defer(q, LabelOwners(q.source) # {})
    /\ UNCHANGED <<graph, tx, cached, last, builds>>

TrgmCandidates(q) == TrgmScores(tx, SourceNames(q.source), TrgmThreshold)

MatchTrgm(q) ==
    /\ Turn(q, "trgm")
    /\ \E c \in DOMAIN TrgmCandidates(q) :
           /\ IsBest(TrgmCandidates(q), c)
           /\ Lead(TrgmCandidates(q)) >= TrgmMargin
           /\ MapSource(q.source, c, "trgm")
    /\ Advance(q)
    /\ UNCHANGED <<graph, cached, last, builds>>

\* Two candidates that are too close make the source ambiguous.
MatchNoTrgm(q) ==
    /\ Turn(q, "trgm")
    /\ DOMAIN TrgmCandidates(q) # {} => Lead(TrgmCandidates(q)) < TrgmMargin
    /\ Defer(q, q.ambiguous \/ DOMAIN TrgmCandidates(q) # {})
    /\ UNCHANGED <<graph, tx, cached, last, builds>>

SemanticCandidates(q) ==
    IF build.plan.model = NoModel THEN <<>>
    ELSE SemanticScores(tx, build.plan.model,
                        canonical_technology_name(SourceName(q.source)))

SemanticDecides(q) ==
    Convincing(SemanticCandidates(q), SemanticHigh, SemanticThreshold, SemanticMargin)

SemanticAmbiguous(q) ==
    /\ DOMAIN SemanticCandidates(q) # {}
    /\ SemanticCandidates(q)[Best(SemanticCandidates(q))] >= SemanticThreshold

MatchSemantic(q) ==
    /\ Turn(q, "semantic")
    /\ SemanticDecides(q)
    /\ \E c \in DOMAIN SemanticCandidates(q) :
           /\ IsBest(SemanticCandidates(q), c)
           /\ MapSource(q.source, c, "semantic")
    /\ Advance(q)
    /\ UNCHANGED <<graph, cached, last, builds>>

\* What was ambiguous anywhere is left without a mapping.
LeaveUnresolved(q) ==
    /\ Turn(q, "semantic")
    /\ ~SemanticDecides(q)
    /\ q.ambiguous \/ SemanticAmbiguous(q)
    /\ Advance(q)
    /\ UNCHANGED <<graph, tx, cached, last, builds>>

MatchNothing(q) ==
    /\ Turn(q, "semantic")
    /\ ~SemanticDecides(q)
    /\ ~q.ambiguous /\ ~SemanticAmbiguous(q)
    /\ Defer(q, FALSE)
    /\ UNCHANGED <<graph, tx, cached, last, builds>>

\* A mutant: whoever else owns the keys.
FoundedAliasesUnguarded(c, label) ==
    [a \in {<<c, k>> : k \in technology_aliases(label)} |->
        [type |-> "derived", label |-> Label(a[2])]]

\* A concept is founded under its name, which it prefers, and short forms of it.
FoundedAliases(c, label) ==
    LET type(k) == IF k = canonical_technology_name(label) THEN "preferred" ELSE "derived"
    IN  NewAliases(c, technology_aliases(label), type)

\* A technology that nothing resembles founds a concept.
FoundConcept(q) ==
    /\ Turn(q, "create")
    /\ LET t == q.source
           c == canonical_concept_id("onet", Software(t))
           row == [name |-> canonical_technology_name(SourceName(t)),
                   kind |-> "technology", model |-> build.plan.model]
       IN  tx' = [tx EXCEPT
                     !.concepts = UpsertConcepts([x \in {c} |-> row], tx.concepts),
                     !.mappings = ReplaceMappings({Mapping(Source(t), c, "import")},
                                                  tx.mappings),
                     !.aliases = Upsert(FoundedAliases(c, SourceName(t)), tx.aliases)]
    /\ Advance(q)
    /\ UNCHANGED <<graph, cached, last, builds>>

Commit ==
    /\ build.pc = "commit"
    /\ graph' = tx
    /\ last' = build.plan
    /\ build' = Idle
    /\ UNCHANGED <<tx, cached, builds>>

\* A call of the embedder or the download raises, or the process dies.
Abort ==
    /\ build.pc # "idle"
    /\ build' = Idle
    /\ tx' = graph
    /\ UNCHANGED <<graph, cached, last, builds>>

Next ==
    \/ \E plan \in Plans : StartBuild(plan)
    \/ ImportEsco \/ Download \/ UseCache \/ ImportOnet
    \/ StartReconcile \/ EndStage
    \/ \E q \in build.queue :
           \/ MatchLabel(q) \/ MatchAlias(q) \/ MatchNoLabel(q)
           \/ MatchTrgm(q) \/ MatchNoTrgm(q)
           \/ MatchSemantic(q) \/ LeaveUnresolved(q) \/ MatchNothing(q)
           \/ FoundConcept(q)
    \/ Commit \/ Abort

Spec == Init /\ [][Next]_vars

-----------------------------------------------------------------------------
(***************************************************************************)
(* Properties.                                                             *)
(***************************************************************************)
ConceptIds(g) == DOMAIN g.concepts

\* Every row that a step of a build leaves refers to rows that are there: the
\* endpoints of edges, the concepts of aliases and of mappings, the sources of
\* mappings.  (A reference to a missing row is refused by a foreign key, and
\* takes the whole build with it.)
NothingDangles ==
    /\ \A e \in tx.sourceEdges : {e.subject, e.object} \subseteq DOMAIN tx.sources
    /\ \A e \in tx.conceptEdges : {e.subject, e.object} \subseteq ConceptIds(tx)
    /\ \A a \in DOMAIN tx.aliases : a[1] \in ConceptIds(tx)
    /\ \A m \in tx.mappings : m.source \in DOMAIN tx.sources /\ m.concept \in ConceptIds(tx)

\* A technology founds a concept only if it is new: when the reconciliation began
\* no concept, of ESCO or founded by a build before, was known by its name or by
\* one of the names derived from it.  (One may be by now: a technology that was
\* mapped in between has lent the concept its names.)
FoundedIsNew ==
    [][\A c \in ConceptIds(tx') \ ConceptIds(tx) :
           c[1] = "onet" =>
               \A k \in technology_aliases(SourceName(c[2][2])) :
                   NameOwners(build.snap, k) \cup AliasOwners(build.snap, k) = {}]_vars

\* A key that several concepts own is contested by ESCO: by its own labels, or by
\* labels that a bundle or the overrides brought after a technology had taken the
\* key.  No two technologies ever own one, over any sequence of builds.
ContestedOnlyByEsco ==
    \A k \in {a[2] : a \in DOMAIN tx.aliases} :
        Cardinality({c \in AliasOwners(tx, k) : c[1] = "onet"}) <= 1

\* A committed mapping is never moved to another concept or lost: the ids in
\* profiles and jobs that were linked through it keep their meaning.
MappingsAreFinal ==
    [][\A m \in graph.mappings : \E n \in graph'.mappings :
           n.source = m.source /\ n.concept = m.concept]_vars

\* Building again with the same inputs changes nothing, unless it resolves a
\* technology that was left without a mapping: builds converge.
RebuildConverges ==
    [][graph' # graph /\ build.plan = last => Mapped(graph) \subseteq Mapped(graph')
                                              /\ Mapped(graph) # Mapped(graph')]_vars
=============================================================================
