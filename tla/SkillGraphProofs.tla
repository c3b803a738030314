-------------------------- MODULE SkillGraphProofs --------------------------
(***************************************************************************)
(* Theorems about the builds of the skill graph, for any bundles, files,   *)
(* overrides, similarities and number of builds, aborts included; and      *)
(* about the neighbourhoods that the explorer shows of what they leave.    *)
(***************************************************************************)
EXTENDS SkillExplorer, FiniteSetTheorems, WellFoundedInduction, TLAPS

-----------------------------------------------------------------------------
(***************************************************************************)
(* The inductive invariant.                                                *)
(***************************************************************************)
GraphFields ==
    {"sources", "concepts", "aliases", "mappings", "sourceEdges", "conceptEdges"}

\* An ESCO concept of any version is mapped to the canonical concept of its uri.
EscoMapped(g) ==
    \A m \in g.mappings :
        m.source[1] = "esco" => m.concept = canonical_concept_id("esco", m.source[3])

SourcesNamed(g) == \A s \in DOMAIN g.sources : g.sources[s].names # {}

\* No two technologies own a key.
OneTechnology(g) ==
    \A a, b \in DOMAIN g.aliases :
        a[2] = b[2] /\ a[1][1] = "onet" /\ b[1][1] = "onet" => a[1] = b[1]

GraphOK(g) ==
    /\ DOMAIN g = GraphFields
    /\ EscoMapped(g)
    /\ SourcesNamed(g)
    /\ OneTechnology(g)

\* h has the concepts of g, and each mapping of g to the same concept.
Keeps(g, h) ==
    /\ DOMAIN g.concepts \subseteq DOMAIN h.concepts
    /\ \A m \in g.mappings :
           \E n \in h.mappings : n.source = m.source /\ n.concept = m.concept

Importing == {"idle", "esco", "download", "onet", "reconcile"}
Stages == {"labels", "trgm", "semantic", "create"}

Waiting == build.queue \cup build.deferred

\* A technology waits once, and only while it has no mapping.
BuildOK ==
    /\ DOMAIN build = {"pc", "plan", "snap", "queue", "deferred"}
    /\ build.pc \in Importing \cup Stages \cup {"commit"}
    /\ build.pc \in Importing => Waiting = {}
    /\ build.queue \cap build.deferred = {}
    /\ \A q, r \in Waiting : q.source = r.source => q = r
    /\ \A q \in Waiting :
           Source(q.source) \in DOMAIN tx.sources /\ Source(q.source) \notin Mapped(tx)

\* A technology that goes on without being ambiguous has no name that a concept
\* was known by when the reconciliation began.
Unheard(q) == q.ambiguous \/ LabelOwners(q.source) = {}

UnheardOK ==
    /\ build.pc = "labels" => \A q \in build.deferred : Unheard(q)
    /\ build.pc \in {"trgm", "semantic"} => \A q \in Waiting : Unheard(q)
    /\ build.pc = "semantic" => \A q \in build.deferred : ~q.ambiguous
    /\ build.pc = "create" => \A q \in build.queue : LabelOwners(q.source) = {}

IInv ==
    /\ GraphOK(graph)
    /\ GraphOK(tx)
    /\ Keeps(graph, tx)
    /\ BuildOK
    /\ UnheardOK

-----------------------------------------------------------------------------
(***************************************************************************)
(* Least and greatest numbers.                                             *)
(***************************************************************************)
\* A set of natural numbers that is not empty has a least one.
LEMMA LeastNumber ==
    ASSUME NEW T \in SUBSET Nat, T # {}
    PROVE  \E n \in T : \A m \in T : n <= m
<1> DEFINE Below == {1..n : n \in T}
<1>1. Below \subseteq FiniteSubsetsOf(Nat) /\ Below # {}
  <2>1. ASSUME NEW n \in T PROVE 1..n \in FiniteSubsetsOf(Nat)
    <3>1. IsFiniteSet(1..n)
      BY FS_Interval
    <3>2. 1..n \in SUBSET Nat
      OBVIOUS
    <3> QED BY <3>1, <3>2, Zenon DEF FiniteSubsetsOf
  <2> QED BY <2>1
<1>2. IsWellFoundedOn(StrictSubsetOrdering(Nat), FiniteSubsetsOf(Nat))
  BY FS_StrictSubsetOrderingWellFounded
<1>3. PICK B \in Below : \A C \in Below : <<C, B>> \notin StrictSubsetOrdering(Nat)
  <2> HIDE DEF Below
  <2> QED BY <1>1, <1>2, WFMin
<1>4. PICK n \in T : B = 1..n
  BY <1>3
<1>5. ASSUME NEW m \in T, m < n PROVE FALSE
  <2>1. 1..m \in Below /\ 1..m \subseteq Nat /\ 1..n \subseteq Nat
    OBVIOUS
  <2>2. 1..m \subseteq 1..n /\ n \in 1..n /\ n \notin 1..m
    BY <1>5
  <2> QED BY <1>3, <1>4, <2>1, <2>2 DEF StrictSubsetOrdering
<1> QED BY <1>4, <1>5

\* A set of numbers with a bound that is not empty has a greatest one.
LEMMA GreatestNumber ==
    ASSUME NEW n \in Nat, NEW S \in SUBSET (0..n), S # {}
    PROVE  \E m \in S : \A k \in S : k <= m
<1> DEFINE T == {n - m : m \in S}
<1>1. T \in SUBSET Nat /\ T # {}
  <2>1. \A m \in S : n - m \in Nat
    OBVIOUS
  <2>2. \E m \in S : n - m \in T
    OBVIOUS
  <2> QED BY <2>1, <2>2
<1>2. PICK t \in T : \A u \in T : t <= u
  <2> HIDE DEF T
  <2> QED BY <1>1, LeastNumber
<1>3. PICK m \in S : t = n - m
  BY <1>2
<1>4. ASSUME NEW k \in S PROVE k <= m
  <2>1. n - k \in T /\ k \in Nat /\ m \in Nat
    OBVIOUS
  <2>2. n - m <= n - k
    BY <1>2, <1>3, <2>1
  <2> QED BY <2>1, <2>2
<1> QED BY <1>3, <1>4

\* Counting up reaches every number.
LEMMA CountUp ==
    ASSUME NEW n \in Nat, NEW T, 0 \in T, \A k \in 0..n : k \in T /\ k # n => k + 1 \in T
    PROVE  0..n \subseteq T
<1> DEFINE U == {k \in 0..n : k \notin T}
<1>1. ASSUME U # {} PROVE FALSE
  <2>1. PICK k \in U : \A m \in U : k <= m
    <3>1. U \in SUBSET Nat
      OBVIOUS
    <3> HIDE DEF U
    <3> QED BY <1>1, <3>1, LeastNumber
  <2>2. k \in 1..n
    BY <2>1
  <2>3. k - 1 \in 0..n /\ k - 1 # n /\ k - 1 + 1 = k
    BY <2>2
  <2>4. k - 1 \in T
    BY <2>1, <2>3
  <2> QED BY <2>1, <2>3, <2>4
<1> QED BY <1>1

LEMMA MaxIsThere ==
    ASSUME NEW n \in Nat, NEW S \in SUBSET (0..n), S # {}
    PROVE  Max(S) \in S /\ \A k \in S : Max(S) >= k
<1>1. \E m \in S : \A k \in S : m >= k
  <2>1. PICK m \in S : \A k \in S : k <= m
    BY GreatestNumber
  <2>2. \A k \in S : m >= k
    BY <2>1
  <2> QED BY <2>2
<1> QED BY <1>1 DEF Max

-----------------------------------------------------------------------------
(***************************************************************************)
(* Tables.                                                                 *)
(***************************************************************************)
LEMMA UpsertFacts ==
    ASSUME NEW f, NEW g
    PROVE  /\ DOMAIN Upsert(f, g) = DOMAIN f \cup DOMAIN g
           /\ \A x \in DOMAIN f : Upsert(f, g)[x] = f[x]
           /\ \A x \in DOMAIN g \ DOMAIN f : Upsert(f, g)[x] = g[x]
BY DEF Upsert

LEMMA UpsertNamed ==
    ASSUME NEW f, NEW g, NEW h, SourcesNamed(g), h.sources = Upsert(f, g.sources),
           \A s \in DOMAIN f : f[s].names # {}
    PROVE  SourcesNamed(h)
BY DEF Upsert, SourcesNamed

LEMMA UpsertConceptsFacts ==
    ASSUME NEW f, NEW g
    PROVE  DOMAIN UpsertConcepts(f, g) = DOMAIN f \cup DOMAIN g
BY DEF UpsertConcepts, Upsert

\* Aliases lent under keys without an owner leave each key to one technology.
LEMMA LendKeys ==
    ASSUME NEW g, NEW c, NEW keys, NEW new, OneTechnology(g),
           DOMAIN new = {<<c, k>> : k \in {x \in keys : AliasOwners(g, x) = {}}},
           NEW h, h.aliases = Upsert(new, g.aliases)
    PROVE  OneTechnology(h)
<1>1. DOMAIN h.aliases = DOMAIN new \cup DOMAIN g.aliases
  BY UpsertFacts
<1>2. ASSUME NEW a \in DOMAIN new
      PROVE  a[1] = c /\ \A b \in DOMAIN g.aliases : b[2] # a[2]
  BY <1>2 DEF AliasOwners
<1>3. SUFFICES ASSUME NEW a \in DOMAIN h.aliases, NEW b \in DOMAIN h.aliases,
                      a[2] = b[2], a[1][1] = "onet", b[1][1] = "onet"
               PROVE  a[1] = b[1]
  BY DEF OneTechnology
<1>4. CASE a \in DOMAIN new /\ b \in DOMAIN new
  BY <1>2, <1>4
<1>5. CASE a \in DOMAIN new /\ b \notin DOMAIN new
  BY <1>1, <1>2, <1>3, <1>5
<1>6. CASE a \notin DOMAIN new /\ b \in DOMAIN new
  BY <1>1, <1>2, <1>3, <1>6
<1>7. CASE a \notin DOMAIN new /\ b \notin DOMAIN new
  BY <1>1, <1>3, <1>7 DEF OneTechnology
<1> QED BY <1>4, <1>5, <1>6, <1>7

LEMMA KeepsItself == \A g : Keeps(g, g)
BY DEF Keeps

LEMMA KeepsOn ==
    ASSUME NEW f, NEW g, NEW h, Keeps(f, g), Keeps(g, h)
    PROVE  Keeps(f, h)
BY DEF Keeps

LEMMA SourceIsOnet ==
    ASSUME NEW t
    PROVE  /\ Source(t) = <<"onet", build.plan.onet, <<"software", t>>>>
           /\ Source(t)[1] = "onet"
BY DEF Source, source_concept_id, Software

LEMMA SourcesDiffer ==
    ASSUME NEW s, NEW t, Source(s) = Source(t) PROVE s = t
BY DEF Source, source_concept_id, Software

-----------------------------------------------------------------------------
(***************************************************************************)
(* The ESCO import.                                                        *)
(***************************************************************************)
LEMMA EscoNew ==
    ASSUME NEW plan
    PROVE  /\ \A m \in EscoMappings(plan) :
                  /\ m.source[1] = "esco"
                  /\ m.concept = canonical_concept_id("esco", m.source[3])
           /\ \A s \in DOMAIN EscoSources(plan) : EscoSources(plan)[s].names # {}
           /\ \A c \in DOMAIN EscoConcepts(plan) : c[1] = "esco"
           /\ \A a \in DOMAIN EscoAliases(plan) : a[1][1] = "esco"
<1>1. \A m \in EscoMappings(plan) :
          /\ m.source[1] = "esco"
          /\ m.concept = canonical_concept_id("esco", m.source[3])
  BY DEF EscoMappings, Mapping, source_concept_id, canonical_concept_id
<1>2. \A s \in DOMAIN EscoSources(plan) : EscoSources(plan)[s].names # {}
  BY DEF EscoSources, Upsert
<1>3. \A c \in DOMAIN EscoConcepts(plan) : c[1] = "esco"
  BY DEF EscoConcepts, canonical_concept_id
<1>4. \A a \in DOMAIN EscoAliases(plan) : a[1][1] = "esco"
  BY DEF EscoAliases, canonical_concept_id
<1> QED BY <1>1, <1>2, <1>3, <1>4

LEMMA ImportEscoKeeps ==
    ASSUME IInv, ImportEsco
    PROVE  GraphOK(tx') /\ Keeps(tx, tx')
<1>0. PICK plan : plan = build.plan
  OBVIOUS
<1>1. /\ tx' = [sources |-> Upsert(EscoSources(plan), tx.sources),
                concepts |-> UpsertConcepts(EscoConcepts(plan), tx.concepts),
                aliases |-> Upsert(EscoAliases(plan), tx.aliases),
                mappings |-> ReplaceMappings(EscoMappings(plan), tx.mappings),
                sourceEdges |-> tx.sourceEdges \cup EscoSourceEdges(plan),
                conceptEdges |-> tx.conceptEdges \cup EscoConceptEdges(plan)]
      /\ GraphOK(tx)
  BY <1>0 DEF ImportEsco, IInv
<1>2. /\ DOMAIN tx' = GraphFields
      /\ tx'.sources = Upsert(EscoSources(plan), tx.sources)
      /\ tx'.concepts = UpsertConcepts(EscoConcepts(plan), tx.concepts)
      /\ tx'.aliases = Upsert(EscoAliases(plan), tx.aliases)
      /\ tx'.mappings = ReplaceMappings(EscoMappings(plan), tx.mappings)
  BY <1>1 DEF GraphFields
<1>3. EscoMapped(tx')
  BY <1>1, <1>2, EscoNew DEF EscoMapped, GraphOK, ReplaceMappings
<1>4. SourcesNamed(tx')
  <2>1. \A s \in DOMAIN EscoSources(plan) : EscoSources(plan)[s].names # {}
    BY EscoNew
  <2>2. SourcesNamed(tx) /\ tx'.sources = Upsert(EscoSources(plan), tx.sources)
    BY <1>1, <1>2 DEF GraphOK
  <2> QED BY <2>1, <2>2, UpsertNamed
<1>5. OneTechnology(tx')
  <2>1. \A a \in DOMAIN tx'.aliases : a[1][1] = "onet" => a \in DOMAIN tx.aliases
    <3>1. DOMAIN tx'.aliases = DOMAIN EscoAliases(plan) \cup DOMAIN tx.aliases
      <4>1. DOMAIN Upsert(EscoAliases(plan), tx.aliases)
                = DOMAIN EscoAliases(plan) \cup DOMAIN tx.aliases
        BY UpsertFacts
      <4> QED BY <1>2, <4>1
    <3>2. \A a \in DOMAIN EscoAliases(plan) : a[1][1] = "esco"
      BY EscoNew
    <3> QED BY <3>1, <3>2
  <2> QED BY <2>1, <1>1 DEF OneTechnology, GraphOK
<1>6. Keeps(tx, tx')
  <2>1. DOMAIN tx.concepts \subseteq DOMAIN tx'.concepts
    <3>1. DOMAIN UpsertConcepts(EscoConcepts(plan), tx.concepts)
              = DOMAIN EscoConcepts(plan) \cup DOMAIN tx.concepts
      BY UpsertConceptsFacts
    <3> QED BY <1>2, <3>1
  <2>2. ASSUME NEW m \in tx.mappings
        PROVE  \E n \in tx'.mappings : n.source = m.source /\ n.concept = m.concept
    <3>1. CASE m.source \notin {r.source : r \in EscoMappings(plan)}
      BY <1>2, <2>2, <3>1 DEF ReplaceMappings
    <3>2. CASE m.source \in {r.source : r \in EscoMappings(plan)}
      <4>1. PICK r \in EscoMappings(plan) : r.source = m.source
        BY <3>2
      <4>2. r.concept = m.concept
        BY <1>1, <2>2, <4>1, EscoNew DEF GraphOK, EscoMapped
      <4>3. r \in tx'.mappings
        BY <1>2 DEF ReplaceMappings
      <4> QED BY <4>1, <4>2, <4>3
    <3> QED BY <3>1, <3>2
  <2> QED BY <2>1, <2>2 DEF Keeps
<1> QED BY <1>2, <1>3, <1>4, <1>5, <1>6 DEF GraphOK

-----------------------------------------------------------------------------
(***************************************************************************)
(* The O*NET import.                                                       *)
(***************************************************************************)
LEMMA OnetNew ==
    ASSUME NEW plan
    PROVE  \A s \in DOMAIN OnetSources(plan) : OnetSources(plan)[s].names # {}
<1> DEFINE id(external) == source_concept_id("onet", plan.onet, external)
           labels(key) == {r.example : r \in {x \in OnetFile : normalize_label(x.example) = key}}
           first == {id(Software(normalize_label(r.example))) : r \in OnetFile}
           second == {id(Category(r.category)) : r \in OnetFile}
<1>1. ASSUME NEW s \in first PROVE labels(s[3][2]) # {}
  BY <1>1 DEF Software, source_concept_id
<1>2. OnetSources(plan) =
          Upsert([s \in first |-> [kind |-> "technology", names |-> labels(s[3][2])]],
                 [s \in second |-> [kind |-> "technology_category",
                                    names |-> {Label(<<s[3][2]>>)}]])
  BY DEF OnetSources
<1> DEFINE f == [s \in first |-> [kind |-> "technology", names |-> labels(s[3][2])]]
           g == [s \in second |-> [kind |-> "technology_category",
                                   names |-> {Label(<<s[3][2]>>)}]]
<1>3. \A s \in DOMAIN f : f[s].names # {}
  <2> HIDE DEF first, labels
  <2> QED BY <1>1
<1>4. \A s \in DOMAIN g : g[s].names # {}
  <2> HIDE DEF second
  <2> QED OBVIOUS
<1>5. OnetSources(plan) = Upsert(f, g)
  BY <1>2
<1> HIDE DEF f, g
<1> QED BY <1>3, <1>4, <1>5 DEF Upsert

LEMMA ImportOnetKeeps ==
    ASSUME IInv, ImportOnet
    PROVE  GraphOK(tx') /\ Keeps(tx, tx')
<1>1. /\ tx' = [tx EXCEPT !.sources = Upsert(OnetSources(build.plan), tx.sources),
                          !.sourceEdges = tx.sourceEdges \cup OnetEdges(build.plan)]
      /\ GraphOK(tx)
  BY DEF ImportOnet, IInv
<1>2. /\ DOMAIN tx' = GraphFields
      /\ tx'.sources = Upsert(OnetSources(build.plan), tx.sources)
      /\ tx'.concepts = tx.concepts
      /\ tx'.aliases = tx.aliases
      /\ tx'.mappings = tx.mappings
  BY <1>1 DEF GraphOK, GraphFields
<1>3. SourcesNamed(tx')
  <2>1. \A s \in DOMAIN OnetSources(build.plan) :
            OnetSources(build.plan)[s].names # {}
    BY OnetNew
  <2>2. SourcesNamed(tx) /\ tx'.sources = Upsert(OnetSources(build.plan), tx.sources)
    BY <1>1, <1>2 DEF GraphOK
  <2> QED BY <2>1, <2>2, UpsertNamed
<1> QED BY <1>1, <1>2, <1>3 DEF GraphOK, EscoMapped, OneTechnology, Keeps

-----------------------------------------------------------------------------
(***************************************************************************)
(* Reconciliation.                                                         *)
(***************************************************************************)
\* A technology is mapped, to a concept there was or one it founds.
LEMMA MapKeeps ==
    ASSUME IInv, NEW q \in Waiting, NEW c, NEW method, NEW keys, NEW new,
           DOMAIN new = {<<c, k>> : k \in {x \in keys : AliasOwners(tx, x) = {}}},
           DOMAIN tx' = GraphFields,
           tx'.sources = tx.sources,
           DOMAIN tx.concepts \subseteq DOMAIN tx'.concepts,
           tx'.aliases = Upsert(new, tx.aliases),
           tx'.mappings =
               ReplaceMappings({Mapping(Source(q.source), c, method)}, tx.mappings)
    PROVE  /\ GraphOK(tx') /\ Keeps(tx, tx')
           /\ Mapped(tx') = Mapped(tx) \cup {Source(q.source)}
<1>1. GraphOK(tx) /\ Source(q.source) \notin Mapped(tx)
  BY DEF IInv, BuildOK
<1>2. PICK m : /\ tx'.mappings = tx.mappings \cup {m}
               /\ m.source = Source(q.source)
               /\ m.concept = c
  <2>1. /\ ReplaceMappings({Mapping(Source(q.source), c, method)}, tx.mappings)
               = tx.mappings \cup {Mapping(Source(q.source), c, method)}
        /\ Mapping(Source(q.source), c, method).source = Source(q.source)
        /\ Mapping(Source(q.source), c, method).concept = c
    BY <1>1 DEF ReplaceMappings, Mapping, Mapped
  <2> QED BY <2>1
<1>3. EscoMapped(tx')
  BY <1>1, <1>2, SourceIsOnet DEF GraphOK, EscoMapped
<1>4. SourcesNamed(tx')
  BY <1>1 DEF GraphOK, SourcesNamed
<1>5. OneTechnology(tx')
  BY <1>1, LendKeys DEF GraphOK
<1>6. Keeps(tx, tx')
  BY <1>2 DEF Keeps
<1>7. Mapped(tx') = Mapped(tx) \cup {Source(q.source)}
  BY <1>2 DEF Mapped
<1> QED BY <1>3, <1>4, <1>5, <1>6, <1>7 DEF GraphOK

LEMMA MapSourceKeeps ==
    ASSUME IInv, NEW q \in Waiting, NEW c, NEW method,
           MapSource(q.source, c, method)
    PROVE  /\ GraphOK(tx') /\ Keeps(tx, tx')
           /\ Mapped(tx') = Mapped(tx) \cup {Source(q.source)}
           /\ tx'.sources = tx.sources
           /\ tx'.concepts = tx.concepts
<1>1. PICK keys, new :
          /\ DOMAIN new = {<<c, k>> : k \in {x \in keys : AliasOwners(tx, x) = {}}}
          /\ tx' = [tx EXCEPT
                       !.mappings = ReplaceMappings(
                           {Mapping(Source(q.source), c, method)}, tx.mappings),
                       !.aliases = Upsert(new, tx.aliases)]
  <2> DEFINE keys == SourceNames(q.source)
             new == [a \in {<<c, k>> : k \in {x \in keys : AliasOwners(tx, x) = {}}} |->
                        [type |-> "alt", label |-> Label(a[2])]]
  <2>1. tx' = [tx EXCEPT
                  !.mappings = ReplaceMappings(
                      {Mapping(Source(q.source), c, method)}, tx.mappings),
                  !.aliases = Upsert(new, tx.aliases)]
    BY DEF MapSource, NewAliases
  <2>2. DOMAIN new = {<<c, k>> : k \in {x \in keys : AliasOwners(tx, x) = {}}}
    OBVIOUS
  <2> HIDE DEF keys, new
  <2> QED BY <2>1, <2>2
<1>2. DOMAIN tx = GraphFields
  BY DEF IInv, GraphOK
<1>3. /\ DOMAIN tx' = GraphFields
      /\ tx'.sources = tx.sources
      /\ tx'.concepts = tx.concepts
      /\ tx'.aliases = Upsert(new, tx.aliases)
      /\ tx'.mappings =
             ReplaceMappings({Mapping(Source(q.source), c, method)}, tx.mappings)
  BY <1>1, <1>2 DEF GraphFields
<1> QED BY <1>1, <1>3, MapKeeps

LEMMA FoundConceptKeeps ==
    ASSUME IInv, NEW q \in Waiting, FoundConcept(q)
    PROVE  /\ GraphOK(tx') /\ Keeps(tx, tx')
           /\ Mapped(tx') = Mapped(tx) \cup {Source(q.source)}
           /\ tx'.sources = tx.sources
           /\ DOMAIN tx'.concepts \subseteq
                  DOMAIN tx.concepts \cup {<<"onet", <<"software", q.source>>>>}
<1> DEFINE c == canonical_concept_id("onet", Software(q.source))
           row == [name |-> canonical_technology_name(SourceName(q.source)),
                   kind |-> "technology", model |-> build.plan.model]
           rows == [x \in {c} |-> row]
           keys == technology_aliases(SourceName(q.source))
           new == FoundedAliases(c, SourceName(q.source))
<1>1. /\ tx' = [tx EXCEPT
                   !.concepts = UpsertConcepts(rows, tx.concepts),
                   !.mappings = ReplaceMappings(
                       {Mapping(Source(q.source), c, "import")}, tx.mappings),
                   !.aliases = Upsert(new, tx.aliases)]
      /\ DOMAIN tx = GraphFields
  BY DEF FoundConcept, IInv, GraphOK
<1>2. DOMAIN new = {<<c, k>> : k \in {x \in keys : AliasOwners(tx, x) = {}}}
  BY DEF FoundedAliases, NewAliases
<1>3. DOMAIN rows = {c} /\ c = <<"onet", <<"software", q.source>>>>
  BY DEF canonical_concept_id, Software
<1> HIDE DEF c, row, rows, keys, new
<1>4. /\ DOMAIN tx' = GraphFields
      /\ tx'.sources = tx.sources
      /\ tx'.concepts = UpsertConcepts(rows, tx.concepts)
      /\ tx'.aliases = Upsert(new, tx.aliases)
      /\ tx'.mappings =
             ReplaceMappings({Mapping(Source(q.source), c, "import")}, tx.mappings)
  BY <1>1 DEF GraphFields
<1>5. DOMAIN UpsertConcepts(rows, tx.concepts) = DOMAIN rows \cup DOMAIN tx.concepts
  BY UpsertConceptsFacts
<1>6. /\ DOMAIN tx.concepts \subseteq DOMAIN tx'.concepts
      /\ DOMAIN tx'.concepts \subseteq
             DOMAIN tx.concepts \cup {<<"onet", <<"software", q.source>>>>}
  BY <1>3, <1>4, <1>5
<1>7. /\ GraphOK(tx') /\ Keeps(tx, tx')
      /\ Mapped(tx') = Mapped(tx) \cup {Source(q.source)}
  BY <1>2, <1>4, <1>6, MapKeeps
<1> QED BY <1>4, <1>6, <1>7

\* What LabelOwners and Source are computed from stays during the stages.
LEMMA LookupsStay ==
    ASSUME build'.snap = build.snap, build'.plan = build.plan,
           tx'.sources = tx.sources
    PROVE  /\ \A t : Source(t)' = Source(t)
           /\ \A t : LabelOwners(t)' = LabelOwners(t)
<1>1. \A t : Source(t)' = Source(t)
  BY DEF Source
<1>2. \A t : SourceNames(t)' = SourceNames(t)
  BY <1>1 DEF SourceNames
<1> QED BY <1>1, <1>2 DEF LabelOwners

\* A technology leaves its stage: mapped, unresolved or founded.
LEMMA LeavesStage ==
    ASSUME IInv, NEW q \in build.queue, Advance(q), build.pc \in Stages,
           tx'.sources = tx.sources,
           Mapped(tx') \subseteq Mapped(tx) \cup {Source(q.source)}
    PROVE  BuildOK' /\ UnheardOK'
<1>1. /\ DOMAIN build' = {"pc", "plan", "snap", "queue", "deferred"}
      /\ build'.pc = build.pc /\ build'.plan = build.plan /\ build'.snap = build.snap
      /\ build'.queue = build.queue \ {q}
      /\ build'.deferred = build.deferred
  BY DEF Advance, IInv, BuildOK
<1>2. Waiting' \subseteq Waiting /\ q \notin Waiting'
  BY <1>1 DEF Waiting, IInv, BuildOK
<1>3. BuildOK'
  <2>1. ASSUME NEW r \in Waiting'
        PROVE  Source(r.source)' \in DOMAIN tx'.sources /\ Source(r.source)' \notin Mapped(tx')
    <3>1. r \in Waiting /\ r # q /\ q \in Waiting
      BY <1>2, <2>1 DEF Waiting
    <3>2. r.source # q.source
      BY <3>1 DEF IInv, BuildOK
    <3>3. Source(r.source)' = Source(r.source) /\ Source(r.source) # Source(q.source)
      BY <1>1, <3>2, LookupsStay, SourcesDiffer
    <3> QED BY <3>1, <3>3 DEF IInv, BuildOK
  <2>2. build'.pc \notin Importing
    BY <1>1 DEF Stages, Importing
  <2> QED BY <1>1, <1>2, <2>1, <2>2 DEF BuildOK, IInv, Waiting
<1>4. UnheardOK'
  <2>1. \A t : LabelOwners(t)' = LabelOwners(t)
    BY <1>1, LookupsStay
  <2> QED BY <1>1, <2>1 DEF UnheardOK, IInv, Unheard, Waiting
<1> QED BY <1>3, <1>4

LEMMA WaitingRow ==
    \A s, a : /\ [source |-> s, ambiguous |-> a].source = s
              /\ [source |-> s, ambiguous |-> a].ambiguous = a
OBVIOUS

\* A technology is handed to the next stage.
LEMMA DefersStage ==
    ASSUME IInv, NEW q \in build.queue, NEW ambiguous, Defer(q, ambiguous),
           UNCHANGED tx, build.pc \in {"labels", "trgm", "semantic"},
           ambiguous \/ LabelOwners(q.source) = {},
           build.pc = "semantic" => ~ambiguous
    PROVE  BuildOK' /\ UnheardOK'
<1>1. PICK d : /\ d = [source |-> q.source, ambiguous |-> ambiguous]
               /\ d.source = q.source
               /\ d.ambiguous = ambiguous
  BY WaitingRow, Zenon
<1>2. /\ DOMAIN build' = {"pc", "plan", "snap", "queue", "deferred"}
      /\ build'.pc = build.pc /\ build'.plan = build.plan /\ build'.snap = build.snap
      /\ build'.queue = build.queue \ {q}
      /\ build'.deferred = build.deferred \cup {d}
  BY <1>1 DEF Defer, IInv, BuildOK
<1>3. /\ Waiting' = (build.queue \ {q}) \cup build.deferred \cup {d}
      /\ q \in Waiting
      /\ build.queue \cap build.deferred = {}
      /\ \A r, s \in Waiting : r.source = s.source => r = s
  BY <1>2 DEF Waiting, IInv, BuildOK
<1>4. \A r \in (build.queue \ {q}) \cup build.deferred : r \in Waiting /\ r.source # d.source
  BY <1>1, <1>3 DEF Waiting
<1>5. BuildOK'
  <2>1. ASSUME NEW r \in Waiting'
        PROVE  Source(r.source)' \in DOMAIN tx'.sources /\ Source(r.source)' \notin Mapped(tx')
    <3>1. \E s \in Waiting : s.source = r.source
      BY <1>1, <1>3, <1>4, <2>1
    <3>2. Source(r.source)' = Source(r.source)
      BY <1>2, LookupsStay
    <3> QED BY <3>1, <3>2 DEF IInv, BuildOK
  <2>2. build'.pc \notin Importing /\ build'.pc \in Stages
    BY <1>2 DEF Stages, Importing
  <2>3. build'.queue \cap build'.deferred = {}
    BY <1>2, <1>3, <1>4
  <2>4. \A r, s \in Waiting' : r.source = s.source => r = s
    BY <1>3, <1>4
  <2> QED BY <1>2, <2>1, <2>2, <2>3, <2>4 DEF BuildOK
<1>6. UnheardOK'
  <2>1. \A t : LabelOwners(t)' = LabelOwners(t)
    BY <1>2, LookupsStay
  <2>2. Unheard(d)'
    BY <1>1, <2>1 DEF Unheard
  <2> QED BY <1>1, <1>2, <2>1, <2>2 DEF UnheardOK, IInv, Unheard, Waiting
<1> QED BY <1>5, <1>6

-----------------------------------------------------------------------------
(***************************************************************************)
(* Every step keeps the invariant.                                         *)
(***************************************************************************)
\* A technology is mapped: the facts of the steps that map one.
LEMMA MapStep ==
    ASSUME IInv, NEW q \in build.queue, Advance(q), build.pc \in Stages,
           GraphOK(tx'), Keeps(tx, tx'), UNCHANGED graph,
           Mapped(tx') = Mapped(tx) \cup {Source(q.source)},
           tx'.sources = tx.sources
    PROVE  IInv'
<1>1. BuildOK' /\ UnheardOK'
  BY LeavesStage
<1>2. Keeps(graph, tx')
  BY KeepsOn DEF IInv
<1> QED BY <1>1, <1>2 DEF IInv

LEMMA MatchStep ==
    ASSUME IInv, NEW q \in build.queue,
           MatchLabel(q) \/ MatchAlias(q) \/ MatchTrgm(q) \/ MatchSemantic(q)
    PROVE  IInv' /\ tx'.concepts = tx.concepts
<1>1. PICK c, method : MapSource(q.source, c, method)
  BY DEF MatchLabel, MatchAlias, MatchTrgm, MatchSemantic
<1>2. Advance(q) /\ build.pc \in Stages /\ UNCHANGED graph
  BY DEF MatchLabel, MatchAlias, MatchTrgm, MatchSemantic, Turn, Stages
<1>3. q \in Waiting
  BY DEF Waiting
<1>4. /\ GraphOK(tx') /\ Keeps(tx, tx')
      /\ Mapped(tx') = Mapped(tx) \cup {Source(q.source)}
      /\ tx'.sources = tx.sources
      /\ tx'.concepts = tx.concepts
  BY <1>1, <1>3, MapSourceKeeps
<1> QED BY <1>2, <1>4, MapStep

LEMMA FoundStep ==
    ASSUME IInv, NEW q \in build.queue, FoundConcept(q)
    PROVE  IInv'
<1>1. Advance(q) /\ build.pc \in Stages /\ UNCHANGED graph
  BY DEF FoundConcept, Turn, Stages
<1>2. q \in Waiting
  BY DEF Waiting
<1> QED BY <1>1, <1>2, FoundConceptKeeps, MapStep

\* A technology goes on to the next stage: as ambiguous, or with no name that has
\* an owner.
LEMMA DeferStep ==
    ASSUME IInv, NEW q \in build.queue,
           MatchNoLabel(q) \/ MatchNoTrgm(q) \/ MatchNothing(q)
    PROVE  IInv' /\ UNCHANGED tx
<1>1. UNCHANGED <<graph, tx>>
  BY DEF MatchNoLabel, MatchNoTrgm, MatchNothing
<1>2. BuildOK' /\ UnheardOK'
  <2>1. CASE MatchNoLabel(q)
    <3>1. Defer(q, LabelOwners(q.source) # {}) /\ build.pc = "labels"
      BY <2>1 DEF MatchNoLabel, Turn
    <3>2. (LabelOwners(q.source) # {}) \/ LabelOwners(q.source) = {}
      OBVIOUS
    <3> QED BY <1>1, <3>1, <3>2, DefersStage
  <2>2. CASE MatchNoTrgm(q)
    <3>1. /\ Defer(q, q.ambiguous \/ DOMAIN TrgmCandidates(q) # {})
          /\ build.pc = "trgm"
      BY <2>2 DEF MatchNoTrgm, Turn
    <3>2. q.ambiguous \/ LabelOwners(q.source) = {}
      BY <3>1 DEF IInv, UnheardOK, Unheard, Waiting
    <3>3. (q.ambiguous \/ DOMAIN TrgmCandidates(q) # {}) \/ LabelOwners(q.source) = {}
      BY <3>2
    <3> QED BY <1>1, <3>1, <3>3, DefersStage
  <2>3. CASE MatchNothing(q)
    <3>1. Defer(q, FALSE) /\ build.pc = "semantic" /\ ~q.ambiguous
      BY <2>3 DEF MatchNothing, Turn
    <3>2. LabelOwners(q.source) = {}
      BY <3>1 DEF IInv, UnheardOK, Unheard, Waiting
    <3> QED BY <1>1, <3>1, <3>2, DefersStage
  <2> QED BY <2>1, <2>2, <2>3
<1> QED BY <1>1, <1>2 DEF IInv

LEMMA LeaveStep ==
    ASSUME IInv, NEW q \in build.queue, LeaveUnresolved(q)
    PROVE  IInv' /\ UNCHANGED tx
<1>1. Advance(q) /\ build.pc \in Stages /\ UNCHANGED <<graph, tx>>
  BY DEF LeaveUnresolved, Turn, Stages
<1>2. BuildOK' /\ UnheardOK'
  BY <1>1, LeavesStage
<1> QED BY <1>1, <1>2 DEF IInv

\* The steps outside the stages begin and end with nothing waiting.
LEMMA StartBuildStep ==
    ASSUME IInv, NEW plan, StartBuild(plan)
    PROVE  IInv' /\ tx' = graph
<1>1. /\ DOMAIN build' = {"pc", "plan", "snap", "queue", "deferred"}
      /\ build'.pc = "esco" /\ build'.queue = {} /\ build'.deferred = {}
      /\ tx' = graph /\ graph' = graph
  BY DEF StartBuild, Idle
<1>2. BuildOK' /\ UnheardOK'
  BY <1>1 DEF BuildOK, UnheardOK, Waiting, Importing
<1> QED BY <1>1, <1>2, KeepsItself DEF IInv

LEMMA AbortStep ==
    ASSUME IInv, Abort
    PROVE  IInv' /\ tx' = graph
<1>1. /\ DOMAIN build' = {"pc", "plan", "snap", "queue", "deferred"}
      /\ build'.pc = "idle" /\ build'.queue = {} /\ build'.deferred = {}
      /\ tx' = graph /\ graph' = graph
  BY DEF Abort, Idle
<1>2. BuildOK' /\ UnheardOK'
  BY <1>1 DEF BuildOK, UnheardOK, Waiting, Importing
<1> QED BY <1>1, <1>2, KeepsItself DEF IInv

LEMMA CommitStep ==
    ASSUME IInv, Commit
    PROVE  IInv' /\ graph' = tx /\ tx' = tx
<1>1. /\ DOMAIN build' = {"pc", "plan", "snap", "queue", "deferred"}
      /\ build'.pc = "idle" /\ build'.queue = {} /\ build'.deferred = {}
      /\ graph' = tx /\ tx' = tx
  BY DEF Commit, Idle
<1>2. BuildOK' /\ UnheardOK'
  BY <1>1 DEF BuildOK, UnheardOK, Waiting, Importing
<1> QED BY <1>1, <1>2, KeepsItself DEF IInv

LEMMA ImportStep ==
    ASSUME IInv, ImportEsco \/ Download \/ UseCache \/ ImportOnet
    PROVE  IInv' /\ UNCHANGED graph
<1>1. /\ DOMAIN build' = {"pc", "plan", "snap", "queue", "deferred"}
      /\ build'.pc \in Importing \cup {"commit"}
      /\ build'.queue = build.queue /\ build'.deferred = build.deferred
      /\ build.pc \in Importing /\ graph' = graph
  BY DEF ImportEsco, Download, UseCache, ImportOnet, Importing, IInv, BuildOK
<1>2. Waiting = {} /\ Waiting' = {}
  BY <1>1 DEF IInv, BuildOK, Waiting
<1>3. BuildOK' /\ UnheardOK'
  BY <1>1, <1>2 DEF BuildOK, UnheardOK, Waiting, Importing
<1>4. GraphOK(tx') /\ Keeps(tx, tx')
  BY ImportEscoKeeps, ImportOnetKeeps, KeepsItself DEF Download, UseCache, IInv
<1>5. Keeps(graph, tx')
  BY <1>4, KeepsOn DEF IInv
<1> QED BY <1>1, <1>3, <1>4, <1>5 DEF IInv

LEMMA StartReconcileStep ==
    ASSUME IInv, StartReconcile
    PROVE  IInv' /\ UNCHANGED <<graph, tx>>
<1>1. UNCHANGED <<graph, tx>> /\ build.pc = "reconcile"
  BY DEF StartReconcile
<1>2. build.deferred = {}
  BY <1>1 DEF IInv, BuildOK, Waiting, Importing
<1>3. PICK todo : todo = {x \in ToSet(Order) : Pending(x)}
  OBVIOUS
<1>4. /\ DOMAIN build' = {"pc", "plan", "snap", "queue", "deferred"}
      /\ build'.pc = "labels" /\ build'.plan = build.plan
      /\ build'.queue = {[source |-> t, ambiguous |-> FALSE] : t \in todo}
      /\ build'.deferred = {}
  BY <1>2, <1>3 DEF StartReconcile, IInv, BuildOK
<1>5. \A q \in build'.queue : \E t \in todo :
          q = [source |-> t, ambiguous |-> FALSE] /\ q.source = t
  BY <1>4
<1>6. Waiting' = build'.queue
  BY <1>4 DEF Waiting
<1>7. ASSUME NEW q \in Waiting'
      PROVE  Source(q.source)' \in DOMAIN tx'.sources /\ Source(q.source)' \notin Mapped(tx')
  <2>1. Pending(q.source)
    BY <1>3, <1>5, <1>6
  <2>2. Source(q.source)' = Source(q.source)
    BY <1>4 DEF Source
  <2> QED BY <1>1, <2>1, <2>2 DEF Pending
<1>8. \A q, r \in Waiting' : q.source = r.source => q = r
  BY <1>5, <1>6
<1>9. BuildOK'
  BY <1>4, <1>7, <1>8 DEF BuildOK, Stages, Importing
<1>10. UnheardOK'
  BY <1>4 DEF UnheardOK
<1> QED BY <1>1, <1>9, <1>10 DEF IInv

LEMMA EndStageStep ==
    ASSUME IInv, EndStage
    PROVE  IInv' /\ UNCHANGED <<graph, tx>>
<1>1. /\ UNCHANGED <<graph, tx>>
      /\ build.queue = {}
      /\ build.pc \in Stages
  BY DEF EndStage, NextStage, Stages
<1>2. /\ DOMAIN build' = {"pc", "plan", "snap", "queue", "deferred"}
      /\ build'.pc = NextStage[build.pc]
      /\ build'.plan = build.plan /\ build'.snap = build.snap
      /\ build'.queue = build.deferred
      /\ build'.deferred = {}
  BY DEF EndStage, IInv, BuildOK
<1>3. /\ build.pc = "labels" => build'.pc = "trgm"
      /\ build.pc = "trgm" => build'.pc = "semantic"
      /\ build.pc = "semantic" => build'.pc = "create"
      /\ build.pc = "create" => build'.pc = "commit"
  BY <1>2 DEF NextStage
<1>4. Waiting' = Waiting /\ Waiting = build.deferred
  BY <1>1, <1>2 DEF Waiting
<1>5. /\ \A t : Source(t)' = Source(t)
      /\ \A t : LabelOwners(t)' = LabelOwners(t)
  BY <1>1, <1>2, LookupsStay
<1>6. BuildOK'
  BY <1>1, <1>2, <1>3, <1>4, <1>5 DEF IInv, BuildOK, Stages, Importing
<1>7. UnheardOK'
  BY <1>1, <1>2, <1>3, <1>4, <1>5 DEF IInv, UnheardOK, Unheard, Stages
<1> QED BY <1>1, <1>6, <1>7 DEF IInv

LEMMA StutterStep ==
    ASSUME IInv, UNCHANGED vars
    PROVE  IInv'
BY LookupsStay DEF vars, IInv, BuildOK, UnheardOK, Unheard, Waiting

LEMMA InitIInv == Init => IInv
BY KeepsItself DEF Init, EmptyGraph, Idle, IInv, GraphOK, GraphFields, EscoMapped,
    SourcesNamed, OneTechnology, BuildOK, UnheardOK, Waiting, Importing

LEMMA NextIInv == IInv /\ [Next]_vars => IInv'
<1> SUFFICES ASSUME IInv, [Next]_vars PROVE IInv'
  OBVIOUS
<1>1. CASE \E plan \in Plans : StartBuild(plan)
  BY <1>1, StartBuildStep
<1>2. CASE ImportEsco \/ Download \/ UseCache \/ ImportOnet
  BY <1>2, ImportStep
<1>3. CASE StartReconcile
  BY <1>3, StartReconcileStep
<1>4. CASE EndStage
  BY <1>4, EndStageStep
<1>5. ASSUME NEW q \in build.queue,
             MatchLabel(q) \/ MatchAlias(q) \/ MatchTrgm(q) \/ MatchSemantic(q)
      PROVE  IInv'
  BY <1>5, MatchStep
<1>6. ASSUME NEW q \in build.queue, MatchNoLabel(q) \/ MatchNoTrgm(q) \/ MatchNothing(q)
      PROVE  IInv'
  BY <1>6, DeferStep
<1>7. ASSUME NEW q \in build.queue, LeaveUnresolved(q) PROVE IInv'
  BY <1>7, LeaveStep
<1>8. ASSUME NEW q \in build.queue, FoundConcept(q) PROVE IInv'
  BY <1>8, FoundStep
<1>9. CASE Commit
  BY <1>9, CommitStep
<1>10. CASE Abort
  BY <1>10, AbortStep
<1>11. CASE UNCHANGED vars
  BY <1>11, StutterStep
<1> QED BY <1>1, <1>2, <1>3, <1>4, <1>5, <1>6, <1>7, <1>8, <1>9, <1>10, <1>11 DEF Next

-----------------------------------------------------------------------------
(***************************************************************************)
(* Theorems.                                                               *)
(***************************************************************************)
\* The invariant holds in every reachable state, whatever the builds are given.
THEOREM Invariance == Spec => []IInv
<1>1. Init => IInv
  BY InitIInv
<1>2. IInv /\ [Next]_vars => IInv'
  BY NextIInv
<1> QED BY <1>1, <1>2, PTL DEF Spec

\* Of the concepts that own a key at most one was founded by a technology: what
\* _add_source_aliases and _add_new_concept_aliases find taken they leave alone,
\* and a bundle brings aliases of ESCO concepts only.
THEOREM ContestsAreEscos == Spec => []ContestedOnlyByEsco
<1>1. ASSUME IInv PROVE ContestedOnlyByEsco
  <2>1. ASSUME NEW k
        PROVE  Cardinality({c \in AliasOwners(tx, k) : c[1] = "onet"}) <= 1
    <3>1. PICK S : S = {c \in AliasOwners(tx, k) : c[1] = "onet"}
      OBVIOUS
    <3>2. \A c, d \in S : c = d
      BY <1>1, <3>1 DEF IInv, GraphOK, OneTechnology, AliasOwners
    <3>3. S = {} \/ \E c : S = {c}
      BY <3>2
    <3>4. CASE S = {}
      <4>1. Cardinality({}) = 0
        BY FS_EmptySet
      <4> QED BY <3>1, <3>4, <4>1
    <3>5. CASE \E c : S = {c}
      <4>1. PICK c : S = {c}
        BY <3>5
      <4>2. Cardinality({c}) = 1
        BY FS_Singleton
      <4> QED BY <3>1, <4>1, <4>2
    <3> QED BY <3>3, <3>4, <3>5
  <2> QED BY <2>1 DEF ContestedOnlyByEsco
<1> QED BY <1>1, Invariance, PTL

\* A mapping that a build committed is never moved to another concept or lost by
\* a later one, of any version: a technology with a mapping does not wait, and
\* an ESCO concept of any version is mapped to the concept of its uri.
THEOREM MappingsStay == Spec => MappingsAreFinal
<1>1. ASSUME IInv, [Next]_vars PROVE Keeps(graph, graph')
  <2>1. CASE Commit
    BY <1>1, <2>1, CommitStep DEF IInv
  <2>2. CASE ~Commit
    <3>1. graph' = graph
      BY <1>1, <2>2 DEF Next, vars, StartBuild, ImportEsco, Download, UseCache,
          ImportOnet, StartReconcile, EndStage, MatchLabel, MatchAlias, MatchNoLabel,
          MatchTrgm, MatchNoTrgm, MatchSemantic, LeaveUnresolved, MatchNothing,
          FoundConcept, Abort
    <3> QED BY <3>1, KeepsItself
  <2> QED BY <2>1, <2>2
<1>2. IInv /\ [Next]_vars =>
          [\A m \in graph.mappings : \E n \in graph'.mappings :
               n.source = m.source /\ n.concept = m.concept]_vars
  BY <1>1 DEF Keeps
<1> QED BY <1>2, Invariance, PTL DEF Spec, MappingsAreFinal

\* A technology founds a concept only if, when its reconciliation began, no
\* concept was known by any of its names.
THEOREM FoundedAreNew == Spec => FoundedIsNew
<1>1. ASSUME IInv, NEW q \in build.queue, FoundConcept(q),
             NEW k \in technology_aliases(SourceName(q.source))
      PROVE  NameOwners(build.snap, k) \cup AliasOwners(build.snap, k) = {}
  <2>1. LabelOwners(q.source) = {}
    BY <1>1 DEF IInv, UnheardOK, FoundConcept, Turn
  <2>2. PICK names : names = tx.sources[Source(q.source)].names
    OBVIOUS
  <2>3. names # {}
    BY <1>1, <2>2 DEF IInv, GraphOK, SourcesNamed, BuildOK, Waiting
  <2>4. \E l \in names : l.caps \/ \A m \in names : ~m.caps
    BY <2>3
  <2>5. SourceName(q.source) \in names
    BY <2>2, <2>4 DEF SourceName
  <2>6. k \in SourceNames(q.source)
    BY <1>1, <2>2, <2>5 DEF SourceNames
  <2> QED BY <2>1, <2>6 DEF LabelOwners
<1>2. ASSUME IInv, [Next]_vars, NEW c \in ConceptIds(tx') \ ConceptIds(tx), c[1] = "onet"
      PROVE  \E q \in build.queue :
                 FoundConcept(q) /\ c = <<"onet", <<"software", q.source>>>>
  <2>1. c \in DOMAIN tx'.concepts /\ c \notin DOMAIN tx.concepts
    BY <1>2 DEF ConceptIds
  <2>2. c \notin DOMAIN graph.concepts
    BY <1>2, <2>1 DEF IInv, Keeps
  <2>3. tx' # tx /\ tx' # graph /\ tx'.concepts # tx.concepts
    BY <2>1, <2>2
  <2>4. ~ImportEsco
    <3>1. SUFFICES ASSUME ImportEsco PROVE FALSE
      OBVIOUS
    <3>2. tx'.concepts = UpsertConcepts(EscoConcepts(build.plan), tx.concepts)
      BY <3>1 DEF ImportEsco
    <3>3. DOMAIN tx'.concepts = DOMAIN EscoConcepts(build.plan) \cup DOMAIN tx.concepts
      BY <3>2, UpsertConceptsFacts
    <3>4. \A d \in DOMAIN EscoConcepts(build.plan) : d[1] = "esco"
      BY EscoNew
    <3> QED BY <1>2, <2>1, <3>3, <3>4
  <2>5. ~ImportOnet
    <3>1. SUFFICES ASSUME ImportOnet PROVE FALSE
      OBVIOUS
    <3>2. tx'.concepts = tx.concepts
      BY <1>2, <3>1 DEF ImportOnet, IInv, GraphOK, GraphFields
    <3> QED BY <2>3, <3>2
  <2>6. /\ ~Download /\ ~UseCache /\ ~StartReconcile /\ ~EndStage
        /\ ~Commit /\ ~Abort /\ ~UNCHANGED vars
        /\ \A plan \in Plans : ~StartBuild(plan)
    BY <2>3 DEF Download, UseCache, StartReconcile, EndStage, Commit, Abort, vars,
        StartBuild
  <2>7. PICK q \in build.queue :
            \/ MatchLabel(q) \/ MatchAlias(q) \/ MatchTrgm(q) \/ MatchSemantic(q)
            \/ MatchNoLabel(q) \/ MatchNoTrgm(q) \/ MatchNothing(q)
            \/ LeaveUnresolved(q) \/ FoundConcept(q)
    BY <1>2, <2>4, <2>5, <2>6 DEF Next
  <2>8. FoundConcept(q)
    BY <1>2, <2>3, <2>7, MatchStep, DeferStep, LeaveStep
  <2>9. q \in Waiting
    BY DEF Waiting
  <2> QED BY <1>2, <2>1, <2>8, <2>9, FoundConceptKeeps
<1>3. IInv /\ [Next]_vars =>
          [\A c \in ConceptIds(tx') \ ConceptIds(tx) :
               c[1] = "onet" =>
                   \A k \in technology_aliases(SourceName(c[2][2])) :
                       NameOwners(build.snap, k) \cup AliasOwners(build.snap, k) = {}]_vars
  <2> SUFFICES ASSUME IInv, [Next]_vars, NEW c \in ConceptIds(tx') \ ConceptIds(tx),
                      c[1] = "onet", NEW k \in technology_aliases(SourceName(c[2][2]))
               PROVE  NameOwners(build.snap, k) \cup AliasOwners(build.snap, k) = {}
    OBVIOUS
  <2>1. PICK q \in build.queue :
            FoundConcept(q) /\ c = <<"onet", <<"software", q.source>>>>
    BY <1>2
  <2>2. c[2][2] = q.source
    BY <2>1
  <2> QED BY <1>1, <2>1, <2>2
<1> QED BY <1>3, Invariance, PTL DEF Spec, FoundedIsNew

-----------------------------------------------------------------------------
(***************************************************************************)
(* References between rows.                                                *)
(***************************************************************************)
\* Every row of g refers to rows that are there.
RowsRefer(g) ==
    /\ \A e \in g.sourceEdges : {e.subject, e.object} \subseteq DOMAIN g.sources
    /\ \A e \in g.conceptEdges : {e.subject, e.object} \subseteq ConceptIds(g)
    /\ \A a \in DOMAIN g.aliases : a[1] \in ConceptIds(g)
    /\ \A m \in g.mappings : m.source \in DOMAIN g.sources /\ m.concept \in ConceptIds(g)

\* The concepts are those that can be, and an alias has a type and is stored under
\* the key of its label.
RowsKnown(g) ==
    /\ ConceptIds(g) \subseteq PossibleConcepts
    /\ \A a \in DOMAIN g.aliases :
           /\ a = <<a[1], a[2]>>
           /\ g.aliases[a].type \in DOMAIN AliasPriority
           /\ normalize_label(g.aliases[a].label) = a[2]

PlanOK ==
    /\ build.pc # "idle" => build.plan \in Plans
    /\ \A q \in Waiting : q.source \in ToSet(Order)

RInv ==
    /\ RowsRefer(graph) /\ RowsRefer(tx)
    /\ RowsKnown(graph) /\ RowsKnown(tx)
    /\ PlanOK

Types == {"preferred", "curated", "alt", "derived"}

LEMMA Priorities ==
    /\ DOMAIN AliasPriority = Types
    /\ \A t \in Types : AliasPriority[t] \in 0..3
BY DEF AliasPriority, Types

\* An entry is of a row, and of a type that counts.
EntryOf(e, uris) == e.uri \in uris /\ e.type \in Types

LEMMA ClaimFields ==
    \A u, t, l : Claim(u, t, l).uri = u /\ Claim(u, t, l).type = t /\ Claim(u, t, l).label = l
BY DEF Claim

LEMMA OwnEntries ==
    ASSUME NEW rows, NEW e \in OwnLabels(rows)
    PROVE  EntryOf(e, {r.uri : r \in rows})
BY ClaimFields DEF OwnLabels, EntryOf, Types

LEMMA CuratedEntries ==
    ASSUME NEW rows, NEW entries, NEW overrides, NEW e \in AddCurated(rows, entries, overrides)
    PROVE  e \in entries \/ EntryOf(e, {r.uri : r \in rows})
<1> DEFINE known == {i \in DOMAIN overrides : overrides[i].uri \in {r.uri : r \in rows}}
<1>1. e \in entries \cup {Claim(overrides[i].uri, "curated", overrides[i].label) : i \in known}
  BY DEF AddCurated
<1>2. CASE e \notin entries
  <2>1. PICK i \in known : e = Claim(overrides[i].uri, "curated", overrides[i].label)
    BY <1>1, <1>2
  <2> QED BY <2>1, ClaimFields DEF EntryOf, Types
<1> QED BY <1>2

LEMMA DerivedAreEntries ==
    ASSUME NEW entries, NEW uris, \A e \in entries : EntryOf(e, uris),
           NEW d \in DerivedEntries(entries)
    PROVE  EntryOf(d, uris)
<1>1. PICK e \in entries : \E k : d = Claim(e.uri, "derived", Label(k))
  BY DEF DerivedEntries
<1> QED BY <1>1, ClaimFields DEF EntryOf, Types

LEMMA DedupeFacts ==
    ASSUME NEW entries, NEW uris, \A e \in entries : EntryOf(e, uris),
           NEW p \in DOMAIN Dedupe(entries)
    PROVE  /\ Dedupe(entries)[p] \in entries
           /\ Dedupe(entries)[p].uri = p[1]
           /\ normalize_label(Dedupe(entries)[p].label) = p[2]
           /\ \A f \in entries : f.uri = p[1] /\ normalize_label(f.label) = p[2] =>
                  AliasPriority[Dedupe(entries)[p].type] <= AliasPriority[f.type]
<1> DEFINE same == {e \in entries : e.uri = p[1] /\ normalize_label(e.label) = p[2]}
           priorities == {AliasPriority[e.type] : e \in same}
<1>1. same # {}
  BY DEF Dedupe
<1>2. priorities \in SUBSET Nat /\ priorities # {}
  BY <1>1, Priorities DEF EntryOf
<1>3. PICK n \in priorities : \A m \in priorities : n <= m
  <2> HIDE DEF priorities
  <2> QED BY <1>2, LeastNumber
<1>4. \E e \in same : \A f \in same : AliasPriority[e.type] <= AliasPriority[f.type]
  BY <1>3
<1>5. Dedupe(entries)[p] = CHOOSE e \in same :
          \A f \in same : AliasPriority[e.type] <= AliasPriority[f.type]
  BY DEF Dedupe
<1> HIDE DEF same
<1>6. /\ Dedupe(entries)[p] \in same
      /\ \A f \in same : AliasPriority[Dedupe(entries)[p].type] <= AliasPriority[f.type]
  BY <1>4, <1>5
<1> QED BY <1>6 DEF same

LEMMA AliasRowFacts ==
    ASSUME NEW rows, NEW overrides, NEW p \in DOMAIN BuildAliasRows(rows, overrides)
    PROVE  /\ p[1] \in {r.uri : r \in rows}
           /\ BuildAliasRows(rows, overrides)[p].type \in Types
           /\ normalize_label(BuildAliasRows(rows, overrides)[p].label) = p[2]
<1> DEFINE uris == {r.uri : r \in rows}
           entries == AddCurated(rows, OwnLabels(rows), overrides)
           all == entries \cup DerivedEntries(entries)
<1>1. \A e \in entries : EntryOf(e, uris)
  <2>1. \A e \in OwnLabels(rows) : EntryOf(e, uris)
    BY OwnEntries
  <2> QED BY <2>1, CuratedEntries
<1>2. \A e \in all : EntryOf(e, uris)
  <2> HIDE DEF entries, uris
  <2> QED BY <1>1, DerivedAreEntries
<1>3. BuildAliasRows(rows, overrides) = Dedupe(all)
  BY DEF BuildAliasRows
<1> HIDE DEF uris, entries, all
<1>4. /\ Dedupe(all)[p] \in all
      /\ Dedupe(all)[p].uri = p[1]
      /\ normalize_label(Dedupe(all)[p].label) = p[2]
  BY <1>2, <1>3, DedupeFacts
<1> QED BY <1>2, <1>3, <1>4 DEF EntryOf, uris

\* The rows of an ESCO import refer to each other.
LEMMA EscoAliasFacts ==
    ASSUME NEW plan, NEW a \in DOMAIN EscoAliases(plan)
    PROVE  /\ a = <<a[1], a[2]>>
           /\ a[1] \in DOMAIN EscoConcepts(plan)
           /\ EscoAliases(plan)[a].type \in Types
           /\ normalize_label(EscoAliases(plan)[a].label) = a[2]
<1> DEFINE canonical == CanonicalRows(plan.esco)
           rows == BuildAliasRows(canonical, plan.overrides)
<1>1. PICK p \in DOMAIN rows : a = <<canonical_concept_id("esco", p[1]), p[2]>>
  BY DEF EscoAliases
<1>2. a = <<a[1], a[2]>> /\ a[1] = <<"esco", p[1]>> /\ a[1][2] = p[1] /\ a[2] = p[2]
  BY <1>1 DEF canonical_concept_id
<1>3. p = <<p[1], p[2]>>
  BY DEF BuildAliasRows, Dedupe
<1>4. EscoAliases(plan)[a] = [type |-> rows[p].type, label |-> rows[p].label]
  <2>1. rows[<<a[1][2], a[2]>>] = rows[p]
    BY <1>2, <1>3
  <2>2. EscoAliases(plan)[a] = [type |-> rows[<<a[1][2], a[2]>>].type,
                                label |-> rows[<<a[1][2], a[2]>>].label]
    BY DEF EscoAliases
  <2> QED BY <2>1, <2>2
<1>5. /\ EscoAliases(plan)[a].type = rows[p].type
      /\ EscoAliases(plan)[a].label = rows[p].label
  BY <1>4
<1>6. DOMAIN EscoConcepts(plan) = {<<"esco", r.uri>> : r \in canonical}
  BY DEF EscoConcepts, canonical_concept_id
<1> HIDE DEF canonical
<1>7. p[1] \in {r.uri : r \in canonical} /\ rows[p].type \in Types
          /\ normalize_label(rows[p].label) = p[2]
  BY AliasRowFacts
<1> QED BY <1>2, <1>5, <1>6, <1>7

LEMMA EscoConceptsKnown ==
    ASSUME NEW plan \in Plans
    PROVE  DOMAIN EscoConcepts(plan) \subseteq PossibleConcepts
<1>1. plan.esco \in EscoVersions
  BY DEF Plans
<1> QED BY <1>1 DEF EscoConcepts, CanonicalRows, PossibleConcepts

LEMMA EscoRefer ==
    ASSUME NEW plan
    PROVE  /\ \A e \in EscoSourceEdges(plan) :
                  {e.subject, e.object} \subseteq DOMAIN EscoSources(plan)
           /\ \A e \in EscoConceptEdges(plan) :
                  {e.subject, e.object} \subseteq DOMAIN EscoConcepts(plan)
           /\ \A m \in EscoMappings(plan) : /\ m.source \in DOMAIN EscoSources(plan)
                                            /\ m.concept \in DOMAIN EscoConcepts(plan)
<1> DEFINE id(uri) == source_concept_id("esco", plan.esco, uri)
           uris == {r.uri : r \in EscoRows[plan.esco]}
           canonical == {r.uri : r \in CanonicalRows(plan.esco)}
<1>1. DOMAIN EscoSources(plan) = {id(u) : u \in uris \cup Placeholders(plan)}
  <2>1. DOMAIN EscoSources(plan) = {id(r.uri) : r \in EscoRows[plan.esco]}
                                       \cup {id(u) : u \in Placeholders(plan)}
    BY DEF EscoSources, Upsert
  <2> QED BY <2>1
<1>2. DOMAIN EscoConcepts(plan) = {canonical_concept_id("esco", u) : u \in canonical}
  BY DEF EscoConcepts
<1>3. \A r \in Relations(plan) : {r[1], r[3]} \subseteq uris \cup Placeholders(plan)
  <2> DEFINE ends == UNION {{r[1], r[3]} : r \in Relations(plan)}
  <2>1. \A r \in Relations(plan) : {r[1], r[3]} \subseteq ends
    OBVIOUS
  <2>2. Placeholders(plan) = ends \ uris
    BY DEF Placeholders
  <2> HIDE DEF ends, uris
  <2> QED BY <2>1, <2>2
<1>4. ASSUME NEW e \in EscoSourceEdges(plan)
      PROVE  {e.subject, e.object} \subseteq DOMAIN EscoSources(plan)
  <2>1. PICK r \in Relations(plan) : e.subject = id(r[1]) /\ e.object = id(r[3])
    BY DEF EscoSourceEdges
  <2> QED BY <1>1, <1>3, <2>1
<1>5. ASSUME NEW e \in EscoConceptEdges(plan)
      PROVE  {e.subject, e.object} \subseteq DOMAIN EscoConcepts(plan)
  <2>1. PICK r : /\ {r[1], r[2]} \subseteq canonical
                 /\ e.subject = canonical_concept_id("esco", r[1])
                 /\ e.object = canonical_concept_id("esco", r[2])
    BY DEF EscoConceptEdges
  <2> QED BY <1>2, <2>1
<1>6. ASSUME NEW m \in EscoMappings(plan)
      PROVE  m.source \in DOMAIN EscoSources(plan) /\ m.concept \in DOMAIN EscoConcepts(plan)
  <2>1. PICK r \in CanonicalRows(plan.esco) :
            m.source = id(r.uri) /\ m.concept = canonical_concept_id("esco", r.uri)
    BY DEF EscoMappings, Mapping
  <2>2. r.uri \in uris /\ r.uri \in canonical
    BY DEF CanonicalRows
  <2> QED BY <1>1, <1>2, <2>1, <2>2
<1> QED BY <1>4, <1>5, <1>6

LEMMA OnetRefer ==
    ASSUME NEW plan, NEW e \in OnetEdges(plan)
    PROVE  {e.subject, e.object} \subseteq DOMAIN OnetSources(plan)
<1> DEFINE id(external) == source_concept_id("onet", plan.onet, external)
<1>1. DOMAIN OnetSources(plan) =
          {id(Software(normalize_label(r.example))) : r \in OnetFile}
              \cup {id(Category(r.category)) : r \in OnetFile}
  BY DEF OnetSources, Upsert
<1>2. PICK r \in OnetFile : /\ e.subject = id(Software(normalize_label(r.example)))
                            /\ e.object = id(Category(r.category))
  BY DEF OnetEdges
<1> QED BY <1>1, <1>2

\* An import or a technology adds rows that refer to each other or to what is there.
LEMMA RowsAdded ==
    ASSUME NEW g, NEW h, RowsRefer(g), RowsKnown(g),
           DOMAIN g.sources \subseteq DOMAIN h.sources,
           ConceptIds(g) \subseteq ConceptIds(h),
           ConceptIds(h) \subseteq PossibleConcepts,
           NEW new, h.aliases = Upsert(new, g.aliases),
           \A a \in DOMAIN new : /\ a = <<a[1], a[2]>>
                                 /\ a[1] \in ConceptIds(h)
                                 /\ new[a].type \in Types
                                 /\ normalize_label(new[a].label) = a[2],
           \A m \in h.mappings \ g.mappings :
               m.source \in DOMAIN h.sources /\ m.concept \in ConceptIds(h),
           \A e \in h.sourceEdges \ g.sourceEdges :
               {e.subject, e.object} \subseteq DOMAIN h.sources,
           \A e \in h.conceptEdges \ g.conceptEdges :
               {e.subject, e.object} \subseteq ConceptIds(h)
    PROVE  RowsRefer(h) /\ RowsKnown(h)
<1>1. /\ DOMAIN h.aliases = DOMAIN new \cup DOMAIN g.aliases
      /\ \A a \in DOMAIN new : h.aliases[a] = new[a]
      /\ \A a \in DOMAIN g.aliases \ DOMAIN new : h.aliases[a] = g.aliases[a]
  <2> DEFINE both == Upsert(new, g.aliases)
  <2>1. /\ DOMAIN both = DOMAIN new \cup DOMAIN g.aliases
        /\ \A a \in DOMAIN new : both[a] = new[a]
        /\ \A a \in DOMAIN g.aliases \ DOMAIN new : both[a] = g.aliases[a]
    BY UpsertFacts
  <2> HIDE DEF both
  <2>2. h.aliases = both
    BY DEF both
  <2> QED BY <2>1, <2>2
<1>2. \A e \in h.sourceEdges : {e.subject, e.object} \subseteq DOMAIN h.sources
  BY DEF RowsRefer
<1>3. \A e \in h.conceptEdges : {e.subject, e.object} \subseteq ConceptIds(h)
  BY DEF RowsRefer
<1>4. \A a \in DOMAIN h.aliases : a[1] \in ConceptIds(h)
  BY <1>1 DEF RowsRefer
<1>5. \A m \in h.mappings : m.source \in DOMAIN h.sources /\ m.concept \in ConceptIds(h)
  BY DEF RowsRefer
<1>6. ASSUME NEW a \in DOMAIN h.aliases
      PROVE  /\ a = <<a[1], a[2]>>
             /\ h.aliases[a].type \in DOMAIN AliasPriority
             /\ normalize_label(h.aliases[a].label) = a[2]
  BY <1>1, Priorities DEF RowsKnown
<1> QED BY <1>2, <1>3, <1>4, <1>5, <1>6 DEF RowsRefer, RowsKnown

LEMMA ImportEscoRefers ==
    ASSUME IInv, RInv, ImportEsco
    PROVE  RowsRefer(tx') /\ RowsKnown(tx')
<1>0. PICK plan \in Plans : plan = build.plan
  BY DEF RInv, PlanOK, ImportEsco
<1>1. tx' = [sources |-> Upsert(EscoSources(plan), tx.sources),
             concepts |-> UpsertConcepts(EscoConcepts(plan), tx.concepts),
             aliases |-> Upsert(EscoAliases(plan), tx.aliases),
             mappings |-> ReplaceMappings(EscoMappings(plan), tx.mappings),
             sourceEdges |-> tx.sourceEdges \cup EscoSourceEdges(plan),
             conceptEdges |-> tx.conceptEdges \cup EscoConceptEdges(plan)]
  BY <1>0 DEF ImportEsco
<1>2. /\ tx'.sources = Upsert(EscoSources(plan), tx.sources)
      /\ tx'.concepts = UpsertConcepts(EscoConcepts(plan), tx.concepts)
      /\ tx'.aliases = Upsert(EscoAliases(plan), tx.aliases)
      /\ tx'.mappings = ReplaceMappings(EscoMappings(plan), tx.mappings)
      /\ tx'.sourceEdges = tx.sourceEdges \cup EscoSourceEdges(plan)
      /\ tx'.conceptEdges = tx.conceptEdges \cup EscoConceptEdges(plan)
  BY <1>1
<1>3. DOMAIN tx'.sources = DOMAIN EscoSources(plan) \cup DOMAIN tx.sources
  <2>1. DOMAIN Upsert(EscoSources(plan), tx.sources)
            = DOMAIN EscoSources(plan) \cup DOMAIN tx.sources
    BY UpsertFacts
  <2> QED BY <1>2, <2>1
<1>4. ConceptIds(tx') = DOMAIN EscoConcepts(plan) \cup ConceptIds(tx)
  <2>1. DOMAIN UpsertConcepts(EscoConcepts(plan), tx.concepts)
            = DOMAIN EscoConcepts(plan) \cup DOMAIN tx.concepts
    BY UpsertConceptsFacts
  <2> QED BY <1>2, <2>1 DEF ConceptIds
<1>5. ConceptIds(tx') \subseteq PossibleConcepts
  BY <1>4, EscoConceptsKnown DEF RInv, RowsKnown
<1>6. \A a \in DOMAIN EscoAliases(plan) :
          /\ a = <<a[1], a[2]>>
          /\ a[1] \in ConceptIds(tx')
          /\ EscoAliases(plan)[a].type \in Types
          /\ normalize_label(EscoAliases(plan)[a].label) = a[2]
  BY <1>4, EscoAliasFacts
<1>7. \A m \in tx'.mappings \ tx.mappings :
          m.source \in DOMAIN tx'.sources /\ m.concept \in ConceptIds(tx')
  BY <1>2, <1>3, <1>4, EscoRefer DEF ReplaceMappings
<1>8. /\ \A e \in tx'.sourceEdges \ tx.sourceEdges :
             {e.subject, e.object} \subseteq DOMAIN tx'.sources
      /\ \A e \in tx'.conceptEdges \ tx.conceptEdges :
             {e.subject, e.object} \subseteq ConceptIds(tx')
  BY <1>2, <1>3, <1>4, EscoRefer
<1>9. RowsRefer(tx) /\ RowsKnown(tx)
  BY DEF RInv
<1> QED BY <1>2, <1>3, <1>4, <1>5, <1>6, <1>7, <1>8, <1>9, RowsAdded

LEMMA ImportOnetRefers ==
    ASSUME IInv, RInv, ImportOnet
    PROVE  RowsRefer(tx') /\ RowsKnown(tx')
<1>1. /\ tx'.sources = Upsert(OnetSources(build.plan), tx.sources)
      /\ tx'.sourceEdges = tx.sourceEdges \cup OnetEdges(build.plan)
      /\ tx'.concepts = tx.concepts
      /\ tx'.aliases = tx.aliases
      /\ tx'.mappings = tx.mappings
      /\ tx'.conceptEdges = tx.conceptEdges
  BY DEF ImportOnet, IInv, GraphOK, GraphFields
<1>2. DOMAIN tx'.sources = DOMAIN OnetSources(build.plan) \cup DOMAIN tx.sources
  <2>1. DOMAIN Upsert(OnetSources(build.plan), tx.sources)
            = DOMAIN OnetSources(build.plan) \cup DOMAIN tx.sources
    BY UpsertFacts
  <2> QED BY <1>1, <2>1
<1>3. \A e \in tx'.sourceEdges : {e.subject, e.object} \subseteq DOMAIN tx'.sources
  BY <1>1, <1>2, OnetRefer DEF RInv, RowsRefer
<1> QED BY <1>1, <1>2, <1>3 DEF RInv, RowsRefer, RowsKnown, ConceptIds

LEMMA MapSourceRefers ==
    ASSUME IInv, RInv, NEW q \in Waiting, NEW c \in ConceptIds(tx), NEW method,
           MapSource(q.source, c, method)
    PROVE  RowsRefer(tx') /\ RowsKnown(tx')
<1> DEFINE new == [a \in {<<c, k>> : k \in {x \in SourceNames(q.source) :
                                                AliasOwners(tx, x) = {}}} |->
                       [type |-> "alt", label |-> Label(a[2])]]
<1>1. /\ tx'.sources = tx.sources
      /\ tx'.sourceEdges = tx.sourceEdges
      /\ tx'.concepts = tx.concepts
      /\ tx'.aliases = Upsert(new, tx.aliases)
      /\ tx'.mappings = ReplaceMappings({Mapping(Source(q.source), c, method)}, tx.mappings)
      /\ tx'.conceptEdges = tx.conceptEdges
  <2>1. DOMAIN tx = GraphFields
    BY DEF IInv, GraphOK
  <2>2. tx' = [tx EXCEPT
                  !.mappings = ReplaceMappings(
                      {Mapping(Source(q.source), c, method)}, tx.mappings),
                  !.aliases = Upsert(new, tx.aliases)]
    BY DEF MapSource, NewAliases
  <2> HIDE DEF new
  <2> QED BY <2>1, <2>2 DEF GraphFields
<1>2. \A a \in DOMAIN new : /\ a = <<a[1], a[2]>>
                            /\ a[1] \in ConceptIds(tx')
                            /\ new[a].type \in Types
                            /\ normalize_label(new[a].label) = a[2]
  BY <1>1 DEF ConceptIds, Types, normalize_label, Label
<1> HIDE DEF new
<1>3. \A m \in tx'.mappings \ tx.mappings :
          m.source \in DOMAIN tx'.sources /\ m.concept \in ConceptIds(tx')
  BY <1>1 DEF ReplaceMappings, Mapping, ConceptIds, IInv, BuildOK
<1>4. ConceptIds(tx') = ConceptIds(tx) /\ ConceptIds(tx) \subseteq PossibleConcepts
  BY <1>1 DEF ConceptIds, RInv, RowsKnown
<1>5. RowsRefer(tx) /\ RowsKnown(tx)
  BY DEF RInv
<1> QED BY <1>1, <1>2, <1>3, <1>4, <1>5, RowsAdded

LEMMA FoundConceptRefers ==
    ASSUME IInv, RInv, NEW q \in Waiting, FoundConcept(q)
    PROVE  RowsRefer(tx') /\ RowsKnown(tx')
<1> DEFINE c == canonical_concept_id("onet", Software(q.source))
           label == SourceName(q.source)
           row == [name |-> canonical_technology_name(label),
                   kind |-> "technology", model |-> build.plan.model]
           rows == [x \in {c} |-> row]
           new == FoundedAliases(c, label)
<1>1. /\ tx'.sources = tx.sources
      /\ tx'.sourceEdges = tx.sourceEdges
      /\ tx'.concepts = UpsertConcepts(rows, tx.concepts)
      /\ tx'.aliases = Upsert(new, tx.aliases)
      /\ tx'.mappings = ReplaceMappings({Mapping(Source(q.source), c, "import")}, tx.mappings)
      /\ tx'.conceptEdges = tx.conceptEdges
  <2>1. DOMAIN tx = GraphFields
    BY DEF IInv, GraphOK
  <2>2. tx' = [tx EXCEPT
                  !.concepts = UpsertConcepts(rows, tx.concepts),
                  !.mappings = ReplaceMappings(
                      {Mapping(Source(q.source), c, "import")}, tx.mappings),
                  !.aliases = Upsert(new, tx.aliases)]
    BY DEF FoundConcept
  <2> HIDE DEF c, label, row, rows, new
  <2> QED BY <2>1, <2>2 DEF GraphFields
<1>2. \A a \in DOMAIN new : /\ a = <<a[1], a[2]>>
                            /\ a[1] = c
                            /\ new[a].type \in Types
                            /\ normalize_label(new[a].label) = a[2]
  BY DEF FoundedAliases, NewAliases, Types, normalize_label, Label
<1>3. DOMAIN rows = {c} /\ c \in PossibleConcepts
  BY DEF PossibleConcepts, RInv, PlanOK
<1> HIDE DEF c, label, row, rows, new
<1>4. ConceptIds(tx') = ConceptIds(tx) \cup {c}
  <2>1. DOMAIN UpsertConcepts(rows, tx.concepts) = DOMAIN rows \cup DOMAIN tx.concepts
    BY UpsertConceptsFacts
  <2> QED BY <1>1, <1>3, <2>1 DEF ConceptIds
<1>5. \A m \in tx'.mappings \ tx.mappings :
          m.source \in DOMAIN tx'.sources /\ m.concept \in ConceptIds(tx')
  BY <1>1, <1>4 DEF ReplaceMappings, Mapping, IInv, BuildOK
<1>6. RowsRefer(tx) /\ RowsKnown(tx)
  BY DEF RInv
<1>7. ConceptIds(tx') \subseteq PossibleConcepts
  BY <1>3, <1>4, <1>6 DEF RowsKnown
<1> QED BY <1>1, <1>2, <1>4, <1>5, <1>6, <1>7, RowsAdded

\* The technologies that wait are of the O*NET file, and the plan is one.
LEMMA PlanStays ==
    ASSUME IInv, RInv, [Next]_vars
    PROVE  PlanOK'
<1>1. CASE \E plan \in Plans : StartBuild(plan)
  BY <1>1 DEF StartBuild, Idle, PlanOK, Waiting
<1>2. CASE ImportEsco \/ Download \/ UseCache \/ ImportOnet
  BY <1>2 DEF ImportEsco, Download, UseCache, ImportOnet, PlanOK, Waiting, RInv, IInv, BuildOK
<1>3. CASE StartReconcile
  <2>1. /\ build'.plan = build.plan /\ build.pc # "idle"
        /\ build'.queue = {[source |-> t, ambiguous |-> FALSE] :
                               t \in {x \in ToSet(Order) : Pending(x)}}
        /\ build'.deferred = build.deferred
    BY <1>3 DEF StartReconcile, IInv, BuildOK
  <2>2. \A q \in build'.queue : q.source \in ToSet(Order)
    BY <2>1
  <2> QED BY <2>1, <2>2 DEF PlanOK, Waiting, RInv
<1>4. CASE EndStage
  <2>1. /\ build'.plan = build.plan /\ build.pc # "idle"
        /\ build'.queue = build.deferred /\ build'.deferred = {}
    BY <1>4 DEF EndStage, NextStage, IInv, BuildOK
  <2> QED BY <2>1 DEF PlanOK, Waiting, RInv
<1>5. ASSUME NEW q \in build.queue, Advance(q), build.pc \in Stages PROVE PlanOK'
  <2>1. /\ build'.plan = build.plan /\ build.pc # "idle"
        /\ build'.queue = build.queue \ {q} /\ build'.deferred = build.deferred
    BY <1>5 DEF Advance, Stages, IInv, BuildOK
  <2> QED BY <2>1 DEF PlanOK, Waiting, RInv
<1>6. ASSUME NEW q \in build.queue, NEW ambiguous, Defer(q, ambiguous), build.pc \in Stages
      PROVE  PlanOK'
  <2>1. /\ build'.plan = build.plan /\ build.pc # "idle"
        /\ build'.queue = build.queue \ {q}
        /\ build'.deferred = build.deferred \cup
                                 {[source |-> q.source, ambiguous |-> ambiguous]}
    BY <1>6 DEF Defer, Stages, IInv, BuildOK
  <2>2. [source |-> q.source, ambiguous |-> ambiguous].source = q.source
    BY WaitingRow
  <2> QED BY <2>1, <2>2 DEF PlanOK, Waiting, RInv
<1>7. ASSUME NEW q \in build.queue,
             MatchLabel(q) \/ MatchAlias(q) \/ MatchTrgm(q) \/ MatchSemantic(q)
                 \/ LeaveUnresolved(q) \/ FoundConcept(q)
      PROVE  PlanOK'
  BY <1>5, <1>7 DEF MatchLabel, MatchAlias, MatchTrgm, MatchSemantic, LeaveUnresolved,
      FoundConcept, Turn, Stages
<1>8. ASSUME NEW q \in build.queue, MatchNoLabel(q) \/ MatchNoTrgm(q) \/ MatchNothing(q)
      PROVE  PlanOK'
  <2>1. build.pc \in Stages /\ \E ambiguous : Defer(q, ambiguous)
    BY <1>8 DEF MatchNoLabel, MatchNoTrgm, MatchNothing, Turn, Stages
  <2> QED BY <1>6, <2>1
<1>9. CASE Commit \/ Abort
  BY <1>9 DEF Commit, Abort, Idle, PlanOK, Waiting
<1>10. CASE UNCHANGED vars
  BY <1>10 DEF vars, PlanOK, Waiting, RInv
<1> QED BY <1>1, <1>2, <1>3, <1>4, <1>7, <1>8, <1>9, <1>10 DEF Next

LEMMA InitRInv == Init => RInv
BY DEF Init, EmptyGraph, Idle, RInv, RowsRefer, RowsKnown, ConceptIds, PlanOK, Waiting

LEMMA NextRInv == IInv /\ RInv /\ [Next]_vars => RInv'
<1> SUFFICES ASSUME IInv, RInv, [Next]_vars PROVE RInv'
  OBVIOUS
<1>1. PlanOK'
  BY PlanStays
<1>2. ASSUME tx' \in {tx, graph}, graph' \in {graph, tx} PROVE RInv'
  BY <1>1, <1>2 DEF RInv
<1>3. ASSUME UNCHANGED graph, RowsRefer(tx'), RowsKnown(tx') PROVE RInv'
  BY <1>1, <1>3 DEF RInv
<1>4. CASE ImportEsco
  BY <1>3, <1>4, ImportEscoRefers, ImportStep
<1>5. CASE ImportOnet
  BY <1>3, <1>5, ImportOnetRefers, ImportStep
<1>6. ASSUME NEW q \in build.queue,
             MatchLabel(q) \/ MatchAlias(q) \/ MatchTrgm(q) \/ MatchSemantic(q)
      PROVE  RInv'
  <2>1. PICK c \in ConceptIds(tx) : \E method : MapSource(q.source, c, method)
    <3>1. CASE MatchLabel(q) \/ MatchAlias(q)
      BY <3>1 DEF MatchLabel, MatchAlias, ConceptIds
    <3>2. CASE MatchTrgm(q)
      <4>1. DOMAIN TrgmCandidates(q) \subseteq {a[1] : a \in DOMAIN tx.aliases}
        BY DEF TrgmCandidates, TrgmScores
      <4>2. DOMAIN TrgmCandidates(q) \subseteq ConceptIds(tx)
        BY <4>1 DEF RInv, RowsRefer
      <4> QED BY <3>2, <4>2 DEF MatchTrgm
    <3>3. CASE MatchSemantic(q)
      <4>1. DOMAIN SemanticCandidates(q) \subseteq ConceptIds(tx)
        BY DEF SemanticCandidates, SemanticScores, ConceptIds
      <4> QED BY <3>3, <4>1 DEF MatchSemantic
    <3> QED BY <1>6, <3>1, <3>2, <3>3
  <2>2. q \in Waiting /\ UNCHANGED graph
    BY <1>6 DEF Waiting, MatchLabel, MatchAlias, MatchTrgm, MatchSemantic
  <2> QED BY <1>3, <2>1, <2>2, MapSourceRefers
<1>7. ASSUME NEW q \in build.queue, FoundConcept(q) PROVE RInv'
  <2>1. q \in Waiting /\ UNCHANGED graph
    BY <1>7 DEF Waiting, FoundConcept
  <2> QED BY <1>3, <1>7, <2>1, FoundConceptRefers
<1>8. CASE /\ ~ImportEsco /\ ~ImportOnet
           /\ \A q \in build.queue :
                  ~(MatchLabel(q) \/ MatchAlias(q) \/ MatchTrgm(q) \/ MatchSemantic(q)
                        \/ FoundConcept(q))
  BY <1>2, <1>8 DEF Next, vars, StartBuild, Download, UseCache, StartReconcile, EndStage,
      MatchNoLabel, MatchNoTrgm, LeaveUnresolved, MatchNothing, Commit, Abort
<1> QED BY <1>4, <1>5, <1>6, <1>7, <1>8

\* No step of a build, aborts included, leaves a row that refers to a row which is
\* not there: no foreign key is ever violated, whatever the bundles and files hold.
THEOREM NothingEverDangles == Spec => []NothingDangles
<1>1. Init => IInv /\ RInv
  BY InitIInv, InitRInv
<1>2. IInv /\ RInv /\ [Next]_vars => IInv' /\ RInv'
  BY NextIInv, NextRInv
<1>3. RInv => NothingDangles
  BY DEF RInv, RowsRefer, NothingDangles
<1> QED BY <1>1, <1>2, <1>3, PTL DEF Spec

-----------------------------------------------------------------------------
(***************************************************************************)
(* Building again.                                                         *)
(***************************************************************************)
IsTable(f) == f = [x \in DOMAIN f |-> f[x]]

Shaped(g) ==
    /\ g = [sources |-> g.sources, concepts |-> g.concepts, aliases |-> g.aliases,
            mappings |-> g.mappings, sourceEdges |-> g.sourceEdges,
            conceptEdges |-> g.conceptEdges]
    /\ IsTable(g.sources) /\ IsTable(g.concepts) /\ IsTable(g.aliases)

\* The rows f are in the table.
RowsIn(f, table) == \A x \in DOMAIN f : x \in DOMAIN table /\ table[x] = f[x]

WithModel(row, model) == [row EXCEPT !.model = model]

\* A concept is as its row says, but for a vector that the row has not.
ConceptsIn(f, table) ==
    \A c \in DOMAIN f :
        /\ c \in DOMAIN table
        /\ table[c] = IF f[c].model = NoModel THEN WithModel(f[c], table[c].model)
                      ELSE f[c]

MappingsIn(rows, table) == {m \in table : m.source \in {r.source : r \in rows}} = rows

EscoIn(plan, g) ==
    /\ RowsIn(EscoSources(plan), g.sources)
    /\ ConceptsIn(EscoConcepts(plan), g.concepts)
    /\ RowsIn(EscoAliases(plan), g.aliases)
    /\ MappingsIn(EscoMappings(plan), g.mappings)
    /\ EscoSourceEdges(plan) \subseteq g.sourceEdges
    /\ EscoConceptEdges(plan) \subseteq g.conceptEdges

OnetIn(plan, g) ==
    /\ RowsIn(OnetSources(plan), g.sources)
    /\ OnetEdges(plan) \subseteq g.sourceEdges

MoreMapped(g, h) == Mapped(g) \subseteq Mapped(h) /\ Mapped(g) # Mapped(h)

\* What a plan imports is there once it has been imported, and for good.
ImportedOK ==
    /\ last \in Plans => EscoIn(last, graph) /\ (last.skipOnet \/ OnetIn(last, graph))
    /\ build.pc \in {"download", "onet"} => ~build.plan.skipOnet
    /\ build.pc \notin {"idle", "esco"} => EscoIn(build.plan, tx)
    /\ build.pc \in {"reconcile", "commit"} \cup Stages =>
           build.plan.skipOnet \/ OnetIn(build.plan, tx)

ConvergeInv ==
    /\ Shaped(graph) /\ Shaped(tx)
    /\ ImportedOK
    /\ build.pc \in {"idle", "esco"} => tx = graph
    /\ build.pc # "idle" /\ build.plan = last => tx = graph \/ MoreMapped(graph, tx)

LEMMA UpsertIsTable == \A f, g : IsTable(Upsert(f, g))
BY DEF IsTable, Upsert

LEMMA UpsertSame ==
    ASSUME NEW f, NEW g, IsTable(g), RowsIn(f, g)
    PROVE  Upsert(f, g) = g
BY DEF IsTable, RowsIn, Upsert

LEMMA UpsertHas ==
    ASSUME NEW f, NEW g
    PROVE  RowsIn(f, Upsert(f, g))
BY DEF RowsIn, Upsert

LEMMA UpsertLeaves ==
    ASSUME NEW e, NEW f, NEW g, RowsIn(e, g), \A x \in DOMAIN f : x \notin DOMAIN e
    PROVE  RowsIn(e, Upsert(f, g))
BY DEF RowsIn, Upsert

LEMMA UpsertConceptsIs ==
    ASSUME NEW f, NEW g
    PROVE  /\ IsTable(UpsertConcepts(f, g))
           /\ DOMAIN UpsertConcepts(f, g) = DOMAIN f \cup DOMAIN g
           /\ \A c \in DOMAIN f :
                  UpsertConcepts(f, g)[c] =
                      IF f[c].model = NoModel /\ c \in DOMAIN g
                      THEN WithModel(f[c], g[c].model) ELSE f[c]
           /\ \A c \in DOMAIN g \ DOMAIN f : UpsertConcepts(f, g)[c] = g[c]
<1> DEFINE h == [c \in DOMAIN f |->
                   IF f[c].model = NoModel /\ c \in DOMAIN g
                   THEN [f[c] EXCEPT !.model = g[c].model] ELSE f[c]]
<1>1. UpsertConcepts(f, g) = Upsert(h, g)
  BY DEF UpsertConcepts
<1>2. DOMAIN h = DOMAIN f
  OBVIOUS
<1>3. /\ DOMAIN Upsert(h, g) = DOMAIN h \cup DOMAIN g
      /\ \A x \in DOMAIN h : Upsert(h, g)[x] = h[x]
      /\ \A x \in DOMAIN g \ DOMAIN h : Upsert(h, g)[x] = g[x]
  <2> HIDE DEF h
  <2> QED BY UpsertFacts
<1>4. IsTable(Upsert(h, g))
  <2> HIDE DEF h
  <2> QED BY UpsertIsTable
<1>5. \A c \in DOMAIN f :
          h[c] = IF f[c].model = NoModel /\ c \in DOMAIN g
                 THEN WithModel(f[c], g[c].model) ELSE f[c]
  BY DEF WithModel
<1> HIDE DEF h
<1> QED BY <1>1, <1>2, <1>3, <1>4, <1>5

LEMMA ConceptsDomain ==
    ASSUME NEW f, NEW g
    PROVE  DOMAIN UpsertConcepts(f, g) = DOMAIN f \cup DOMAIN g
BY UpsertConceptsIs, Zenon

LEMMA ConceptsTable == ASSUME NEW f, NEW g PROVE IsTable(UpsertConcepts(f, g))
BY UpsertConceptsIs, Zenon

LEMMA ConceptsOther ==
    ASSUME NEW f, NEW g, NEW c \in DOMAIN g \ DOMAIN f
    PROVE  UpsertConcepts(f, g)[c] = g[c]
BY UpsertConceptsIs, Zenon

LEMMA ConceptsRow ==
    ASSUME NEW f, NEW g, NEW c \in DOMAIN f
    PROVE  UpsertConcepts(f, g)[c] =
               IF f[c].model = NoModel /\ c \in DOMAIN g
               THEN WithModel(f[c], g[c].model) ELSE f[c]
<1> DEFINE h == UpsertConcepts(f, g)
<1>1. \A x \in DOMAIN f :
          h[x] = IF f[x].model = NoModel /\ x \in DOMAIN g
                 THEN WithModel(f[x], g[x].model) ELSE f[x]
  BY UpsertConceptsIs, Zenon
<1> HIDE DEF h
<1>2. h[c] = IF f[c].model = NoModel /\ c \in DOMAIN g
             THEN WithModel(f[c], g[c].model) ELSE f[c]
  BY <1>1
<1> QED BY <1>2 DEF h

LEMMA ConceptsSame ==
    ASSUME NEW f, NEW g, IsTable(g), ConceptsIn(f, g)
    PROVE  UpsertConcepts(f, g) = g
<1> DEFINE h == UpsertConcepts(f, g)
<1>1. DOMAIN f \subseteq DOMAIN g
  BY DEF ConceptsIn
<1>2. DOMAIN h = DOMAIN f \cup DOMAIN g
  BY ConceptsDomain
<1>3. ASSUME NEW c \in DOMAIN g PROVE h[c] = g[c]
  <2>1. CASE c \in DOMAIN f
    <3>1. h[c] = IF f[c].model = NoModel /\ c \in DOMAIN g
                 THEN WithModel(f[c], g[c].model) ELSE f[c]
      BY <2>1, ConceptsRow
    <3>2. g[c] = IF f[c].model = NoModel THEN WithModel(f[c], g[c].model)
                 ELSE f[c]
      BY <2>1, Zenon DEF ConceptsIn
    <3> HIDE DEF h
    <3>3. CASE f[c].model = NoModel
      <4> DEFINE kept == WithModel(f[c], g[c].model)
      <4>1. h[c] = kept /\ g[c] = kept
        BY <3>1, <3>2, <3>3, Zenon
      <4> QED BY <4>1, Zenon
    <3>4. CASE f[c].model # NoModel
      BY <3>1, <3>2, <3>4, Zenon
    <3> QED BY <3>3, <3>4
  <2>2. CASE c \notin DOMAIN f
    BY <2>2, ConceptsOther
  <2> QED BY <2>1, <2>2
<1>4. IsTable(h)
  BY ConceptsTable
<1> HIDE DEF h
<1>5. h = g
  BY <1>1, <1>2, <1>3, <1>4 DEF IsTable
<1> QED BY <1>5 DEF h

\* Rows of concepts are records with a model.
LEMMA ConceptsHave ==
    ASSUME NEW f, NEW g, \A c \in DOMAIN f : f[c] \in [name : {f[c].name}, kind : {f[c].kind},
                                                      model : {f[c].model}]
    PROVE  ConceptsIn(f, UpsertConcepts(f, g))
<1> DEFINE h == UpsertConcepts(f, g)
<1> SUFFICES ASSUME NEW c \in DOMAIN f
             PROVE  /\ c \in DOMAIN h
                    /\ h[c] = IF f[c].model = NoModel THEN WithModel(f[c], h[c].model)
                              ELSE f[c]
  BY Zenon DEF ConceptsIn
<1> DEFINE row == f[c]
           m == g[c].model
<1>1. h[c] = IF row.model = NoModel /\ c \in DOMAIN g
             THEN WithModel(row, m) ELSE row
  BY ConceptsRow
<1>2. c \in DOMAIN h
  <2> HIDE DEF h
  <2>1. DOMAIN h = DOMAIN f \cup DOMAIN g
    BY ConceptsDomain DEF h
  <2> QED BY <2>1
<1>3. row \in [name : {row.name}, kind : {row.kind}, model : {row.model}]
  OBVIOUS
<1> HIDE DEF h, row, m
<1>4. WithModel(row, m).model = m /\ WithModel(row, row.model) = row
  BY <1>3 DEF WithModel
<1>5. h[c] = IF row.model = NoModel THEN WithModel(row, h[c].model) ELSE row
  BY <1>1, <1>4
<1> QED BY <1>2, <1>5 DEF row

LEMMA ConceptsLeft ==
    ASSUME NEW e, NEW f, NEW g, ConceptsIn(e, g), \A c \in DOMAIN f : c \notin DOMAIN e
    PROVE  ConceptsIn(e, UpsertConcepts(f, g))
<1> DEFINE h == UpsertConcepts(f, g)
<1> SUFFICES ASSUME NEW c \in DOMAIN e
             PROVE  /\ c \in DOMAIN h
                    /\ h[c] = IF e[c].model = NoModel THEN WithModel(e[c], h[c].model)
                              ELSE e[c]
  BY Zenon DEF ConceptsIn
<1>1. c \in DOMAIN g /\ c \notin DOMAIN f
  BY DEF ConceptsIn
<1>2. h[c] = g[c]
  BY <1>1, ConceptsOther
<1>3. c \in DOMAIN h
  BY <1>1, ConceptsDomain
<1>4. g[c] = IF e[c].model = NoModel THEN WithModel(e[c], g[c].model) ELSE e[c]
  BY Zenon DEF ConceptsIn
<1> HIDE DEF h
<1> QED BY <1>2, <1>3, <1>4, Zenon

LEMMA MappingsSame ==
    ASSUME NEW rows, NEW table, MappingsIn(rows, table)
    PROVE  ReplaceMappings(rows, table) = table
BY DEF MappingsIn, ReplaceMappings

LEMMA MappingsHave ==
    ASSUME NEW rows, NEW table
    PROVE  MappingsIn(rows, ReplaceMappings(rows, table))
BY DEF MappingsIn, ReplaceMappings

LEMMA MappingsLeft ==
    ASSUME NEW rows, NEW table, MappingsIn(rows, table), NEW m,
           \A r \in rows : r.source # m.source
    PROVE  MappingsIn(rows, ReplaceMappings({m}, table))
BY DEF MappingsIn, ReplaceMappings

-----------------------------------------------------------------------------
\* A step that leaves the tables alone and goes on with the same plan.
LEMMA StaysConverged ==
    ASSUME ConvergeInv, UNCHANGED <<graph, tx, last>>, build'.plan = build.plan,
           \/ build'.pc = build.pc
           \/ build.pc = "download" /\ build'.pc = "onet"
           \/ /\ build.pc \in {"reconcile"} \cup Stages
              /\ build'.pc \in {"commit"} \cup Stages
    PROVE  ConvergeInv'
<1>1. ImportedOK'
  BY DEF ConvergeInv, ImportedOK, Stages
<1> QED BY <1>1 DEF ConvergeInv, Stages

LEMMA StartConverges ==
    ASSUME ConvergeInv, NEW plan, StartBuild(plan)
    PROVE  ConvergeInv'
<1>1. build'.pc = "esco" /\ tx' = graph /\ graph' = graph /\ last' = last
  BY DEF StartBuild, Idle
<1> QED BY <1>1 DEF ConvergeInv, ImportedOK, Stages

LEMMA CommitConverges ==
    ASSUME ConvergeInv, Commit
    PROVE  ConvergeInv'
<1>1. build'.pc = "idle" /\ tx' = tx /\ graph' = tx /\ last' = build.plan
      /\ build.pc = "commit"
  BY DEF Commit, Idle
<1> QED BY <1>1 DEF ConvergeInv, ImportedOK, Stages

LEMMA AbortConverges ==
    ASSUME ConvergeInv, Abort
    PROVE  ConvergeInv'
<1>1. build'.pc = "idle" /\ tx' = graph /\ graph' = graph /\ last' = last
  BY DEF Abort, Idle
<1> QED BY <1>1 DEF ConvergeInv, ImportedOK, Stages

LEMMA ShapedFields ==
    ASSUME NEW g, Shaped(g), NEW h, Shaped(h),
           g.sources = h.sources, g.concepts = h.concepts, g.aliases = h.aliases,
           g.mappings = h.mappings, g.sourceEdges = h.sourceEdges,
           g.conceptEdges = h.conceptEdges
    PROVE  g = h
BY DEF Shaped

LEMMA ImportEscoConverges ==
    ASSUME IInv, RInv, ConvergeInv, ImportEsco
    PROVE  ConvergeInv'
<1>0. PICK plan : plan = build.plan
  OBVIOUS
<1>1. /\ build.pc = "esco" /\ tx = graph /\ plan \in Plans
      /\ UNCHANGED <<graph, last>>
      /\ build'.pc = IF plan.skipOnet THEN "commit" ELSE "download"
      /\ build'.plan = plan
  BY <1>0 DEF ImportEsco, ConvergeInv, RInv, PlanOK, IInv, BuildOK
<1>2. tx' = [sources |-> Upsert(EscoSources(plan), tx.sources),
             concepts |-> UpsertConcepts(EscoConcepts(plan), tx.concepts),
             aliases |-> Upsert(EscoAliases(plan), tx.aliases),
             mappings |-> ReplaceMappings(EscoMappings(plan), tx.mappings),
             sourceEdges |-> tx.sourceEdges \cup EscoSourceEdges(plan),
             conceptEdges |-> tx.conceptEdges \cup EscoConceptEdges(plan)]
  BY <1>0 DEF ImportEsco
<1>3. /\ tx'.sources = Upsert(EscoSources(plan), tx.sources)
      /\ tx'.concepts = UpsertConcepts(EscoConcepts(plan), tx.concepts)
      /\ tx'.aliases = Upsert(EscoAliases(plan), tx.aliases)
      /\ tx'.mappings = ReplaceMappings(EscoMappings(plan), tx.mappings)
      /\ tx'.sourceEdges = tx.sourceEdges \cup EscoSourceEdges(plan)
      /\ tx'.conceptEdges = tx.conceptEdges \cup EscoConceptEdges(plan)
  BY <1>2
<1>4. Shaped(tx')
  <2>1. tx' = [sources |-> tx'.sources, concepts |-> tx'.concepts, aliases |-> tx'.aliases,
               mappings |-> tx'.mappings, sourceEdges |-> tx'.sourceEdges,
               conceptEdges |-> tx'.conceptEdges]
    BY <1>2, <1>3
  <2>2. IsTable(tx'.sources) /\ IsTable(tx'.aliases)
    BY <1>3, UpsertIsTable
  <2>3. IsTable(tx'.concepts)
    BY <1>3, ConceptsTable
  <2> QED BY <2>1, <2>2, <2>3 DEF Shaped
<1>5. EscoIn(plan, tx')
  <2>1. RowsIn(EscoSources(plan), tx'.sources) /\ RowsIn(EscoAliases(plan), tx'.aliases)
    BY <1>3, UpsertHas
  <2>2. ConceptsIn(EscoConcepts(plan), tx'.concepts)
    <3>1. \A c \in DOMAIN EscoConcepts(plan) :
              EscoConcepts(plan)[c] \in [name : {EscoConcepts(plan)[c].name},
                                        kind : {EscoConcepts(plan)[c].kind},
                                        model : {EscoConcepts(plan)[c].model}]
      BY DEF EscoConcepts
    <3> QED BY <1>3, <3>1, ConceptsHave
  <2>3. MappingsIn(EscoMappings(plan), tx'.mappings)
    BY <1>3, MappingsHave
  <2> QED BY <1>3, <2>1, <2>2, <2>3 DEF EscoIn
<1>6. plan = last => tx' = tx
  <2> SUFFICES ASSUME plan = last PROVE tx' = tx
    OBVIOUS
  <2>1. EscoIn(plan, tx)
    BY <1>1 DEF ConvergeInv, ImportedOK
  <2>2. Shaped(tx)
    BY DEF ConvergeInv
  <2>3. tx'.sources = tx.sources /\ tx'.aliases = tx.aliases
    BY <1>3, <2>1, <2>2, UpsertSame DEF EscoIn, Shaped
  <2>4. tx'.concepts = tx.concepts
    BY <1>3, <2>1, <2>2, ConceptsSame DEF EscoIn, Shaped
  <2>5. tx'.mappings = tx.mappings
    BY <1>3, <2>1, MappingsSame DEF EscoIn
  <2>6. tx'.sourceEdges = tx.sourceEdges /\ tx'.conceptEdges = tx.conceptEdges
    BY <1>3, <2>1 DEF EscoIn
  <2> QED BY <1>4, <2>2, <2>3, <2>4, <2>5, <2>6, ShapedFields
<1>7. ImportedOK'
  BY <1>1, <1>5 DEF ConvergeInv, ImportedOK, Stages
<1> QED BY <1>1, <1>4, <1>6, <1>7 DEF ConvergeInv

LEMMA OnetOwn == \A plan : \A s \in DOMAIN OnetSources(plan) : s[1] = "onet"
BY DEF OnetSources, Upsert, source_concept_id

LEMMA EscoOwn == \A plan : \A s \in DOMAIN EscoSources(plan) : s[1] = "esco"
BY DEF EscoSources, Upsert, source_concept_id

LEMMA ImportOnetConverges ==
    ASSUME IInv, RInv, ConvergeInv, ImportOnet
    PROVE  ConvergeInv'
<1>0. PICK plan : plan = build.plan
  OBVIOUS
<1>1. /\ build.pc = "onet" /\ plan \in Plans /\ ~plan.skipOnet
      /\ EscoIn(plan, tx) /\ Shaped(tx)
      /\ UNCHANGED <<graph, last>>
      /\ build'.pc = "reconcile" /\ build'.plan = plan
  BY <1>0 DEF ImportOnet, ConvergeInv, ImportedOK, RInv, PlanOK, IInv, BuildOK
<1>2. /\ tx'.sources = Upsert(OnetSources(plan), tx.sources)
      /\ tx'.sourceEdges = tx.sourceEdges \cup OnetEdges(plan)
      /\ tx'.concepts = tx.concepts /\ tx'.aliases = tx.aliases
      /\ tx'.mappings = tx.mappings /\ tx'.conceptEdges = tx.conceptEdges
      /\ tx' = [sources |-> tx'.sources, concepts |-> tx'.concepts, aliases |-> tx'.aliases,
                mappings |-> tx'.mappings, sourceEdges |-> tx'.sourceEdges,
                conceptEdges |-> tx'.conceptEdges]
  <2>1. tx' = [tx EXCEPT !.sources = Upsert(OnetSources(plan), tx.sources),
                         !.sourceEdges = tx.sourceEdges \cup OnetEdges(plan)]
    BY <1>0 DEF ImportOnet
  <2>2. tx = [sources |-> tx.sources, concepts |-> tx.concepts, aliases |-> tx.aliases,
              mappings |-> tx.mappings, sourceEdges |-> tx.sourceEdges,
              conceptEdges |-> tx.conceptEdges]
    BY <1>1 DEF Shaped
  <2> QED BY <2>1, <2>2
<1>3. Shaped(tx')
  <2>1. IsTable(tx'.sources)
    BY <1>2, UpsertIsTable
  <2> QED BY <1>1, <1>2, <2>1 DEF Shaped
<1>4. EscoIn(plan, tx')
  <2>1. \A s \in DOMAIN OnetSources(plan) : s \notin DOMAIN EscoSources(plan)
    BY OnetOwn, EscoOwn
  <2>2. RowsIn(EscoSources(plan), tx'.sources)
    BY <1>1, <1>2, <2>1, UpsertLeaves DEF EscoIn
  <2> QED BY <1>1, <1>2, <2>2 DEF EscoIn
<1>5. OnetIn(plan, tx')
  <2>1. RowsIn(OnetSources(plan), tx'.sources)
    BY <1>2, UpsertHas
  <2> QED BY <1>2, <2>1 DEF OnetIn
<1>6. plan = last => tx' = graph \/ MoreMapped(graph, tx')
  <2>1. CASE plan = last /\ tx = graph
    <3>1. OnetIn(plan, tx)
      BY <1>1, <2>1 DEF ConvergeInv, ImportedOK
    <3>2. tx'.sources = tx.sources
      BY <1>1, <1>2, <3>1, UpsertSame DEF OnetIn, Shaped
    <3>3. tx'.sourceEdges = tx.sourceEdges
      BY <1>2, <3>1 DEF OnetIn
    <3> QED BY <1>1, <1>2, <1>3, <2>1, <3>2, <3>3, ShapedFields
  <2>2. CASE plan = last /\ MoreMapped(graph, tx)
    BY <1>2, <2>2 DEF MoreMapped, Mapped
  <2> QED BY <1>0, <1>1, <2>1, <2>2 DEF ConvergeInv
<1>7. ImportedOK'
  BY <1>1, <1>4, <1>5 DEF ConvergeInv, ImportedOK, Stages
<1> QED BY <1>1, <1>3, <1>6, <1>7 DEF ConvergeInv

\* A technology is mapped: nothing that the plan imports is touched.
LEMMA MapConverges ==
    ASSUME IInv, RInv, ConvergeInv, NEW q \in build.queue, Advance(q), build.pc \in Stages,
           UNCHANGED <<graph, last>>,
           NEW c, NEW method, NEW keys, NEW new, NEW rows,
           DOMAIN new = {<<c, k>> : k \in {x \in keys : AliasOwners(tx, x) = {}}},
           \A d \in DOMAIN rows : d[1] = "onet",
           Shaped(tx'),
           tx'.sources = tx.sources, tx'.sourceEdges = tx.sourceEdges,
           tx'.conceptEdges = tx.conceptEdges,
           tx'.concepts \in {tx.concepts, UpsertConcepts(rows, tx.concepts)},
           tx'.aliases = Upsert(new, tx.aliases),
           tx'.mappings = ReplaceMappings({Mapping(Source(q.source), c, method)}, tx.mappings),
           Mapped(tx') = Mapped(tx) \cup {Source(q.source)}
    PROVE  ConvergeInv'
<1>1. /\ build'.pc = build.pc /\ build'.plan = build.plan
      /\ build.pc \notin {"idle", "esco", "download", "onet"}
      /\ Source(q.source) \notin Mapped(tx)
  BY DEF Advance, IInv, BuildOK, Stages, Waiting
<1>2. EscoIn(build.plan, tx')
  <2> DEFINE plan == build.plan
  <2>1. EscoIn(plan, tx)
    BY <1>1 DEF ConvergeInv, ImportedOK
  <2>2. ConceptsIn(EscoConcepts(plan), tx'.concepts)
    <3>1. ConceptsIn(EscoConcepts(plan), tx.concepts)
      BY <2>1 DEF EscoIn
    <3>2. \A d \in DOMAIN rows : d \notin DOMAIN EscoConcepts(plan)
      BY EscoNew
    <3>3. ConceptsIn(EscoConcepts(plan), UpsertConcepts(rows, tx.concepts))
      BY <3>1, <3>2, ConceptsLeft
    <3> QED BY <3>1, <3>3
  <2>3. RowsIn(EscoAliases(plan), tx'.aliases)
    <3>1. RowsIn(EscoAliases(plan), tx.aliases)
      BY <2>1 DEF EscoIn
    <3>2. \A a \in DOMAIN new : a \notin DOMAIN tx.aliases
      BY DEF AliasOwners
    <3>3. \A a \in DOMAIN new : a \notin DOMAIN EscoAliases(plan)
      BY <3>1, <3>2 DEF RowsIn
    <3> QED BY <3>1, <3>3, UpsertLeaves
  <2>4. MappingsIn(EscoMappings(plan), tx'.mappings)
    <3> DEFINE m == Mapping(Source(q.source), c, method)
    <3>1. MappingsIn(EscoMappings(plan), tx.mappings)
      BY <2>1 DEF EscoIn
    <3>2. m.source[1] = "onet"
      BY SourceIsOnet DEF Mapping
    <3>3. \A r \in EscoMappings(plan) : r.source # m.source
      BY <3>2, EscoNew
    <3> HIDE DEF m
    <3>4. tx'.mappings = ReplaceMappings({m}, tx.mappings)
      BY DEF m
    <3> QED BY <3>1, <3>3, <3>4, MappingsLeft
  <2> HIDE DEF plan
  <2>5. EscoIn(plan, tx')
    BY <2>1, <2>2, <2>3, <2>4 DEF EscoIn
  <2> QED BY <2>5 DEF plan
<1>3. build.plan.skipOnet \/ OnetIn(build.plan, tx')
  BY DEF ConvergeInv, ImportedOK, OnetIn
<1>4. ImportedOK'
  BY <1>1, <1>2, <1>3 DEF ConvergeInv, ImportedOK
<1>5. build.plan = last => MoreMapped(graph, tx')
  <2> SUFFICES ASSUME build.plan = last PROVE MoreMapped(graph, tx')
    OBVIOUS
  <2>1. tx = graph \/ MoreMapped(graph, tx)
    BY <1>1 DEF ConvergeInv
  <2> QED BY <1>1, <2>1 DEF MoreMapped
<1> QED BY <1>1, <1>4, <1>5 DEF ConvergeInv

LEMMA MatchConverges ==
    ASSUME IInv, RInv, ConvergeInv, NEW q \in build.queue,
           MatchLabel(q) \/ MatchAlias(q) \/ MatchTrgm(q) \/ MatchSemantic(q)
    PROVE  ConvergeInv'
<1>1. PICK c, method : MapSource(q.source, c, method)
  BY DEF MatchLabel, MatchAlias, MatchTrgm, MatchSemantic
<1>2. Advance(q) /\ build.pc \in Stages /\ UNCHANGED <<graph, last>>
  BY DEF MatchLabel, MatchAlias, MatchTrgm, MatchSemantic, Turn, Stages
<1>3. Mapped(tx') = Mapped(tx) \cup {Source(q.source)}
  BY <1>1, MapSourceKeeps DEF Waiting
<1> DEFINE keys == SourceNames(q.source)
           new == [a \in {<<c, k>> : k \in {x \in keys : AliasOwners(tx, x) = {}}} |->
                      [type |-> "alt", label |-> Label(a[2])]]
           mappings == ReplaceMappings({Mapping(Source(q.source), c, method)}, tx.mappings)
<1>4. tx' = [tx EXCEPT !.mappings = mappings, !.aliases = Upsert(new, tx.aliases)]
  BY <1>1 DEF MapSource, NewAliases
<1>5. DOMAIN new = {<<c, k>> : k \in {x \in keys : AliasOwners(tx, x) = {}}}
  OBVIOUS
<1>6. tx = [sources |-> tx.sources, concepts |-> tx.concepts, aliases |-> tx.aliases,
            mappings |-> tx.mappings, sourceEdges |-> tx.sourceEdges,
            conceptEdges |-> tx.conceptEdges]
      /\ IsTable(tx.sources) /\ IsTable(tx.concepts)
  BY DEF ConvergeInv, Shaped
<1> HIDE DEF keys, new
<1>7. tx'.mappings = mappings
  BY <1>4, <1>6
<1> HIDE DEF mappings
<1>8. /\ tx'.sources = tx.sources /\ tx'.sourceEdges = tx.sourceEdges
      /\ tx'.conceptEdges = tx.conceptEdges /\ tx'.concepts = tx.concepts
      /\ tx'.aliases = Upsert(new, tx.aliases)
      /\ tx' = [sources |-> tx'.sources, concepts |-> tx'.concepts, aliases |-> tx'.aliases,
                mappings |-> tx'.mappings, sourceEdges |-> tx'.sourceEdges,
                conceptEdges |-> tx'.conceptEdges]
  BY <1>4, <1>6
<1>9. Shaped(tx')
  BY <1>6, <1>8, UpsertIsTable DEF Shaped
<1>10. tx'.mappings = ReplaceMappings({Mapping(Source(q.source), c, method)}, tx.mappings)
  BY <1>7 DEF mappings
<1>11. \A d \in DOMAIN <<>> : d[1] = "onet"
  OBVIOUS
<1> QED BY <1>2, <1>3, <1>5, <1>8, <1>9, <1>10, <1>11, MapConverges

LEMMA FoundConverges ==
    ASSUME IInv, RInv, ConvergeInv, NEW q \in build.queue, FoundConcept(q)
    PROVE  ConvergeInv'
<1>1. Advance(q) /\ build.pc \in Stages /\ UNCHANGED <<graph, last>>
  BY DEF FoundConcept, Turn, Stages
<1>2. Mapped(tx') = Mapped(tx) \cup {Source(q.source)}
  BY FoundConceptKeeps DEF Waiting
<1> DEFINE c == canonical_concept_id("onet", Software(q.source))
           label == SourceName(q.source)
           row == [name |-> canonical_technology_name(label),
                   kind |-> "technology", model |-> build.plan.model]
           rows == [x \in {c} |-> row]
           keys == technology_aliases(label)
           new == FoundedAliases(c, label)
           mappings == ReplaceMappings({Mapping(Source(q.source), c, "import")}, tx.mappings)
           concepts == UpsertConcepts(rows, tx.concepts)
<1>3. tx' = [tx EXCEPT !.concepts = concepts, !.mappings = mappings,
                       !.aliases = Upsert(new, tx.aliases)]
  BY DEF FoundConcept
<1>4. DOMAIN new = {<<c, k>> : k \in {x \in keys : AliasOwners(tx, x) = {}}}
  BY DEF FoundedAliases, NewAliases
<1>5. \A d \in DOMAIN rows : d[1] = "onet"
  BY DEF canonical_concept_id
<1>6. tx = [sources |-> tx.sources, concepts |-> tx.concepts, aliases |-> tx.aliases,
            mappings |-> tx.mappings, sourceEdges |-> tx.sourceEdges,
            conceptEdges |-> tx.conceptEdges]
      /\ IsTable(tx.sources)
  BY DEF ConvergeInv, Shaped
<1>7. IsTable(concepts)
  BY ConceptsTable
<1> HIDE DEF c, label, row, rows, keys, new, mappings, concepts
<1>8. /\ tx'.sources = tx.sources /\ tx'.sourceEdges = tx.sourceEdges
      /\ tx'.conceptEdges = tx.conceptEdges /\ tx'.concepts = concepts
      /\ tx'.aliases = Upsert(new, tx.aliases) /\ tx'.mappings = mappings
      /\ tx' = [sources |-> tx'.sources, concepts |-> tx'.concepts, aliases |-> tx'.aliases,
                mappings |-> tx'.mappings, sourceEdges |-> tx'.sourceEdges,
                conceptEdges |-> tx'.conceptEdges]
  BY <1>3, <1>6
<1>9. Shaped(tx')
  BY <1>6, <1>7, <1>8, UpsertIsTable DEF Shaped
<1>10. /\ tx'.mappings = ReplaceMappings({Mapping(Source(q.source), c, "import")}, tx.mappings)
       /\ tx'.concepts = UpsertConcepts(rows, tx.concepts)
  BY <1>8 DEF mappings, concepts
<1> QED BY <1>1, <1>2, <1>4, <1>5, <1>8, <1>9, <1>10, MapConverges

LEMMA InitConvergeInv == Init => ConvergeInv
<1> SUFFICES ASSUME Init PROVE ConvergeInv
  OBVIOUS
<1>1. IsTable(<<>>)
  BY DEF IsTable
<1>2. Shaped(EmptyGraph)
  BY <1>1 DEF Shaped, EmptyGraph
<1>3. last \notin Plans
  BY DEF Init, Plans
<1> QED BY <1>2, <1>3 DEF Init, Idle, ConvergeInv, ImportedOK, Stages

LEMMA NextConvergeInv == IInv /\ RInv /\ ConvergeInv /\ [Next]_vars => ConvergeInv'
<1> SUFFICES ASSUME IInv, RInv, ConvergeInv, [Next]_vars PROVE ConvergeInv'
  OBVIOUS
<1>1. CASE \E plan \in Plans : StartBuild(plan)
  BY <1>1, StartConverges
<1>2. CASE ImportEsco
  BY <1>2, ImportEscoConverges
<1>3. CASE ImportOnet
  BY <1>3, ImportOnetConverges
<1>4. CASE Download \/ UseCache
  <2>1. /\ UNCHANGED <<graph, tx, last>> /\ build'.plan = build.plan
        /\ build.pc = "download" /\ build'.pc = "onet"
    BY <1>4 DEF Download, UseCache, IInv, BuildOK
  <2> QED BY <2>1, StaysConverged
<1>5. CASE StartReconcile
  <2>1. /\ UNCHANGED <<graph, tx, last>> /\ build'.plan = build.plan
        /\ build.pc = "reconcile" /\ build'.pc \in Stages
    BY <1>5 DEF StartReconcile, IInv, BuildOK, Stages
  <2> QED BY <2>1, StaysConverged
<1>6. CASE EndStage
  <2>1. /\ UNCHANGED <<graph, tx, last>> /\ build'.plan = build.plan
        /\ build.pc \in Stages /\ build'.pc \in {"commit"} \cup Stages
    BY <1>6 DEF EndStage, NextStage, IInv, BuildOK, Stages
  <2> QED BY <2>1, StaysConverged
<1>7. ASSUME NEW q \in build.queue,
             MatchLabel(q) \/ MatchAlias(q) \/ MatchTrgm(q) \/ MatchSemantic(q)
      PROVE  ConvergeInv'
  BY <1>7, MatchConverges
<1>8. ASSUME NEW q \in build.queue, FoundConcept(q) PROVE ConvergeInv'
  BY <1>8, FoundConverges
<1>9. ASSUME NEW q \in build.queue,
             MatchNoLabel(q) \/ MatchNoTrgm(q) \/ MatchNothing(q) \/ LeaveUnresolved(q)
      PROVE  ConvergeInv'
  <2>1. UNCHANGED <<graph, tx, last>>
    BY <1>9 DEF MatchNoLabel, MatchNoTrgm, MatchNothing, LeaveUnresolved
  <2>2. build'.plan = build.plan /\ build'.pc = build.pc
    BY <1>9 DEF MatchNoLabel, MatchNoTrgm, MatchNothing, LeaveUnresolved, Defer, Advance,
        IInv, BuildOK
  <2> QED BY <2>1, <2>2, StaysConverged
<1>10. CASE Commit
  BY <1>10, CommitConverges
<1>11. CASE Abort
  BY <1>11, AbortConverges
<1>12. CASE UNCHANGED vars
  BY <1>12, StaysConverged DEF vars
<1> QED BY <1>1, <1>2, <1>3, <1>4, <1>5, <1>6, <1>7, <1>8, <1>9, <1>10, <1>11, <1>12 DEF Next

\* A build with the inputs of the one before commits the graph it found, unless it
\* maps a technology that was left without a concept: whatever the files and the
\* overrides hold, and whatever other builds have committed or failed in between.
THEOREM RebuildsConverge == Spec => RebuildConverges
<1>1. Init => IInv /\ RInv /\ ConvergeInv
  BY InitIInv, InitRInv, InitConvergeInv
<1>2. IInv /\ RInv /\ ConvergeInv /\ [Next]_vars => IInv' /\ RInv' /\ ConvergeInv'
  BY NextIInv, NextRInv, NextConvergeInv
<1>3. IInv /\ ConvergeInv /\ [Next]_vars =>
          [graph' # graph /\ build.plan = last => Mapped(graph) \subseteq Mapped(graph')
                                                    /\ Mapped(graph) # Mapped(graph')]_vars
  <2> SUFFICES ASSUME IInv, ConvergeInv, [Next]_vars, graph' # graph, build.plan = last
               PROVE  Mapped(graph) \subseteq Mapped(graph') /\ Mapped(graph) # Mapped(graph')
    OBVIOUS
  <2>1. Commit
    BY DEF Next, StartBuild, ImportEsco, Download, UseCache, ImportOnet, StartReconcile,
        EndStage, MatchLabel, MatchAlias, MatchNoLabel, MatchTrgm, MatchNoTrgm,
        MatchSemantic, LeaveUnresolved, MatchNothing, FoundConcept, Abort, vars
  <2>2. build.pc = "commit" /\ graph' = tx
    BY <2>1 DEF Commit
  <2> QED BY <2>2 DEF ConvergeInv, MoreMapped
<1> QED BY <1>1, <1>2, <1>3, PTL DEF Spec, RebuildConverges

-----------------------------------------------------------------------------
(***************************************************************************)
(* What the explorer relies on: a source concept is mapped once, and what  *)
(* has no concept is a node that has a place in the order of labels.       *)
(***************************************************************************)
MappedOnce(g) == \A m, n \in g.mappings : m.source = n.source => m.concept = n.concept

NodesKnown(g) == \A s \in DOMAIN g.sources : Synthetic(s) \in PossibleNodes

LEMMA ReplacedOnce ==
    ASSUME NEW rows, NEW table,
           \A m, n \in rows : m.source = n.source => m.concept = n.concept,
           \A m, n \in table : m.source = n.source => m.concept = n.concept
    PROVE  \A m, n \in ReplaceMappings(rows, table) : m.source = n.source => m.concept = n.concept
BY DEF ReplaceMappings

LEMMA EscoMappedOnce ==
    ASSUME NEW plan
    PROVE  \A m, n \in EscoMappings(plan) : m.source = n.source => m.concept = n.concept
<1> SUFFICES ASSUME NEW m \in EscoMappings(plan), NEW n \in EscoMappings(plan),
                    m.source = n.source
             PROVE  m.concept = n.concept
  OBVIOUS
<1>1. PICK r \in CanonicalRows(plan.esco) :
          m = Mapping(source_concept_id("esco", plan.esco, r.uri),
                      canonical_concept_id("esco", r.uri), "import")
  BY DEF EscoMappings
<1>2. PICK s \in CanonicalRows(plan.esco) :
          n = Mapping(source_concept_id("esco", plan.esco, s.uri),
                      canonical_concept_id("esco", s.uri), "import")
  BY DEF EscoMappings
<1> QED BY <1>1, <1>2 DEF Mapping, source_concept_id

LEMMA PossibleNodesAre ==
    /\ PossibleConcepts \subseteq PossibleNodes
    /\ \A v \in EscoVersions : \A u \in Uris(v) :
           Synthetic(source_concept_id("esco", v, u)) \in PossibleNodes
    /\ \A v \in OnetVersions, x \in Externals :
           Synthetic(source_concept_id("onet", v, x)) \in PossibleNodes
<1> DEFINE E(v) == {Synthetic(source_concept_id("esco", v, u)) : u \in Uris(v)}
           A == UNION {E(v) : v \in EscoVersions}
           B == {Synthetic(source_concept_id("onet", v, x)) : v \in OnetVersions, x \in Externals}
<1>1. PossibleNodes = PossibleConcepts \cup A \cup B
  BY DEF PossibleNodes
<1>2. ASSUME NEW v \in EscoVersions, NEW u \in Uris(v)
      PROVE  Synthetic(source_concept_id("esco", v, u)) \in A
  <2>1. Synthetic(source_concept_id("esco", v, u)) \in E(v)
    OBVIOUS
  <2> HIDE DEF E
  <2> QED BY <2>1
<1>3. ASSUME NEW v \in OnetVersions, NEW x \in Externals
      PROVE  Synthetic(source_concept_id("onet", v, x)) \in B
  OBVIOUS
<1> HIDE DEF A, B
<1> QED BY <1>1, <1>2, <1>3

LEMMA EscoNodes ==
    ASSUME NEW plan \in Plans, NEW s \in DOMAIN EscoSources(plan)
    PROVE  Synthetic(s) \in PossibleNodes
<1> DEFINE v == plan.esco
           id(uri) == source_concept_id("esco", v, uri)
<1>1. v \in EscoVersions
  BY DEF Plans
<1>2. s \in {id(r.uri) : r \in EscoRows[v]} \cup {id(u) : u \in Placeholders(plan)}
  BY DEF EscoSources, Upsert
<1>3. Placeholders(plan) \subseteq Uris(v)
  <2>1. ASSUME NEW r \in Relations(plan)
        PROVE  \E x \in Broader[v] \cup Related[v] : r[1] = x[1] /\ r[3] = x[2]
    BY <2>1 DEF Relations, Hierarchy
  <2>2. ASSUME NEW u \in Placeholders(plan)
        PROVE  \E x \in Broader[v] \cup Related[v] : u \in {x[1], x[2]}
    BY <2>1 DEF Placeholders
  <2> QED BY <2>2 DEF Uris
<1>4. PICK u \in Uris(v) : s = id(u)
  BY <1>2, <1>3 DEF Uris
<1> QED BY <1>1, <1>4, PossibleNodesAre

LEMMA OnetNodes ==
    ASSUME NEW plan \in Plans, NEW s \in DOMAIN OnetSources(plan)
    PROVE  Synthetic(s) \in PossibleNodes
<1> DEFINE id(external) == source_concept_id("onet", plan.onet, external)
<1>1. plan.onet \in OnetVersions
  BY DEF Plans
<1>2. s \in {id(Software(normalize_label(r.example))) : r \in OnetFile}
                \cup {id(Category(r.category)) : r \in OnetFile}
  BY DEF OnetSources, Upsert
<1>3. \E x \in Externals : s = id(x)
  BY <1>2 DEF Externals
<1> QED BY <1>1, <1>3, PossibleNodesAre

ExplorerInv ==
    /\ IInv /\ RInv
    /\ MappedOnce(graph) /\ MappedOnce(tx)
    /\ NodesKnown(graph) /\ NodesKnown(tx)

LEMMA InitExplorerInv == Init => ExplorerInv
BY InitIInv, InitRInv DEF Init, EmptyGraph, ExplorerInv, MappedOnce, NodesKnown

LEMMA NextExplorerInv == ExplorerInv /\ [Next]_vars => ExplorerInv'
<1> SUFFICES ASSUME ExplorerInv, [Next]_vars PROVE ExplorerInv'
  OBVIOUS
<1>1. IInv' /\ RInv'
  BY NextIInv, NextRInv DEF ExplorerInv
<1>2. ASSUME tx' \in {tx, graph}, graph' \in {graph, tx} PROVE ExplorerInv'
  BY <1>1, <1>2 DEF ExplorerInv
<1>3. ASSUME UNCHANGED graph, MappedOnce(tx'), NodesKnown(tx') PROVE ExplorerInv'
  BY <1>1, <1>3 DEF ExplorerInv
<1>4. CASE ImportEsco
  <2>0. PICK plan \in Plans : plan = build.plan
    BY <1>4 DEF ExplorerInv, RInv, PlanOK, ImportEsco
  <2>1. /\ tx'.sources = Upsert(EscoSources(plan), tx.sources)
        /\ tx'.mappings = ReplaceMappings(EscoMappings(plan), tx.mappings)
        /\ UNCHANGED graph
    BY <1>4, <2>0 DEF ImportEsco
  <2>2. DOMAIN tx'.sources = DOMAIN EscoSources(plan) \cup DOMAIN tx.sources
    BY <2>1, UpsertFacts
  <2>3. NodesKnown(tx')
    BY <2>2, EscoNodes DEF ExplorerInv, NodesKnown
  <2>4. MappedOnce(tx')
    BY <2>1, EscoMappedOnce, ReplacedOnce DEF ExplorerInv, MappedOnce
  <2> QED BY <1>3, <2>1, <2>3, <2>4
<1>5. CASE ImportOnet
  <2>0. PICK plan \in Plans : plan = build.plan
    BY <1>5 DEF ExplorerInv, RInv, PlanOK, ImportOnet
  <2>1. /\ tx'.sources = Upsert(OnetSources(plan), tx.sources)
        /\ tx'.mappings = tx.mappings
        /\ UNCHANGED graph
    BY <1>5, <2>0 DEF ImportOnet, ExplorerInv, IInv, GraphOK, GraphFields
  <2>2. DOMAIN tx'.sources = DOMAIN OnetSources(plan) \cup DOMAIN tx.sources
    <3>1. DOMAIN Upsert(OnetSources(plan), tx.sources)
              = DOMAIN OnetSources(plan) \cup DOMAIN tx.sources
      BY UpsertFacts
    <3> QED BY <2>1, <3>1
  <2>3. NodesKnown(tx')
    BY <2>2, OnetNodes DEF ExplorerInv, NodesKnown
  <2> QED BY <1>3, <2>1, <2>3 DEF ExplorerInv, MappedOnce
<1>6. ASSUME NEW q \in build.queue, NEW c, NEW method, UNCHANGED graph,
             tx'.sources = tx.sources,
             tx'.mappings = ReplaceMappings({Mapping(Source(q.source), c, method)}, tx.mappings)
      PROVE  ExplorerInv'
  <2>1. MappedOnce(tx')
    <3> DEFINE rows == {Mapping(Source(q.source), c, method)}
    <3>1. \A m, n \in rows : m.source = n.source => m.concept = n.concept
      OBVIOUS
    <3> HIDE DEF rows
    <3>2. \A m, n \in tx.mappings : m.source = n.source => m.concept = n.concept
      BY DEF ExplorerInv, MappedOnce
    <3> QED BY <1>6, <3>1, <3>2, ReplacedOnce DEF MappedOnce, rows
  <2> QED BY <1>3, <1>6, <2>1 DEF ExplorerInv, NodesKnown
<1>7. ASSUME NEW q \in build.queue,
             MatchLabel(q) \/ MatchAlias(q) \/ MatchTrgm(q) \/ MatchSemantic(q)
      PROVE  ExplorerInv'
  <2>1. UNCHANGED graph /\ \E c, method : MapSource(q.source, c, method)
    BY <1>7 DEF MatchLabel, MatchAlias, MatchTrgm, MatchSemantic
  <2>2. PICK c, method : MapSource(q.source, c, method)
    BY <2>1
  <2>3. /\ tx'.sources = tx.sources
        /\ tx'.mappings = ReplaceMappings({Mapping(Source(q.source), c, method)}, tx.mappings)
    BY <2>2 DEF MapSource, ExplorerInv, IInv, GraphOK, GraphFields
  <2> QED BY <1>6, <2>1, <2>3
<1>8. ASSUME NEW q \in build.queue, FoundConcept(q) PROVE ExplorerInv'
  <2>1. /\ tx'.sources = tx.sources
        /\ tx'.mappings = ReplaceMappings(
               {Mapping(Source(q.source), canonical_concept_id("onet", Software(q.source)),
                        "import")}, tx.mappings)
    BY <1>8 DEF FoundConcept, ExplorerInv, IInv, GraphOK, GraphFields
  <2>2. UNCHANGED graph
    BY <1>8 DEF FoundConcept
  <2> QED BY <1>6, <2>1, <2>2
<1>9. CASE /\ ~ImportEsco /\ ~ImportOnet
           /\ \A q \in build.queue :
                  ~(MatchLabel(q) \/ MatchAlias(q) \/ MatchTrgm(q) \/ MatchSemantic(q)
                        \/ FoundConcept(q))
  BY <1>2, <1>9 DEF Next, vars, StartBuild, Download, UseCache, StartReconcile, EndStage,
      MatchNoLabel, MatchNoTrgm, LeaveUnresolved, MatchNothing, Commit, Abort
<1> QED BY <1>4, <1>5, <1>7, <1>8, <1>9

-----------------------------------------------------------------------------
(***************************************************************************)
(* The first members of a set.                                             *)
(***************************************************************************)
LEMMA FirstOfOrder ==
    ASSUME NEW S, IsFiniteSet(S), NEW R, NEW n \in Nat,
           \A x \in S : <<x, x>> \notin R,
           \A x, y, z \in S : <<x, y>> \in R /\ <<y, z>> \in R => <<x, z>> \in R,
           \A x, y \in S : x # y => <<x, y>> \in R \/ <<y, x>> \in R,
           NEW F, F = {x \in S : Cardinality({y \in S : <<y, x>> \in R}) < n}
    PROVE  IsFiniteSet(F) /\ Cardinality(F) <= n
<1> DEFINE Before(x) == {y \in S : <<y, x>> \in R}
<1>1. ASSUME NEW x \in S PROVE IsFiniteSet(Before(x)) /\ Cardinality(Before(x)) \in Nat
  <2>1. Before(x) \in SUBSET S
    OBVIOUS
  <2> QED BY <2>1, FS_Subset, FS_CardinalityType
<1>2. IsFiniteSet(F) /\ Cardinality(F) \in Nat
  <2>1. F \in SUBSET S
    OBVIOUS
  <2> QED BY <2>1, FS_Subset, FS_CardinalityType
<1>3. CASE F = {}
  <2>1. Cardinality(F) = 0
    BY <1>3, FS_EmptySet
  <2> QED BY <1>2, <2>1
<1>4. CASE F # {}
  <2> DEFINE D == {Cardinality(Before(x)) : x \in F}
  <2>1. D \in SUBSET (0..n) /\ D # {}
    <3>1. ASSUME NEW x \in F PROVE Cardinality(Before(x)) \in 0..n /\ Cardinality(Before(x)) < n
      <4>1. Cardinality(Before(x)) < n /\ x \in S
        OBVIOUS
      <4> HIDE DEF Before
      <4> QED BY <1>1, <4>1
    <3>2. PICK x \in F : TRUE
      BY <1>4
    <3>3. Cardinality(Before(x)) \in D
      BY <3>2
    <3>4. ASSUME NEW k \in D PROVE k \in 0..n
      <4>1. PICK y \in F : k = Cardinality(Before(y))
        OBVIOUS
      <4> QED BY <3>1, <4>1
    <3> HIDE DEF D
    <3> QED BY <3>3, <3>4
  <2>2. PICK d \in D : \A k \in D : k <= d
    <3> HIDE DEF D
    <3> QED BY <2>1, GreatestNumber
  <2>3. PICK m \in F : d = Cardinality(Before(m))
    BY <2>2
  <2>4. m \in S /\ d \in Nat /\ d < n
    BY <1>1, <2>3
  <2>5. ASSUME NEW x \in F \ {m} PROVE x \in Before(m)
    <3>1. SUFFICES ASSUME <<m, x>> \in R PROVE FALSE
      BY <2>4
    <3> DEFINE more == Before(m) \cup {m}
    <3>2. more \in SUBSET Before(x) /\ m \notin Before(m)
      BY <2>4, <3>1
    <3>3. IsFiniteSet(Before(m)) /\ IsFiniteSet(Before(x)) /\ Cardinality(Before(x)) \in Nat
      BY <1>1, <2>4
    <3>4. Cardinality(Before(x)) \in D
      OBVIOUS
    <3> HIDE DEF Before, D
    <3>5. Cardinality(more) = d + 1
      BY <2>3, <3>2, <3>3, FS_AddElement
    <3> HIDE DEF more
    <3>6. Cardinality(more) <= Cardinality(Before(x))
      BY <3>2, <3>3, FS_Subset
    <3>7. Cardinality(Before(x)) <= d
      BY <2>2, <3>4
    <3> QED BY <2>4, <3>3, <3>5, <3>6, <3>7
  <2>6. Cardinality(F \ {m}) <= d
    <3>1. F \ {m} \in SUBSET Before(m)
      BY <2>5
    <3>2. IsFiniteSet(Before(m))
      BY <1>1, <2>4
    <3> HIDE DEF Before
    <3> QED BY <2>3, <3>1, <3>2, FS_Subset
  <2>7. Cardinality(F) = Cardinality(F \ {m}) + 1 /\ Cardinality(F \ {m}) \in Nat
    <3>1. Cardinality(F \ {m}) = Cardinality(F) - 1 /\ IsFiniteSet(F \ {m})
      BY <1>2, FS_RemoveElement
    <3>2. Cardinality(F \ {m}) \in Nat
      BY <3>1, FS_CardinalityType
    <3> QED BY <1>2, <3>1, <3>2
  <2> QED BY <1>2, <2>4, <2>6, <2>7
<1> QED BY <1>3, <1>4

\* The nodes that are kept are some of those there are, with the selected one,
\* and no more than the limit.
LEMMA NodeLimit ==
    ASSUME NEW nodes \in SUBSET PossibleNodes, NEW selected \in nodes, NEW limit \in Nat \ {0}
    PROVE  LET kept == ApplyNodeLimit(nodes, selected, limit) IN
           /\ kept \subseteq nodes
           /\ selected \in kept
           /\ Cardinality(kept) <= limit
<1> DEFINE others == nodes \ {selected}
           before(m, n) == \/ ~IsSynthetic(m) /\ IsSynthetic(n)
                           \/ /\ IsSynthetic(m) <=> IsSynthetic(n)
                              /\ LabelRank(m) < LabelRank(n)
           R == {p \in others \X others : before(p[1], p[2])}
           F == {x \in others : Cardinality({y \in others : <<y, x>> \in R}) < limit - 1}
           kept == ApplyNodeLimit(nodes, selected, limit)
<1>1. CASE Cardinality(nodes) <= limit
  BY <1>1 DEF ApplyNodeLimit
<1>2. CASE ~(Cardinality(nodes) <= limit)
  <2>1. kept = {selected} \cup F
    <3>1. ASSUME NEW x \in others
          PROVE  {y \in others : before(y, x)} = {y \in others : <<y, x>> \in R}
      OBVIOUS
    <3>2. Foremost(others, limit - 1, before) = F
      BY <3>1 DEF Foremost
    <3> QED BY <1>2, <3>2 DEF ApplyNodeLimit
  <2>2. IsFiniteSet(others) /\ others \subseteq PossibleNodes
    BY FS_Subset, SkillExplorerConstants
  <2>3. /\ \A x \in others : <<x, x>> \notin R
        /\ \A x, y, z \in others : <<x, y>> \in R /\ <<y, z>> \in R => <<x, z>> \in R
        /\ \A x, y \in others : x # y => <<x, y>> \in R \/ <<y, x>> \in R
    BY <2>2, SkillExplorerConstants
  <2>4. limit - 1 \in Nat /\ F \subseteq others
    OBVIOUS
  <2>5. IsFiniteSet(F) /\ Cardinality(F) <= limit - 1
    <3> HIDE DEF R, others
    <3> QED BY <2>2, <2>3, <2>4, FirstOfOrder
  <2>6. selected \notin F
    BY <2>4
  <2> HIDE DEF F, others
  <2>7. Cardinality(F) \in Nat /\ Cardinality({selected} \cup F) = Cardinality(F) + 1
    <3>1. {selected} \cup F = F \cup {selected}
      OBVIOUS
    <3> QED BY <2>5, <2>6, <3>1, FS_AddElement, FS_CardinalityType
  <2>8. Cardinality(kept) <= limit
    BY <2>1, <2>5, <2>7
  <2> QED BY <2>1, <2>4, <2>8 DEF others
<1> QED BY <1>1, <1>2

-----------------------------------------------------------------------------
(***************************************************************************)
(* One hop.                                                                *)
(***************************************************************************)
\* What the explorer needs of a graph.
Explorable(g) == RowsRefer(g) /\ RowsKnown(g) /\ MappedOnce(g) /\ NodesKnown(g)

\* Neighbours without a category between them.
Near(g, c, d) ==
    \/ \E e \in g.conceptEdges : {e.subject, e.object} = {c, d}
    \/ \E s \in SourcesOf(g, {c}), t \in SourcesOf(g, {d}) : t \in Beside(g, s)

\* The members of a category.
MembersOf(g, t) ==
    {d \in ConceptIds(g) : \E s \in SourcesOf(g, {d}) : t \in Beside(g, s)}

LEMMA NeighboursAre ==
    ASSUME NEW g, NEW c
    PROVE  /\ \A d \in ConceptIds(g) : Near(g, c, d) => d \in Neighbours(g, c)
           /\ \A t \in CategoriesOf(g, c) : MembersOf(g, t) \subseteq Neighbours(g, c)
           /\ \A d \in Neighbours(g, c) :
                  /\ d \in ConceptIds(g)
                  /\ Near(g, c, d) \/ \E t \in CategoriesOf(g, c) : d \in MembersOf(g, t)
BY DEF Neighbours, Near, MembersOf

LEMMA PlainConcepts ==
    ASSUME NEW c \in PossibleConcepts
    PROVE  ~IsSynthetic(c) /\ Rank(c) \in Nat /\ c \in PossibleNodes
<1>1. c[1] \in {"esco", "onet"}
  BY DEF PossibleConcepts, canonical_concept_id
<1>2. ~IsSynthetic(c)
  BY <1>1 DEF IsSynthetic
<1> QED BY <1>2, SkillGraphConstants, PossibleNodesAre

LEMMA SourcesAre ==
    ASSUME NEW g, RowsRefer(g), NEW F
    PROVE  /\ \A s : s \in SourcesOf(g, F) <=> \E c \in F : s \in SourcesOf(g, {c})
           /\ SourcesOf(g, F) \subseteq DOMAIN g.sources
           /\ \A s, c : s \in SourcesOf(g, {c}) <=> c \in ConceptsOf(g, s)
BY DEF SourcesOf, ConceptsOf, RowsRefer

\* A source concept is shown as its concept, or as itself.
LEMMA ShownAs ==
    ASSUME NEW g, Explorable(g), NEW s
    PROVE  /\ ConceptsOf(g, s) = {} => NodeOf(g, s) = Synthetic(s)
           /\ \A c \in ConceptsOf(g, s) : NodeOf(g, s) = c /\ c \in ConceptIds(g)
<1>1. ASSUME NEW c \in ConceptsOf(g, s) PROVE NodeOf(g, s) = c /\ c \in ConceptIds(g)
  <2>1. ConceptsOf(g, s) = {c}
    BY <1>1 DEF Explorable, MappedOnce, ConceptsOf
  <2>2. c \in ConceptIds(g)
    BY <1>1 DEF Explorable, RowsRefer, ConceptsOf
  <2>3. Rank(c) \in Nat
    BY <2>2, PlainConcepts DEF Explorable, RowsKnown
  <2>4. NodeOf(g, s) = CHOOSE x \in {c} : \A d \in {c} : Rank(x) <= Rank(d)
    BY <2>1 DEF NodeOf
  <2> QED BY <2>2, <2>3, <2>4
<1> QED BY <1>1 DEF NodeOf

LEMMA BesideEachOther ==
    ASSUME NEW g, RowsRefer(g), NEW e \in g.sourceEdges
    PROVE  /\ e.subject \in DOMAIN g.sources /\ e.object \in DOMAIN g.sources
           /\ e.object \in Beside(g, e.subject)
           /\ e.subject \in Beside(g, e.object)
<1>1. e.subject \in DOMAIN g.sources /\ e.object \in DOMAIN g.sources
  BY DEF RowsRefer
<1>2. {e.subject, e.object} = {e.object, e.subject}
  OBVIOUS
<1> QED BY <1>1, <1>2 DEF Beside

LEMMA BesideIs ==
    ASSUME NEW g, RowsRefer(g), NEW s, NEW t \in Beside(g, s)
    PROVE  /\ s \in Beside(g, t) /\ t \in DOMAIN g.sources /\ s \in DOMAIN g.sources
           /\ \E e \in g.sourceEdges : \/ e.subject = s /\ e.object = t
                                       \/ e.subject = t /\ e.object = s
<1>1. PICK e \in g.sourceEdges : {e.subject, e.object} = {s, t}
  BY DEF Beside
<1>2. \/ e.subject = s /\ e.object = t
      \/ e.subject = t /\ e.object = s
  BY <1>1
<1> QED BY <1>2, BesideEachOther

\* The categories around a frontier are those of its concepts.
LEMMA CategoriesAre ==
    ASSUME NEW g, Explorable(g), NEW F
    PROVE  \A t : t \in CategoriesAt(g, F) <=> \E c \in F : t \in CategoriesOf(g, c)
<1> USE DEF Explorable
<1>1. ASSUME NEW t \in CategoriesAt(g, F) PROVE \E c \in F : t \in CategoriesOf(g, c)
  <2>1. ConceptsOf(g, t) = {}
    BY DEF CategoriesAt
  <2>2. PICK e \in SourceEdgesAt(g, F) : t = e.subject \/ t = e.object
    BY DEF CategoriesAt
  <2>3. e \in g.sourceEdges /\ Touches(e, SourcesOf(g, F))
    BY DEF SourceEdgesAt
  <2>4. ASSUME t \in SourcesOf(g, F) PROVE FALSE
    <3>1. PICK c \in F : t \in SourcesOf(g, {c})
      BY <2>4, SourcesAre
    <3>2. c \in ConceptsOf(g, t)
      BY <3>1, SourcesAre
    <3> QED BY <2>1, <3>2
  <2>5. PICK s \in SourcesOf(g, F) : t \in Beside(g, s)
    BY <2>2, <2>3, <2>4, BesideEachOther DEF Touches
  <2>6. PICK c \in F : s \in SourcesOf(g, {c})
    BY SourcesAre
  <2> QED BY <2>1, <2>5, <2>6 DEF CategoriesOf
<1>2. ASSUME NEW c \in F, NEW t \in CategoriesOf(g, c) PROVE t \in CategoriesAt(g, F)
  <2>1. ConceptsOf(g, t) = {}
    BY DEF CategoriesOf
  <2>2. PICK s \in SourcesOf(g, {c}) : t \in Beside(g, s)
    BY DEF CategoriesOf
  <2>3. s \in SourcesOf(g, F)
    BY SourcesAre
  <2>4. PICK e \in g.sourceEdges : \/ e.subject = s /\ e.object = t
                                   \/ e.subject = t /\ e.object = s
    BY <2>2, BesideIs
  <2>5. e \in SourceEdgesAt(g, F) /\ t \in {e.subject, e.object}
    BY <2>3, <2>4 DEF SourceEdgesAt, Touches
  <2> QED BY <2>1, <2>5 DEF CategoriesAt
<1> QED BY <1>1, <1>2

\* The concepts shown for a category are its members.
LEMMA MembersAre ==
    ASSUME NEW g, Explorable(g), NEW t, ConceptsOf(g, t) = {},
           NEW round, \A s \in round : ConceptsOf(g, s) = {}
    PROVE  Members(g, t, round) = MembersOf(g, t)
<1> USE DEF Explorable
<1> DEFINE others == (UNION {{e.subject, e.object} :
                               e \in {x \in g.sourceEdges : Touches(x, {t})}}) \ round
<1>1. ASSUME NEW d \in Members(g, t, round) PROVE d \in MembersOf(g, t)
  <2>1. PICK s \in others : ConceptsOf(g, s) # {} /\ d = NodeOf(g, s)
    BY DEF Members
  <2>2. PICK e \in g.sourceEdges : Touches(e, {t}) /\ s \in {e.subject, e.object}
    BY <2>1
  <2>3. t \in Beside(g, s)
    BY <2>1, <2>2, BesideEachOther DEF Touches
  <2>4. d \in ConceptsOf(g, s) /\ d \in ConceptIds(g)
    BY <2>1, ShownAs
  <2> QED BY <2>3, <2>4, SourcesAre DEF MembersOf
<1>2. ASSUME NEW d \in MembersOf(g, t) PROVE d \in Members(g, t, round)
  <2>1. PICK s \in SourcesOf(g, {d}) : t \in Beside(g, s)
    BY DEF MembersOf
  <2>2. d \in ConceptsOf(g, s)
    BY SourcesAre
  <2>3. d = NodeOf(g, s)
    BY <2>2, ShownAs
  <2>4. PICK e \in g.sourceEdges : \/ e.subject = s /\ e.object = t
                                   \/ e.subject = t /\ e.object = s
    BY <2>1, BesideIs
  <2>5. Touches(e, {t}) /\ s \in {e.subject, e.object} /\ s \notin round
    BY <2>2, <2>4 DEF Touches
  <2>6. s \in others
    BY <2>5
  <2> QED BY <2>2, <2>3, <2>6 DEF Members
<1> QED BY <1>1, <1>2

-----------------------------------------------------------------------------
(***************************************************************************)
(* One round.                                                              *)
(***************************************************************************)
Found(g, F) == CanonicalEdges(g, F) \cup SourceLayer(g, F)

LEMMA FoundEnds ==
    ASSUME NEW g, NEW F
    PROVE  /\ \A e \in CanonicalEdges(g, F) \cup SourceLayer(g, F) :
                  e.from \in Ends(Found(g, F)) /\ e.to \in Ends(Found(g, F))
           /\ \A x \in Ends(Found(g, F)) :
                  \E e \in CanonicalEdges(g, F) \cup SourceLayer(g, F) : x = e.from \/ x = e.to
<1> DEFINE E == CanonicalEdges(g, F) \cup SourceLayer(g, F)
<1>1. /\ \A e \in E : e.from \in Ends(E) /\ e.to \in Ends(E)
      /\ \A x \in Ends(E) : \E e \in E : x = e.from \/ x = e.to
  <2> HIDE DEF E
  <2> QED BY DEF Ends
<1> QED BY <1>1 DEF Found

\* A round reaches the frontier and its neighbours, and their categories.
LEMMA FoundIsAround ==
    ASSUME NEW g, Explorable(g), NEW F \in SUBSET ConceptIds(g), NEW x \in Ends(Found(g, F))
    PROVE  \/ x \in F
           \/ \E c \in F : x \in Neighbours(g, c)
           \/ \E c \in F : \E t \in CategoriesOf(g, c) : x = Synthetic(t)
<1> USE DEF Explorable
<1>1. PICK e \in CanonicalEdges(g, F) \cup SourceLayer(g, F) : x = e.from \/ x = e.to
  BY FoundEnds
<1>2. CASE e \in CanonicalEdges(g, F)
  <2>1. PICK y \in g.conceptEdges : /\ Touches(y, F)
                                    /\ e = Edge(y.subject, y.object, "IS_A", "canonical")
    BY <1>2 DEF CanonicalEdges
  <2>2. x \in {y.subject, y.object} /\ {y.subject, y.object} \subseteq ConceptIds(g)
    BY <1>1, <2>1 DEF Edge, RowsRefer
  <2>3. CASE y.subject \in F
    <3>1. x \in F \/ {y.subject, y.object} = {y.subject, x}
      BY <2>2, <2>3
    <3>2. x \in F \/ Near(g, y.subject, x)
      BY <3>1 DEF Near
    <3> QED BY <2>2, <2>3, <3>2, NeighboursAre
  <2>4. CASE y.object \in F
    <3>1. x \in F \/ {y.subject, y.object} = {y.object, x}
      BY <2>2, <2>4
    <3>2. x \in F \/ Near(g, y.object, x)
      BY <3>1 DEF Near
    <3> QED BY <2>2, <2>4, <3>2, NeighboursAre
  <2> QED BY <2>1, <2>3, <2>4 DEF Touches
<1>3. CASE e \in SourceLayer(g, F)
  <2>1. PICK y \in SourceEdgesAt(g, F) :
            e = Edge(NodeOf(g, y.subject), NodeOf(g, y.object), y.predicate, "source")
    BY <1>3 DEF SourceLayer
  <2>2. y \in g.sourceEdges /\ Touches(y, SourcesOf(g, F))
    BY DEF SourceEdgesAt
  <2>3. PICK t \in {y.subject, y.object} : x = NodeOf(g, t)
    BY <1>1, <2>1 DEF Edge
  <2>4. ASSUME NEW s \in SourcesOf(g, F), t = s \/ t \in Beside(g, s)
        PROVE  \/ x \in F
               \/ \E c \in F : x \in Neighbours(g, c)
               \/ \E c \in F : \E u \in CategoriesOf(g, c) : x = Synthetic(u)
    <3>1. PICK c \in F : s \in SourcesOf(g, {c})
      BY SourcesAre
    <3>2. CASE t = s
      BY <2>3, <3>1, <3>2, ShownAs, SourcesAre
    <3>3. CASE t \in Beside(g, s) /\ ConceptsOf(g, t) = {}
      <4>1. x = Synthetic(t)
        BY <2>3, <3>3, ShownAs
      <4>2. t \in CategoriesOf(g, c)
        BY <3>1, <3>3 DEF CategoriesOf
      <4> QED BY <4>1, <4>2
    <3>4. ASSUME t \in Beside(g, s), NEW d \in ConceptsOf(g, t)
          PROVE  x \in Neighbours(g, c)
      <4>1. x = d /\ d \in ConceptIds(g)
        BY <2>3, ShownAs
      <4>2. t \in SourcesOf(g, {d})
        BY SourcesAre
      <4>3. Near(g, c, d)
        BY <3>1, <3>4, <4>2 DEF Near
      <4> QED BY <4>1, <4>3, NeighboursAre
    <3> QED BY <2>4, <3>2, <3>3, <3>4
  <2>5. y.object \in Beside(g, y.subject) /\ y.subject \in Beside(g, y.object)
    BY <2>2, BesideEachOther
  <2>6. CASE y.subject \in SourcesOf(g, F)
    BY <2>3, <2>4, <2>5, <2>6
  <2>7. CASE y.object \in SourcesOf(g, F)
    BY <2>3, <2>4, <2>5, <2>7
  <2> QED BY <2>2, <2>6, <2>7 DEF Touches
<1> QED BY <1>1, <1>2, <1>3

\* A source edge at a concept of the frontier is followed.
LEMMA EdgeIsFollowed ==
    ASSUME NEW g, Explorable(g), NEW F \in SUBSET ConceptIds(g), NEW c \in F,
           NEW s \in SourcesOf(g, {c}), NEW t \in Beside(g, s)
    PROVE  NodeOf(g, t) \in Ends(Found(g, F))
<1>1. PICK e \in g.sourceEdges : \/ e.subject = s /\ e.object = t
                                 \/ e.subject = t /\ e.object = s
  BY BesideIs DEF Explorable
<1>2. s \in SourcesOf(g, F)
  BY SourcesAre DEF Explorable
<1>3. e \in SourceEdgesAt(g, F)
  BY <1>1, <1>2 DEF SourceEdgesAt, Touches
<1> DEFINE y == Edge(NodeOf(g, e.subject), NodeOf(g, e.object), e.predicate, "source")
<1>4. y \in SourceLayer(g, F)
  BY <1>3 DEF SourceLayer
<1>5. NodeOf(g, t) \in {y.from, y.to}
  BY <1>1 DEF Edge
<1> HIDE DEF y
<1> QED BY <1>4, <1>5, FoundEnds

\* It misses none of them.
LEMMA AroundIsFound ==
    ASSUME NEW g, Explorable(g), NEW F \in SUBSET ConceptIds(g), NEW c \in F
    PROVE  /\ \A d \in ConceptIds(g) : Near(g, c, d) => d \in Ends(Found(g, F))
           /\ \A t \in CategoriesOf(g, c) : Synthetic(t) \in Ends(Found(g, F))
<1>1. ASSUME NEW t \in CategoriesOf(g, c) PROVE Synthetic(t) \in Ends(Found(g, F))
  <2>1. PICK s \in SourcesOf(g, {c}) : t \in Beside(g, s)
    BY DEF CategoriesOf
  <2>2. NodeOf(g, t) = Synthetic(t)
    BY ShownAs DEF CategoriesOf
  <2> QED BY <2>1, <2>2, EdgeIsFollowed
<1>2. ASSUME NEW d \in ConceptIds(g), Near(g, c, d) PROVE d \in Ends(Found(g, F))
  <2>1. ASSUME NEW e \in g.conceptEdges, {e.subject, e.object} = {c, d}
        PROVE  d \in Ends(Found(g, F))
    <3> DEFINE y == Edge(e.subject, e.object, "IS_A", "canonical")
    <3>1. y \in CanonicalEdges(g, F)
      BY <2>1 DEF CanonicalEdges, Touches
    <3>2. d \in {y.from, y.to}
      BY <2>1 DEF Edge
    <3> HIDE DEF y
    <3> QED BY <3>1, <3>2, FoundEnds
  <2>2. ASSUME NEW s \in SourcesOf(g, {c}), NEW t \in SourcesOf(g, {d}), t \in Beside(g, s)
        PROVE  d \in Ends(Found(g, F))
    <3>1. d \in ConceptsOf(g, t)
      BY SourcesAre DEF Explorable
    <3>2. NodeOf(g, t) = d
      BY <3>1, ShownAs
    <3> QED BY <2>2, <3>2, EdgeIsFollowed
  <2> QED BY <1>2, <2>1, <2>2 DEF Near
<1> QED BY <1>1, <1>2

LEMMA CapKeeps ==
    ASSUME NEW members, NEW selected, NEW cap
    PROVE  /\ CapMembers(members, selected, cap) \subseteq members
           /\ Cardinality(members) <= cap => CapMembers(members, selected, cap) = members
BY DEF CapMembers, Foremost

\* What a round does, in terms of what is around its frontier: M are the members
\* of categories that it shows.
RoundTo(g, r, r1, M) ==
    LET E == Ends(Found(g, r.frontier))
        K == CategoriesAt(g, r.frontier)
    IN  /\ r1.nodes = r.nodes \cup E \cup M
        /\ r1.frontier = ({n \in E : ~IsSynthetic(n)} \cup M) \ r.seen
        /\ r1.seen = r.seen \cup r1.frontier
        /\ r1.categories = r.categories \cup K
        /\ \A x \in M : \E t \in K : x \in MembersOf(g, t)
        /\ ~r1.capped => /\ ~r.capped
                         /\ \A t \in K \ r.categories : MembersOf(g, t) \subseteq M

LEMMA RoundIs ==
    ASSUME NEW g, Explorable(g), NEW selected, NEW cap \in Nat, NEW r
    PROVE  \E M : RoundTo(g, r, Expand(g, selected, cap, r), M)
<1> DEFINE r1 == Expand(g, selected, cap, r)
           E == Ends(Found(g, r.frontier))
           K == CategoriesAt(g, r.frontier)
           fresh == K \ r.categories
           shown == [s \in fresh |-> CapMembers(Members(g, s, fresh), selected, cap)]
           M == UNION {shown[s] : s \in fresh}
<1>1. /\ r1.nodes = r.nodes \cup E \cup M
      /\ r1.frontier = ({n \in E : ~IsSynthetic(n)} \cup M) \ r.seen
      /\ r1.seen = r.seen \cup (({n \in E : ~IsSynthetic(n)} \cup M) \ r.seen)
      /\ r1.categories = r.categories \cup fresh
      /\ r1.capped = (r.capped \/ \E s \in fresh : Cardinality(Members(g, s, fresh)) > cap)
  BY DEF Expand, Found
<1>2. ASSUME NEW s \in fresh PROVE Members(g, s, fresh) = MembersOf(g, s)
  <2>1. ConceptsOf(g, s) = {} /\ \A t \in fresh : ConceptsOf(g, t) = {}
    BY DEF CategoriesAt
  <2> QED BY <2>1, MembersAre
<1>3. ASSUME NEW s \in fresh
      PROVE  /\ shown[s] \subseteq MembersOf(g, s)
             /\ Cardinality(Members(g, s, fresh)) > cap \/ shown[s] = MembersOf(g, s)
  <2>1. shown[s] = CapMembers(MembersOf(g, s), selected, cap)
    BY <1>2
  <2>2. MembersOf(g, s) \in SUBSET PossibleConcepts
    BY DEF MembersOf, Explorable, RowsKnown
  <2>3. Cardinality(MembersOf(g, s)) \in Nat
    BY <2>2, SkillGraphConstants, FS_Subset, FS_CardinalityType
  <2>4. Cardinality(MembersOf(g, s)) > cap \/ Cardinality(MembersOf(g, s)) <= cap
    BY <2>3
  <2> HIDE DEF shown
  <2> QED BY <1>2, <2>1, <2>4, CapKeeps
<1>4. ASSUME NEW x \in M PROVE \E t \in K : x \in MembersOf(g, t)
  <2>1. PICK s \in fresh : x \in shown[s]
    OBVIOUS
  <2> HIDE DEF shown
  <2> QED BY <1>3, <2>1
<1>5. ASSUME ~r1.capped
      PROVE  ~r.capped /\ \A t \in fresh : MembersOf(g, t) \subseteq M
  <2>1. ~r.capped /\ ~\E s \in fresh : Cardinality(Members(g, s, fresh)) > cap
    <3> HIDE DEF fresh
    <3> QED BY <1>1, <1>5
  <2>2. \A t \in fresh : shown[t] = MembersOf(g, t)
    <3> HIDE DEF shown
    <3> QED BY <1>3, <2>1
  <2>3. \A t \in fresh : shown[t] \subseteq M
    OBVIOUS
  <2> HIDE DEF shown, M
  <2> QED BY <2>1, <2>2, <2>3
<1>6. r1.seen = r.seen \cup r1.frontier /\ r1.categories = r.categories \cup K
  <2> HIDE DEF M
  <2> QED BY <1>1
<1>7. RoundTo(g, r, r1, M)
  <2> HIDE DEF M, r1, E, K
  <2> QED BY <1>1, <1>4, <1>5, <1>6 DEF RoundTo, E, K
<1> QED BY <1>7

\* Nothing is reached but what is near: A is what was within reach a round ago,
\* B what is now.
NoMore(g, A, B, selected, r) ==
    /\ selected \in r.nodes
    /\ r.frontier \subseteq r.seen
    /\ r.seen \subseteq B
    /\ \A x \in r.nodes :
           x \in B \/ \E c \in A : \E t \in CategoriesOf(g, c) : x = Synthetic(t)

\* Nothing is missed.
NoLess(g, A, B, r) ==
    /\ B \subseteq r.seen
    /\ A \subseteq r.seen \ r.frontier
    /\ r.seen \subseteq r.nodes
    /\ \A t \in r.categories : MembersOf(g, t) \subseteq r.seen
    /\ \A c \in r.seen \ r.frontier :
           /\ Neighbours(g, c) \subseteq r.seen
           /\ \A t \in CategoriesOf(g, c) : Synthetic(t) \in r.nodes

Grown(g, B) == B \cup UNION {Neighbours(g, d) : d \in B}

LEMMA RoundAddsNoMore ==
    ASSUME NEW g, Explorable(g), NEW selected, NEW cap \in Nat, NEW r,
           NEW B \in SUBSET ConceptIds(g), NEW A \in SUBSET B, NoMore(g, A, B, selected, r)
    PROVE  NoMore(g, B, Grown(g, B), selected, Expand(g, selected, cap, r))
<1> DEFINE r1 == Expand(g, selected, cap, r)
           E == Ends(Found(g, r.frontier))
           K == CategoriesAt(g, r.frontier)
           B1 == Grown(g, B)
<1>1. PICK M :
        /\ r1.nodes = r.nodes \cup E \cup M
        /\ r1.frontier = ({n \in E : ~IsSynthetic(n)} \cup M) \ r.seen
        /\ r1.seen = r.seen \cup r1.frontier
        /\ r1.categories = r.categories \cup K
        /\ \A x \in M : \E t \in K : x \in MembersOf(g, t)
        /\ ~r1.capped => /\ ~r.capped
                         /\ \A t \in K \ r.categories : MembersOf(g, t) \subseteq M
  <2>1. PICK N : RoundTo(g, r, Expand(g, selected, cap, r), N)
    BY RoundIs
  <2>2. RoundTo(g, r, r1, N)
    BY <2>1
  <2> HIDE DEF r1
  <2> QED BY <2>2 DEF RoundTo
<1>2. r.frontier \subseteq B /\ r.frontier \in SUBSET ConceptIds(g)
  BY DEF NoMore
<1>3. \A c \in B : Neighbours(g, c) \subseteq B1
  BY DEF Grown
<1>4. ASSUME NEW x \in M PROVE x \in B1
  <2>1. PICK t \in K : x \in MembersOf(g, t)
    BY <1>1
  <2>2. PICK c \in r.frontier : t \in CategoriesOf(g, c)
    BY CategoriesAre
  <2> QED BY <1>2, <1>3, <2>1, <2>2, NeighboursAre
<1>5. ASSUME NEW x \in E
      PROVE  x \in B1 \/ \E c \in B : \E t \in CategoriesOf(g, c) : x = Synthetic(t)
  <2>1. \/ x \in r.frontier
        \/ \E c \in r.frontier : x \in Neighbours(g, c)
        \/ \E c \in r.frontier : \E t \in CategoriesOf(g, c) : x = Synthetic(t)
    BY <1>2, FoundIsAround
  <2> QED BY <1>2, <1>3, <2>1 DEF Grown
<1>6. ASSUME NEW x \in E, ~IsSynthetic(x) PROVE x \in B1
  <2>1. \A t : IsSynthetic(Synthetic(t))
    BY DEF IsSynthetic, Synthetic
  <2> HIDE DEF E
  <2> QED BY <1>5, <1>6, <2>1
<1>7. B \subseteq B1
  BY DEF Grown
<1>8. r1.seen \subseteq B1 /\ r1.frontier \subseteq r1.seen
  <2> HIDE DEF r1, E, B1
  <2> QED BY <1>1, <1>4, <1>6, <1>7 DEF NoMore
<1>9. \A x \in r1.nodes :
          x \in B1 \/ \E c \in B : \E t \in CategoriesOf(g, c) : x = Synthetic(t)
  <2> HIDE DEF r1, E, B1
  <2> QED BY <1>1, <1>4, <1>5, <1>7 DEF NoMore
<1>10. selected \in r1.nodes
  <2> HIDE DEF r1
  <2> QED BY <1>1 DEF NoMore
<1> HIDE DEF r1
<1> QED BY <1>8, <1>9, <1>10 DEF NoMore, r1

LEMMA RoundMissesNothing ==
    ASSUME NEW g, Explorable(g), NEW selected, NEW cap \in Nat, NEW r,
           NEW B \in SUBSET ConceptIds(g), NEW A \in SUBSET B, NoMore(g, A, B, selected, r),
           NoLess(g, A, B, r),
           ~Expand(g, selected, cap, r).capped
    PROVE  NoLess(g, B, Grown(g, B), Expand(g, selected, cap, r))
<1> DEFINE r1 == Expand(g, selected, cap, r)
           E == Ends(Found(g, r.frontier))
           K == CategoriesAt(g, r.frontier)
           B1 == Grown(g, B)
<1>1. PICK M :
        /\ r1.nodes = r.nodes \cup E \cup M
        /\ r1.frontier = ({n \in E : ~IsSynthetic(n)} \cup M) \ r.seen
        /\ r1.seen = r.seen \cup r1.frontier
        /\ r1.categories = r.categories \cup K
        /\ \A x \in M : \E t \in K : x \in MembersOf(g, t)
        /\ ~r1.capped => /\ ~r.capped
                         /\ \A t \in K \ r.categories : MembersOf(g, t) \subseteq M
  <2>1. PICK N : RoundTo(g, r, Expand(g, selected, cap, r), N)
    BY RoundIs
  <2>2. RoundTo(g, r, r1, N)
    BY <2>1
  <2> HIDE DEF r1
  <2> QED BY <2>2 DEF RoundTo
<1>2. \A t \in K \ r.categories : MembersOf(g, t) \subseteq M
  BY <1>1
<1>3. r.frontier \in SUBSET ConceptIds(g)
  BY DEF NoMore
<1>4. ASSUME NEW x \in ConceptIds(g) PROVE ~IsSynthetic(x)
  BY PlainConcepts DEF Explorable, RowsKnown
<1>5. r1.seen \ r1.frontier = r.seen
  <2> HIDE DEF r1, E
  <2> QED BY <1>1
<1>6. ASSUME NEW t \in r1.categories PROVE MembersOf(g, t) \subseteq r1.seen
  <2> HIDE DEF r1, E, K
  <2> QED BY <1>1, <1>2, <1>6 DEF NoLess
<1>7. ASSUME NEW c \in r.frontier PROVE Neighbours(g, c) \subseteq r1.seen
  <2> SUFFICES ASSUME NEW d \in Neighbours(g, c) PROVE d \in r1.seen
    OBVIOUS
  <2>1. CASE Near(g, c, d)
    <3>1. d \in E /\ ~IsSynthetic(d)
      BY <1>3, <1>4, <1>7, <2>1, AroundIsFound, NeighboursAre
    <3> HIDE DEF r1, E
    <3> QED BY <1>1, <3>1
  <2>2. ASSUME NEW t \in CategoriesOf(g, c), d \in MembersOf(g, t) PROVE d \in r1.seen
    <3>1. t \in K
      BY <1>7, CategoriesAre
    <3>2. t \in r1.categories
      <4> HIDE DEF r1, K
      <4> QED BY <1>1, <3>1
    <3> HIDE DEF r1
    <3> QED BY <1>6, <2>2, <3>2
  <2> HIDE DEF r1
  <2> QED BY <2>1, <2>2, NeighboursAre
<1>8. ASSUME NEW c \in r.seen PROVE Neighbours(g, c) \subseteq r1.seen
  <2>1. r.seen \subseteq r1.seen
    <3> HIDE DEF r1, E
    <3> QED BY <1>1
  <2> HIDE DEF r1
  <2> QED BY <1>7, <2>1 DEF NoLess
<1>9. ASSUME NEW c \in r.seen, NEW t \in CategoriesOf(g, c) PROVE Synthetic(t) \in r1.nodes
  <2>1. CASE c \in r.frontier
    <3>1. Synthetic(t) \in E
      BY <1>3, <2>1, AroundIsFound
    <3> HIDE DEF r1, E
    <3> QED BY <1>1, <3>1
  <2>2. CASE c \notin r.frontier
    <3>1. Synthetic(t) \in r.nodes
      BY <2>2 DEF NoLess
    <3> HIDE DEF r1, E
    <3> QED BY <1>1, <3>1
  <2> QED BY <2>1, <2>2
<1>10. B \subseteq r.seen /\ r.seen \subseteq r1.seen
  <2> HIDE DEF r1, E
  <2> QED BY <1>1 DEF NoLess
<1>11. B1 \subseteq r1.seen
  <2> HIDE DEF r1
  <2> QED BY <1>8, <1>10 DEF Grown
<1>12. r1.seen \subseteq r1.nodes
  <2> HIDE DEF r1, E
  <2> QED BY <1>1 DEF NoLess
<1> HIDE DEF r1
<1> QED BY <1>5, <1>6, <1>8, <1>9, <1>10, <1>11, <1>12 DEF NoLess, r1

-----------------------------------------------------------------------------
(***************************************************************************)
(* All rounds.                                                             *)
(***************************************************************************)
\* The functions by which the balls and the rounds go on.
Balls(g, c, n, f) == f = [i \in 0..n |-> IF i = 0 THEN {c} ELSE Grown(g, f[i - 1])]

Begin(selected) ==
    [nodes |-> {selected}, edges |-> {}, frontier |-> {selected}, seen |-> {selected},
     categories |-> {}, capped |-> FALSE]

Rounds(g, selected, cap, n, f) ==
    f = [i \in 0..n |-> IF i = 0 THEN Begin(selected) ELSE Expand(g, selected, cap, f[i - 1])]

LEMMA BallsExist ==
    ASSUME NEW g, NEW c, NEW n \in Nat
    PROVE  \E f : Balls(g, c, n, f)
<1> DEFINE T == {k \in 0..n : \E f : Balls(g, c, k, f)}
<1>1. 0 \in T
  <2> DEFINE f == [i \in 0..0 |-> {c}]
  <2>1. f = [i \in 0..0 |-> IF i = 0 THEN {c} ELSE Grown(g, f[i - 1])]
    <3>1. \A h : f = [i \in 0..0 |-> IF i = 0 THEN {c} ELSE Grown(g, h[i - 1])]
      OBVIOUS
    <3> HIDE DEF f
    <3> QED BY <3>1
  <2> HIDE DEF f
  <2>2. Balls(g, c, 0, f)
    BY <2>1 DEF Balls
  <2> QED BY <2>2
<1>2. ASSUME NEW k \in 0..n, k \in T, k # n PROVE k + 1 \in T
  <2>1. PICK f : Balls(g, c, k, f)
    BY <1>2
  <2> DEFINE h == [i \in 0..(k + 1) |-> IF i = 0 THEN {c} ELSE Grown(g, f[i - 1])]
  <2>2. ASSUME NEW i \in 0..(k + 1), i # 0 PROVE h[i - 1] = f[i - 1]
    <3>1. i - 1 \in 0..k /\ i - 1 \in 0..(k + 1)
      BY <2>2
    <3> QED BY <2>1, <3>1 DEF Balls
  <2>3. h = [i \in 0..(k + 1) |-> IF i = 0 THEN {c} ELSE Grown(g, h[i - 1])]
    BY <2>2
  <2> HIDE DEF h
  <2>4. Balls(g, c, k + 1, h)
    BY <2>3 DEF Balls
  <2>5. k + 1 \in 0..n
    BY <1>2
  <2> QED BY <2>4, <2>5
<1>3. n \in T
  <2> HIDE DEF T
  <2>1. 0..n \subseteq T
    BY <1>1, <1>2, CountUp
  <2> QED BY <2>1
<1> QED BY <1>3

LEMMA RoundsExist ==
    ASSUME NEW g, NEW selected, NEW cap, NEW n \in Nat
    PROVE  \E f : Rounds(g, selected, cap, n, f)
<1> DEFINE T == {k \in 0..n : \E f : Rounds(g, selected, cap, k, f)}
           start == Begin(selected)
           next(r) == Expand(g, selected, cap, r)
<1>1. 0 \in T
  <2> DEFINE f == [i \in 0..0 |-> start]
  <2> HIDE DEF start, next
  <2>1. f = [i \in 0..0 |-> IF i = 0 THEN start ELSE next(f[i - 1])]
    <3>1. \A h : f = [i \in 0..0 |-> IF i = 0 THEN start ELSE next(h[i - 1])]
      OBVIOUS
    <3> HIDE DEF f
    <3> QED BY <3>1
  <2> HIDE DEF f
  <2>2. Rounds(g, selected, cap, 0, f)
    BY <2>1 DEF Rounds, start, next
  <2> QED BY <2>2
<1>2. ASSUME NEW k \in 0..n, k \in T, k # n PROVE k + 1 \in T
  <2>1. PICK f : Rounds(g, selected, cap, k, f)
    BY <1>2
  <2> DEFINE h == [i \in 0..(k + 1) |-> IF i = 0 THEN start ELSE next(f[i - 1])]
  <2> HIDE DEF start, next
  <2>2. ASSUME NEW i \in 0..(k + 1), i # 0 PROVE h[i - 1] = f[i - 1]
    <3>1. i - 1 \in 0..k /\ i - 1 \in 0..(k + 1)
      BY <2>2
    <3>2. f = [j \in 0..k |-> IF j = 0 THEN start ELSE next(f[j - 1])]
      BY <2>1 DEF Rounds, start, next
    <3> QED BY <3>1, <3>2
  <2>3. h = [i \in 0..(k + 1) |-> IF i = 0 THEN start ELSE next(h[i - 1])]
    BY <2>2
  <2> HIDE DEF h
  <2>4. Rounds(g, selected, cap, k + 1, h)
    BY <2>3 DEF Rounds, start, next
  <2>5. k + 1 \in 0..n
    BY <1>2
  <2> QED BY <2>4, <2>5
<1>3. n \in T
  <2> HIDE DEF T
  <2>1. 0..n \subseteq T
    BY <1>1, <1>2, CountUp
  <2> QED BY <2>1
<1> QED BY <1>3

LEMMA WithinIs ==
    ASSUME NEW g, NEW c, NEW depth \in Nat
    PROVE  \E f : /\ Balls(g, c, depth, f)
                  /\ \A x : x \in Within(g, c, depth) <=>
                        \/ x \in f[depth]
                        \/ \E d \in f[depth - 1] : \E t \in CategoriesOf(g, d) : x = Synthetic(t)
<1> DEFINE f == CHOOSE f : f = [n \in 0..depth |->
                    IF n = 0 THEN {c}
                    ELSE f[n - 1] \cup UNION {Neighbours(g, d) : d \in f[n - 1]}]
           there == f[depth] \cup {Synthetic(t) :
                        t \in UNION {CategoriesOf(g, d) : d \in f[depth - 1]}}
<1>1. Within(g, c, depth) = there
  BY DEF Within
<1>2. \E h : h = [n \in 0..depth |->
                    IF n = 0 THEN {c}
                    ELSE h[n - 1] \cup UNION {Neighbours(g, d) : d \in h[n - 1]}]
  <2>1. PICK h : Balls(g, c, depth, h)
    BY BallsExist
  <2>2. h = [n \in 0..depth |->
                IF n = 0 THEN {c}
                ELSE h[n - 1] \cup UNION {Neighbours(g, d) : d \in h[n - 1]}]
    BY <2>1 DEF Balls, Grown
  <2> QED BY <2>2
<1>3. f = [n \in 0..depth |->
              IF n = 0 THEN {c}
              ELSE f[n - 1] \cup UNION {Neighbours(g, d) : d \in f[n - 1]}]
  BY <1>2
<1> HIDE DEF f
<1>4. Balls(g, c, depth, f)
  BY <1>3 DEF Balls, Grown
<1>5. \A x : x \in there <=>
          \/ x \in f[depth]
          \/ \E d \in f[depth - 1] : \E t \in CategoriesOf(g, d) : x = Synthetic(t)
  OBVIOUS
<1> HIDE DEF there
<1> QED BY <1>1, <1>4, <1>5

LEMMA NeighborhoodIs ==
    ASSUME NEW g, NEW selected, NEW depth \in Nat, NEW limit, NEW cap
    PROVE  \E f : /\ Rounds(g, selected, cap, depth, f)
                  /\ LET all == f[depth]
                         kept == ApplyNodeLimit(all.nodes, selected, limit)
                     IN  concept_neighborhood(g, selected, depth, limit, cap) =
                            [nodes |-> kept,
                             edges |-> {e \in all.edges : {e.from, e.to} \subseteq kept},
                             truncated |-> all.capped \/ kept # all.nodes]
<1> DEFINE start == Begin(selected)
           f == CHOOSE f : f = [n \in 0..depth |->
                    IF n = 0 THEN start ELSE Expand(g, selected, cap, f[n - 1])]
           all == f[depth]
           kept == ApplyNodeLimit(all.nodes, selected, limit)
<1>1. concept_neighborhood(g, selected, depth, limit, cap) =
          [nodes |-> kept,
           edges |-> {e \in all.edges : {e.from, e.to} \subseteq kept},
           truncated |-> all.capped \/ kept # all.nodes]
  BY DEF concept_neighborhood, Begin
<1> HIDE DEF start
<1>2. \E h : h = [n \in 0..depth |->
                     IF n = 0 THEN start ELSE Expand(g, selected, cap, h[n - 1])]
  <2>1. PICK h : Rounds(g, selected, cap, depth, h)
    BY RoundsExist
  <2>2. h = [n \in 0..depth |->
                IF n = 0 THEN start ELSE Expand(g, selected, cap, h[n - 1])]
    BY <2>1 DEF Rounds, start
  <2> QED BY <2>2
<1>3. f = [n \in 0..depth |->
              IF n = 0 THEN start ELSE Expand(g, selected, cap, f[n - 1])]
  BY <1>2
<1> HIDE DEF f
<1>4. Rounds(g, selected, cap, depth, f)
  BY <1>3 DEF Rounds, start
<1> QED BY <1>1, <1>4

\* What was within reach a round ago.
Before(f, k) == IF k = 0 THEN {} ELSE f[k - 1]

\* After each round what is reached is what is near, unless members were left out.
LEMMA RoundsReach ==
    ASSUME NEW g, Explorable(g), NEW c \in ConceptIds(g), NEW cap \in Nat,
           NEW depth \in Nat, NEW b, Balls(g, c, depth, b), NEW r, Rounds(g, c, cap, depth, r)
    PROVE  /\ b[depth] \subseteq ConceptIds(g)
           /\ NoMore(g, Before(b, depth), b[depth], c, r[depth])
           /\ ~r[depth].capped => NoLess(g, Before(b, depth), b[depth], r[depth])
<1> DEFINE T == {k \in 0..depth :
                    /\ b[k] \in SUBSET ConceptIds(g)
                    /\ Before(b, k) \in SUBSET b[k]
                    /\ NoMore(g, Before(b, k), b[k], c, r[k])
                    /\ ~r[k].capped => NoLess(g, Before(b, k), b[k], r[k])}
<1>1. 0 \in T
  <2>1. b[0] = {c}
    BY DEF Balls
  <2>2. r[0] = Begin(c)
    <3> DEFINE start == Begin(c)
    <3> HIDE DEF start
    <3>1. r = [i \in 0..depth |-> IF i = 0 THEN start ELSE Expand(g, c, cap, r[i - 1])]
      BY DEF Rounds, start
    <3>2. r[0] = start
      BY <3>1
    <3> QED BY <3>2 DEF start
  <2>3. Before(b, 0) = {}
    BY DEF Before
  <2>4. NoMore(g, {}, {c}, c, Begin(c))
    BY DEF NoMore, Begin
  <2>5. NoLess(g, {}, {c}, Begin(c))
    BY DEF NoLess, Begin
  <2> QED BY <2>1, <2>2, <2>3, <2>4, <2>5
<1>2. ASSUME NEW k \in 0..depth, k \in T, k # depth PROVE k + 1 \in T
  <2>1. k + 1 \in 0..depth /\ k + 1 # 0 /\ (k + 1) - 1 = k
    BY <1>2
  <2>2. b[k + 1] = Grown(g, b[k])
    BY <2>1 DEF Balls
  <2>3. r[k + 1] = Expand(g, c, cap, r[k])
    <3> DEFINE start == Begin(c)
    <3> HIDE DEF start
    <3>1. r = [i \in 0..depth |-> IF i = 0 THEN start ELSE Expand(g, c, cap, r[i - 1])]
      BY DEF Rounds, start
    <3>2. r[k + 1] = IF k + 1 = 0 THEN start ELSE Expand(g, c, cap, r[(k + 1) - 1])
      BY <2>1, <3>1
    <3> QED BY <2>1, <3>2
  <2>4. Before(b, k + 1) = b[k]
    BY <2>1 DEF Before
  <2>5. b[k] \in SUBSET b[k + 1] /\ b[k + 1] \in SUBSET ConceptIds(g)
    <3>1. \A d : Neighbours(g, d) \subseteq ConceptIds(g)
      BY DEF Neighbours
    <3> QED BY <1>2, <2>2, <3>1 DEF Grown
  <2>6. NoMore(g, b[k], b[k + 1], c, r[k + 1])
    BY <1>2, <2>2, <2>3, RoundAddsNoMore
  <2>7. ASSUME ~r[k + 1].capped PROVE NoLess(g, b[k], b[k + 1], r[k + 1])
    <3>1. ~r[k].capped
      <4>1. PICK M : RoundTo(g, r[k], r[k + 1], M)
        BY <2>3, RoundIs
      <4> QED BY <2>7, <4>1 DEF RoundTo
    <3>2. ~Expand(g, c, cap, r[k]).capped
      BY <2>3, <2>7
    <3> QED BY <1>2, <2>2, <2>3, <3>1, <3>2, RoundMissesNothing
  <2> QED BY <2>1, <2>4, <2>5, <2>6, <2>7
<1>3. depth \in T
  <2> HIDE DEF T
  <2>1. 0..depth \subseteq T
    BY <1>1, <1>2, CountUp
  <2> QED BY <2>1
<1> QED BY <1>3

LEMMA AnswerIsExact ==
    ASSUME NEW g, Explorable(g), NEW c \in ConceptIds(g), NEW depth \in Depths,
           NEW limit \in Limits, NEW cap \in Caps
    PROVE  LET there == Within(g, c, depth)
               answer == concept_neighborhood(g, c, depth, limit, cap)
           IN  /\ c \in answer.nodes
               /\ answer.nodes \subseteq there
               /\ Cardinality(answer.nodes) <= limit
               /\ Ends(answer.edges) \subseteq answer.nodes
               /\ ~answer.truncated => answer.nodes = there
<1>1. depth \in Nat /\ depth # 0 /\ limit \in Nat \ {0} /\ cap \in Nat
  BY SkillExplorerConstants
<1>2. PICK b : /\ Balls(g, c, depth, b)
               /\ \A x : x \in Within(g, c, depth) <=>
                     \/ x \in b[depth]
                     \/ \E d \in b[depth - 1] : \E t \in CategoriesOf(g, d) : x = Synthetic(t)
  BY <1>1, WithinIs
<1>3. PICK r : /\ Rounds(g, c, cap, depth, r)
               /\ LET all == r[depth]
                      kept == ApplyNodeLimit(all.nodes, c, limit)
                  IN  concept_neighborhood(g, c, depth, limit, cap) =
                         [nodes |-> kept,
                          edges |-> {e \in all.edges : {e.from, e.to} \subseteq kept},
                          truncated |-> all.capped \/ kept # all.nodes]
  BY <1>1, NeighborhoodIs
<1> DEFINE A == b[depth - 1]
           B == b[depth]
           all == r[depth]
           kept == ApplyNodeLimit(all.nodes, c, limit)
           there == Within(g, c, depth)
           answer == concept_neighborhood(g, c, depth, limit, cap)
<1>4. /\ B \subseteq ConceptIds(g)
      /\ NoMore(g, A, B, c, all)
      /\ ~all.capped => NoLess(g, A, B, all)
  <2>1. /\ b[depth] \subseteq ConceptIds(g)
        /\ NoMore(g, Before(b, depth), b[depth], c, r[depth])
        /\ ~r[depth].capped => NoLess(g, Before(b, depth), b[depth], r[depth])
    BY <1>1, <1>2, <1>3, RoundsReach
  <2>2. Before(b, depth) = b[depth - 1]
    BY <1>1 DEF Before
  <2> QED BY <2>1, <2>2
<1>5. \A x : x \in there <=> \/ x \in B
                             \/ \E d \in A : \E t \in CategoriesOf(g, d) : x = Synthetic(t)
  BY <1>2
<1>6. /\ answer.nodes = kept
      /\ answer.edges = {e \in all.edges : {e.from, e.to} \subseteq kept}
      /\ answer.truncated = (all.capped \/ kept # all.nodes)
  BY <1>3
<1> HIDE DEF A, B, all, kept, there, answer
<1>7. all.nodes \subseteq there /\ c \in all.nodes
  BY <1>4, <1>5 DEF NoMore
<1>8. there \subseteq PossibleNodes
  <2>1. ASSUME NEW x \in B PROVE x \in PossibleNodes
    BY <1>4, PlainConcepts DEF Explorable, RowsKnown
  <2>2. ASSUME NEW d \in A, NEW t \in CategoriesOf(g, d) PROVE Synthetic(t) \in PossibleNodes
    <3>1. t \in DOMAIN g.sources
      BY DEF CategoriesOf, Beside
    <3> QED BY <3>1 DEF Explorable, NodesKnown
  <2> QED BY <1>5, <2>1, <2>2
<1>9. kept \subseteq all.nodes /\ c \in kept /\ Cardinality(kept) <= limit
  <2>1. all.nodes \in SUBSET PossibleNodes
    BY <1>7, <1>8
  <2> QED BY <1>1, <1>7, <2>1, NodeLimit DEF kept
<1>10. Ends(answer.edges) \subseteq answer.nodes
  BY <1>6 DEF Ends
<1>11. ASSUME ~answer.truncated PROVE answer.nodes = there
  <2>1. ~all.capped /\ kept = all.nodes
    BY <1>6, <1>11
  <2>2. NoLess(g, A, B, all)
    BY <1>4, <2>1
  <2>3. ASSUME NEW x \in there PROVE x \in all.nodes
    <3>1. CASE x \in B
      BY <2>2, <3>1 DEF NoLess
    <3>2. ASSUME NEW d \in A, NEW t \in CategoriesOf(g, d), x = Synthetic(t)
          PROVE  x \in all.nodes
      BY <2>2, <3>2 DEF NoLess
    <3> QED BY <1>5, <3>1, <3>2
  <2> QED BY <1>6, <1>7, <2>1, <2>3
<1>12. c \in answer.nodes /\ answer.nodes \subseteq there /\ Cardinality(answer.nodes) <= limit
  BY <1>6, <1>7, <1>9
<1> QED BY <1>10, <1>11, <1>12 DEF answer, there

\* A neighbourhood of a concept, asked for between builds, is never more than what
\* is there, within its limit and without loose edges, and says so if it is less:
\* over every sequence of builds, any depth, limit and cap
\* (skills/graph.py, concept_neighborhood).
THEOREM NeighbourhoodsAreExact == Spec => []NeighbourhoodIsExact
<1>1. ExplorerInv => NeighbourhoodIsExact
  <2> SUFFICES ASSUME ExplorerInv PROVE NeighbourhoodIsExact
    OBVIOUS
  <2>1. Explorable(graph)
    BY DEF ExplorerInv, RInv, Explorable
  <2> QED BY <2>1, AnswerIsExact DEF NeighbourhoodIsExact
<1> QED BY <1>1, InitExplorerInv, NextExplorerInv, PTL DEF Spec
=============================================================================
