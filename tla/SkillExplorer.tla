--------------------------- MODULE SkillExplorer ---------------------------
(***************************************************************************)
(* The read-only queries of the skill explorer: search, and the            *)
(* neighbourhood of a concept over both layers of the graph.               *)
(*                                                                         *)
(* A node is a concept, or stands for a source concept that none is mapped *)
(* to, a category.  A hop goes along a canonical edge, along a source edge *)
(* to another concept, or through a category to its members, of which at   *)
(* most member_cap are shown; limit bounds the nodes of the answer.        *)
(***************************************************************************)
EXTENDS SkillLinker

CONSTANTS
    LabelRank(_),   \* the order of the labels of nodes, and of their ids
    Depths, Limits, Caps    \* the arguments that NeighbourhoodIsExact tries

SearchThreshold == 20

\* The first n members of a set, in an order.
Foremost(S, n, before(_, _)) == {x \in S : Cardinality({y \in S : before(y, x)}) < n}

search_concepts(g, key, limit) ==
    LET exact(c) == <<c, key>> \in DOMAIN g.aliases
        score == TrgmScores(g, {key}, 0)
        found == {c \in DOMAIN score : exact(c) \/ score[c] >= SearchThreshold}
        before(c, d) == \/ exact(c) /\ ~exact(d)
                        \/ /\ exact(c) <=> exact(d)
                           /\ \/ score[c] > score[d]
                              \/ score[c] = score[d] /\ Rank(c) < Rank(d)
    IN  Foremost(found, limit, before)

-----------------------------------------------------------------------------
(***************************************************************************)
(* The neighbourhood.                                                      *)
(***************************************************************************)
\* The version of a source concept is not part of the node's id.
Synthetic(s) == <<"source", s[1], s[3]>>

IsSynthetic(node) == node[1] = "source"

ConceptsOf(g, s) == {m.concept : m \in {x \in g.mappings : x.source = s}}

\* The nodes that an answer may have.
Uris(version) == {r.uri : r \in EscoRows[version]}
                     \cup UNION {{r[1], r[2]} : r \in Broader[version] \cup Related[version]}

Externals == {Category(r.category) : r \in OnetFile}
                 \cup {Software(normalize_label(r.example)) : r \in OnetFile}

PossibleNodes ==
    PossibleConcepts
        \cup (UNION {{Synthetic(source_concept_id("esco", v, u)) : u \in Uris(v)} :
                         v \in EscoVersions})
        \cup {Synthetic(source_concept_id("onet", v, x)) : v \in OnetVersions, x \in Externals}

\* depth, limit and member_cap are at least 1.
ASSUME SkillExplorerConstants ==
    /\ IsFiniteSet(PossibleNodes)
    /\ \A n \in PossibleNodes : LabelRank(n) \in Nat
    /\ \A m, n \in PossibleNodes : LabelRank(m) = LabelRank(n) => m = n
    /\ Depths \cup Limits \cup Caps \subseteq Nat \ {0}

\* A source concept is shown as the concept it is mapped to, the first one if
\* there were several.
NodeOf(g, s) ==
    LET owners == ConceptsOf(g, s)
    IN  IF owners = {} THEN Synthetic(s)
        ELSE CHOOSE c \in owners : \A d \in owners : Rank(c) <= Rank(d)

Edge(from, to, predicate, layer) ==
    [from |-> from, to |-> to, predicate |-> predicate, layer |-> layer]

Touches(e, ids) == e.subject \in ids \/ e.object \in ids

Ends(edges) == UNION {{e.from, e.to} : e \in edges}

CanonicalEdges(g, frontier) ==
    {Edge(e.subject, e.object, "IS_A", "canonical") :
        e \in {x \in g.conceptEdges : Touches(x, frontier)}}

SourcesOf(g, frontier) == {m.source : m \in {x \in g.mappings : x.concept \in frontier}}

SourceEdgesAt(g, frontier) ==
    {e \in g.sourceEdges : Touches(e, SourcesOf(g, frontier))}

SourceLayer(g, frontier) ==
    {Edge(NodeOf(g, e.subject), NodeOf(g, e.object), e.predicate, "source") :
        e \in SourceEdgesAt(g, frontier)}

\* The source concepts without a concept that a source edge leads to.
CategoriesAt(g, frontier) ==
    {s \in UNION {{e.subject, e.object} : e \in SourceEdgesAt(g, frontier)} :
        ConceptsOf(g, s) = {}}

\* The other ends of the edges of a category, unless they are categories of the
\* same round.
Members(g, category, round) ==
    LET others == (UNION {{e.subject, e.object} :
                            e \in {x \in g.sourceEdges : Touches(x, {category})}}) \ round
    IN  {NodeOf(g, s) : s \in {o \in others : ConceptsOf(g, o) # {}}}

CapMembers(members, selected, cap) ==
    IF Cardinality(members) <= cap THEN members
    ELSE LET own == members \cap {selected}
             before(c, d) == LabelRank(c) < LabelRank(d)
         IN  own \cup Foremost(members \ own, cap - Cardinality(own), before)

\* The edge of a member leads to the category, whichever way the source edge goes.
MemberEdges(g, shown, category) ==
    LET edge(c) == CHOOSE e \in g.sourceEdges :
            Touches(e, {category}) /\ c \in {NodeOf(g, e.subject), NodeOf(g, e.object)}
    IN  {Edge(c, Synthetic(category), edge(c).predicate, "source") : c \in shown}

\* One round: what the frontier is connected to, and the members of the
\* categories that no earlier round has seen.
Expand(g, selected, cap, r) ==
    LET found == CanonicalEdges(g, r.frontier) \cup SourceLayer(g, r.frontier)
        fresh == CategoriesAt(g, r.frontier) \ r.categories
        shown == [s \in fresh |-> CapMembers(Members(g, s, fresh), selected, cap)]
        members == UNION {shown[s] : s \in fresh}
        next == ({n \in Ends(found) : ~IsSynthetic(n)} \cup members) \ r.seen
    IN  [nodes |-> r.nodes \cup Ends(found) \cup members,
         edges |-> r.edges \cup found
                       \cup UNION {MemberEdges(g, shown[s], s) : s \in fresh},
         frontier |-> next,
         seen |-> r.seen \cup next,
         categories |-> r.categories \cup fresh,
         capped |-> r.capped \/ \E s \in fresh : Cardinality(Members(g, s, fresh)) > cap]

\* A mutant: the selected concept is one of many.
ApplyNodeLimitToAll(nodes, selected, limit) ==
    LET before(m, n) == LabelRank(m) < LabelRank(n) IN Foremost(nodes, limit, before)

\* The selected concept, then concepts, then categories, by label.
ApplyNodeLimit(nodes, selected, limit) ==
    IF Cardinality(nodes) <= limit THEN nodes
    ELSE LET before(m, n) == \/ ~IsSynthetic(m) /\ IsSynthetic(n)
                             \/ /\ IsSynthetic(m) <=> IsSynthetic(n)
                                /\ LabelRank(m) < LabelRank(n)
         IN  {selected} \cup Foremost(nodes \ {selected}, limit - 1, before)

concept_neighborhood(g, selected, depth, limit, cap) ==
    LET start == [nodes |-> {selected}, edges |-> {}, frontier |-> {selected},
                  seen |-> {selected}, categories |-> {}, capped |-> FALSE]
        round[n \in 0..depth] ==
            IF n = 0 THEN start ELSE Expand(g, selected, cap, round[n - 1])
        all == round[depth]
        kept == ApplyNodeLimit(all.nodes, selected, limit)
    IN  [nodes |-> kept,
         edges |-> {e \in all.edges : {e.from, e.to} \subseteq kept},
         truncated |-> all.capped \/ kept # all.nodes]

-----------------------------------------------------------------------------
(***************************************************************************)
(* Properties.                                                             *)
(***************************************************************************)
\* What is around a concept, without rounds: its source concepts' neighbours,
\* one hop away directly or through a common category.
Beside(g, s) == {t \in DOMAIN g.sources :
                    \E e \in g.sourceEdges : {e.subject, e.object} = {s, t}}

CategoriesOf(g, c) ==
    {t \in UNION {Beside(g, s) : s \in SourcesOf(g, {c})} : ConceptsOf(g, t) = {}}

Neighbours(g, c) ==
    {d \in ConceptIds(g) :
        \/ \E e \in g.conceptEdges : {e.subject, e.object} = {c, d}
        \/ \E s \in SourcesOf(g, {c}), t \in SourcesOf(g, {d}) : t \in Beside(g, s)
        \/ \E t \in CategoriesOf(g, c) : \E s \in SourcesOf(g, {d}) : t \in Beside(g, s)}

Within(g, c, depth) ==
    LET ball[n \in 0..depth] ==
            IF n = 0 THEN {c} ELSE ball[n - 1] \cup UNION {Neighbours(g, d) : d \in ball[n - 1]}
    IN  ball[depth] \cup {Synthetic(t) :
            t \in UNION {CategoriesOf(g, d) : d \in ball[depth - 1]}}

\* The answer is never more than what is there, has the selected concept, stays
\* within the limit, has no edge that hangs in the air; and if it leaves
\* anything out it says so.
NeighbourhoodIsExact == Settled =>
    \A c \in ConceptIds(graph), depth \in Depths :
      LET there == Within(graph, c, depth) IN
      \A limit \in Limits, cap \in Caps :
        LET answer == concept_neighborhood(graph, c, depth, limit, cap)
        IN  /\ c \in answer.nodes
            /\ answer.nodes \subseteq there
            /\ Cardinality(answer.nodes) <= limit
            /\ Ends(answer.edges) \subseteq answer.nodes
            /\ ~answer.truncated => answer.nodes = there

\* Typing a name that links finds the concept it links to, unless more concepts
\* than the limit own the name.
SearchFindsLinks == Settled =>
    \A k \in Keys, limit \in Limits :
        LET found == search_concepts(graph, k, limit)
        IN  Cardinality(AliasOwners(graph, k)) <= limit => ExactLink(graph, k) \in found
=============================================================================
