---------------------------- MODULE SkillLinker ----------------------------
(***************************************************************************)
(* Linking a span of text to a concept of the skill graph: the linker over *)
(* the database (an exact alias, then trigrams, then vectors), the linker  *)
(* over a snapshot in memory, the report both make of some spans, and the  *)
(* scan of free text that the fabrication checks rely on.                  *)
(*                                                                         *)
(* Everything here is a function of a graph g.  A span is a sequence of    *)
(* keys, the fragments that commas and conjunctions separate.  Left out:   *)
(* the order of the ids in a report, and the spans it lists as unlinked.   *)
(***************************************************************************)
EXTENDS SkillGraph

NoLink == <<>>

-----------------------------------------------------------------------------
(***************************************************************************)
(* The linker over the database.                                           *)
(***************************************************************************)
TrgmLinkThreshold == 90

\* high confidence, threshold and margin, by the provider of the vectors
LinkParams(model) ==
    IF model = "gemini" THEN [high |-> 90, threshold |-> 85, margin |-> 5]
    ELSE [high |-> 72, threshold |-> 72, margin |-> 0]

\* Vectors are trusted when all that are stored come from the active provider.
VectorStage(g, provider) ==
    {g.concepts[c].model : c \in ConceptIds(g)} \ {NoModel} = {provider}

ExactLink(g, key) ==
    LET owners == AliasOwners(g, key)
        priority(c) == AliasPriority[g.aliases[<<c, key>>].type]
    IN  IF owners = {} THEN NoLink
        ELSE CHOOSE c \in owners : \A d \in owners :
                 \/ priority(c) < priority(d)
                 \/ priority(c) = priority(d) /\ Rank(c) <= Rank(d)

TrgmLink(g, key) ==
    LET score == TrgmScores(g, {key}, TrgmLinkThreshold)
    IN  IF DOMAIN score = {} THEN NoLink ELSE Best(score)

VectorLink(g, provider, key) ==
    LET score == SemanticScores(g, provider, key)
        p == LinkParams(provider)
    IN  IF VectorStage(g, provider) /\ Convincing(score, p.high, p.threshold, p.margin)
        THEN Best(score) ELSE NoLink

PgLinkSpan(g, provider, key) ==
    LET exact == ExactLink(g, key)
        fuzzy == TrgmLink(g, key)
    IN  IF exact # NoLink THEN exact
        ELSE IF fuzzy # NoLink THEN fuzzy ELSE VectorLink(g, provider, key)

-----------------------------------------------------------------------------
(***************************************************************************)
(* The linker over a snapshot, load_skill_records: names and aliases that  *)
(* are not derived, the first concept in the order of ids keeps a key, and *)
(* bare forms are derived anew.                                            *)
(***************************************************************************)
RecordLabels(g, c) ==
    {Label(g.concepts[c].name)}
        \cup {g.aliases[a].label : a \in {x \in DOMAIN g.aliases :
                  x[1] = c /\ g.aliases[x].type # "derived"}}

LabelledBy(g, key) ==
    {c \in ConceptIds(g) : key \in {normalize_label(l) : l \in RecordLabels(g, c)}}

\* Concepts with a label of which the key is the bare form, if it is no label.
BareOwners(g, key) ==
    IF LabelledBy(g, key) # {} THEN {}
    ELSE {c \in ConceptIds(g) : \E l \in RecordLabels(g, c) : key \in DerivedKeys(l)}

MemoryExact(g, key) ==
    LET owners == LabelledBy(g, key)
        bare == BareOwners(g, key)
    IN  IF owners # {} THEN CHOOSE c \in owners : \A d \in owners : Rank(c) <= Rank(d)
        ELSE IF Cardinality(bare) = 1 THEN CHOOSE c \in bare : TRUE ELSE NoLink

-----------------------------------------------------------------------------
(***************************************************************************)
(* Spans.                                                                  *)
(***************************************************************************)
\* The whole span and its fragments.
expand_compound_span(span) == ({FlattenSeq(span)} \cup ToSet(span)) \ {<<>>}

Fragments(spans) == UNION {expand_compound_span(span) : span \in spans}

\* The report of a linker: the concepts that the fragments of the spans link to.
link_span_report(link(_), spans) == {link(f) : f \in Fragments(spans)} \ {NoLink}

PgLinkReport(g, provider, spans) ==
    LET link(key) == PgLinkSpan(g, provider, key) IN link_span_report(link, spans)

-----------------------------------------------------------------------------
(***************************************************************************)
(* Scanning free text: every run of its words that is an alias.            *)
(***************************************************************************)
ScanMaxNgram == 6

Ngrams(words) ==
    {SubSeq(words, i, j) : i \in DOMAIN words, j \in DOMAIN words} \ {<<>>}

\* A mutant: derived forms are scanned for too.
PgScanDerived(g, words) ==
    {a[1] : a \in {x \in DOMAIN g.aliases :
                       x[2] \in Ngrams(words) \ Ambiguous /\ Len(x[2]) <= ScanMaxNgram}}

\* A mutant: ambiguous words are scanned for too.
PgScanAmbiguous(g, words) ==
    {a[1] : a \in {x \in DOMAIN g.aliases :
                       /\ x[2] \in Ngrams(words)
                       /\ Len(x[2]) <= ScanMaxNgram
                       /\ g.aliases[x].type # "derived"}}

PgScan(g, words) ==
    LET runs == Ngrams(words) \ Ambiguous
    IN  {a[1] : a \in {x \in DOMAIN g.aliases :
                           /\ x[2] \in runs
                           /\ Len(x[2]) <= ScanMaxNgram
                           /\ g.aliases[x].type # "derived"}}

MemoryScan(g, words) ==
    {MemoryExact(g, k) : k \in {n \in Ngrams(words) \ Ambiguous : LabelledBy(g, n) # {}}}

-----------------------------------------------------------------------------
(***************************************************************************)
(* Properties.                                                             *)
(***************************************************************************)
Keys == {a[2] : a \in DOMAIN graph.aliases}

\* The committed graph changes only when a build ends.
Settled == build.pc = "idle"

\* The plan has a row for the key that the committed graph has not.
Brings(plan, key) ==
    \E a \in DOMAIN EscoAliases(plan) :
        /\ a[2] = key
        /\ a \in DOMAIN graph.aliases => graph.aliases[a] # EscoAliases(plan)[a]

\* A build never moves the exact link of a span, unless its bundle or its overrides
\* say something new of the span: no technology takes a name away, and what was
\* linked before and what is linked after a build agree.
LinksMoveOnlyByBundles ==
    [][\A k \in Keys : ExactLink(graph', k) # ExactLink(graph, k) => Brings(build.plan, k)]_vars

\* A key has at most one concept, in any form, and is an alias of it.
Uncontested(key) ==
    /\ \A c, d \in AliasOwners(graph, key) : c = d
    /\ NameOwners(graph, key) \subseteq AliasOwners(graph, key)

OnlyDerived(key) ==
    \A c \in AliasOwners(graph, key) : graph.aliases[<<c, key>>].type = "derived"

\* The two linkers agree where nothing is contested.  They do on every key that is
\* a label; a form that was derived only links alike if the labels that are stored
\* still derive it, and for one concept.  They do on what they find in a text, but
\* for labels that are longer than the words the database is asked for.
LinkersAgree == Settled =>
    /\ \A k \in Keys :
           /\ Uncontested(k)
           /\ OnlyDerived(k) => BareOwners(graph, k) = AliasOwners(graph, k)
           => MemoryExact(graph, k) = ExactLink(graph, k)
    /\ \A text \in Keys \cup {k \o l : k \in Keys, l \in Keys} :
           (\A n \in Ngrams(text) :
                Uncontested(n) /\ (Len(n) <= ScanMaxNgram \/ LabelledBy(graph, n) = {}))
           => PgScan(graph, text) = MemoryScan(graph, text)

\* After a build with vectors, linking with the same provider has its vector
\* stage: a build restores it, whatever the provider was before.
RebuildRestoresVectors ==
    last # <<>> => (~last.skipOnet /\ last.model # NoModel => VectorStage(graph, last.model))
=============================================================================
