---------------------------- MODULE SkillLabels ----------------------------
(***************************************************************************)
(* Labels of skills, and what the importers and the linkers derive from    *)
(* them: the key a label is looked up by, the bare form of a label with a  *)
(* trailing parenthesis, the names of an O*NET technology, and the alias   *)
(* rows of one ESCO bundle.                                                *)
(*                                                                         *)
(* A label is a sequence of words, of which the last ones may be in        *)
(* parentheses and the last may be in capitals.  A key is the sequence of  *)
(* its words: case and punctuation are gone.                               *)
(***************************************************************************)
EXTENDS Naturals, FiniteSets, SequencesExt

CONSTANTS
    Acronym,    \* the acronym of a sequence of words, for those that have one
    Ambiguous   \* AMBIGUOUS_SCAN_TERMS, and the keys of at most two characters

-----------------------------------------------------------------------------
(***************************************************************************)
(* Normalisation.                                                          *)
(***************************************************************************)
Label(words) == [words |-> words, paren |-> 0, caps |-> FALSE]

normalize_label(label) == label.words

\* "python (computer programming)" without its parenthesis, <<>> for a label
\* that has none or is nothing else.
parenthetical_bare_label(label) ==
    IF label.paren \in 1..(Len(label.words) - 1)
    THEN SubSeq(label.words, 1, Len(label.words) - label.paren)
    ELSE <<>>

\* The key of the bare form, unless it is too ambiguous to link by.
DerivedKeys(label) == {parenthetical_bare_label(label)} \ ({<<>>} \cup Ambiguous)

-----------------------------------------------------------------------------
(***************************************************************************)
(* Names of O*NET technologies, from a source label.                       *)
(***************************************************************************)
WithoutSuffix(label) ==
    IF Len(label.words) > 1 /\ Last(label.words) = "software"
    THEN Front(label.words) ELSE label.words

\* The label ends in the acronym of the words before it: "Amazon Web Services
\* AWS software".
NamesAcronym(label) ==
    LET words == WithoutSuffix(label) IN
    /\ label.caps
    /\ Len(words) > 1
    /\ Front(words) \in DOMAIN Acronym
    /\ Acronym[Front(words)] = Last(words)

canonical_technology_name(label) ==
    IF NamesAcronym(label) THEN Front(WithoutSuffix(label)) ELSE WithoutSuffix(label)

technology_aliases(label) ==
    {canonical_technology_name(label), normalize_label(label), WithoutSuffix(label)}
        \cup (IF NamesAcronym(label) THEN {<<Last(WithoutSuffix(label))>>} ELSE {})

-----------------------------------------------------------------------------
(***************************************************************************)
(* The alias rows of an ESCO bundle.  An entry is a claim of a row on a    *)
(* label; two rows may claim a key by their own labels, never by a curated *)
(* or a derived one.                                                       *)
(***************************************************************************)
AliasPriority == [preferred |-> 0, curated |-> 1, alt |-> 2, derived |-> 3]

Claim(uri, type, label) == [uri |-> uri, type |-> type, label |-> label]

OwnLabels(rows) ==
    UNION {{Claim(r.uri, "preferred", r.name)}
               \cup {Claim(r.uri, "alt", l) : l \in r.alts} : r \in rows}

Claimants(entries, key) == {e.uri : e \in {x \in entries : normalize_label(x.label) = key}}

\* overrides is a sequence of [uri, label], in the order of the file.  One counts
\* if its row is in the bundle and no other row has claimed the key, by a label of
\* its own or, where none has, by being first in the file.
AddCurated(rows, entries, overrides) ==
    LET key(i) == normalize_label(overrides[i].label)
        known == {i \in DOMAIN overrides : overrides[i].uri \in {r.uri : r \in rows}}
        first(k) == overrides[Min({i \in known : key(i) = k})].uri
        owners(k) == IF Claimants(entries, k) = {} THEN {first(k)} ELSE Claimants(entries, k)
    IN  entries \cup {Claim(overrides[i].uri, "curated", overrides[i].label) :
                          i \in {x \in known : owners(key(x)) = {overrides[x].uri}}}

DerivedEntries(entries) ==
    LET candidates == UNION {{Claim(e.uri, "derived", Label(k)) :
                                  k \in {d \in DerivedKeys(e.label) :
                                             Claimants(entries, d) = {}}} : e \in entries}
    IN  {c \in candidates : Claimants(candidates, normalize_label(c.label)) = {c.uri}}

\* One row per claimant and key, of the claim that counts most.
Dedupe(entries) ==
    LET same(p) == {e \in entries : e.uri = p[1] /\ normalize_label(e.label) = p[2]} IN
    [p \in {<<e.uri, normalize_label(e.label)>> : e \in entries} |->
        CHOOSE e \in same(p) :
            \A f \in same(p) : AliasPriority[e.type] <= AliasPriority[f.type]]

BuildAliasRows(rows, overrides) ==
    LET entries == AddCurated(rows, OwnLabels(rows), overrides)
    IN  Dedupe(entries \cup DerivedEntries(entries))
=============================================================================
