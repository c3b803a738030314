---------------------------- MODULE Fabrication ----------------------------
(***************************************************************************)
(* Stage 1 of verify-resume: the employers, titles, dates, numbers and     *)
(* skills of a generated resume are compared with the work history and the *)
(* linked skills of the profile, without an LLM.                           *)
(*                                                                         *)
(* A resume has a document, [mentions, numbers, words], and the claim map  *)
(* that the generator returned with it: lists of names, and claims of a    *)
(* kind.  An entry of a history is [employer, title, start, end, numbers]; *)
(* names are sequences of words, a date is [month, year] with 0 for a part *)
(* that is not given.  How a date or a number is written is left out.      *)
(***************************************************************************)
EXTENDS SkillLinker

CONSTANTS
    Histories,      \* work histories that are checked against
    Inventions,     \* names and numbers that none of them has, [name, number]
    Ranges,         \* date ranges, true and false, that a resume may be given
    Prose           \* ordinary words of a resume

CorpSuffixes == {"incorporated", "corporation", "company", "inc", "llc", "ltd", "corp", "co"}

-----------------------------------------------------------------------------
(***************************************************************************)
(* What the source holds.                                                  *)
(***************************************************************************)
Date(month, year) == [month |-> month, year |-> year]
Present == Date(0, 0)
YearOnly(date) == Date(0, date.year)
Dates == [month : Nat, year : Nat]

\* "Acme Inc." and "Acme" are one employer.
normalize_employer(name) ==
    IF name # <<>> /\ Last(name) \in CorpSuffixes THEN Front(name) ELSE name

SourceEmployers(history) == {normalize_employer(e.employer) : e \in history}
SourceTitles(history) == {e.title : e \in history}

\* Texts of dates, as sequences of dates: every date, its year, every range.
SourceDates(history) ==
    UNION {{<<e.start>>, <<e.end>>, <<e.start, e.end>>}
               \cup {<<YearOnly(d)>> : d \in {e.start, e.end} \ {Present}} : e \in history}

SourceNumbers(history) ==
    UNION {e.numbers \cup ({e.start.year, e.end.year} \ {0}) : e \in history}

-----------------------------------------------------------------------------
(***************************************************************************)
(* What the resume claims.                                                 *)
(***************************************************************************)
ClaimKinds == {"employer", "title", "date_range", "skill"}
NoClaims == [kind \in ClaimKinds |-> {}]

\* A mutant: the claims are not looked at, only the lists.
ClaimedTitlesListed(resume) == resume.map.titles

ClaimedTitles(resume) == resume.map.titles \cup resume.map.claims["title"]

\* The document is searched for employers only if the map names none.
ClaimedEmployers(resume) ==
    LET claimed == resume.map.employers \cup resume.map.claims["employer"]
    IN  IF claimed = {} THEN resume.doc.mentions ELSE claimed

ClaimedRanges(resume) == resume.map.dateRanges \cup resume.map.claims["date_range"]

\* Skills by id, by the spans of claims, and by a scan of the document.
OutputSkills(g, provider, resume) ==
    resume.map.skillIds \cup resume.map.claimIds
        \cup PgLinkReport(g, provider, resume.map.claims["skill"])
        \cup PgScan(g, resume.doc.words)

-----------------------------------------------------------------------------
(***************************************************************************)
(* The checks.  A range passes if its text, or the first year in it, or    *)
(* each of its dates is known.                                             *)
(***************************************************************************)
FirstYear(range) ==
    LET dated == {i \in DOMAIN range : range[i].year # 0}
    IN  IF dated = {} THEN <<>> ELSE <<YearOnly(range[Min(dated)])>>

DateInSource(range, source) ==
    \/ range \in source
    \/ FirstYear(range) \in source
    \/ \A d \in ToSet(range) : <<d>> \in source

run_deterministic_checks(g, provider, resume, history, skillIds) ==
    {code \in {"unknown_employer", "unknown_title", "unknown_date_range",
               "fabricated_number", "out_of_set_skill"} :
        \/ /\ code = "unknown_employer"
           /\ \E e \in ClaimedEmployers(resume) :
                  normalize_employer(e) \notin SourceEmployers(history)
        \/ /\ code = "unknown_title"
           /\ \E t \in ClaimedTitles(resume) : t \notin SourceTitles(history)
        \/ /\ code = "unknown_date_range"
           /\ \E r \in ClaimedRanges(resume) : ~DateInSource(r, SourceDates(history))
        \/ /\ code = "fabricated_number"
           /\ \E n \in resume.doc.numbers : n \notin SourceNumbers(history)
        \/ /\ code = "out_of_set_skill"
           /\ \E c \in OutputSkills(g, provider, resume) : c \notin skillIds}

ASSUME FabricationConstants ==
    /\ Prose \in Names
    /\ \A range \in Ranges :
           range \in Seq(Dates) /\ \E i \in DOMAIN range : range[i].year # 0
    /\ \A fact \in Inventions, history \in Histories : \A e \in history :
           /\ normalize_employer(e.employer) # normalize_employer(fact.name)
           /\ e.title # fact.name
           /\ fact.number \notin e.numbers \cup {e.start.year, e.end.year}

-----------------------------------------------------------------------------
(***************************************************************************)
(* Resumes.                                                                *)
(***************************************************************************)
SkillName(g, c) == g.concepts[c].name

\* Names joined by prose.
Sentence(names) == Prose \o FlattenSeq([i \in DOMAIN names |-> names[i] \o Prose])

\* The names of the skills among the ids of a profile.
NamesOf(g, ids) == {SkillName(g, c) : c \in ids \cap ConceptIds(g)}

\* A resume that says what the history says, a suffix of an employer or a month
\* aside, and names the skills of the profile; every fact is in the map.
HonestResume(g, history, ids) ==
    [doc |-> [mentions |-> {normalize_employer(e.employer) : e \in history},
              numbers |-> SourceNumbers(history),
              words |-> Sentence(SetToSeq(NamesOf(g, ids)))],
     map |-> [employers |-> SourceEmployers(history),
              titles |-> SourceTitles(history),
              dateRanges |-> {<<e.start, e.end>> : e \in history},
              skillIds |-> ids,
              claimIds |-> ids,
              claims |-> [NoClaims EXCEPT
                  !["employer"] = {e.employer : e \in history},
                  !["title"] = SourceTitles(history),
                  !["date_range"] = {<<YearOnly(e.start), YearOnly(e.end)>> : e \in history},
                  !["skill"] = {<<name>> : name \in NamesOf(g, ids)}]]]

\* The ways in which a fact that the source lacks gets into a resume, with the
\* code that each calls for: in a list, in a claim, or in the document alone.
PlantedFacts(resume, fact) ==
    {<<"unknown_employer", [resume EXCEPT !.map.employers = @ \cup {fact.name}]>>,
     <<"unknown_employer", [resume EXCEPT !.map.claims["employer"] = @ \cup {fact.name}]>>,
     <<"unknown_employer", [resume EXCEPT !.map.claims["employer"] = {}, !.map.employers = {},
                                          !.doc.mentions = @ \cup {fact.name}]>>,
     <<"unknown_title", [resume EXCEPT !.map.titles = @ \cup {fact.name}]>>,
     <<"unknown_title", [resume EXCEPT !.map.claims["title"] = @ \cup {fact.name}]>>,
     <<"fabricated_number", [resume EXCEPT !.doc.numbers = @ \cup {fact.number}]>>}

\* A date range that is added, in a list or in a claim.
WithRange(resume, range) ==
    {[resume EXCEPT !.map.dateRanges = @ \cup {range}],
     [resume EXCEPT !.map.claims["date_range"] = @ \cup {range}]}

\* A skill that is not in the profile: by its id, by a name that no skill of the
\* profile has, or by a name of its own in the text, short enough to be scanned for.
PlantedSkills(g, resume, ids, c) ==
    LET name == SkillName(g, c)
        owners == AliasOwners(g, name)
    IN  {<<"out_of_set_skill", [resume EXCEPT !.map.skillIds = @ \cup {c}]>>}
            \cup {<<"out_of_set_skill", [resume EXCEPT !.map.claims["skill"] = @ \cup {<<n>>}]>> :
                      n \in {x \in {name} : owners # {} /\ owners \cap ids = {}}}
            \cup {<<"out_of_set_skill", [resume EXCEPT !.doc.words = @ \o n \o Prose]>> :
                      n \in {x \in {name} \ Ambiguous :
                                 c \in owners /\ Len(x) <= ScanMaxNgram}}

Planted(g, resume, ids) ==
    (UNION {PlantedFacts(resume, fact) : fact \in Inventions})
        \cup (UNION {PlantedSkills(g, resume, ids, c) : c \in ConceptIds(g) \ ids})
=============================================================================
