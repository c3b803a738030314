----------------------------- MODULE MCSkillIds -----------------------------
(***************************************************************************)
(* A small bundle and file; a job and a profile from before the graph, a   *)
(* job and a profile that are new.  The word "go" is a skill and prose,    *)
(* "programming" a name of sql and part of one that two concepts have.     *)
(***************************************************************************)
EXTENDS Feed

Row(uri, name, alts, kind) == [uri |-> uri, name |-> name, alts |-> alts, kind |-> kind]

Python == <<"python">>
Sql == <<"sql">>
Go == <<"go">>
Docker == <<"docker">>
Mysql == <<"mysql">>

MCEscoRows == [v \in {"1.2.1"} |->
    {Row("u1", [words |-> <<"python", "programming">>, paren |-> 1, caps |-> FALSE],
         {}, "skill"),
     Row("u2", Label(Sql), {Label(<<"programming">>)}, "knowledge"),
     Row("u3", Label(Go), {}, "skill"),
     Row("u4", Label(<<"python", "programming">>), {}, "skill")}]
MCNoRelations == [v \in {"1.2.1"} |-> {}]
MCOverrides == {<<>>}
MCOrder == <<Python, Docker, Mysql>>
MCOnetFile == {[example |-> Label(k), category |-> "c1"] : k \in ToSet(MCOrder)}
MCNoAcronym == <<>>
MCSimilarity(k, l) == IF k = l THEN 100 ELSE 0
MCCosine(k, l) == 0

Founded(key) == <<"onet", <<"software", key>>>>
Concepts == <<Founded(Mysql), <<"esco", "u2">>, <<"esco", "u4">>, <<"esco", "u1">>,
              Founded(Docker), <<"esco", "u3">>, Founded(Python)>>
MCRank(c) == CHOOSE i \in DOMAIN Concepts : Concepts[i] = c

MCSeedLabels == Python :> <<Python, <<"cpython">>>> @@ Docker :> <<Docker, <<"containers">>>>
                @@ <<"mentoring">> :> <<<<"mentoring">>>>

MCJobIds == "j1" :> {<<"uri", "u2">>, <<"seed", Python>>, <<"uri", "gone">>, <<"uri", "u1">>}
MCProfileIds == "a" :> {<<"uri", "u1">>, <<"seed", Mysql>>}
MCJobSpans == {<<<<Sql, Docker>>>>}
MCResumeSpans == {<<<<Python>>, <<<<"containers">>>>>>, <<<<<<"some">>>>, <<<<"mysql", "go">>>>>>}
MCPayloads == {{<<"seed", Docker>>, <<"seed", Go>>}}
MCSiblings == {{Sql, Mysql}}
MCAmbiguous == {Go}
MCSeedSlugs == DOMAIN MCSeedLabels
MCProse == <<"go">>

MCHistories == {
    {[employer |-> <<"acme", "inc">>, title |-> <<"engineer">>, start |-> Date(3, 2019),
      end |-> Date(0, 2021), numbers |-> {40}],
     [employer |-> <<"initech">>, title |-> <<"lead">>, start |-> Date(0, 2022),
      end |-> Present, numbers |-> {7}]}}
MCInventions == {[name |-> <<"globex">>, number |-> 41]}

\* The first one is not of the history, the second is but in its first year.
MCRanges == {<<Date(0, 2016), Date(0, 2021)>>, <<Date(3, 2019), Date(0, 2023)>>,
             <<Present, Date(5, 2018)>>}

MCViewed == {[action |-> "viewed", detail |-> "yes"]}
MCUiEvents == MCViewed \cup {[action |-> "outcome", detail |-> "rejected"]}

\* The bundle has no relations: that it comes with them makes no difference.  A job
\* is matched again, and the feed is used, once the builds are over, the feed once
\* every job is extracted, drafts apart from events and after the last match.  The
\* feed writes nothing that the others read.
Over == builds = MaxBuilds /\ build.pc = "idle"

Bounds ==
    /\ build'.pc = "esco" => ~build'.plan.broader
    /\ matches # <<>> /\ cycle' # NoRow => Over
    /\ feedVars' # feedVars =>
           Over /\ backfill.pc = "idle" /\ cycle = NoRow /\ \A j \in Jobs : jobs[j] # None
    /\ drafts' # drafts => events = <<>> /\ Len(matches) = MaxMatches
    /\ events' # events => drafts = <<>>

MCSpec == FeedInit /\ [][FeedNext /\ Calm /\ Bounds]_everything

\* Without the care of Calm.
MCRaceSpec == FeedInit /\ [][FeedNext /\ Bounds]_everything
=============================================================================
