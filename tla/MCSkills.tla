------------------------------ MODULE MCSkills ------------------------------
(***************************************************************************)
(* A small ESCO bundle and a small O*NET file.  The bundle has a skill     *)
(* with a parenthesis, a group, an alternative label that two skills       *)
(* claim, and a relation to a row it lacks; the file has a technology for  *)
(* every way a reconciliation can end.                                     *)
(***************************************************************************)
EXTENDS SkillExplorer

Row(uri, name, alts, kind) == [uri |-> uri, name |-> name, alts |-> alts, kind |-> kind]

Python == <<"python">>
Sql == <<"sql">>
Db == <<"db">>
Aws == <<"aws">>

MCEscoRows == [v \in {"1.2.1"} |->
    {Row("u1", [words |-> <<"python", "programming">>, paren |-> 1, caps |-> FALSE],
         {}, "skill"),
     Row("u2", Label(Sql), {Label(Db)}, "knowledge"),
     Row("u3", Label(<<"ict">>), {}, "group"),
     Row("u4", Label(<<"storage">>), {Label(Db)}, "skill")}]

MCBroader == [v \in {"1.2.1"} |-> {<<"u1", "u3">>, <<"u2", "u4">>, <<"u4", "u9">>}]
MCRelated == [v \in {"1.2.1"} |-> {<<"u1", "u2">>}]
MCOverrideFiles == {<<>>, <<[uri |-> "u4", label |-> Label(Aws)]>>}

MCAcronym == <<"amazon", "web", "services">> :> "aws"

Cloud == [words |-> <<"amazon", "web", "services", "aws", "software">>, paren |-> 0,
          caps |-> TRUE]
Sqls == <<"sqls">>
Pandas == <<"pandas">>
Docker == <<"docker">>
DockerSoftware == <<"docker", "software">>

MCOrder == <<Cloud.words, Python, Db, Sqls, Sql, Pandas, DockerSoftware, Docker>>
MCCategory(k) == IF k \in {Sql, Sqls, Db} THEN "c1" ELSE "c2"
MCOnetFile == {[example |-> Cloud, category |-> "c2"], [example |-> Label(Sql), category |-> "c2"]}
    \cup {[example |-> Label(k), category |-> MCCategory(k)] : k \in ToSet(MCOrder) \ {Cloud.words}}

MCSimilarity(k, l) ==
    IF k = l THEN 100 ELSE IF {k, l} = {Sql, Sqls} THEN 93 ELSE 0

MCCosine(k, l) ==
    IF k = l THEN 100
    ELSE IF {k, l} = {<<"python", "programming">>, Pandas} THEN 86 ELSE 40

Founded(key) == <<"onet", <<"software", key>>>>
Concepts == <<<<"esco", "u2">>, <<"esco", "u1">>, Founded(Cloud.words), Founded(Pandas),
              Founded(DockerSoftware), <<"esco", "u4">>, Founded(Docker), Founded(Sqls),
              Founded(Db), Founded(Python), Founded(Sql)>>
MCRank(c) == CHOOSE i \in DOMAIN Concepts : Concepts[i] = c

\* Labels are in another order than ids, and categories come last.
MCUris == <<"u3", "u9", "u1", "u2", "u4">>
MCExternals == <<Category("c1"), Category("c2")>> \o [i \in DOMAIN MCOrder |-> Software(MCOrder[i])]
MCLabelRank(n) ==
    CASE n[1] # "source" -> 20 - MCRank(n)
      [] n[1] = "source" /\ n[2] = "onet" -> 20 + CHOOSE i \in DOMAIN MCExternals : MCExternals[i] = n[3]
      [] n[1] = "source" /\ n[2] = "esco" -> 40 + CHOOSE i \in DOMAIN MCUris : MCUris[i] = n[3]
=============================================================================
