-------------------------- MODULE ResumeRefinement --------------------------
(***************************************************************************)
(* The resume loop implements ResumeContract as long as a match is clicked *)
(* once and no post times out over a running handler; crashes, 5xx answers *)
(* and redeliveries are allowed.                                           *)
(***************************************************************************)
EXTENDS ResumeLoop

\* The phase of a match, read off its rows of the generations table.
Phase(m) ==
    LET has(attempt, status) ==
            \E g \in GenerationsOf(m) :
                generations[g].attempt = attempt /\ generations[g].status = status
    IN  IF has(1, "passed") \/ has(2, "passed") THEN "passed"
        ELSE IF has(1, "needs_review") \/ has(2, "needs_review") THEN "review"
        ELSE IF has(2, "null") THEN "draft2"
        ELSE IF has(1, "failed") THEN "rejected"
        ELSE IF has(1, "null") THEN "draft1"
        ELSE "none"

Contract == INSTANCE ResumeContract WITH phase <- [m \in Matches |-> Phase(m)]

\* generate-resume and verify-resume together: one draft, one verdict, one
\* rewrite after a rejection, a final verdict, for every match.
ImplementsContract == Contract!Spec
=============================================================================
