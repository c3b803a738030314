--------------------------- MODULE ResumeContract ---------------------------
(***************************************************************************)
(* What the resume loop promises for each match: a draft is judged by the  *)
(* verify graph; a rejected first draft is rewritten exactly once; a       *)
(* passed resume and one left to a human are final.                        *)
(***************************************************************************)
CONSTANT Matches
VARIABLE phase

Phases == {"none", "draft1", "rejected", "draft2", "passed", "review"}

Init == phase = [m \in Matches |-> "none"]

Move(m, from, to) ==
    /\ phase[m] = from
    /\ phase' = [phase EXCEPT ![m] = to]

\* generate-resume, first attempt.
Draft(m) == Move(m, "none", "draft1")

\* verify-resume on the first draft; "review" only when the verifier itself
\* is out of order.
Judge(m) == \E to \in {"passed", "review", "rejected"} : Move(m, "draft1", to)

\* generate-resume, second attempt.
Redraft(m) == Move(m, "rejected", "draft2")

\* verify-resume on the second draft: no third one.
JudgeAgain(m) == \E to \in {"passed", "review"} : Move(m, "draft2", to)

Next == \E m \in Matches : Draft(m) \/ Judge(m) \/ Redraft(m) \/ JudgeAgain(m)

Spec == Init /\ [][Next]_phase
=============================================================================
