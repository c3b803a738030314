----------------------------- MODULE MCAnalysis -----------------------------
(* Small instances of Analysis.  Rows 1 and 2 belong to the same user and  *)
(* job (a rematch), row 3 to another job with the score of row 2.  calm    *)
(* remembers whether every batch waited for the tasks of the one before,   *)
(* every post for its answer, and all that was billed was recorded.        *)
EXTENDS Analysis, TLC

CONSTANTS b1, b2, w1, w2

Rematch == {<<1, 2>>, <<2, 1>>}
RisingScore == [m \in Matches |-> IF m = 1 THEN 1 ELSE 2]

VARIABLE calm
mcVars == <<vars, calm>>

MCInit == Init /\ calm = TRUE

MCSpec ==
    /\ MCInit
    /\ [][Next /\ calm' = (calm /\ CalmNext /\ billed' - billed = recorded' - recorded)]_mcVars

MCCalmSpec ==
    /\ MCInit
    /\ [][CalmNext /\ UNCHANGED calm]_mcVars

\* WithinBudget, as long as no batch counts on a sum that running analyses are
\* about to raise, and the provider bills nothing that ends in no usage record.
WithinBudgetWhenCalm == calm => WithinBudget

\* No guard reads billed, and no property of AnalysisFull once calm is over.
SeenWhenCalm ==
    <<rows, labels, tasks, workers, batches, reports, recorded, calm, calm /\ WithinBudget>>

WorkerSymmetry == Permutations(Workers)
=============================================================================
