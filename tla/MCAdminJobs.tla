---------------------------- MODULE MCAdminJobs ----------------------------
(* Small instances of AdminJobs.  calm remembers whether every post was    *)
(* answered before its timeout.                                            *)
EXTENDS AdminJobs, TLC

CONSTANTS k1, k2

VARIABLE calm
mcVars == <<vars, calm>>

MCInit == Init /\ calm = TRUE

MCNext == Next /\ calm' = (calm /\ CalmNext)

\* Threads run, and a post ends at the latest with its timeout.
MCFairSpec ==
    /\ MCInit
    /\ [][MCNext]_mcVars
    /\ \A j \in JOB_IDS : WF_mcVars(MCNext /\ (Step(j) \/ PostTimesOut(j)))

\* MatchBatchAlone, as long as no post timed out.
MatchBatchAloneWhenCalm == calm => MatchBatchAlone
=============================================================================
