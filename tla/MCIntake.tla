------------------------------ MODULE MCIntake ------------------------------
(***************************************************************************)
(* A small instance of Intake.  overlapped remembers whether a fetch began *)
(* before the one before it and its ingest-jobs had ended, timedOut        *)
(* whether a post timed out.  Errors and crashes need no bound: a fetch    *)
(* runs once, and a task is posted MaxAttempts times.  A second posting    *)
(* makes a flush partial: see FlushBound.                                  *)
(***************************************************************************)
EXTENDS Intake, TLC

CONSTANTS f1, f2, u1, u2, p1, p2

VARIABLES overlapped, timedOut
mcVars == <<vars, overlapped, timedOut>>

MCInit == Init /\ overlapped = FALSE /\ timedOut = FALSE

MCStep == Step /\ UNCHANGED <<overlapped, timedOut>>

MCFetch ==
    /\ \E f \in Fetches : FetchResolve(f)
    /\ overlapped' = (overlapped \/ ~Settled \/ \E f \in Fetches : Running(f))
    /\ UNCHANGED timedOut

MCTimeout ==
    /\ \E t \in Tasks : PostTimeout(t)
    /\ timedOut' = TRUE
    /\ UNCHANGED overlapped

MCSpec == MCInit /\ [][MCStep \/ MCFetch \/ MCTimeout]_mcVars

\* u2 is listed with its text from before the first fetch on, and its tasks stay
\* queued until a crash loses them: it is there for the flush that hands over one
\* of two tasks and fails, and for the fetch that lists both again.
FlushBound ==
    \A u \in Urls \ {u1} :
        /\ board'[u].version = 1 => board'[u].listed
        /\ board'[u] # board[u] =>
               board[u].version = 0 /\ \A f \in Fetches : fetches[f].pc = "idle"
        /\ \A f \in Fetches :
               /\ posts'[<<f, u>>] = 0
               /\ fetches'[f].pc = "listed" /\ fetches'[f].listing[u] # 0 =>
                      u \in fetches'[f].inline

MCFlushSpec == MCInit /\ [][(MCStep \/ MCFetch \/ MCTimeout) /\ FlushBound]_mcVars

\* TextNeverOlder, even when posts time out and their requests run late, as
\* long as no fetch begins before the ingest-jobs of the one before have ended.
TextNeverRegresses ==
    [][~overlapped' => \A u \in Urls : jobs'[u].text >= jobs[u].text]_mcVars

\* ExtractionIsCurrent, if besides no post times out.
ExtractionDescribesText == ~overlapped /\ ~timedOut => ExtractionIsCurrent

FetchSymmetry == Permutations(Fetches)
FetchUrlSymmetry == Permutations(Fetches) \cup Permutations(Urls)
=============================================================================
