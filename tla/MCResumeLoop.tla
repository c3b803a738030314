---------------------------- MODULE MCResumeLoop ----------------------------
(***************************************************************************)
(* Small instances of ResumeLoop for TLC.  Each error, timeout or crash    *)
(* may let a task run once more, each further click starts a loop of its   *)
(* own, and every further run writes rows and enqueues tasks: TLC explores *)
(* the behaviours with at most MaxFaults of them together.  crashed        *)
(* remembers that a crash was among them.                                  *)
(***************************************************************************)
EXTENDS ResumeRefinement, TLC

CONSTANTS m1, u1, c1, c2, w1, w2, MaxFaults

VARIABLES faults, crashed
mcVars == <<vars, faults, crashed>>

OneOwner == [m \in Matches |-> u1]
AllOnM1 == [c \in Clicks |-> m1]
QuotaOne == [u \in Users |-> 1]
QuotaTwo == [u \in Users |-> 2]

MCInit == Init /\ faults = 0 /\ crashed = FALSE
NoFault(A) == A /\ UNCHANGED <<faults, crashed>>
Costly(A, crash) ==
    /\ A
    /\ faults' = faults + 1
    /\ crashed' = (crashed \/ crash)

MCSerial == NoFault(Work) \/ Costly(Error, FALSE)
MCCrash == Costly(Crash, TRUE)
MCTimeout == Costly(Timeout, FALSE)

FurtherClicks == Cardinality({c \in Clicks : clicks[c] # "idle"} \ {c1})
WithinBounds == faults + FurtherClicks <= MaxFaults

MCSpec ==
    MCInit /\ [][(MCSerial \/ MCCrash \/ MCTimeout) /\ WithinBounds']_mcVars
MCCrashSpec == MCInit /\ [][(MCSerial \/ MCCrash) /\ WithinBounds']_mcVars
MCRacySpec == MCInit /\ [][(MCSerial \/ MCTimeout) /\ WithinBounds']_mcVars
MCSerialSpec == MCInit /\ [][MCSerial /\ WithinBounds']_mcVars

\* Threads that can run do run: the click's request, the handler's thread and
\* the queue's dispatching threads.  No error and no crash is owed.
MCFairCrashSpec ==
    /\ MCCrashSpec
    /\ \A c \in Clicks : WF_mcVars(NoFault(Click(c)))
    /\ \A w \in Workers : WF_mcVars(NoFault(Handler(w)))
    /\ WF_mcVars(NoFault(\E t \in DOMAIN tasks, w \in Workers : Post(t, w)))

\* NeverSilentlyDropped, as long as no server or queue process died.
NeverDroppedWithoutCrash == ~crashed => NeverSilentlyDropped

\* A charged click is not left hanging: unless a server or the queue process
\* dies, its match settles.
ChargedClickSettlesOrCrash ==
    \A c \in Clicks : clicks[c] = "enqueued" ~> crashed \/ Settled(Target[c])

WorkerSymmetry == Permutations(Workers)
=============================================================================
