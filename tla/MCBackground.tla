---------------------------- MODULE MCBackground ----------------------------
(***************************************************************************)
(* Three parts that share no variable, side by side: the updater on its    *)
(* native driver, the Telegram runtime and the collection schedule.  A     *)
(* behaviour is a fair behaviour of the one part that Init chooses; the    *)
(* others rest in one initial state of theirs.                             *)
(***************************************************************************)
EXTENDS Sparkle, Runtime, Collection

CONSTANTS s1, v1, u1, r1, r2, d1, d2, c1

VARIABLE part

backgroundVars == <<part, allVars, runtimeVars, collectionVars>>

\* Past the end of a download.
SomeReports == {120}

BackgroundInit ==
    /\ part \in {"updater", "runtime", "collection"}
    /\ NativeInit /\ RuntimeInit /\ CollectionInit

BackgroundNext ==
    /\ UNCHANGED part
    /\ \/ /\ part = "updater" /\ NativeNext
          /\ UNCHANGED <<runtimeVars, collectionVars>>
       \/ /\ part = "runtime" /\ RuntimeNext
          /\ UNCHANGED <<allVars, collectionVars>>
       \/ /\ part = "collection" /\ CollectionNext
          /\ UNCHANGED <<allVars, runtimeVars>>

\* Each part's own fairness, for the behaviours of that part.
BackgroundFairness ==
    /\ WF_allVars(part = "updater" /\ ServiceSteps /\ StartCancelsOld)
    /\ WF_allVars(part = "updater" /\ MainRuns)
    /\ \A p \in Procs :
          /\ WF_allVars(part = "updater" /\ ServiceSteps /\ (Finish(p) \/ Leave(p)))
          /\ WF_allVars(part = "updater" /\ DriverRuns(p))
    /\ \A s \in Stoppers :
          /\ WF_allVars(part = "updater" /\ ServiceSteps /\ (StopCancels(s) \/ StopJoins(s)))
          /\ WF_allVars(part = "updater" /\ NativeStop(s))
    /\ WF_runtimeVars(part = "runtime" /\ ManagerStep)
    /\ \A w \in Places : WF_runtimeVars(part = "runtime" /\ WorkerStep(w))
    /\ \A l \in Loops : WF_collectionVars(part = "collection" /\ LoopMoves(l))
    /\ WF_collectionVars(part = "collection" /\ UserCycleEnds)

BackgroundSpec ==
    BackgroundInit /\ [][BackgroundNext]_backgroundVars /\ BackgroundFairness
============================================================================
