---------------------------- MODULE Collection ----------------------------
(***************************************************************************)
(* The analytics scheduler: at most one schedule loop that is not          *)
(* cancelled, which runs a collection cycle at once and then at every      *)
(* interval.  Start and Stop save the setting first and change the memory  *)
(* later, so calls of the desktop interleave; a loop that was replaced is  *)
(* cancelled, and ends when it notices.                                    *)
(***************************************************************************)
EXTENDS Naturals

CONSTANTS Users,        \* concurrent calls of the desktop
          MaxLoops      \* schedule loops ever started

ASSUME CollectionAssumption == MaxLoops \in Nat

VARIABLES
    saved,      \* analytics_scheduler_settings.enabled
    enabled,    \* AnalyticsScheduler.enabled
    loops,      \* the schedule loops, in the order they were started
    loopCount,  \* how many there are
    current,    \* the loop scheduleCancel belongs to, 0 for nil
    next,       \* whether nextRunAt is set
    cycle,      \* who runs a cycle: a loop, a user's call (MaxLoops + 1), 0 for nobody
    calls,      \* what each call has yet to do
    life        \* of the scheduler: running, closing, closed

collectionVars == <<saved, enabled, loops, loopCount, current, next, cycle, calls, life>>

-----------------------------------------------------------------------------
Loops == 1 .. MaxLoops
ByUser == MaxLoops + 1
LoopSteps == {"none", "run", "cycle", "check", "wait", "done"}
NoLoop == [step |-> "none", cancelled |-> FALSE]
LoopLive(l) == loops[l].step \notin {"none", "done"}
LoopStep(l, s) == loops' = [loops EXCEPT ![l].step = s]

CollectionInit ==
    /\ saved = FALSE /\ enabled = FALSE
    /\ loops = [l \in Loops |-> NoLoop] /\ loopCount = 0
    /\ current = 0 /\ next = FALSE /\ cycle = 0
    /\ calls = [u \in Users |-> "none"]
    /\ life = "running"

Cancelled(ls, l) == IF l = 0 THEN ls ELSE [ls EXCEPT ![l].cancelled = TRUE]

-----------------------------------------------------------------------------
(* Calls *)

SaveAnalyticsSettings(u, on) ==
    /\ life = "running" /\ calls[u] = "none"
    /\ on => loopCount < MaxLoops
    /\ saved' = on
    /\ calls' = [calls EXCEPT ![u] = IF on THEN "start" ELSE "stop"]
    /\ UNCHANGED <<enabled, loops, loopCount, current, next, cycle, life>>

KeepPrevious ==
    LET l == loopCount + 1
    IN  /\ loopCount < MaxLoops
        /\ enabled' = TRUE /\ next' = TRUE
        /\ loopCount' = l /\ current' = l
        /\ loops' = [loops EXCEPT ![l] = [step |-> "run", cancelled |-> FALSE]]
\* The new loop replaces the one before, which is cancelled.
startSchedule ==
    LET l == loopCount + 1
    IN  /\ loopCount < MaxLoops
        /\ enabled' = TRUE /\ next' = TRUE
        /\ loopCount' = l /\ current' = l
        /\ loops' = [Cancelled(loops, current) EXCEPT ![l] = [step |-> "run", cancelled |-> FALSE]]

StartCollection(u) ==
    /\ calls[u] = "start"
    /\ startSchedule
    /\ calls' = [calls EXCEPT ![u] = "none"]
    /\ UNCHANGED <<saved, cycle, life>>

StopCollection(u) ==
    /\ calls[u] = "stop"
    /\ loops' = Cancelled(loops, current)
    /\ current' = 0 /\ enabled' = FALSE /\ next' = FALSE
    /\ calls' = [calls EXCEPT ![u] = "none"]
    /\ UNCHANGED <<saved, loopCount, cycle, life>>

\* RunNow, called by the desktop: refused while a cycle runs.
RunNow ==
    /\ life = "running" /\ cycle = 0
    /\ cycle' = ByUser
    /\ UNCHANGED <<saved, enabled, loops, loopCount, current, next, calls, life>>

UserCycleEnds ==
    /\ cycle = ByUser /\ cycle' = 0
    /\ UNCHANGED <<saved, enabled, loops, loopCount, current, next, calls, life>>

-----------------------------------------------------------------------------
(* scheduleLoop *)

LoopRuns(l) ==
    /\ loops[l].step = "run"
    /\ LoopStep(l, IF cycle = 0 THEN "cycle" ELSE "check")
    /\ cycle' = IF cycle = 0 THEN l ELSE cycle
    /\ UNCHANGED <<saved, enabled, loopCount, current, next, calls, life>>

EndsButFailed(l) ==
    /\ loops[l].step = "cycle"
    /\ LoopStep(l, "check")
    /\ \/ cycle' = 0
       \/ UNCHANGED cycle
    /\ UNCHANGED <<saved, enabled, loopCount, current, next, calls, life>>
\* The deferred end of RunNow, however the cycle went.
CycleEnds(l) ==
    /\ loops[l].step = "cycle"
    /\ LoopStep(l, "check")
    /\ cycle' = 0
    /\ UNCHANGED <<saved, enabled, loopCount, current, next, calls, life>>

LoopChecks(l) ==
    /\ loops[l].step = "check"
    /\ LoopStep(l, IF loops[l].cancelled THEN "done" ELSE "wait")
    /\ next' = (next \/ (~loops[l].cancelled /\ enabled /\ loopCount = l))
    /\ UNCHANGED <<saved, enabled, loopCount, current, cycle, calls, life>>

TimerFires(l) ==
    /\ loops[l].step = "wait"
    /\ LoopStep(l, "run")
    /\ UNCHANGED <<saved, enabled, loopCount, current, next, cycle, calls, life>>

LoopNotices(l) ==
    /\ loops[l].step = "wait" /\ loops[l].cancelled
    /\ LoopStep(l, "done")
    /\ UNCHANGED <<saved, enabled, loopCount, current, next, cycle, calls, life>>

-----------------------------------------------------------------------------
(* The program's life *)

ShutdownCollection ==
    /\ life = "running"
    /\ loops' = Cancelled(loops, current)
    /\ current' = 0 /\ next' = FALSE
    /\ life' = "closing"
    /\ UNCHANGED <<saved, enabled, loopCount, cycle, calls>>

\* waitAnalyticsScheduler: the newest loop and the cycle are over, or the time is.
ShutdownReturns ==
    /\ life = "closing" /\ life' = "closed"
    /\ UNCHANGED <<saved, enabled, loops, loopCount, current, next, cycle, calls>>

\* The process ends, after Shutdown or without; the next one restores the
\* schedule from the setting.
Restore ==
    /\ loopCount < MaxLoops
    /\ calls' = [u \in Users |-> "none"] /\ cycle' = 0 /\ life' = "running"
    /\ enabled' = saved /\ next' = saved
    /\ loopCount' = IF saved THEN loopCount + 1 ELSE loopCount
    /\ current' = IF saved THEN loopCount + 1 ELSE 0
    /\ loops' = [l \in Loops |-> IF saved /\ l = loopCount + 1
                                 THEN [step |-> "run", cancelled |-> FALSE] ELSE NoLoop]
    /\ UNCHANGED saved

-----------------------------------------------------------------------------
LoopMoves(l) == LoopRuns(l) \/ CycleEnds(l) \/ LoopChecks(l) \/ TimerFires(l) \/ LoopNotices(l)

CallOfUser(u) == \/ \E on \in BOOLEAN : SaveAnalyticsSettings(u, on)
                 \/ StartCollection(u) \/ StopCollection(u)

CollectionNext ==
    \/ \E u \in Users : CallOfUser(u)
    \/ RunNow \/ UserCycleEnds
    \/ \E l \in Loops : LoopMoves(l)
    \/ ShutdownCollection \/ ShutdownReturns \/ Restore

\* A loop's goroutine runs, its timer fires, and a cycle ends.
CollectionFairness ==
    /\ \A l \in Loops : WF_collectionVars(LoopMoves(l))
    /\ WF_collectionVars(UserCycleEnds)

CollectionSpec == CollectionInit /\ [][CollectionNext]_collectionVars /\ CollectionFairness

-----------------------------------------------------------------------------
(* Properties *)

CollectionTypeOK ==
    /\ {saved, enabled, next} \subseteq BOOLEAN
    /\ loops \in [Loops -> [step : LoopSteps, cancelled : BOOLEAN]]
    /\ {current, loopCount} \subseteq 0 .. MaxLoops /\ cycle \in 0 .. ByUser

\* However calls and restarts interleave, the only loop that goes on is the one
\* the scheduler can still cancel.
OneSchedule == \A l \in Loops : LoopLive(l) /\ ~loops[l].cancelled => current = l

\* The type, and one schedule that goes on.
CollectionInv == CollectionTypeOK /\ OneSchedule

\* While a schedule stays, cycles begin and end again and again, although a cycle
\* can fail, and the loop skips its turn while a cycle of someone else runs.
KeepsCollecting ==
    \A l \in Loops : <>[](current = l) => []<>(cycle = 0) /\ []<>(cycle # 0)
============================================================================
