------------------------------- MODULE Updater -------------------------------
(***************************************************************************)
(* The update service (internal/updater/service.go) of an enabled build:   *)
(* user calls, the chain of automatic checks, Start and Stop run as        *)
(* goroutines of their own and meet in Service.mu.                         *)
(*                                                                         *)
(* An action is one section under the mutex, one call of the driver, or    *)
(* one cancellation.  The driver is external: it answers what it likes     *)
(* when it likes, and may call a progress callback of a finished download. *)
(* Error texts and codes are one bit; the mutex itself is the atomicity of *)
(* the actions.                                                            *)
(***************************************************************************)
EXTENDS Integers, FiniteSets

CONSTANTS
    Callers,   \* goroutines of UpdateBindings.run
    Stoppers,  \* goroutines that call Stop
    Versions,  \* versions a check may find
    Reports,   \* numbers the driver passes to the progress callback
    MaxOps,    \* bound on operations begun
    MaxTimers, \* bound on timers created
    NoVersion  \* the empty version

Timers == 1..MaxTimers

\* A fired timer runs its callback in a goroutine of its own.
Procs == Callers \union Timers

ASSUME UpdaterAssumption ==
    /\ Callers \intersect Timers = {}
    /\ Reports \subseteq Int
    /\ MaxOps \in Nat
    /\ MaxTimers \in Nat
    /\ NoVersion \notin Versions
    /\ Versions \intersect {"error", "none", "done"} = {}

VARIABLES
    snapshot,      \* Service.snapshot
    retry,         \* Service.retry
    busy,          \* Service.busy
    op,            \* Service.op
    started,       \* Service.started
    stopped,       \* Service.stopped
    lifecycle,     \* Service.lifecycleCtx: 0 from NewService, 1 from Start
    cancelled,     \* the lifecycle contexts that are cancelled
    watch,         \* the context.AfterFunc that runs cancelTimers
    watchTook,     \* the timers cancelTimers took and has not stopped yet
    pending,       \* the keys of Service.timers
    kept,          \* those of them with a non-nil Timer
    nextTimerID,   \* Service.nextTimerID
    live,          \* timers of the scheduler that may still fire
    adding,        \* progress of addTimer for each timer
    starter,       \* progress of Start
    proc,          \* the goroutines in checkNow, Download or Install
    stopper,       \* the goroutines in Stop
    driverStopped, \* driver.Stop was called
    stopDone       \* Service.stopDone is closed

service   == <<snapshot, retry, busy, op>>
contexts  == <<started, lifecycle, cancelled, watch, starter>>
timerVars == <<pending, kept, nextTimerID, live, adding, watchTook>>
stopVars  == <<stopped, stopper, driverStopped, stopDone>>
vars      == <<service, contexts, timerVars, stopVars, proc>>

States == {"idle", "checking", "available", "downloading", "ready", "error"}
RetryStates == {"", "idle", "available", "ready"}
Kinds == {"check", "auto", "download", "install"}
Results == {"error", "none", "done"} \union Versions

Snapshots ==
    [state : States, retryState : RetryStates,
     version : Versions \union {NoVersion}, progress : 0..100, error : BOOLEAN]

Fresh == [state |-> "idle", retryState |-> "", version |-> NoVersion,
          progress |-> 0, error |-> FALSE]

\* serviceOperation, with where its goroutine is, whether the caller's
\* context is cancelled, the answer of the driver, and the last report of
\* its own download (for the properties).
Operations ==
    [pc : {"out", "begin", "calling", "returned", "leaving", "repeat"},
     kind : Kinds, id : 0..MaxOps, previous : Snapshots,
     previousRetry : RetryStates, lifecycle : {0, 1}, cut : BOOLEAN,
     result : Results, report : 0..100]

\* A call of Stop, with what it read under the mutex.
StopCalls ==
    [pc : {"out", "locked", "waiting", "joining", "done"},
     lifecycle : {0, 1}, taken : SUBSET Timers]

Outside == [pc |-> "out", kind |-> "check", id |-> 0, previous |-> Fresh,
            previousRetry |-> "", lifecycle |-> 0, cut |-> FALSE,
            result |-> "none", report |-> 0]

Init ==
    /\ snapshot = Fresh
    /\ retry = ""
    /\ busy = FALSE
    /\ op = 0
    /\ started = FALSE
    /\ stopped = FALSE
    /\ lifecycle = 0
    /\ cancelled = {}
    /\ watch = "off"
    /\ watchTook = {}
    /\ pending = {}
    /\ kept = {}
    /\ nextTimerID = 0
    /\ live = {}
    /\ adding = [t \in Timers |-> "off"]
    /\ starter = "out"
    /\ proc = [p \in Procs |-> Outside]
    /\ stopper = [s \in Stoppers |-> [pc |-> "out", lifecycle |-> 0, taken |-> {}]]
    /\ driverStopped = FALSE
    /\ stopDone = FALSE

\* The driver operations that Service.operations counts.
Counted == {p \in Procs : proc[p].pc \in {"calling", "returned", "leaving"}}

\* The goroutines between begin and the locked section that ends it.
Running == {p \in Procs : proc[p].pc \in {"calling", "returned"}}

\* The context the driver call was given is cancelled.
CtxDone(p) == proc[p].cut \/ proc[p].lifecycle \in cancelled

-----------------------------------------------------------------------------
(* begin *)

checkBeginDecision(kind, state, again) ==
    IF \/ state = "idle"
       \/ state = "available" /\ kind = "check"
       \/ state = "error" /\ again = "idle"
    THEN "begin"
    ELSE IF state \in {"available", "ready", "error"} THEN "skip" ELSE "reject"

Decision(kind, state, again) ==
    CASE kind = "download" ->
           IF state = "available" \/ (state = "error" /\ again = "available")
           THEN "begin" ELSE "reject"
      [] kind = "install" ->
           IF state = "ready" \/ (state = "error" /\ again = "ready")
           THEN "begin" ELSE "reject"
      [] OTHER -> checkBeginDecision(kind, state, again)

\* The conditions under which begin starts an operation; otherwise the call
\* returns at once and changes nothing.
MayBegin(kind) ==
    /\ ~stopped
    /\ ~busy
    /\ lifecycle \notin cancelled
    /\ Decision(kind, snapshot.state, retry) = "begin"

NextState(kind) ==
    CASE kind = "download" -> "downloading"
      [] kind = "install" -> "ready"
      [] OTHER -> "checking"

\* The rest of begin; the driver is called right after it.
Begin(p, kind) ==
    /\ op < MaxOps
    /\ busy' = TRUE
    /\ op' = op + 1
    /\ snapshot' = [snapshot EXCEPT
           !.state = NextState(kind), !.retryState = "", !.error = FALSE,
           !.progress = IF kind = "download" THEN 0 ELSE @]
    /\ proc' = [proc EXCEPT ![p] =
           [pc |-> "calling", kind |-> kind, id |-> op + 1,
            previous |-> snapshot, previousRetry |-> retry,
            lifecycle |-> lifecycle, cut |-> FALSE, result |-> "none",
            report |-> 0]]
    /\ UNCHANGED <<retry, contexts, timerVars, stopVars>>

\* CheckNow, Download and Install, called by a user.
UserBegins(c, kind) ==
    /\ proc[c].pc = "out"
    /\ MayBegin(kind)
    /\ Begin(c, kind)

\* The callback of a timer: an automatic check.
AutoBegins(t) ==
    /\ proc[t].pc = "begin"
    /\ MayBegin("auto")
    /\ Begin(t, "auto")

\* Mutant: the chain ends when its check does not run.
AutoSkipsForGood(t) ==
    /\ proc[t].pc = "begin"
    /\ ~MayBegin("auto")
    /\ proc' = [proc EXCEPT ![t].pc = "out"]
    /\ UNCHANGED <<service, contexts, timerVars, stopVars>>

\* The automatic check is refused or skipped: on to scheduleRepeat.
AutoSkips(t) ==
    /\ proc[t].pc = "begin"
    /\ ~MayBegin("auto")
    /\ proc' = [proc EXCEPT ![t].pc = "repeat"]
    /\ UNCHANGED <<service, contexts, timerVars, stopVars>>

-----------------------------------------------------------------------------
(* The driver and what follows its answer *)

Answers(kind) ==
    IF kind \in {"download", "install"} THEN {"error", "done"}
                                        ELSE {"error", "none"} \union Versions

DriverReturns(p, result) ==
    /\ proc[p].pc = "calling"
    /\ result \in Answers(proc[p].kind)
    /\ proc' = [proc EXCEPT ![p].pc = "returned", ![p].result = result]
    /\ UNCHANGED <<service, contexts, timerVars, stopVars>>

Clamp(n) == IF n < 0 THEN 0 ELSE IF n > 100 THEN 100 ELSE n

MayReport(id) ==
    ~stopped /\ busy /\ op = id /\ snapshot.state = "downloading"

\* setProgress, by the callback of operation id, which may have ended long ago.
\* Whoever passes the test is the running download.
Progress(id, n) ==
    /\ MayReport(id)
    /\ snapshot' = [snapshot EXCEPT !.progress = Clamp(n)]
    /\ proc' = [p \in Procs |-> IF p \in Running /\ proc[p].id = id
                                THEN [proc[p] EXCEPT !.report = Clamp(n)] ELSE proc[p]]
    /\ UNCHANGED <<retry, busy, op, contexts, timerVars, stopVars>>

Interrupted(p) == CtxDone(p) \/ stopped

HadUpdate(p) == proc[p].previous.state \in {"available", "ready"}

restoreLocked(p) ==
    /\ snapshot' = proc[p].previous
    /\ retry' = proc[p].previousRetry

setErrorLocked(again) ==
    /\ snapshot' = [snapshot EXCEPT !.state = "error", !.retryState = again, !.error = TRUE]
    /\ retry' = again

\* Mutant: the result of a check replaces whatever was there.
CheckForgets(p) ==
    IF proc[p].result = "error" THEN setErrorLocked("idle")
    ELSE /\ snapshot' = IF proc[p].result = "none" THEN Fresh
                        ELSE [Fresh EXCEPT !.state = "available", !.version = proc[p].result]
         /\ retry' = ""

CheckEnds(p) ==
    IF proc[p].result \in Versions
    THEN /\ snapshot' = [Fresh EXCEPT !.state = "available", !.version = proc[p].result]
         /\ retry' = ""
    ELSE IF HadUpdate(p) THEN restoreLocked(p)
    ELSE IF proc[p].result = "error" THEN setErrorLocked("idle")
    ELSE snapshot' = Fresh /\ retry' = ""

\* Mutant: a finished download leaves the progress where the callbacks put it.
DownloadKeepsProgress(p) ==
    IF proc[p].result = "error" THEN setErrorLocked("available")
    ELSE /\ snapshot' = [snapshot EXCEPT !.state = "ready", !.error = FALSE]
         /\ retry' = ""

DownloadEnds(p) ==
    IF proc[p].result = "error" THEN setErrorLocked("available")
    ELSE /\ snapshot' = [snapshot EXCEPT !.state = "ready", !.progress = 100, !.error = FALSE]
         /\ retry' = ""

InstallEnds(p) ==
    IF proc[p].result = "error" THEN setErrorLocked("ready")
    ELSE snapshot' = [snapshot EXCEPT !.state = "ready", !.error = FALSE] /\ retry' = ""

\* The locked section after the driver call.
Finish(p) ==
    /\ proc[p].pc = "returned"
    /\ proc' = [proc EXCEPT ![p].pc = "leaving"]
    /\ IF proc[p].id # op THEN UNCHANGED service
       ELSE /\ busy' = FALSE
            /\ op' = op
            /\ IF Interrupted(p) THEN restoreLocked(p)
               ELSE CASE proc[p].kind = "download" -> DownloadEnds(p)
                      [] proc[p].kind = "install" -> InstallEnds(p)
                      [] OTHER -> CheckEnds(p)
    /\ UNCHANGED <<contexts, timerVars, stopVars>>

\* serviceOperation.done; an automatic check goes on to scheduleRepeat.
Leave(p) ==
    /\ proc[p].pc = "leaving"
    /\ proc' = [proc EXCEPT ![p] =
           [Outside EXCEPT !.pc = IF p \in Timers THEN "repeat" ELSE "out"]]
    /\ UNCHANGED <<service, contexts, timerVars, stopVars>>

\* The context of a user's call ends: ten minutes, or the root context.
CancelCaller(c) ==
    /\ proc[c].pc \in {"calling", "returned"}
    /\ ~proc[c].cut
    /\ proc' = [proc EXCEPT ![c].cut = TRUE]
    /\ UNCHANGED <<service, contexts, timerVars, stopVars>>

-----------------------------------------------------------------------------
(* Timers *)

\* addTimer, first section: the timer is entered without its handle.
Register ==
    /\ nextTimerID < MaxTimers
    /\ nextTimerID' = nextTimerID + 1
    /\ pending' = pending \union {nextTimerID + 1}
    /\ adding' = [adding EXCEPT ![nextTimerID + 1] = "registered"]
    /\ UNCHANGED <<kept, live, watchTook>>

\* The tests under which addTimer and scheduleRepeat go on.
MaySchedule == ~stopped /\ started /\ 1 \notin cancelled

\* Between the sections of addTimer: Scheduler.AfterFunc.
Arm(t) ==
    /\ adding[t] = "registered"
    /\ adding' = [adding EXCEPT ![t] = "armed"]
    /\ live' = live \union {t}
    /\ UNCHANGED <<service, contexts, pending, kept, nextTimerID, watchTook, stopVars, proc>>

\* addTimer, second section: keep the handle, or give the timer up.
Keep(t) ==
    /\ adding[t] = "armed"
    /\ IF t \in pending /\ ~stopped /\ 1 \notin cancelled
       THEN /\ adding' = [adding EXCEPT ![t] = "off"]
            /\ kept' = kept \union {t}
            /\ UNCHANGED pending
       ELSE /\ adding' = [adding EXCEPT ![t] = "unwanted"]
            /\ pending' = pending \ {t}
            /\ UNCHANGED kept
    /\ UNCHANGED <<service, contexts, live, nextTimerID, watchTook, stopVars, proc>>

\* addTimer, at its end: the timer that is not kept is stopped.
Discard(t) ==
    /\ adding[t] = "unwanted"
    /\ adding' = [adding EXCEPT ![t] = "off"]
    /\ live' = live \ {t}
    /\ UNCHANGED <<service, contexts, pending, kept, nextTimerID, watchTook, stopVars, proc>>

\* fireTimer up to its callback.
Fire(t) ==
    /\ t \in live
    /\ live' = live \ {t}
    /\ pending' = pending \ {t}
    /\ kept' = kept \ {t}
    /\ proc' = IF t \in pending /\ MaySchedule
               THEN [proc EXCEPT ![t].pc = "begin"] ELSE proc
    /\ UNCHANGED <<service, contexts, nextTimerID, adding, watchTook, stopVars>>

\* scheduleRepeat, and addTimer's first section.
Repeat(t) ==
    /\ proc[t].pc = "repeat"
    /\ proc' = [proc EXCEPT ![t].pc = "out"]
    /\ IF MaySchedule THEN Register ELSE UNCHANGED timerVars
    /\ UNCHANGED <<service, contexts, stopVars>>

\* cancelTimers, run once the lifecycle of Start is cancelled: the locked
\* section takes the timers.
LifecycleWatch ==
    /\ watch = "armed"
    /\ 1 \in cancelled
    /\ watch' = "off"
    /\ watchTook' = kept
    /\ pending' = {}
    /\ kept' = {}
    /\ UNCHANGED <<service, started, lifecycle, cancelled, starter,
                   nextTimerID, live, adding, stopVars, proc>>

\* cancelTimers, after its locked section: stopTimers.
WatchStops ==
    /\ watchTook # {}
    /\ watchTook' = {}
    /\ live' = live \ watchTook
    /\ UNCHANGED <<service, contexts, pending, kept, nextTimerID, adding, stopVars, proc>>

-----------------------------------------------------------------------------
(* Start and Stop *)

\* Start, locked section.  A later Start returns here without an effect.
Start ==
    /\ starter = "out"
    /\ ~started
    /\ ~stopped
    /\ starter' = "locked"
    /\ started' = TRUE
    /\ lifecycle' = 1
    /\ watch' = "armed"
    /\ UNCHANGED <<service, cancelled, timerVars, stopVars, proc>>

\* oldCancel().
StartCancelsOld ==
    /\ starter = "locked"
    /\ starter' = "adding"
    /\ cancelled' = cancelled \union {0}
    /\ UNCHANGED <<service, started, lifecycle, watch, timerVars, stopVars, proc>>

\* The first timer.
StartAddsTimer ==
    /\ starter = "adding"
    /\ starter' = "done"
    /\ IF MaySchedule THEN Register ELSE UNCHANGED timerVars
    /\ UNCHANGED <<service, started, lifecycle, cancelled, watch, stopVars, proc>>

\* The context given to Start ends.
CancelRoot ==
    /\ started
    /\ 1 \notin cancelled
    /\ cancelled' = cancelled \union {1}
    /\ UNCHANGED <<service, started, lifecycle, watch, starter, timerVars, stopVars, proc>>

\* Stop, locked section: the first call takes the timers, the others wait.
StopLocks(s) ==
    /\ stopper[s].pc = "out"
    /\ IF stopped
       THEN /\ stopper' = [stopper EXCEPT ![s].pc = "joining"]
            /\ UNCHANGED <<stopped, pending, kept>>
       ELSE /\ stopped' = TRUE
            /\ stopper' = [stopper EXCEPT ![s] =
                   [pc |-> "locked", lifecycle |-> lifecycle, taken |-> kept]]
            /\ pending' = {}
            /\ kept' = {}
    /\ UNCHANGED <<service, contexts, nextTimerID, live, adding, watchTook,
                   driverStopped, stopDone, proc>>

\* Mutant: Stop cancels the lifecycle of NewService, whatever Start did.
StopCancelsFirst(s) ==
    /\ stopper[s].pc = "locked"
    /\ stopper' = [stopper EXCEPT ![s].pc = "waiting"]
    /\ watch' = IF 1 \in cancelled THEN watch ELSE "off"
    /\ cancelled' = cancelled \union {0}
    /\ live' = live \ stopper[s].taken
    /\ UNCHANGED <<service, started, lifecycle, starter, pending, kept,
                   nextTimerID, adding, watchTook, stopped, driverStopped,
                   stopDone, proc>>

\* stopWatch, cancel and stopTimers.  A watch that fired runs all the same.
StopCancels(s) ==
    /\ stopper[s].pc = "locked"
    /\ stopper' = [stopper EXCEPT ![s].pc = "waiting"]
    /\ watch' = IF 1 \in cancelled THEN watch ELSE "off"
    /\ cancelled' = cancelled \union {stopper[s].lifecycle}
    /\ live' = live \ stopper[s].taken
    /\ UNCHANGED <<service, started, lifecycle, starter, pending, kept,
                   nextTimerID, adding, watchTook, stopped, driverStopped,
                   stopDone, proc>>

\* operations.Wait, driver.Stop and close(stopDone).
StopDriver(s) ==
    /\ stopper[s].pc = "waiting"
    /\ Counted = {}
    /\ stopper' = [stopper EXCEPT ![s].pc = "done"]
    /\ driverStopped' = TRUE
    /\ stopDone' = TRUE
    /\ UNCHANGED <<service, contexts, timerVars, stopped, proc>>

StopJoins(s) ==
    /\ stopper[s].pc = "joining"
    /\ stopDone
    /\ stopper' = [stopper EXCEPT ![s].pc = "done"]
    /\ UNCHANGED <<service, contexts, timerVars, stopped, driverStopped, stopDone, proc>>

-----------------------------------------------------------------------------
UserSteps ==
    \E c \in Callers :
        \/ \E k \in Kinds \ {"auto"} : UserBegins(c, k)
        \/ CancelCaller(c)

DriverSteps ==
    \/ \E p \in Procs, r \in Results : DriverReturns(p, r)
    \/ \E id \in 1..op, n \in Reports : Progress(id, n)

OperationSteps == \E p \in Procs : Finish(p) \/ Leave(p)

TimerSteps ==
    \/ \E t \in Timers :
           \/ AutoBegins(t) \/ AutoSkips(t) \/ Repeat(t)
           \/ Arm(t) \/ Keep(t) \/ Discard(t) \/ Fire(t)
    \/ LifecycleWatch
    \/ WatchStops

StartSteps == Start \/ StartCancelsOld \/ StartAddsTimer \/ CancelRoot

StopSteps ==
    \E s \in Stoppers : StopLocks(s) \/ StopCancels(s) \/ StopDriver(s) \/ StopJoins(s)

Next == UserSteps \/ DriverSteps \/ OperationSteps \/ TimerSteps \/ StartSteps \/ StopSteps

Spec == Init /\ [][Next]_vars

-----------------------------------------------------------------------------
(* Properties *)

TypeOK ==
    /\ snapshot \in Snapshots
    /\ retry \in RetryStates
    /\ busy \in BOOLEAN
    /\ op \in 0..MaxOps
    /\ started \in BOOLEAN
    /\ stopped \in BOOLEAN
    /\ lifecycle \in {0, 1}
    /\ cancelled \in SUBSET {0, 1}
    /\ watch \in {"off", "armed"}
    /\ pending \in SUBSET Timers
    /\ kept \in SUBSET Timers
    /\ nextTimerID \in 0..MaxTimers
    /\ live \in SUBSET Timers
    /\ adding \in [Timers -> {"off", "registered", "armed", "unwanted"}]
    /\ watchTook \in SUBSET Timers
    /\ starter \in {"out", "locked", "adding", "done"}
    /\ proc \in [Procs -> Operations]
    /\ stopper \in [Stoppers -> StopCalls]
    /\ driverStopped \in BOOLEAN
    /\ stopDone \in BOOLEAN

\* busy is held by exactly one operation, the latest one, so the driver never
\* has two calls and an answer is never thrown away as stale (the comparison
\* with s.op in checkNow, Download and Install never fails).
OneOperation ==
    /\ \A p, q \in Running : p = q
    /\ \A p \in Running : busy /\ proc[p].id = op
    /\ busy => Running # {}

\* Stop "waits for every driver operation, and only then stops the driver":
\* once driver.Stop was called no driver call runs or begins.
DriverQuiet == driverStopped => Counted = {}

\* A finished download is complete and says which version it is, whatever
\* its callbacks report afterwards: a service that is ready, or that offers to
\* retry the installation, shows 100 per cent of a known version.
ReadyIsComplete ==
    (snapshot.state = "ready" \/ retry = "ready") =>
        snapshot.progress = 100 /\ snapshot.version \in Versions

\* The progress of a running download is the one that download reported last:
\* callbacks of an earlier download are ignored.
ProgressIsOwn ==
    \A p \in Running :
        proc[p].kind = "download" => snapshot.progress = proc[p].report

\* What the service shows between operations: the retry state of the user
\* interface is the one begin follows, there is one exactly in the error
\* state, and an update that is offered has a version.
AtRest(snap, again) ==
    /\ snap.state \in {"idle", "available", "ready", "error"}
    /\ snap.retryState = again
    /\ snap.state = "error" <=> again # ""
    /\ snap.state = "available" \/ again = "available" => snap.version \in Versions
    /\ snap.state = "ready" \/ again = "ready" =>
           snap.version \in Versions /\ snap.progress = 100

\* What a running operation may rely on: nobody but itself changed the
\* service since it began.
InFlight(p) ==
    /\ AtRest(proc[p].previous, proc[p].previousRetry)
    /\ Decision(proc[p].kind, proc[p].previous.state, proc[p].previousRetry) = "begin"
    /\ retry = proc[p].previousRetry
    /\ snapshot.state = NextState(proc[p].kind)
    /\ snapshot.retryState = ""
    /\ snapshot.version = proc[p].previous.version
    /\ snapshot.progress = IF proc[p].kind = "download"
                           THEN proc[p].report ELSE proc[p].previous.progress

\* The inductive invariant of the service.
UpdaterInv ==
    /\ OneOperation
    /\ driverStopped => stopped /\ Counted = {}
    /\ ~busy => AtRest(snapshot, retry)
    /\ \A p \in Running : InFlight(p)
    /\ \A s \in Stoppers : stopper[s].pc # "out" => stopped

\* Where the update stands once the running operation, if any, is undone:
\* 0 nothing found, 1 available, 2 downloaded.
Rank(snap, again) ==
    IF snap.state = "ready" \/ (snap.state = "error" /\ again = "ready") THEN 2
    ELSE IF snap.state = "available" \/ (snap.state = "error" /\ again = "available") THEN 1
    ELSE 0

Standing ==
    IF busy
    THEN LET p == CHOOSE q \in Running : TRUE
         IN  Rank(proc[p].previous, proc[p].previousRetry)
    ELSE Rank(snapshot, retry)

\* "No check can replace an available or ready update with idle or error
\* state" (service.go:172), and no failure, cancellation or Stop can either:
\* an update that was found or downloaded stays found or downloaded.
UpdateNeverLost == [][Standing' >= Standing]_vars

\* The goroutines and entries that carry the chain of automatic checks.
Chain ==
    pending \union {t \in Timers : proc[t].pc # "out"}

\* While the service runs there is exactly one automatic check on its way:
\* a check that is refused, skipped or fails does not end the hourly chain,
\* and a timer that fires while addTimer still works does not double it.
OneChain ==
    /\ \A t, u \in Chain : t = u
    /\ starter = "done" /\ MaySchedule => Chain # {}

\* When Stop has returned, no timer is left in the scheduler except one that
\* its addTimer, or the watch of the lifecycle, is about to stop.
NoTimerLeft ==
    stopDone => \A t \in live : adding[t] \in {"armed", "unwanted"} \/ t \in watchTook

\* The types, and the automatic checks: one chain that neither ends nor doubles,
\* and no timer that outlives Stop.
ChainInv == TypeOK /\ OneChain /\ NoTimerLeft

\* Stop returns to every caller: none is in it for good.
StopReturns ==
    \A s \in Stoppers : []<>(stopper[s].pc \in {"out", "done"})
=============================================================================
