------------------------------- MODULE Sparkle -------------------------------
(***************************************************************************)
(* The update service on top of the native driver: the polling loop of     *)
(* updater/sparkle/driver_darwin_arm64.go and the bridge of                *)
(* updater/sparkle/bridge_darwin_arm64.m, which lives on the main thread.  *)
(* The module replaces the free driver answers of Updater.                 *)
(*                                                                         *)
(* The main thread runs one block of its queue, or one callback of the     *)
(* Sparkle framework, at a time.  The framework is external: one session   *)
(* at a time, which may fail at every stage.  The download percentage and  *)
(* the error codes of the bridge are left out, and so is a bridge that     *)
(* could not be created (every operation of it fails).                     *)
(***************************************************************************)
EXTENDS Updater, Sequences

CONSTANT StopOnMain \* Service.Stop runs on the main thread, as OnShutdown does

ASSUME SparkleAssumption == StopOnMain \in BOOLEAN

VARIABLES
    driverRun,    \* progress of Driver.run; all but "out" hold Driver.operation
    queue,        \* blocks dispatched to the main queue
    action,       \* TCSPBridge.action
    native,       \* TCSPBridge.state
    found,        \* TCSPBridge.available and version
    cancellation, \* TCSPBridge.cancellation is not nil
    readyReply,   \* TCSPBridge.readyReply is not nil
    begun,        \* the operation that last reset the bridge (for the properties)
    alive,        \* the bridge was not destroyed
    session,      \* stage of the framework's update session
    sessionOf     \* the operation that began it (for the properties)

bridge     == <<action, native, found, cancellation, readyReply, begun, alive>>
framework  == <<session, sessionOf>>
nativeVars == <<driverRun, queue, bridge, framework>>
allVars    == <<vars, nativeVars>>

Stages == {"none", "info", "user", "download", "extract", "ready", "install"}

NativeInit ==
    /\ Init
    /\ driverRun = [p \in Procs |-> "out"]
    /\ queue = <<>>
    /\ action = "none"
    /\ native = "idle"
    /\ found = NoVersion
    /\ cancellation = FALSE
    /\ readyReply = FALSE
    /\ begun = 0
    /\ alive = TRUE
    /\ session = "none"
    /\ sessionOf = 0

\* The main thread has left its run loop for good when it enters Stop.
MainFree == ~StopOnMain \/ \A s \in Stoppers : stopper[s].pc = "out"

-----------------------------------------------------------------------------
(* Driver.run *)

NativeAction(p) == IF proc[p].kind = "auto" THEN "check" ELSE proc[p].kind

\* The first look at the context, the mutex, and dispatch_sync of the begin.
RunBegins(p) ==
    /\ proc[p].pc = "calling"
    /\ driverRun[p] = "out"
    /\ ~CtxDone(p)
    /\ \A q \in Procs : driverRun[q] = "out"
    /\ alive
    /\ driverRun' = [driverRun EXCEPT ![p] = "begin"]
    /\ queue' = Append(queue, [block |-> "begin", by |-> p, id |-> proc[p].id])
    /\ UNCHANGED <<vars, bridge, framework>>

\* The call is refused: its context is done, or the driver is stopped.
RunRefused(p) ==
    /\ driverRun[p] = "out"
    /\ CtxDone(p) \/ ~alive
    /\ DriverReturns(p, "error")
    /\ UNCHANGED nativeVars

\* The bridge refused to begin.
RunNotBegun(p) ==
    /\ driverRun[p] = "refused"
    /\ DriverReturns(p, "error")
    /\ driverRun' = [driverRun EXCEPT ![p] = "out"]
    /\ UNCHANGED <<queue, bridge, framework>>

\* progress(result.progress), inside the polling loop.
RunReports(p) ==
    /\ driverRun[p] = "polling"
    /\ proc[p].kind = "download"
    /\ \E n \in Reports : Progress(proc[p].id, n)
    /\ UNCHANGED nativeVars

Answer(p) ==
    IF native = "failed" THEN "error"
    ELSE IF NativeAction(p) # "check" THEN "done"
    ELSE IF found \in Versions THEN found ELSE "none"

\* The poll finds the operation finished.
RunEnds(p) ==
    /\ driverRun[p] = "polling"
    /\ native \in {"done", "failed"}
    /\ DriverReturns(p, Answer(p))
    /\ driverRun' = [driverRun EXCEPT ![p] = "out"]
    /\ UNCHANGED <<queue, bridge, framework>>

\* The poll found it pending, then the context was done: tc_sparkle_cancel.
\* The operation may have finished in between.
RunCancelled(p) ==
    /\ driverRun[p] = "polling"
    /\ CtxDone(p)
    /\ DriverReturns(p, "error")
    /\ driverRun' = [driverRun EXCEPT ![p] = "out"]
    /\ queue' = Append(queue, [block |-> "cancel", by |-> p, id |-> proc[p].id])
    /\ UNCHANGED <<bridge, framework>>

-----------------------------------------------------------------------------
(* Blocks on the main thread *)

\* What the framework's canCheckForUpdates says: it may allow a user to come
\* back to a session that is shown, which opens no other session.
CanCheck ==
    CASE session = "none" -> {TRUE}
      [] session \in {"user", "download", "extract", "ready"} -> BOOLEAN
      [] OTHER -> {FALSE}

\* The conditions of beginCheck, beginDownload and beginInstall.
Begins(p, can) ==
    IF NativeAction(p) = "install" THEN readyReply /\ native = "done"
                                   ELSE native # "pending" /\ can

\* resetForAction, and the call that opens or continues a session.
ResetFor(p) ==
    /\ action' = NativeAction(p)
    /\ native' = "pending"
    /\ begun' = proc[p].id
    /\ IF NativeAction(p) = "install"
       THEN /\ readyReply' = FALSE
            /\ session' = "install"
            /\ UNCHANGED <<found, cancellation, sessionOf>>
       ELSE /\ found' = NoVersion
            /\ cancellation' = FALSE
            /\ IF session = "none"
               THEN /\ session' = IF NativeAction(p) = "check" THEN "info" ELSE "user"
                    /\ sessionOf' = proc[p].id
               ELSE UNCHANGED framework
            /\ UNCHANGED readyReply

MainBegins(b) ==
    /\ b.block = "begin"
    /\ \E can \in CanCheck :
           IF Begins(b.by, can)
           THEN /\ ResetFor(b.by)
                /\ driverRun' = [driverRun EXCEPT ![b.by] = "polling"]
           ELSE /\ driverRun' = [driverRun EXCEPT ![b.by] = "refused"]
                /\ UNCHANGED <<action, native, found, cancellation, readyReply,
                               begun, framework>>
    /\ UNCHANGED alive

\* cancelCurrent: the cancellation and the reply each end the session.
CancelCurrent ==
    /\ cancellation' = FALSE
    /\ readyReply' = FALSE
    /\ session' = IF cancellation \/ readyReply THEN "none" ELSE session
    /\ native' = IF native = "pending" THEN "failed" ELSE native
    /\ UNCHANGED <<found, begun, sessionOf>>

MainCancels(b) ==
    /\ b.block = "cancel"
    /\ CancelCurrent
    /\ UNCHANGED <<driverRun, action, alive>>

\* Mutant: blocks run in any order.
MainRunsAny ==
    /\ MainFree
    /\ \E i \in DOMAIN queue :
           /\ queue' = [j \in 1..(Len(queue) - 1) |-> queue[IF j < i THEN j ELSE j + 1]]
           /\ MainBegins(queue[i]) \/ MainCancels(queue[i])
    /\ UNCHANGED vars

\* The main queue is first in, first out.
MainRuns ==
    /\ MainFree
    /\ queue # <<>>
    /\ queue' = Tail(queue)
    /\ MainBegins(Head(queue)) \/ MainCancels(Head(queue))
    /\ UNCHANGED vars

-----------------------------------------------------------------------------
(* Callbacks of the framework, on the main thread *)

Pending(a) == action = a /\ native = "pending"

canFailCurrentOperation == native = "pending" \/ (action = "install" /\ native = "done")

\* didFindValidUpdate.
InfoFinds(v) ==
    /\ session = "info"
    /\ found' = IF Pending("check") THEN v ELSE found
    /\ UNCHANGED <<action, native, cancellation, readyReply, begun, framework>>

\* didFinishUpdateCycle of an informational check, without an error.
InfoEnds ==
    /\ session = "info"
    /\ session' = "none"
    /\ native' = IF Pending("check") THEN "done" ELSE native
    /\ UNCHANGED <<action, found, cancellation, readyReply, begun, sessionOf>>

\* showUpdateFound: a download nobody waits for any more is dismissed.
UserFinds ==
    /\ session = "user"
    /\ session' = IF Pending("download") THEN "download" ELSE "none"
    /\ UNCHANGED <<action, native, found, cancellation, readyReply, begun, sessionOf>>

\* showUserInitiatedUpdateCheck and showDownloadInitiated.
CancellationOffered ==
    /\ session \in {"user", "download"}
    /\ cancellation' = TRUE
    /\ UNCHANGED <<action, native, found, readyReply, begun, framework>>

\* showDownloadDidStartExtracting.
ExtractStarts ==
    /\ session = "download"
    /\ session' = "extract"
    /\ cancellation' = FALSE
    /\ UNCHANGED <<action, native, found, readyReply, begun, sessionOf>>

\* showReadyToInstallAndRelaunch.
ReadyToInstall ==
    /\ session = "extract"
    /\ IF Pending("download")
       THEN session' = "ready" /\ readyReply' = TRUE /\ native' = "done"
       ELSE session' = "none" /\ UNCHANGED <<readyReply, native>>
    /\ UNCHANGED <<action, found, cancellation, begun, sessionOf>>

\* showInstallingUpdate with a terminated application and
\* showUpdateInstalledAndRelaunched; at the end of the cycle the session ends.
Installs ==
    /\ session = "install"
    /\ session' \in {"install", "none"}
    /\ native' = IF Pending("install") THEN "done" ELSE native
    /\ UNCHANGED <<action, found, cancellation, readyReply, begun, sessionOf>>

\* didAbortWithError, didFinishUpdateCycle with an error, showUpdaterError,
\* showUpdateNotFound or an update that showUpdateFound turns down, and the
\* dismissUpdateInstallation that follows.
SessionFails ==
    /\ session # "none"
    /\ session' = "none"
    /\ native' = IF canFailCurrentOperation THEN "failed" ELSE native
    /\ cancellation' = FALSE
    /\ readyReply' = FALSE
    /\ UNCHANGED <<action, found, begun, sessionOf>>

FrameworkSteps ==
    /\ MainFree
    /\ \/ \E v \in Versions : InfoFinds(v)
       \/ InfoEnds
       \/ UserFinds
       \/ CancellationOffered
       \/ ExtractStarts
       \/ ReadyToInstall
       \/ Installs
       \/ SessionFails
    /\ UNCHANGED <<vars, driverRun, queue, alive>>

-----------------------------------------------------------------------------
(* Driver.Stop, called by Service.Stop *)

\* tc_sparkle_cancel and tc_sparkle_destroy: inline on the main thread, else
\* behind the blocks of the queue.
NativeStop(s) ==
    /\ StopDriver(s)
    /\ StopOnMain \/ queue = <<>>
    /\ CancelCurrent
    /\ action' = "none"
    /\ alive' = FALSE
    /\ UNCHANGED <<driverRun, queue>>

\* The steps of the service that do not involve the driver.
ServiceSteps ==
    /\ \/ UserSteps
       \/ OperationSteps
       \/ TimerSteps
       \/ StartSteps
       \/ \E s \in Stoppers : StopLocks(s) \/ StopCancels(s) \/ StopJoins(s)
    /\ UNCHANGED nativeVars

RunSteps ==
    \E p \in Procs :
        \/ RunBegins(p)
        \/ RunRefused(p)
        \/ RunNotBegun(p)
        \/ RunReports(p)
        \/ RunEnds(p)
        \/ RunCancelled(p)

NativeNext ==
    \/ ServiceSteps
    \/ RunSteps
    \/ MainRuns
    \/ FrameworkSteps
    \/ \E s \in Stoppers : NativeStop(s)

DriverRuns(p) ==
    RunBegins(p) \/ RunRefused(p) \/ RunNotBegun(p) \/ RunEnds(p) \/ RunCancelled(p)

NativeSpec == NativeInit /\ [][NativeNext]_allVars

(***************************************************************************)
(* The goroutines run, and the main thread while it is in its loop; the    *)
(* framework owes nothing, not even an answer to a session it opened.      *)
(***************************************************************************)
NativeFairness ==
    /\ WF_allVars(ServiceSteps /\ StartCancelsOld)
    /\ WF_allVars(MainRuns)
    /\ \A p \in Procs :
          /\ WF_allVars(ServiceSteps /\ (Finish(p) \/ Leave(p)))
          /\ WF_allVars(DriverRuns(p))
    /\ \A s \in Stoppers :
          /\ WF_allVars(ServiceSteps /\ (StopCancels(s) \/ StopJoins(s)))
          /\ WF_allVars(NativeStop(s))

-----------------------------------------------------------------------------
(* Properties *)

Blocks == [block : {"begin", "cancel"}, by : Procs, id : 1..MaxOps]

NativeTypeOK ==
    /\ TypeOK
    /\ driverRun \in [Procs -> {"out", "begin", "refused", "polling"}]
    /\ queue \in Seq(Blocks)
    /\ action \in {"none", "check", "download", "install"}
    /\ native \in {"idle", "pending", "done", "failed"}
    /\ found \in Versions \union {NoVersion}
    /\ cancellation \in BOOLEAN
    /\ readyReply \in BOOLEAN
    /\ begun \in 0..MaxOps
    /\ alive \in BOOLEAN
    /\ session \in Stages
    /\ sessionOf \in 0..MaxOps

\* A cancellation is dispatched without waiting for it.  It still reaches the
\* operation it was meant for, never one that began on the bridge later.
CancelHitsItsOwn ==
    \A i \in DOMAIN queue : queue[i].block = "cancel" => queue[i].id = begun

\* A check answers from the session it opened itself: what is left of a
\* cancelled operation's session answers nobody.
OwnAnswer == found \in Versions => sessionOf = begun \/ action # "check"

\* The framework waits for a decision exactly while the bridge holds the
\* reply, so no finished download waits for an answer nobody can give.
ReplyIsHeld == session = "ready" <=> readyReply

\* No block uses the bridge after tc_sparkle_destroy.
BridgeOutlivesBlocks == ~alive /\ MainFree => queue = <<>>

\* Everything about one state of the service on its bridge: types, cancellations
\* and answers belong to their operation, and the bridge outlives its blocks.
BridgeInv ==
    NativeTypeOK /\ CancelHitsItsOwn /\ OwnAnswer /\ ReplyIsHeld /\ BridgeOutlivesBlocks

\* Driver.begin is the one call that waits for the main thread: nothing but an
\* operation that stays in it holds Stop for good, on whatever thread Stop runs
\* and whatever the framework owes.
StopHeldOnlyByBegin ==
    \A s \in Stoppers :
        []<>(\/ stopper[s].pc \in {"out", "done"}
             \/ \E p \in Procs : driverRun[p] = "begin")
=============================================================================
