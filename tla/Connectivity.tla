---------------------------- MODULE Connectivity ----------------------------
(***************************************************************************)
(* The connection to Telegram as a whole: the run that is restarted for as *)
(* long as it is wanted (resilientAutomation), its three members in one    *)
(* errgroup (productionAutomation), the supervisor of the Tor process, and *)
(* the registry's view of the system route.  The supervisor, its process,  *)
(* the run and the observers of the route's health are concurrent.  A      *)
(* generation is only compared with the one the run read before it started *)
(* the supervisor, so `fresh` says whether the current one is newer.       *)
(***************************************************************************)
EXTENDS Naturals

CONSTANTS BridgeCounts,    \* how many bridge candidates may be loaded
          MaxTorFaults,    \* failures of Tor and of the Telegram manager
          MaxStarts        \* times the connection is started

ASSUME ConnectivityAssumption ==
    BridgeCounts \subseteq Nat /\ {MaxTorFaults, MaxStarts} \subseteq Nat

VARIABLES
    bridges,     \* bridge candidates loaded; with none there is a fallback
    wanted,      \* the controller's context is not done
    conn,        \* the step of productionAutomation.Run within the retry loop
    members,     \* goroutines of the errgroup that have not returned
    down,        \* the errgroup's context is done
    tor,         \* Supervisor.Run: step, candidate, what to do after stopProcess, readyOnce
    process,     \* the process it watches: none, up, exited
    strays,      \* processes it started, left running and no longer watches
    torStatus,     \* Supervisor.status.State
    signal,      \* current.ready: none (no run yet), open, ok, err
    fresh,       \* Supervisor.generation is above the one the run read
    sysState,    \* Registry.routes of the system route
    newest,      \* the observer that holds the newest systemHealthGeneration
    moved,       \* the supervisor's answer changed since that observation began
    observed,        \* what each observer under way has observed
    spent        \* faults and starts so far

connVars == <<bridges, wanted, conn, members, down, tor, process, strays, torStatus,
              signal, fresh, sysState, newest, moved, observed, spent>>
sysVars == <<sysState, newest, observed>>
torVars == <<tor, process, strays, signal, fresh>>
runVars == <<bridges, wanted, conn>>

-----------------------------------------------------------------------------
Group == {"tor", "routes", "gotd"}
Observers == {"worker", "registry"}
Attempts == IF bridges = 0 THEN 1 ELSE bridges
NoTor == [step |-> "off", at |-> 1, after |-> "return", once |-> FALSE]

ConnInit ==
    /\ bridges \in BridgeCounts
    /\ wanted = FALSE /\ conn = "off" /\ members = {} /\ down = FALSE
    /\ tor = NoTor /\ process = "none" /\ strays = 0
    /\ torStatus = "stopped" /\ signal = "none" /\ fresh = FALSE
    /\ sysState = "checking" /\ newest = "nobody" /\ moved = FALSE
    /\ observed = [o \in Observers |-> "none"]
    /\ spent = [faults |-> 0, starts |-> 0]

TorFault ==
    /\ spent.faults < MaxTorFaults
    /\ spent' = [spent EXCEPT !.faults = @ + 1]

\* The answer of SystemHealth changes with the status.
SetStatus(s) ==
    /\ torStatus' = s
    /\ moved' = (moved \/ (s = "ready") # (torStatus = "ready"))
SameStatus == UNCHANGED <<torStatus, moved>>

-----------------------------------------------------------------------------
(* resilientAutomation and productionAutomation *)

StartWanted ==
    /\ ~wanted /\ conn = "off" /\ spent.starts < MaxStarts
    /\ wanted' = TRUE /\ conn' = "begin"
    /\ spent' = [spent EXCEPT !.starts = @ + 1]
    /\ UNCHANGED <<bridges, members, down, torVars, sysVars>>
    /\ SameStatus

\* Stop: every context below is done.
StopWanted ==
    /\ wanted /\ wanted' = FALSE /\ down' = TRUE
    /\ UNCHANGED <<bridges, conn, members, torVars, sysVars, spent>> /\ SameStatus

\* Generation, then the supervisor in a goroutine of its own.
BeginRun ==
    /\ conn = "begin"
    /\ conn' = "wait" /\ members' = {"tor"} /\ down' = ~wanted
    /\ fresh' = FALSE
    /\ tor' = [tor EXCEPT !.step = "spawned"]
    /\ UNCHANGED <<bridges, wanted, process, strays, signal, sysVars, spent>> /\ SameStatus

SignalSeen == signal
\* WaitReadyAfter: the ready channel of a run newer than the generation read.
ReadySeen == IF fresh THEN signal ELSE "none"

WaitReadyAfter ==
    /\ conn = "wait"
    /\ \/ /\ ReadySeen = "ok" /\ conn' = "check" /\ UNCHANGED down
       \/ /\ ReadySeen = "err" \/ down
          /\ conn' = "drain" /\ down' = TRUE
    /\ UNCHANGED <<bridges, wanted, members, torVars, sysVars, spent>>
    /\ SameStatus

\* CheckAll; only a context that is done ends the run here.
CheckRoutes ==
    /\ conn = "check"
    /\ \/ /\ conn' = "drain" /\ members' = members \cup {"routes", "gotd"} /\ UNCHANGED down
       \/ /\ down /\ conn' = "drain" /\ UNCHANGED <<members, down>>
    /\ UNCHANGED <<bridges, wanted, torVars, sysVars, spent>> /\ SameStatus

MemberEndsAlone(m) ==
    /\ m \in members \ {"tor"}
    /\ \/ down /\ UNCHANGED spent
       \/ ~down /\ m = "gotd" /\ TorFault
    /\ members' = members \ {m}
    /\ UNCHANGED <<runVars, down, torVars, sysVars>> /\ SameStatus
\* A member returns; the first error ends the context of the others.
MemberEnds(m) ==
    /\ m \in members \ {"tor"}
    /\ \/ down /\ UNCHANGED spent
       \/ ~down /\ m = "gotd" /\ TorFault
    /\ members' = members \ {m} /\ down' = TRUE
    /\ UNCHANGED <<runVars, torVars, sysVars>> /\ SameStatus

\* group.Wait; then the retry's delay, unless the run is no longer wanted.
GroupWait ==
    /\ conn = "drain" /\ members = {}
    /\ conn' = IF wanted THEN "begin" ELSE "off"
    /\ UNCHANGED <<bridges, wanted, members, down, torVars, sysVars, spent>>
    /\ SameStatus

-----------------------------------------------------------------------------
(* Supervisor.Run *)

TorGoes(step) == tor' = [tor EXCEPT !.step = step]

beginRun ==
    /\ tor.step = "spawned"
    /\ tor' = [NoTor EXCEPT !.step = "attempt"]
    /\ fresh' = TRUE /\ signal' = "open"
    /\ SetStatus("starting")
    /\ UNCHANGED <<runVars, members, down, process, strays, sysVars, spent>>

\* Run returns: finishRun, and the errgroup's context ends with its error.
TorReturns(s, sig) ==
    /\ TorGoes("off")
    /\ members' = members \ {"tor"} /\ down' = TRUE
    /\ SetStatus(s)
    /\ signal' = IF signal = "open" THEN sig ELSE signal
    /\ UNCHANGED <<runVars, fresh, sysVars>>

\* The timer is set and loses against a context that is done already.
EnterBackoff ==
    /\ tor' = [tor EXCEPT !.step = "backoff", !.after = IF down THEN "return" ELSE "next"]
    /\ SetStatus("degraded")

\* The next candidate; after the last one the backoff, or the end when there
\* never was a bridge to try and the attempt failed before the process said
\* anything.
NextCandidate(fatal) ==
    IF tor.at < Attempts
    THEN /\ tor' = [tor EXCEPT !.step = "attempt", !.at = @ + 1]
         /\ UNCHANGED <<runVars, members, down, signal, fresh, sysVars>> /\ SameStatus
    ELSE IF fatal /\ ~tor.once /\ bridges = 0
    THEN TorReturns("error", "err")
    ELSE /\ EnterBackoff
         /\ UNCHANGED <<runVars, members, down, signal, fresh, sysVars>>

\* Transport, configuration, logs and the process itself.
StartProcess ==
    /\ tor.step = "attempt"
    /\ \/ TorFault /\ NextCandidate(TRUE) /\ UNCHANGED <<process, strays>>
       \/ /\ TorGoes("boot") /\ process' = "up"
          /\ strays' = IF process = "up" THEN strays + 1 ELSE strays
          /\ SetStatus("starting")
          /\ UNCHANGED <<runVars, members, down, signal, fresh, sysVars, spent>>

ProcessExits ==
    /\ process = "up"
    /\ IF tor.step = "kill" THEN UNCHANGED spent ELSE TorFault
    /\ process' = "exited"
    /\ UNCHANGED <<runVars, members, down, tor, strays, signal, fresh, sysVars>> /\ SameStatus

\* stopProcess: interrupt, and kill what does not obey.
StopProcess(after) ==
    /\ tor' = [tor EXCEPT !.step = "kill", !.after = after]
    /\ UNCHANGED <<runVars, members, down, process, strays, signal, fresh, sysVars>> /\ SameStatus

Boot ==
    /\ tor.step = "boot"
    /\ \/ down /\ StopProcess("return") /\ UNCHANGED spent
       \/ /\ process = "exited" /\ process' = "none"
          /\ NextCandidate(TRUE) /\ UNCHANGED <<strays, spent>>
       \/ StopProcess("next") /\ IF down THEN UNCHANGED spent ELSE TorFault
       \/ /\ tor' = [tor EXCEPT !.step = "ready", !.once = TRUE]
          /\ SetStatus("ready")
          /\ signal' = IF signal = "open" THEN "ok" ELSE signal
          /\ UNCHANGED <<runVars, members, down, process, strays, fresh, sysVars, spent>>

Serve ==
    /\ tor.step = "ready"
    /\ \/ down /\ StopProcess("return") /\ UNCHANGED spent
       \/ /\ process = "exited" /\ process' = "none"
          /\ EnterBackoff
          /\ UNCHANGED <<runVars, members, down, strays, signal, fresh, sysVars, spent>>

\* The exit is read; a failed attempt goes on, a stopped run returns.
Killed ==
    /\ tor.step = "kill" /\ process = "exited" /\ process' = "none"
    /\ UNCHANGED <<strays, spent>>
    /\ IF tor.after = "return" THEN TorReturns("stopped", "err") ELSE NextCandidate(FALSE)

Backoff ==
    /\ tor.step = "backoff"
    /\ UNCHANGED <<process, strays, spent>>
    /\ \/ down /\ TorReturns("stopped", "err")
       \/ /\ tor.after = "next" /\ tor' = [tor EXCEPT !.step = "attempt", !.at = 1]
          /\ UNCHANGED <<runVars, members, down, signal, fresh, sysVars>> /\ SameStatus

TorStep == beginRun \/ StartProcess \/ Boot \/ Serve \/ Killed \/ Backoff

-----------------------------------------------------------------------------
(* refreshSystemHealth, by RouteFor of a worker and by the registry's loop *)

BeginObservation(o) ==
    /\ observed[o] = "none"
    /\ observed' = [observed EXCEPT ![o] = "token"] /\ newest' = o /\ moved' = FALSE
    /\ UNCHANGED sysState

\* The callback is evaluated outside the lock.
Observe(o) ==
    /\ observed[o] = "token"
    /\ observed' = [observed EXCEPT ![o] = IF torStatus = "ready" THEN "ready" ELSE "degraded"]
    /\ UNCHANGED <<sysState, newest, moved>>

\* What an observation leaves: an older one that comes late leaves nothing.
LeftBy(o) == IF newest = o THEN observed[o] ELSE sysState

ApplyObservation(o) ==
    /\ observed[o] \in {"ready", "degraded"}
    /\ sysState' = LeftBy(o)
    /\ observed' = [observed EXCEPT ![o] = "none"]
    /\ UNCHANGED <<newest, moved>>

\* RecordFailure of a worker.
SystemFails ==
    /\ sysState' = "degraded"
    /\ UNCHANGED <<newest, moved, observed>>

SystemStep ==
    /\ \/ \E o \in Observers : BeginObservation(o) \/ Observe(o) \/ ApplyObservation(o)
       \/ SystemFails
    /\ UNCHANGED <<runVars, members, down, torVars, torStatus, spent>>

-----------------------------------------------------------------------------
RunStep == BeginRun \/ WaitReadyAfter \/ CheckRoutes \/ GroupWait
        \/ \E m \in Group : MemberEnds(m)

ConnNext == StartWanted \/ StopWanted \/ RunStep \/ TorStep \/ ProcessExits \/ SystemStep

\* Goroutines that can go on do, and a process that is killed exits.
ConnFairness ==
    /\ WF_connVars(RunStep) /\ WF_connVars(TorStep)
    /\ WF_connVars(tor.step = "kill" /\ ProcessExits)

ConnSpec == ConnInit /\ [][ConnNext]_connVars /\ ConnFairness

-----------------------------------------------------------------------------
TorSteps == {"off", "spawned", "attempt", "boot", "ready", "kill", "backoff"}

ConnTypeOK ==
    /\ bridges \in Nat /\ wanted \in BOOLEAN
    /\ conn \in {"off", "begin", "wait", "check", "drain"}
    /\ members \subseteq Group /\ down \in BOOLEAN
    /\ tor \in [step : TorSteps, at : Nat, after : {"return", "next"}, once : BOOLEAN]
    /\ process \in {"none", "up", "exited"}
    /\ torStatus \in {"stopped", "starting", "ready", "degraded", "error"}
    /\ signal \in {"none", "open", "ok", "err"} /\ fresh \in BOOLEAN
    /\ moved \in BOOLEAN
    /\ observed \in [Observers -> {"none", "token", "ready", "degraded"}]

\* Two Tor processes never share the state directory and the port, and a run
\* that returned leaves none behind.
OneProcess ==
    strays = 0 /\ (tor.step \in {"off", "spawned", "attempt", "backoff"} => process # "up")

\* The supervisor is started only when its previous run has returned: it never
\* refuses with "already running".
OneSupervisor == (tor.step = "off") = ("tor" \notin members)

\* Telegram's workers run only if Tor has been ready in this very run.
WorkersBehindTor == "gotd" \in members => fresh /\ signal = "ok"

\* The status says ready only while the process was started and its exit not
\* yet read, or while it is being stopped.
ReadyHasProcess == torStatus = "ready" => tor.step \in {"ready", "kill"} /\ process # "none"

\* With no observation under way the system route is ready only if the
\* supervisor was when the newest one looked.
NoFalseReady ==
    sysState = "ready" /\ ~moved /\ (\A o \in Observers : observed[o] = "none")
        => torStatus = "ready"

\* What the supervisor's step says of the run it belongs to: a run begins when
\* nobody of the last one is left, a supervisor that has not begun has not been
\* seen ready, and what is watched or stopped has been started.
TorFollowsRun ==
    /\ conn \in {"off", "begin"} => members = {}
    /\ conn = "check" => fresh /\ signal = "ok"
    /\ tor.step = "spawned" => ~fresh
    /\ tor.step \in {"boot", "ready", "kill"} => process # "none"
    /\ tor.step = "kill" /\ torStatus = "ready" => tor.after = "return"

\* What the newest observer saw is the supervisor's answer for as long as that
\* did not change, and so is what it left.
NewestIsTrue ==
    ~moved =>
        /\ newest \in Observers /\ observed[newest] \in {"ready", "degraded"}
               => (observed[newest] = "ready") = (torStatus = "ready")
        /\ sysState = "ready" /\ (newest \in Observers => observed[newest] = "none")
               => torStatus = "ready"

\* The inductive invariant of the connection, its process and its health.
ConnInv == ConnTypeOK /\ OneProcess /\ OneSupervisor /\ WorkersBehindTor
           /\ ReadyHasProcess /\ NoFalseReady /\ TorFollowsRun /\ NewestIsTrue

\* A connection that is wanted comes about again after failures, one that is
\* stopped ends, process and all.
ConnSettles == []<>(IF wanted THEN "gotd" \in members /\ ~down
                              ELSE conn = "off" /\ process # "up")
=============================================================================
