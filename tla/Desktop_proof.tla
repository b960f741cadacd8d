---------------------------- MODULE Desktop_proof ----------------------------
(***************************************************************************)
(* Proofs about the parts of the desktop program: the connection to        *)
(* Telegram behind the Tor process, the proxy routes, the program's life   *)
(* and the keywords of the imports window.                                 *)
(***************************************************************************)
EXTENDS Keywords, Routes, Connectivity, Lifecycle, FiniteSetTheorems, TLAPS

-----------------------------------------------------------------------------
(* Connectivity *)

\* The rows of the supervisor.
TorType == [step : TorSteps, at : Nat, after : {"return", "next"}, once : BOOLEAN]

\* Before the program connects nothing runs and nothing was observed.
LEMMA ConnStarts == ConnInit => ConnInv
<1> SUFFICES ASSUME ConnInit PROVE ConnInv
  OBVIOUS
<1>1. bridges \in Nat
  BY ConnectivityAssumption DEF ConnectivityAssumption, ConnInit
<1>2. tor \in TorType
  BY DEF ConnInit, NoTor, TorSteps, TorType
<1>3. ConnTypeOK
  BY <1>1, <1>2 DEF ConnInit, ConnTypeOK, TorType
<1>4. OneProcess /\ OneSupervisor /\ WorkersBehindTor /\ ReadyHasProcess
  BY DEF ConnInit, OneProcess, OneSupervisor, WorkersBehindTor, ReadyHasProcess, NoTor
<1>5. NewestIsTrue /\ NoFalseReady /\ TorFollowsRun
  BY DEF ConnInit, NewestIsTrue, NoFalseReady, TorFollowsRun, NoTor, Observers
<1>. QED
  BY <1>3, <1>4, <1>5 DEF ConnInv

\* An interrupted process is stopped before the run goes on; a status that said
\* ready ends with the run it belongs to.
LEMMA StopProcessKeeps ==
  ASSUME ConnInv, tor.step \in {"boot", "ready"}, NEW after \in {"return", "next"},
         torStatus = "ready" => after = "return", StopProcess(after)
  PROVE  ConnInv'
<1> USE DEF StopProcess, SameStatus, runVars, sysVars
<1>1. tor' \in TorType /\ tor'.step = "kill" /\ tor'.after = after
  BY DEF ConnInv, ConnTypeOK, TorSteps, TorType
<1>2. ConnTypeOK'
  BY <1>1 DEF ConnInv, ConnTypeOK, TorType
<1>3. OneProcess' /\ OneSupervisor' /\ WorkersBehindTor' /\ ReadyHasProcess'
  BY <1>1 DEF ConnInv, OneProcess, OneSupervisor, WorkersBehindTor, ReadyHasProcess
<1>4. TorFollowsRun'
  BY <1>1 DEF ConnInv, TorFollowsRun
<1>5. NoFalseReady' /\ NewestIsTrue'
  BY DEF ConnInv, NoFalseReady, NewestIsTrue
<1>. QED
  BY <1>2, <1>3, <1>4, <1>5 DEF ConnInv

\* A supervisor in the middle of its run that leaves a dead process, or none,
\* for the backoff.
LEMMA EnterBackoffKeeps ==
  ASSUME ConnInv, tor.step \notin {"off", "spawned"}, EnterBackoff,
         process' \in {"none", "exited"},
         UNCHANGED <<runVars, members, down, strays, signal, fresh, sysVars>>
  PROVE  ConnInv'
<1> USE DEF EnterBackoff, SetStatus, runVars, sysVars
<1>1. tor' \in TorType /\ tor'.step = "backoff"
  BY DEF ConnInv, ConnTypeOK, TorSteps, TorType
<1>2. ConnTypeOK'
  BY <1>1 DEF ConnInv, ConnTypeOK, TorType
<1>3. OneProcess' /\ OneSupervisor' /\ WorkersBehindTor' /\ ReadyHasProcess'
  BY <1>1 DEF ConnInv, OneProcess, OneSupervisor, WorkersBehindTor, ReadyHasProcess
<1>4. TorFollowsRun'
  BY <1>1 DEF ConnInv, TorFollowsRun
<1>5. NoFalseReady' /\ NewestIsTrue'
  BY DEF ConnInv, NoFalseReady, NewestIsTrue
<1>. QED
  BY <1>2, <1>3, <1>4, <1>5 DEF ConnInv

\* A run that returns leaves no process and takes its member out of the group.
LEMMA TorReturnsKeeps ==
  ASSUME ConnInv, tor.step \notin {"off", "spawned"}, NEW s \in {"stopped", "error"},
         TorReturns(s, "err"), process' \in {"none", "exited"}, UNCHANGED strays
  PROVE  ConnInv'
<1> USE DEF TorReturns, TorGoes, SetStatus, runVars, sysVars
<1>1. tor' \in TorType /\ tor'.step = "off"
  BY DEF ConnInv, ConnTypeOK, TorSteps, TorType
<1>2. ConnTypeOK'
  BY <1>1 DEF ConnInv, ConnTypeOK, TorType
<1>3. OneProcess' /\ OneSupervisor' /\ WorkersBehindTor' /\ ReadyHasProcess'
  BY <1>1 DEF ConnInv, OneProcess, OneSupervisor, WorkersBehindTor, ReadyHasProcess
<1>4. TorFollowsRun'
  BY <1>1 DEF ConnInv, TorFollowsRun
<1>5. NoFalseReady' /\ NewestIsTrue'
  BY DEF ConnInv, NoFalseReady, NewestIsTrue
<1>. QED
  BY <1>2, <1>3, <1>4, <1>5 DEF ConnInv

\* What follows a failed attempt, whichever candidate it was.
LEMMA NextCandidateKeeps ==
  ASSUME ConnInv, tor.step \notin {"off", "spawned"}, torStatus # "ready",
         NEW fatal \in BOOLEAN, NextCandidate(fatal),
         process' \in {"none", "exited"}, UNCHANGED strays
  PROVE  ConnInv'
<1>1. CASE /\ tor' = [tor EXCEPT !.step = "attempt", !.at = @ + 1]
           /\ UNCHANGED <<runVars, members, down, signal, fresh, sysVars>> /\ SameStatus
  <2> USE <1>1 DEF SameStatus, runVars, sysVars
  <2>0. tor \in TorType /\ tor.at + 1 \in Nat
    BY DEF ConnInv, ConnTypeOK, TorType
  <2>1. tor' \in TorType /\ tor'.step = "attempt"
    BY <2>0 DEF TorSteps, TorType
  <2>2. ConnTypeOK'
    BY <2>1 DEF ConnInv, ConnTypeOK, TorType
  <2>3. OneProcess' /\ OneSupervisor' /\ WorkersBehindTor' /\ ReadyHasProcess'
    BY <2>1 DEF ConnInv, OneProcess, OneSupervisor, WorkersBehindTor, ReadyHasProcess
  <2>4. TorFollowsRun'
    BY <2>1 DEF ConnInv, TorFollowsRun
  <2>5. NoFalseReady' /\ NewestIsTrue'
    BY DEF ConnInv, NoFalseReady, NewestIsTrue
  <2>. QED
    BY <2>2, <2>3, <2>4, <2>5 DEF ConnInv
<1>2. CASE TorReturns("error", "err")
  BY <1>2, TorReturnsKeeps
<1>3. CASE EnterBackoff /\ UNCHANGED <<runVars, members, down, signal, fresh, sysVars>>
  BY <1>3, EnterBackoffKeeps
<1>. QED
  BY <1>1, <1>2, <1>3 DEF NextCandidate

\* A run of the supervisor begins with its first candidate and a new signal.
LEMMA beginRunKeeps == ConnInv /\ beginRun => ConnInv'
<1> SUFFICES ASSUME ConnInv, beginRun PROVE ConnInv'
  OBVIOUS
<1> USE DEF beginRun, NoTor, SetStatus, runVars, sysVars
<1>1. tor' \in TorType /\ tor'.step = "attempt"
  BY DEF TorSteps, TorType
<1>2. ConnTypeOK'
  BY <1>1 DEF ConnInv, ConnTypeOK, TorType
<1>3. OneProcess' /\ OneSupervisor' /\ WorkersBehindTor' /\ ReadyHasProcess'
  BY <1>1 DEF ConnInv, TorFollowsRun, OneProcess, OneSupervisor, WorkersBehindTor, ReadyHasProcess
<1>4. TorFollowsRun'
  BY <1>1 DEF ConnInv, TorFollowsRun
<1>5. NoFalseReady' /\ NewestIsTrue'
  BY DEF ConnInv, NoFalseReady, NewestIsTrue, ReadyHasProcess
<1>. QED
  BY <1>2, <1>3, <1>4, <1>5 DEF ConnInv

\* A process is started only where none is left, or the attempt fails before.
LEMMA StartProcessKeeps == ConnInv /\ StartProcess => ConnInv'
<1> SUFFICES ASSUME ConnInv, StartProcess PROVE ConnInv'
  OBVIOUS
<1>0. tor.step = "attempt" /\ torStatus # "ready" /\ process \in {"none", "exited"}
  BY DEF StartProcess, ConnInv, ConnTypeOK, ReadyHasProcess, OneProcess
<1>1. CASE TorFault /\ NextCandidate(TRUE) /\ UNCHANGED <<process, strays>>
  BY <1>0, <1>1, NextCandidateKeeps
<1>2. CASE /\ TorGoes("boot") /\ process' = "up"
           /\ strays' = IF process = "up" THEN strays + 1 ELSE strays
           /\ SetStatus("starting")
           /\ UNCHANGED <<runVars, members, down, signal, fresh, sysVars, spent>>
  <2> USE <1>0, <1>2 DEF TorGoes, SetStatus, runVars, sysVars
  <2>1. tor' \in TorType /\ tor'.step = "boot"
    BY DEF ConnInv, ConnTypeOK, TorSteps, TorType
  <2>2. ConnTypeOK'
    BY <2>1 DEF ConnInv, ConnTypeOK, TorType
  <2>3. OneProcess' /\ OneSupervisor' /\ WorkersBehindTor' /\ ReadyHasProcess'
    BY <2>1 DEF ConnInv, OneProcess, OneSupervisor, WorkersBehindTor, ReadyHasProcess
  <2>4. TorFollowsRun'
    BY <2>1 DEF ConnInv, TorFollowsRun
  <2>5. NoFalseReady' /\ NewestIsTrue'
    BY DEF ConnInv, NoFalseReady, NewestIsTrue
  <2>. QED
    BY <2>2, <2>3, <2>4, <2>5 DEF ConnInv
<1>. QED
  BY <1>1, <1>2 DEF StartProcess

\* A process that boots is stopped, dies, or becomes ready in the run it belongs to.
LEMMA BootKeeps == ConnInv /\ Boot => ConnInv'
<1> SUFFICES ASSUME ConnInv, Boot PROVE ConnInv'
  OBVIOUS
<1>0. tor.step = "boot" /\ torStatus # "ready" /\ process # "none"
  BY DEF Boot, ConnInv, ConnTypeOK, ReadyHasProcess, TorFollowsRun
<1>1. CASE \E after \in {"return", "next"} : StopProcess(after)
  BY <1>0, <1>1, StopProcessKeeps
<1>2. CASE process' = "none" /\ NextCandidate(TRUE) /\ UNCHANGED strays
  BY <1>0, <1>2, NextCandidateKeeps
<1>3. CASE /\ tor' = [tor EXCEPT !.step = "ready", !.once = TRUE]
           /\ SetStatus("ready")
           /\ signal' = IF signal = "open" THEN "ok" ELSE signal
           /\ UNCHANGED <<runVars, members, down, process, strays, fresh, sysVars, spent>>
  <2> USE <1>0, <1>3 DEF SetStatus, runVars, sysVars
  <2>1. tor' \in TorType /\ tor'.step = "ready"
    BY DEF ConnInv, ConnTypeOK, TorSteps, TorType
  <2>2. ConnTypeOK'
    BY <2>1 DEF ConnInv, ConnTypeOK, TorType
  <2>3. OneProcess' /\ OneSupervisor' /\ WorkersBehindTor' /\ ReadyHasProcess'
    BY <2>1 DEF ConnInv, OneProcess, OneSupervisor, WorkersBehindTor, ReadyHasProcess
  <2>4. TorFollowsRun'
    BY <2>1 DEF ConnInv, TorFollowsRun
  <2>5. NoFalseReady' /\ NewestIsTrue'
    BY DEF ConnInv, NoFalseReady, NewestIsTrue
  <2>. QED
    BY <2>2, <2>3, <2>4, <2>5 DEF ConnInv
<1>. QED
  BY <1>1, <1>2, <1>3 DEF Boot

\* A process that serves is stopped or its end is read.
LEMMA ServeKeeps == ConnInv /\ Serve => ConnInv'
<1> SUFFICES ASSUME ConnInv, Serve PROVE ConnInv'
  OBVIOUS
<1>1. CASE StopProcess("return")
  BY <1>1, StopProcessKeeps DEF Serve
<1>2. CASE /\ process' = "none" /\ EnterBackoff
           /\ UNCHANGED <<runVars, members, down, strays, signal, fresh, sysVars>>
  BY <1>2, EnterBackoffKeeps DEF Serve
<1>. QED
  BY <1>1, <1>2 DEF Serve

\* A killed process has exited before the run returns or tries again.
LEMMA KilledKeeps == ConnInv /\ Killed => ConnInv'
<1> SUFFICES ASSUME ConnInv, Killed PROVE ConnInv'
  OBVIOUS
<1>0. tor.step = "kill" /\ process' = "none" /\ UNCHANGED strays
  BY DEF Killed
<1>1. CASE TorReturns("stopped", "err")
  BY <1>0, <1>1, TorReturnsKeeps
<1>2. CASE tor.after # "return" /\ NextCandidate(FALSE)
  BY <1>0, <1>2, NextCandidateKeeps DEF ConnInv, TorFollowsRun
<1>. QED
  BY <1>1, <1>2 DEF Killed

\* The backoff ends the run or starts over, with no process.
LEMMA BackoffKeeps == ConnInv /\ Backoff => ConnInv'
<1> SUFFICES ASSUME ConnInv, Backoff PROVE ConnInv'
  OBVIOUS
<1>0. /\ tor.step = "backoff" /\ process \in {"none", "exited"}
      /\ UNCHANGED <<process, strays>>
  BY DEF Backoff, ConnInv, ConnTypeOK, OneProcess
<1>1. CASE TorReturns("stopped", "err")
  BY <1>0, <1>1, TorReturnsKeeps
<1>2. CASE /\ tor' = [tor EXCEPT !.step = "attempt", !.at = 1]
           /\ UNCHANGED <<runVars, members, down, signal, fresh, sysVars>> /\ SameStatus
  <2> USE <1>0, <1>2 DEF SameStatus, runVars, sysVars
  <2>1. tor' \in TorType /\ tor'.step = "attempt"
    BY DEF ConnInv, ConnTypeOK, TorSteps, TorType
  <2>2. ConnTypeOK'
    BY <2>1 DEF ConnInv, ConnTypeOK, TorType
  <2>3. OneProcess' /\ OneSupervisor' /\ WorkersBehindTor' /\ ReadyHasProcess'
    BY <2>1 DEF ConnInv, OneProcess, OneSupervisor, WorkersBehindTor, ReadyHasProcess
  <2>4. TorFollowsRun'
    BY <2>1 DEF ConnInv, TorFollowsRun
  <2>5. NoFalseReady' /\ NewestIsTrue'
    BY DEF ConnInv, NoFalseReady, NewestIsTrue
  <2>. QED
    BY <2>2, <2>3, <2>4, <2>5 DEF ConnInv
<1>. QED
  BY <1>1, <1>2 DEF Backoff

\* productionAutomation starts the supervisor when the last one has returned.
LEMMA BeginRunKeeps == ConnInv /\ BeginRun => ConnInv'
<1> SUFFICES ASSUME ConnInv, BeginRun PROVE ConnInv'
  OBVIOUS
<1> USE DEF BeginRun, SameStatus, sysVars
<1>0. members = {} /\ tor.step = "off" /\ (torStatus # "ready")
  BY DEF ConnInv, TorFollowsRun, OneSupervisor, ReadyHasProcess
<1>1. tor' \in TorType /\ tor'.step = "spawned"
  BY DEF ConnInv, ConnTypeOK, TorSteps, TorType
<1>2. ConnTypeOK'
  <2>1. members' \subseteq Group /\ down' \in BOOLEAN /\ conn' = "wait" /\ fresh' = FALSE
    BY DEF Group
  <2>2. UNCHANGED <<bridges, wanted, process, torStatus, signal, moved, observed>>
    OBVIOUS
  <2>. QED
    BY <1>1, <2>1, <2>2 DEF ConnInv, ConnTypeOK, TorType
<1>3. OneProcess' /\ OneSupervisor' /\ WorkersBehindTor' /\ ReadyHasProcess'
  BY <1>0, <1>1 DEF ConnInv, OneProcess, OneSupervisor, WorkersBehindTor, ReadyHasProcess
<1>4. TorFollowsRun'
  BY <1>1 DEF ConnInv, TorFollowsRun
<1>5. NoFalseReady' /\ NewestIsTrue'
  BY DEF ConnInv, NoFalseReady, NewestIsTrue
<1>. QED
  BY <1>2, <1>3, <1>4, <1>5 DEF ConnInv

\* Only the readiness of this very run lets the workers in.
LEMMA WaitReadyAfterKeeps == ConnInv /\ WaitReadyAfter => ConnInv'
<1> SUFFICES ASSUME ConnInv, WaitReadyAfter PROVE ConnInv'
  OBVIOUS
<1> USE DEF WaitReadyAfter, SameStatus, sysVars, torVars
<1>1. /\ UNCHANGED <<bridges, wanted, members, tor, process, torStatus, signal, fresh>>
      /\ UNCHANGED <<moved, observed>>
  OBVIOUS
<1>2. ConnTypeOK'
  <2>1. conn' \in {"check", "drain"} /\ down' \in {down, TRUE}
    OBVIOUS
  <2>. QED
    BY <1>1, <2>1 DEF ConnInv, ConnTypeOK
<1>3. OneProcess' /\ OneSupervisor' /\ WorkersBehindTor' /\ ReadyHasProcess'
  BY DEF ConnInv, OneProcess, OneSupervisor, WorkersBehindTor, ReadyHasProcess
<1>4. TorFollowsRun'
  BY DEF ConnInv, TorFollowsRun, ReadySeen
<1>5. NoFalseReady' /\ NewestIsTrue'
  BY DEF ConnInv, NoFalseReady, NewestIsTrue
<1>. QED
  BY <1>2, <1>3, <1>4, <1>5 DEF ConnInv

\* The process may exit at any time.
LEMMA ProcessExitsKeeps == ConnInv /\ ProcessExits => ConnInv'
<1> SUFFICES ASSUME ConnInv, ProcessExits PROVE ConnInv'
  OBVIOUS
<1> USE DEF ProcessExits, SameStatus, runVars, sysVars
<1>2. ConnTypeOK'
  BY DEF ConnInv, ConnTypeOK
<1>3. OneProcess' /\ OneSupervisor' /\ WorkersBehindTor' /\ ReadyHasProcess'
  BY DEF ConnInv, OneProcess, OneSupervisor, WorkersBehindTor, ReadyHasProcess
<1>4. TorFollowsRun'
  BY DEF ConnInv, TorFollowsRun
<1>5. NoFalseReady' /\ NewestIsTrue'
  BY DEF ConnInv, NoFalseReady, NewestIsTrue
<1>. QED
  BY <1>2, <1>3, <1>4, <1>5 DEF ConnInv

\* The observers of the health: a late observation leaves nothing, the newest one
\* what it saw.
LEMMA SystemStepKeeps == ConnInv /\ SystemStep => ConnInv'
<1> SUFFICES ASSUME ConnInv, SystemStep PROVE ConnInv'
  OBVIOUS
<1>1. /\ UNCHANGED <<bridges, wanted, conn, members, down, tor, process, strays>>
      /\ UNCHANGED <<torStatus, signal, fresh>>
  BY DEF SystemStep, runVars, torVars
<1>2. /\ observed' \in [Observers -> {"none", "token", "ready", "degraded"}]
      /\ moved' \in BOOLEAN
  BY DEF SystemStep, BeginObservation, Observe, ApplyObservation, SystemFails, ConnInv,
         ConnTypeOK
<1>3. ConnTypeOK'
  BY <1>1, <1>2 DEF ConnInv, ConnTypeOK
<1>4. OneProcess' /\ OneSupervisor' /\ WorkersBehindTor' /\ ReadyHasProcess'
  BY <1>1 DEF ConnInv, OneProcess, OneSupervisor, WorkersBehindTor, ReadyHasProcess
<1>5. TorFollowsRun'
  BY <1>1 DEF ConnInv, TorFollowsRun
<1>6. NewestIsTrue'
  <2> USE <1>1 DEF ConnInv, ConnTypeOK, NewestIsTrue
  <2>1. ASSUME NEW o \in Observers, BeginObservation(o) PROVE NewestIsTrue'
    BY <2>1 DEF BeginObservation
  <2>2. ASSUME NEW o \in Observers, Observe(o) PROVE NewestIsTrue'
    BY <2>2 DEF Observe
  <2>3. ASSUME NEW o \in Observers, ApplyObservation(o) PROVE NewestIsTrue'
    BY <2>3 DEF ApplyObservation, LeftBy
  <2>4. CASE SystemFails
    BY <2>4 DEF SystemFails
  <2>. QED
    BY <2>1, <2>2, <2>3, <2>4 DEF SystemStep
<1>7. NoFalseReady'
  BY <1>6 DEF NewestIsTrue, NoFalseReady
<1>. QED
  BY <1>3, <1>4, <1>5, <1>6, <1>7 DEF ConnInv

\* Every step of the run, the supervisor, its process and the observers keeps
\* the invariant, for any number of bridges, faults and starts.
LEMMA ConnSteps == ConnInv /\ [ConnNext]_connVars => ConnInv'
<1> SUFFICES ASSUME ConnInv, [ConnNext]_connVars PROVE ConnInv'
  OBVIOUS
<1>1. CASE TorStep
  BY <1>1, beginRunKeeps, StartProcessKeeps, BootKeeps, ServeKeeps, KilledKeeps, BackoffKeeps
     DEF TorStep
<1>2. CASE BeginRun \/ WaitReadyAfter \/ ProcessExits
  BY <1>2, BeginRunKeeps, WaitReadyAfterKeeps, ProcessExitsKeeps
<1>3. CASE StartWanted
  <2>1. /\ UNCHANGED <<members, tor, process, strays, torStatus, signal, fresh>>
        /\ UNCHANGED <<bridges, sysState, newest, moved, observed>>
    BY <1>3 DEF StartWanted, SameStatus, torVars, sysVars
  <2>2. wanted' \in BOOLEAN /\ down' \in BOOLEAN /\ conn' \in {"begin", conn}
    BY <1>3 DEF StartWanted, ConnInv, ConnTypeOK
  <2>3. ConnTypeOK'
    BY <2>1, <2>2 DEF ConnInv, ConnTypeOK
  <2>4. OneProcess' /\ OneSupervisor' /\ WorkersBehindTor' /\ ReadyHasProcess'
    BY <2>1 DEF ConnInv, OneProcess, OneSupervisor, WorkersBehindTor, ReadyHasProcess
  <2>5. conn' = "begin" => members' = {}
    BY <1>3, <2>1 DEF StartWanted, ConnInv, TorFollowsRun
  <2>6. TorFollowsRun'
    BY <2>1, <2>2, <2>5 DEF ConnInv, TorFollowsRun
  <2>7. NoFalseReady' /\ NewestIsTrue'
    BY <2>1 DEF ConnInv, NoFalseReady, NewestIsTrue
  <2>. QED
    BY <2>3, <2>4, <2>6, <2>7 DEF ConnInv
<1>4. CASE StopWanted
  <2>1. /\ UNCHANGED <<members, tor, process, strays, torStatus, signal, fresh>>
        /\ UNCHANGED <<bridges, sysState, newest, moved, observed>>
    BY <1>4 DEF StopWanted, SameStatus, torVars, sysVars
  <2>2. wanted' \in BOOLEAN /\ down' \in BOOLEAN /\ conn' \in {"begin", conn}
    BY <1>4 DEF StopWanted, ConnInv, ConnTypeOK
  <2>3. ConnTypeOK'
    BY <2>1, <2>2 DEF ConnInv, ConnTypeOK
  <2>4. OneProcess' /\ OneSupervisor' /\ WorkersBehindTor' /\ ReadyHasProcess'
    BY <2>1 DEF ConnInv, OneProcess, OneSupervisor, WorkersBehindTor, ReadyHasProcess
  <2>5. conn' = "begin" => members' = {}
    BY <1>4, <2>1 DEF StopWanted, ConnInv, TorFollowsRun
  <2>6. TorFollowsRun'
    BY <2>1, <2>2, <2>5 DEF ConnInv, TorFollowsRun
  <2>7. NoFalseReady' /\ NewestIsTrue'
    BY <2>1 DEF ConnInv, NoFalseReady, NewestIsTrue
  <2>. QED
    BY <2>3, <2>4, <2>6, <2>7 DEF ConnInv
<1> USE DEF ConnInv, ConnTypeOK, TorSteps, OneProcess, OneSupervisor, WorkersBehindTor,
            ReadyHasProcess, NoFalseReady, TorFollowsRun, NewestIsTrue, Group, Observers,
            runVars, torVars, sysVars, SetStatus, SameStatus
<1>5. CASE CheckRoutes
  <2>1. /\ UNCHANGED <<bridges, wanted, down, tor, process, strays, torStatus, signal, fresh>>
        /\ UNCHANGED <<sysState, newest, moved, observed>>
    BY <1>5 DEF CheckRoutes
  <2>2. conn' = "drain" /\ members' \in {members, members \cup {"routes", "gotd"}}
    BY <1>5 DEF CheckRoutes
  <2>3. fresh /\ signal = "ok"
    BY <1>5 DEF CheckRoutes
  <2>. QED
    BY <2>1, <2>2, <2>3
<1>6. CASE GroupWait
  BY <1>6 DEF GroupWait
<1>7. CASE \E m \in Group : MemberEnds(m)
  BY <1>7 DEF MemberEnds
<1>8. CASE SystemStep
  BY <1>8, SystemStepKeeps
<1>9. CASE UNCHANGED connVars
  BY <1>9 DEF connVars
<1>. QED
  BY <1>1, <1>2, <1>3, <1>4, <1>5, <1>6, <1>7, <1>8, <1>9 DEF ConnNext, RunStep

\* One process, one supervisor, workers only behind a Tor that was ready in this
\* very run, and a health that is never falsely good: for any bridges, faults
\* and starts.
THEOREM ConnInvariant == ConnSpec => []ConnInv
<1>1. ConnInit => ConnInv
  BY ConnStarts
<1>2. ConnInv /\ [ConnNext]_connVars => ConnInv'
  BY ConnSteps
<1>. QED
  BY <1>1, <1>2, PTL DEF ConnSpec

-----------------------------------------------------------------------------
(* Routes *)

\* At first nobody has a profile and nothing was checked.
LEMMA RoutesStart == RoutesInit => RoutesInv
<1> SUFFICES ASSUME RoutesInit PROVE RoutesInv
  OBVIOUS
<1> USE DEF RoutesInit
<1>1. RoutesTypeOK
  <2>1. [a \in RouteAccounts |-> System] \in Assignments
    BY DEF Assignments, AllRoutes
  <2>2. [a \in RouteAccounts |-> "unassigned"] \in Assignments
    BY DEF Assignments, AllRoutes
  <2>3. NoHandler \in Handlers
    BY <2>2 DEF NoHandler, AllRoutes, Handlers
  <2>. QED
    BY <2>1, <2>3 DEF RoutesTypeOK, NotProbing, RouteStates, Walks
<1>2. WithinCapacity
  <2>1. \A p \in Profiles : Users(p) = {}
    BY RoutesAssumption DEF RoutesAssumption, Users, System
  <2>2. RouteCapacity \in Nat
    BY RoutesAssumption DEF RoutesAssumption
  <2>3. Cardinality({}) <= RouteCapacity
    BY <2>2, FS_EmptySet
  <2>. QED
    BY <2>1, <2>3 DEF WithinCapacity
<1>3. NoOrphan /\ FailureKept /\ CheckSeesFailures
  BY RoutesAssumption DEF RoutesAssumption, NoOrphan, System, FailureKept, CheckSeesFailures, NotProbing, NoHandler
<1>. QED
  BY <1>1, <1>2, <1>3 DEF RoutesInv

\* An account more makes at most one user more; whoever leaves makes none.
LEMMA UsersAfter ==
  ASSUME RoutesTypeOK, NEW a \in RouteAccounts, NEW r \in AllRoutes, NEW p \in Profiles,
         assigned' = [assigned EXCEPT ![a] = r]
  PROVE  /\ IsFiniteSet(Users(p)) /\ IsFiniteSet(Users(p)')
         /\ Cardinality(Users(p)') <= Cardinality(Users(p) \ {a}) + (IF p = r THEN 1 ELSE 0)
<1>1. IsFiniteSet(Users(p)) /\ IsFiniteSet(Users(p)')
  BY FS_Subset, RoutesAssumption DEF RoutesAssumption, Users
<1>2. IsFiniteSet(Users(p) \ {a})
  BY <1>1, FS_Subset
<1>3. Users(p)' = IF p = r THEN (Users(p) \ {a}) \cup {a} ELSE Users(p) \ {a}
  BY DEF Users, RoutesTypeOK, Assignments
<1>4. Cardinality((Users(p) \ {a}) \cup {a}) = Cardinality(Users(p) \ {a}) + 1
  BY <1>2, FS_AddElement
<1>5. Cardinality(Users(p) \ {a}) \in Nat
  BY <1>2, FS_CardinalityType
<1>. QED
  BY <1>1, <1>3, <1>4, <1>5

\* The trigger admits an account only while a place is left.
LEMMA AssignAccountKeeps ==
  ASSUME RoutesInv, NEW c \in RouteCalls, AssignAccount(c)
  PROVE  RoutesInv'
<1> DEFINE a == handler[c].who
           r == handler[c].to
<1>0. a \in RouteAccounts /\ r \in AllRoutes
  BY DEF AssignAccount, RoutesInv, RoutesTypeOK, CheckSeesFailures, Handlers
<1>1. CASE Admits(a, r) /\ assigned' = [assigned EXCEPT ![a] = r]
                        /\ handler' = [handler EXCEPT ![c] = [NoHandler EXCEPT !.step = "list"]]
  <2>1. WithinCapacity'
    <3> SUFFICES ASSUME NEW p \in Profiles PROVE Cardinality(Users(p)') <= RouteCapacity
      BY DEF WithinCapacity
    <3>1. /\ IsFiniteSet(Users(p)) /\ IsFiniteSet(Users(p)')
          /\ Cardinality(Users(p)') <= Cardinality(Users(p) \ {a}) + (IF p = r THEN 1 ELSE 0)
      BY <1>0, <1>1, UsersAfter DEF RoutesInv
    <3>2. Cardinality(Users(p) \ {a}) <= Cardinality(Users(p))
      BY <3>1, FS_Subset
    <3>3. /\ Cardinality(Users(p)) \in Nat /\ Cardinality(Users(p)') \in Nat
          /\ Cardinality(Users(p) \ {a}) \in Nat
      BY <3>1, FS_Subset, FS_CardinalityType
    <3>4. Cardinality(Users(p)) <= RouteCapacity
      BY DEF RoutesInv, WithinCapacity
    <3>5. p = r => Cardinality(Users(p) \ {a}) < RouteCapacity
      BY <1>1, RoutesAssumption DEF Admits, RoutesAssumption, System
    <3>. QED
      BY <3>1, <3>2, <3>3, <3>4, <3>5, RoutesAssumption DEF RoutesAssumption
  <2>2. NoOrphan'
    BY <1>0, <1>1, RoutesAssumption DEF RoutesAssumption, AssignAccount, RoutesInv, RoutesTypeOK, Assignments, NoOrphan, Admits, System
  <2>3. RoutesTypeOK'
    <3>1. assigned' \in Assignments
      BY <1>0, <1>1 DEF RoutesInv, RoutesTypeOK, Assignments
    <3>2. handler' \in [RouteCalls -> Handlers]
      <4>1. [a_1 \in RouteAccounts |-> "unassigned"] \in Assignments
        BY DEF Assignments
      <4>. QED
        BY <1>1, <4>1 DEF RoutesInv, RoutesTypeOK, NoHandler, AllRoutes, Handlers
    <3>. QED
      BY <3>1, <3>2 DEF AssignAccount, RoutesInv, RoutesTypeOK
  <2>4. FailureKept' /\ CheckSeesFailures'
    BY <1>1 DEF AssignAccount, RoutesInv, RoutesTypeOK, FailureKept, CheckSeesFailures, NoHandler
  <2>. QED
    BY <2>1, <2>2, <2>3, <2>4 DEF RoutesInv
<1>2. CASE handler' = [handler EXCEPT ![c] = NoHandler] /\ UNCHANGED assigned
  <2>1. RoutesTypeOK'
    <3>1. handler' \in [RouteCalls -> Handlers]
      <4>1. [a_1 \in RouteAccounts |-> "unassigned"] \in Assignments
        BY DEF Assignments
      <4>. QED
        BY <1>2, <4>1 DEF RoutesInv, RoutesTypeOK, NoHandler, AllRoutes, Handlers
    <3>. QED
      BY <1>2, <3>1 DEF AssignAccount, RoutesInv, RoutesTypeOK
  <2>2. WithinCapacity' /\ NoOrphan'
    BY <1>2 DEF AssignAccount, RoutesInv, WithinCapacity, NoOrphan, Users
  <2>3. FailureKept' /\ CheckSeesFailures'
    BY <1>2 DEF AssignAccount, RoutesInv, RoutesTypeOK, FailureKept, CheckSeesFailures, NoHandler
  <2>. QED
    BY <2>1, <2>2, <2>3 DEF RoutesInv
<1>. QED
  BY <1>1, <1>2 DEF AssignAccount

\* Whoever only moves the checks of a profile on leaves the store alone.
LEMMA HealthKeeps ==
  ASSUME RoutesInv, UNCHANGED <<storeVars, published, handler>>, RoutesTypeOK',
         FailureKept', CheckSeesFailures'
  PROVE  RoutesInv'
BY DEF RoutesInv, storeVars, WithinCapacity, NoOrphan, Users

\* A check that ends counts only if nobody wrote the route meanwhile.
LEMMA CheckStepKeeps ==
  ASSUME RoutesInv, NEW p \in Profiles, CheckStep(p)
  PROVE  RoutesInv'
<1>1. CASE CheckRoute(p) \/ Probe(p)
  <2>1. PICK s \in {"bad", "off", "probe", "good"} :
            probing' = [probing EXCEPT ![p].step = s]
    BY <1>1 DEF CheckRoute, Probe
  <2>2. /\ UNCHANGED <<storeVars, published, health, failed, loop, handler>>
        /\ probing[p].step # "none"
    BY <1>1 DEF CheckRoute, Probe
  <2>3. RoutesTypeOK'
    BY <2>1, <2>2 DEF RoutesInv, RoutesTypeOK, storeVars
  <2>4. FailureKept' /\ CheckSeesFailures'
    BY <2>1, <2>2 DEF RoutesInv, RoutesTypeOK, FailureKept, CheckSeesFailures, storeVars
  <2>. QED
    BY <2>2, <2>3, <2>4, HealthKeeps
<1>2. CASE FinishCheck(p)
  <2>1. RoutesTypeOK'
    <3>1. health' \in [Profiles -> [state : RouteStates, wait : BOOLEAN]]
      BY <1>2 DEF FinishCheck, Applied, Outcome, RoutesInv, RoutesTypeOK, RouteStates
    <3>2. /\ UNCHANGED <<profile, assigned, published, failed, handler>>
          /\ loop' \in {loop, [loop EXCEPT !.step = "walk", !.at = NoCaller]}
          /\ probing' = [probing EXCEPT ![p] = NotProbing]
      BY <1>2 DEF FinishCheck, storeVars, Unlisted
    <3>3. loop' \in Walks
      BY <3>2 DEF RoutesInv, RoutesTypeOK, Walks
    <3>. QED
      BY <3>1, <3>2, <3>3 DEF RoutesInv, RoutesTypeOK, NotProbing
  <2>2. FailureKept' /\ CheckSeesFailures'
    BY <1>2 DEF FinishCheck, Unlisted, NotProbing, Applied, Outcome, RoutesInv, RoutesTypeOK,
       FailureKept, CheckSeesFailures
  <2>. QED
    BY <1>2, <2>1, <2>2, HealthKeeps DEF FinishCheck
<1>. QED
  BY <1>1, <1>2 DEF CheckStep

\* A check begins by forgetting the failures before it.
LEMMA startCheckKeeps ==
  ASSUME RoutesInv, NEW p \in Profiles, NEW by \in {"loop", "user"}, startCheck(p, by),
         UNCHANGED <<storeVars, published, handler>>,
         loop' \in Walks
  PROVE  RoutesInv'
<1>1. RoutesTypeOK'
  <2>1. health' \in [Profiles -> [state : RouteStates, wait : BOOLEAN]]
    BY DEF startCheck, RoutesInv, RoutesTypeOK, RouteStates
  <2>2. probing' \in [Profiles -> [by : {NoCaller, "loop", "user"}, same : BOOLEAN,
                               step : {"none", "read", "probe", "good", "off", "bad"}]]
    BY DEF startCheck, RoutesInv, RoutesTypeOK
  <2>. QED
    BY <2>1, <2>2 DEF startCheck, RoutesInv, RoutesTypeOK, storeVars
<1>2. FailureKept' /\ CheckSeesFailures'
  BY DEF startCheck, RoutesInv, RoutesTypeOK, FailureKept, CheckSeesFailures, NoCaller
<1>. QED
  BY <1>1, <1>2, HealthKeeps

\* Any other write of a route makes the check under way void.
LEMMA WriteHealthKeeps ==
  ASSUME RoutesInv, NEW p \in Profiles, NEW state \in {"disabled", "degraded"},
         NEW waits \in BOOLEAN, WriteHealth(p, state, waits),
         failed' \in {failed, failed \cup {p}},
         UNCHANGED <<storeVars, published, handler>>,
         loop' \in Walks
  PROVE  RoutesInv'
<1> DEFINE still == probing[p].same /\ probing[p].by = NoCaller
<1>1. /\ probing' = [probing EXCEPT ![p].same = still] /\ still \in BOOLEAN
      /\ still => probing[p].by = NoCaller
  BY DEF WriteHealth
<1> HIDE DEF still
<1>2. RoutesTypeOK'
  <2>1. health' \in [Profiles -> [state : RouteStates, wait : BOOLEAN]]
    BY DEF WriteHealth, RoutesInv, RoutesTypeOK, RouteStates
  <2>2. probing' \in [Profiles -> [by : {NoCaller, "loop", "user"}, same : BOOLEAN,
                               step : {"none", "read", "probe", "good", "off", "bad"}]]
    BY <1>1 DEF RoutesInv, RoutesTypeOK
  <2>. QED
    BY <2>1, <2>2 DEF RoutesInv, RoutesTypeOK, storeVars
<1>3. FailureKept'
  BY DEF WriteHealth, RoutesInv, RoutesTypeOK, FailureKept
<1>4. CheckSeesFailures'
  BY <1>1 DEF RoutesInv, RoutesTypeOK, CheckSeesFailures
<1>. QED
  BY <1>2, <1>3, <1>4, HealthKeeps

\* The registry's loop.
LEMMA LoopStepKeeps == RoutesInv /\ LoopStep => RoutesInv'
<1> SUFFICES ASSUME RoutesInv, LoopStep PROVE RoutesInv'
  OBVIOUS
<1>1. CASE Tick \/ EndWalk
  <2>1. UNCHANGED <<profile, assigned, published, health, failed, probing, handler>>
    BY <1>1 DEF Tick, EndWalk, storeVars
  <2>2. loop \in Walks
    BY DEF RoutesInv, RoutesTypeOK
  <2>3. CASE Tick
    <3>1. /\ {p \in Profiles : profile[p] # "absent"} \in SUBSET Profiles
          /\ {p \in Profiles : profile[p] = "off"} \in SUBSET Profiles
      OBVIOUS
    <3>. QED
      BY <2>1, <2>3, <3>1 DEF Tick, Walks, RoutesInv, RoutesTypeOK, WithinCapacity, NoOrphan,
         Users, FailureKept, CheckSeesFailures
  <2>4. CASE EndWalk
    <3>1. loop' \in Walks
      BY <2>2, <2>4 DEF EndWalk, Walks
    <3>. QED
      BY <2>1, <3>1 DEF RoutesInv, RoutesTypeOK, WithinCapacity, NoOrphan, Users,
         FailureKept, CheckSeesFailures
  <2>. QED
    BY <1>1, <2>3, <2>4
<1>2. ASSUME NEW p \in Profiles, Visit(p) PROVE RoutesInv'
  <2>0. loop \in Walks /\ loop.todo \ {p} \in SUBSET Profiles
    BY DEF RoutesInv, RoutesTypeOK, Walks
  <2>1. /\ UNCHANGED <<storeVars, published, handler>>
        /\ loop' \in Walks
    BY <1>2, <2>0 DEF Visit, Walks
  <2>2. CASE WriteHealth(p, "disabled", FALSE) /\ UNCHANGED failed
    BY <2>1, <2>2, WriteHealthKeeps
  <2>3. CASE UNCHANGED <<health, probing, failed>>
    BY <2>1, <2>3 DEF RoutesInv, RoutesTypeOK, WithinCapacity, NoOrphan, Users, FailureKept,
       CheckSeesFailures, storeVars
  <2>4. CASE startCheck(p, "loop")
    BY <2>1, <2>4, startCheckKeeps
  <2>. QED
    BY <1>2, <2>2, <2>3, <2>4 DEF Visit
<1>. QED
  BY <1>1, <1>2 DEF LoopStep

\* Saving a profile never takes it away from its accounts.
LEMMA SaveProxyProfileKeeps ==
  ASSUME RoutesInv, NEW c \in RouteCalls, NEW p \in Profiles, NEW on \in BOOLEAN,
         SaveProxyProfile(c, p, on)
  PROVE  RoutesInv'
<1>1. RoutesTypeOK'
  <2>1. /\ profile' \in [Profiles -> {"absent", "off", "on"}]
        /\ UNCHANGED <<assigned, published, health, failed, probing, loop>>
    BY DEF SaveProxyProfile, RoutesInv, RoutesTypeOK
  <2>2. handler' \in [RouteCalls -> Handlers]
    BY DEF SaveProxyProfile, RoutesInv, RoutesTypeOK, Handlers
  <2>. QED
    BY <2>1, <2>2 DEF RoutesInv, RoutesTypeOK
<1>2. WithinCapacity' /\ NoOrphan'
  BY DEF SaveProxyProfile, RoutesInv, RoutesTypeOK, WithinCapacity, NoOrphan, Users
<1>3. FailureKept' /\ CheckSeesFailures'
  BY DEF SaveProxyProfile, RoutesInv, RoutesTypeOK, FailureKept, CheckSeesFailures
<1>. QED
  BY <1>1, <1>2, <1>3 DEF RoutesInv

\* Handlers of the desktop: only a profile nobody has is deleted.
LEMMA HandlersKeep == RoutesInv /\ DeskStep => RoutesInv'
<1> SUFFICES ASSUME RoutesInv, DeskStep PROVE RoutesInv'
  OBVIOUS
<1>1. ASSUME NEW c \in RouteCalls, NEW p \in Profiles, NEW on \in BOOLEAN,
             SaveProxyProfile(c, p, on)
      PROVE  RoutesInv'
  BY <1>1, SaveProxyProfileKeeps
<1>2. ASSUME NEW p \in Profiles, DeleteProxyProfile(p) PROVE RoutesInv'
  <2>1. /\ UNCHANGED <<assigned, published, health, failed, probing, loop, handler>>
        /\ profile' = [profile EXCEPT ![p] = "absent"] /\ Users(p) = {}
    BY <1>2 DEF DeleteProxyProfile, Deletable
  <2>. QED
    BY <2>1 DEF RoutesInv, RoutesTypeOK, WithinCapacity, NoOrphan, Users, FailureKept,
       CheckSeesFailures
<1>3. ASSUME NEW p \in Profiles, UserChecks(p) PROVE RoutesInv'
  BY <1>3, startCheckKeeps DEF UserChecks, RoutesInv, RoutesTypeOK
<1>4. ASSUME NEW c \in RouteCalls, NEW a \in RouteAccounts, NEW r \in AllRoutes,
             AskRoute(c, a, r)
      PROVE  RoutesInv'
  <2>1. /\ UNCHANGED <<storeVars, published, health, failed, probing, loop>>
        /\ handler' = [handler EXCEPT ![c].step = "assign", ![c].who = a, ![c].to = r]
    BY <1>4 DEF AskRoute
  <2>2. RoutesTypeOK'
    <3>1. handler[c] \in Handlers
      BY DEF RoutesInv, RoutesTypeOK
    <3>2. [handler[c] EXCEPT !.step = "assign", !.who = a, !.to = r] \in Handlers
      BY <3>1 DEF Handlers
    <3>3. handler' \in [RouteCalls -> Handlers]
      BY <2>1, <3>2 DEF RoutesInv, RoutesTypeOK
    <3>. QED
      BY <2>1, <3>3 DEF RoutesInv, RoutesTypeOK, storeVars
  <2>3. CheckSeesFailures'
    BY <2>1 DEF RoutesInv, RoutesTypeOK, CheckSeesFailures
  <2>. QED
    BY <2>1, <2>2, <2>3 DEF RoutesInv, WithinCapacity, NoOrphan, Users, FailureKept, storeVars
<1>. QED
  BY <1>1, <1>2, <1>3, <1>4 DEF DeskStep

\* Every step of the loop, the checks, the handlers and the workers keeps the
\* invariant, for any accounts, profiles and capacity.
LEMMA RoutesSteps == RoutesInv /\ [RoutesNext]_routesVars => RoutesInv'
<1> SUFFICES ASSUME RoutesInv, [RoutesNext]_routesVars PROVE RoutesInv'
  OBVIOUS
<1>1. CASE LoopStep \/ DeskStep
  BY <1>1, LoopStepKeeps, HandlersKeep
<1>2. ASSUME NEW p \in Profiles, CheckStep(p) PROVE RoutesInv'
  BY <1>2, CheckStepKeeps
<1>3. ASSUME NEW p \in Profiles, RetryDue(p) PROVE RoutesInv'
  <2>1. /\ UNCHANGED <<storeVars, published, failed, probing, loop, handler>>
        /\ health' = [health EXCEPT ![p].wait = FALSE]
    BY <1>3 DEF RetryDue
  <2>2. RoutesTypeOK'
    BY <2>1 DEF RoutesInv, RoutesTypeOK, storeVars
  <2>3. FailureKept' /\ CheckSeesFailures'
    BY <2>1 DEF RoutesInv, RoutesTypeOK, FailureKept, CheckSeesFailures
  <2>. QED
    BY <2>1, <2>2, <2>3, HealthKeeps
<1>4. ASSUME NEW p \in Profiles, RouteForAssigned(p) \/ RecordFailure(p) PROVE RoutesInv'
  BY <1>4, WriteHealthKeeps DEF RouteForAssigned, RecordFailure, RoutesInv, RoutesTypeOK
<1>5. ASSUME NEW c \in RouteCalls, AssignAccount(c) PROVE RoutesInv'
  BY <1>5, AssignAccountKeeps
<1>6. ASSUME NEW c \in RouteCalls, ListAccounts(c) PROVE RoutesInv'
  <2>1. /\ UNCHANGED <<storeVars, published, health, failed, probing, loop>>
        /\ handler' = [handler EXCEPT ![c].step = "update", ![c].list = assigned]
    BY <1>6 DEF ListAccounts
  <2>2. RoutesTypeOK'
    <3>1. handler' \in [RouteCalls -> Handlers]
      BY <2>1 DEF RoutesInv, RoutesTypeOK, Handlers
    <3>. QED
      BY <2>1, <3>1 DEF RoutesInv, RoutesTypeOK, storeVars
  <2>3. CheckSeesFailures'
    BY <2>1 DEF RoutesInv, RoutesTypeOK, CheckSeesFailures
  <2>. QED
    BY <2>1, <2>2, <2>3 DEF RoutesInv, WithinCapacity, NoOrphan, Users, FailureKept, storeVars
<1>7. ASSUME NEW c \in RouteCalls, PublishAssignments(c) PROVE RoutesInv'
  <2>1. [a \in RouteAccounts |-> "unassigned"] \in Assignments
    BY DEF Assignments
  <2>2. /\ UNCHANGED <<storeVars, health, failed, probing, loop>>
        /\ published' \in Assignments
        /\ handler' = [handler EXCEPT ![c] = NoHandler]
    BY <1>7 DEF PublishAssignments, RoutesInv, RoutesTypeOK, Handlers
  <2>3. RoutesTypeOK'
    BY <2>1, <2>2 DEF RoutesInv, RoutesTypeOK, NoHandler, AllRoutes, Handlers, storeVars
  <2>. QED
    BY <2>2, <2>3 DEF RoutesInv, RoutesTypeOK, WithinCapacity, NoOrphan, Users, FailureKept,
       CheckSeesFailures, storeVars, NoHandler
<1>8. CASE UNCHANGED routesVars
  BY <1>8 DEF routesVars, RoutesInv, RoutesTypeOK, WithinCapacity, NoOrphan, Users,
     FailureKept, CheckSeesFailures
<1>. QED
  BY <1>1, <1>2, <1>3, <1>4, <1>5, <1>6, <1>7, <1>8 DEF RoutesNext, HandlerGoesOn

\* No profile has more accounts than it takes, no account a deleted profile, and no
\* route is ready after a failure: for any accounts, profiles and handlers.
THEOREM RoutesInvariant == RoutesSpec => []RoutesInv
<1>1. RoutesInit => RoutesInv
  BY RoutesStart
<1>2. RoutesInv /\ [RoutesNext]_routesVars => RoutesInv'
  BY RoutesSteps
<1>. QED
  BY <1>1, <1>2, PTL DEF RoutesSpec

-----------------------------------------------------------------------------
(* Lifecycle *)

\* The program begins with nothing open and nothing running.
LEMMA LifeStarts == LifecycleInit => LifecycleInv
<1> SUFFICES ASSUME LifecycleInit PROVE LifecycleInv
  OBVIOUS
<1> USE DEF LifecycleInit
<1>1. MaxRun \in Nat /\ MaxRun >= 1
  BY LifecycleAssumption DEF LifecycleAssumption, MaxRun
<1>2. LifecycleTypeOK
  <2>1. /\ slot \in [Workers -> 0..MaxRun] /\ live \in [Workers -> SUBSET (1..MaxRun)]
        /\ launched \in [Workers -> 0..MaxRun]
    BY <1>1
  <2>2. /\ waiting \in [Stoppers -> AllRuns \cup {NoStop}]
        /\ operation \in [Operations -> {"idle", "current", "forgotten"}]
    OBVIOUS
  <2>. QED
    BY <2>1, <2>2 DEF LifecycleTypeOK
<1>3. OneRun
  BY FS_EmptySet DEF OneRun, Workers
<1>4. RunsFollowSlots /\ Stoppable
  BY DEF RunsFollowSlots, Stoppable
<1>5. ShutdownFollowsOrder /\ ClosedUnderNobody
  BY DEF ShutdownFollowsOrder, ClosedUnderNobody, Ahead, Stoppers
<1>6. FailedBuildCloses /\ NoneForgotten
  BY DEF FailedBuildCloses, NoneForgotten
<1>. QED
  BY <1>2, <1>3, <1>4, <1>5, <1>6 DEF LifecycleInv

\* Numbers of runs are natural.
LEMMA RunNumbers ==
  /\ MaxRun \in Nat /\ MaxRun >= 1
  /\ LifecycleTypeOK => \A w \in Workers : slot[w] \in Nat /\ launched[w] \in Nat
                                           /\ launched[w] <= MaxRun /\ slot[w] <= MaxRun
BY LifecycleAssumption DEF LifecycleAssumption, MaxRun, LifecycleTypeOK

\* One slot bounds the runs of a worker that empties it itself.
LEMMA OneRunFollows == LifecycleTypeOK /\ RunsFollowSlots => OneRun
<1> SUFFICES ASSUME LifecycleTypeOK, RunsFollowSlots, NEW w \in Controllers \cup {"analysis"}
             PROVE  Cardinality(live[w]) <= 1
  BY DEF OneRun
<1>1. live[w] \subseteq {slot[w]}
  BY DEF RunsFollowSlots, Workers, Controllers
<1>2. IsFiniteSet({slot[w]}) /\ Cardinality({slot[w]}) = 1
  BY FS_Singleton
<1>3. IsFiniteSet(live[w]) /\ Cardinality(live[w]) <= Cardinality({slot[w]})
  BY <1>1, <1>2, FS_Subset
<1>. QED
  BY <1>2, <1>3

\* Shutdown that has passed everyone leaves nobody.
LEMMA ClosedFollows == LifecycleTypeOK /\ ShutdownFollowsOrder => ClosedUnderNobody
<1> SUFFICES ASSUME LifecycleTypeOK, ShutdownFollowsOrder, phase = "closed"
             PROVE  /\ \A o \in Operations : operation[o] = "idle"
                    /\ \A w \in Workers : \A n \in live[w] : <<w, n>> \in late \cup relaunched
  BY DEF ClosedUnderNobody
<1>1. phase \notin Workers /\ Ahead(phase) = {}
  BY DEF Workers, Controllers, Ahead
<1>2. waiting["shutdown"] = NoStop /\ passed = Workers
  BY <1>1 DEF ShutdownFollowsOrder
<1>3. ASSUME NEW w \in Workers, NEW n \in live[w] PROVE <<w, n>> \in late \cup relaunched
  <2>1. <<w, n>> \in late \cup relaunched \cup {NoStop}
    BY <1>2 DEF ShutdownFollowsOrder
  <2>2. <<w, n>> # NoStop
    BY DEF NoStop, Workers, Controllers
  <2>. QED
    BY <2>1, <2>2
<1>. QED
  BY <1>3 DEF ShutdownFollowsOrder

\* What a step has to keep.
LEMMA LifeKept ==
  ASSUME LifecycleTypeOK', FailedBuildCloses', Stoppable', NoneForgotten',
         RunsFollowSlots', ShutdownFollowsOrder'
  PROVE  LifecycleInv'
<1>1. OneRun'
  BY OneRunFollows, PTL
<1>2. ClosedUnderNobody'
  BY ClosedFollows, PTL
<1>. QED
  BY <1>1, <1>2 DEF LifecycleInv

\* Runs that are started get new numbers, and those of workers that shutdown has
\* passed are counted as relaunched.
LEMMA LaunchKeeps ==
  ASSUME LifecycleInv, NEW workers \in SUBSET Workers, Launch(workers),
         UNCHANGED <<build, held, waiting, operation, closing, phase, passed, late>>
  PROVE  LifecycleInv'
<1> DEFINE new == {w \in workers : MayLaunch(w)}
<1>0. LifecycleTypeOK /\ RunsFollowSlots /\ Stoppable /\ ShutdownFollowsOrder
      /\ FailedBuildCloses /\ NoneForgotten
  BY DEF LifecycleInv
<1>1. new \subseteq Workers /\ \A w \in new : slot[w] = 0 /\ launched[w] < MaxRun
  BY DEF MayLaunch
<1>2. /\ launched' = [w \in Workers |-> IF w \in new THEN launched[w] + 1 ELSE launched[w]]
      /\ slot' = [w \in Workers |-> IF w \in new THEN launched'[w] ELSE slot[w]]
      /\ live' = [w \in Workers |-> live[w] \cup (IF w \in new THEN {launched'[w]} ELSE {})]
      /\ relaunched' = relaunched \cup {<<w, launched'[w]>> : w \in new \cap passed}
      /\ UNCHANGED <<told, answer>>
  BY DEF Launch
<1> HIDE DEF new
<1>3. ASSUME NEW w \in new
      PROVE  /\ launched'[w] = launched[w] + 1 /\ slot'[w] = launched[w] + 1
             /\ live'[w] = live[w] \cup {launched[w] + 1}
             /\ launched[w] + 1 \in 1..MaxRun
  BY <1>0, <1>1, <1>2, RunNumbers
<1>4. ASSUME NEW w \in Workers \ new
      PROVE  launched'[w] = launched[w] /\ slot'[w] = slot[w] /\ live'[w] = live[w]
  BY <1>2
<1>5. LifecycleTypeOK'
  <2>1. /\ launched' \in [Workers -> 0..MaxRun] /\ slot' \in [Workers -> 0..MaxRun]
        /\ live' \in [Workers -> SUBSET (1..MaxRun)]
    BY <1>0, <1>1, <1>2, <1>3, <1>4, RunNumbers DEF LifecycleTypeOK
  <2>2. relaunched' \subseteq AllRuns
    <3>1. \A w \in new \cap passed : <<w, launched'[w]>> \in AllRuns
      BY <1>1, <1>3 DEF AllRuns
    <3>. QED
      BY <1>0, <1>2, <3>1 DEF LifecycleTypeOK
  <2>. QED
    BY <1>0, <1>2, <2>1, <2>2 DEF LifecycleTypeOK
<1>6. Stoppable'
  <2> SUFFICES ASSUME NEW w \in Workers, NEW n \in live'[w]
               PROVE  slot'[w] = n \/ <<w, n>> \in told'
    BY DEF Stoppable
  <2>1. CASE w \in new
    <3>1. CASE n = launched[w] + 1
      BY <1>3, <2>1, <3>1
    <3>2. CASE n \in live[w]
      <4>1. n # 0
        BY <1>0, <3>2 DEF LifecycleTypeOK
      <4>. QED
        BY <1>0, <1>1, <1>2, <2>1, <3>2, <4>1 DEF Stoppable
    <3>. QED
      BY <1>3, <2>1, <3>1, <3>2
  <2>2. CASE w \notin new
    BY <1>0, <1>2, <1>4, <2>2 DEF Stoppable
  <2>. QED
    BY <2>1, <2>2
<1>7. RunsFollowSlots'
  <2> SUFFICES ASSUME NEW w \in Workers
               PROVE  /\ live'[w] \subseteq 1..launched'[w] /\ slot'[w] <= launched'[w]
                      /\ w \notin {"backup", "maintenance"} \/ w \notin passed
                            => live'[w] \subseteq {slot'[w]}
                      /\ \A n \in 1..MaxRun : <<w, n>> \in answer
                            => n \notin live'[w] /\ n <= launched'[w]
    BY <1>2 DEF RunsFollowSlots
  <2>1. CASE w \in new
    <3>1. launched[w] \in Nat /\ slot[w] = 0
      BY <1>0, <1>1, <2>1, RunNumbers
    <3>2. live[w] \subseteq 1..launched[w]
      BY <1>0 DEF RunsFollowSlots
    <3>3. w \notin {"backup", "maintenance"} \/ w \notin passed => live[w] = {}
      BY <1>0, <3>1, <3>2 DEF RunsFollowSlots
    <3>4. ASSUME NEW n \in 1..MaxRun, <<w, n>> \in answer
          PROVE  n \notin live'[w] /\ n <= launched'[w]
      BY <1>0, <1>3, <2>1, <3>1, <3>4 DEF RunsFollowSlots
    <3>. QED
      BY <1>3, <2>1, <3>1, <3>2, <3>3, <3>4
  <2>2. CASE w \notin new
    BY <1>0, <1>4, <2>2 DEF RunsFollowSlots
  <2>. QED
    BY <2>1, <2>2
<1>8. ShutdownFollowsOrder'
  <2>1. ASSUME NEW w \in passed, NEW n \in live'[w]
        PROVE  <<w, n>> \in late \cup relaunched' \cup {waiting["shutdown"]}
    <3>1. CASE n \in live[w]
      BY <1>0, <1>2, <3>1 DEF ShutdownFollowsOrder
    <3>2. CASE w \in new /\ n = launched'[w]
      BY <1>2, <3>2
    <3>. QED
      BY <1>0, <1>2, <3>1, <3>2 DEF LifecycleTypeOK
  <2>. QED
    BY <1>0, <2>1 DEF ShutdownFollowsOrder, Ahead
<1>9. FailedBuildCloses' /\ NoneForgotten'
  BY <1>0 DEF FailedBuildCloses, NoneForgotten
<1>. QED
  BY <1>5, <1>6, <1>7, <1>8, <1>9, LifeKept

\* A run that returns leaves its slot and has answered at most once.
LEMMA RunEndsKeeps ==
  ASSUME LifecycleInv, NEW w \in Workers, NEW n \in 1..MaxRun, RunEnds(w, n)
  PROVE  LifecycleInv'
<1>0. LifecycleTypeOK /\ RunsFollowSlots /\ Stoppable /\ ShutdownFollowsOrder
      /\ FailedBuildCloses /\ NoneForgotten
  BY DEF LifecycleInv
<1>1. /\ n \in live[w] /\ live' = [live EXCEPT ![w] = @ \ {n}]
      /\ slot' = [slot EXCEPT ![w] = Emptied(w, n)]
      /\ answer' \in {answer, answer \cup {<<w, n>>}}
      /\ UNCHANGED <<build, held, launched, told, relaunched, waiting, operation, closing>>
      /\ UNCHANGED <<phase, passed, late>>
  BY DEF RunEnds, appVars, opVars, downVars
<1>2. /\ Emptied(w, n) \in 0..MaxRun /\ Emptied(w, n) \in {slot[w], 0}
      /\ slot[w] # n => Emptied(w, n) = slot[w]
      /\ w \in {"backup", "maintenance"} => Emptied(w, n) = slot[w]
  BY <1>0, RunNumbers DEF Emptied, LifecycleTypeOK
<1>3. LifecycleTypeOK'
  <2>1. slot' \in [Workers -> 0..MaxRun] /\ live' \in [Workers -> SUBSET (1..MaxRun)]
    BY <1>0, <1>1, <1>2 DEF LifecycleTypeOK
  <2>2. answer' \subseteq AllRuns
    BY <1>0, <1>1 DEF LifecycleTypeOK, AllRuns
  <2>. QED
    BY <1>0, <1>1, <2>1, <2>2 DEF LifecycleTypeOK
<1>4. \A v \in Workers : live'[v] \subseteq live[v]
  BY <1>0, <1>1 DEF LifecycleTypeOK
<1>5. live'[w] = live[w] \ {n} /\ slot'[w] = Emptied(w, n)
      /\ \A v \in Workers \ {w} : live'[v] = live[v] /\ slot'[v] = slot[v]
  BY <1>0, <1>1 DEF LifecycleTypeOK
<1>6. Stoppable'
  BY <1>0, <1>1, <1>2, <1>5 DEF Stoppable
<1>7. RunsFollowSlots'
  <2> SUFFICES ASSUME NEW v \in Workers
               PROVE  /\ live'[v] \subseteq 1..launched[v] /\ slot'[v] <= launched[v]
                      /\ v \notin {"backup", "maintenance"} \/ v \notin passed
                            => live'[v] \subseteq {slot'[v]}
                      /\ \A i \in 1..MaxRun : <<v, i>> \in answer'
                            => i \notin live'[v] /\ i <= launched[v]
    BY <1>1 DEF RunsFollowSlots
  <2>1. CASE v = w
    <3>1. slot'[v] <= launched[v] /\ live'[v] \subseteq 1..launched[v]
      BY <1>0, <1>2, <1>4, <1>5, <2>1, RunNumbers DEF RunsFollowSlots
    <3>2. v \notin {"backup", "maintenance"} \/ v \notin passed => live'[v] \subseteq {slot'[v]}
      BY <1>0, <1>1, <1>2, <1>5, <2>1 DEF RunsFollowSlots
    <3>3. n <= launched[w]
      BY <1>0, <1>1 DEF RunsFollowSlots
    <3>4. \A i \in 1..MaxRun : <<v, i>> \in answer' => i \notin live'[v] /\ i <= launched[v]
      BY <1>0, <1>1, <1>5, <2>1, <3>3 DEF RunsFollowSlots
    <3>. QED
      BY <3>1, <3>2, <3>4
  <2>2. CASE v # w
    BY <1>0, <1>1, <1>5, <2>2 DEF RunsFollowSlots
  <2>. QED
    BY <2>1, <2>2
<1>8. ShutdownFollowsOrder'
  <2>1. \A v \in passed : \A i \in live'[v] :
            <<v, i>> \in late \cup relaunched \cup {waiting["shutdown"]}
    BY <1>0, <1>4 DEF ShutdownFollowsOrder, LifecycleTypeOK
  <2>. QED
    BY <1>0, <1>1, <2>1 DEF ShutdownFollowsOrder, Ahead
<1>9. FailedBuildCloses' /\ NoneForgotten'
  BY <1>0, <1>1 DEF FailedBuildCloses, NoneForgotten
<1>. QED
  BY <1>3, <1>6, <1>7, <1>8, <1>9, LifeKept

\* Handlers that only tell a run to stop, wait for one, or take an answer, and
\* never touch shutdown's own waiting.
LEMMA TellingKeeps ==
  ASSUME LifecycleInv,
         UNCHANGED <<build, held, slot, live, launched, relaunched, operation, closing>>,
         UNCHANGED <<phase, passed, late>>,
         told \subseteq told', told' \subseteq AllRuns, answer' \subseteq answer,
         waiting' \in [Stoppers -> AllRuns \cup {NoStop}],
         waiting'["shutdown"] = waiting["shutdown"]
  PROVE  LifecycleInv'
<1>0. LifecycleTypeOK /\ RunsFollowSlots /\ Stoppable /\ ShutdownFollowsOrder
      /\ FailedBuildCloses /\ NoneForgotten
  BY DEF LifecycleInv
<1>1. LifecycleTypeOK'
  BY <1>0 DEF LifecycleTypeOK
<1>2. Stoppable'
  BY <1>0 DEF Stoppable
<1>3. RunsFollowSlots'
  BY <1>0 DEF RunsFollowSlots
<1>4. ShutdownFollowsOrder'
  BY <1>0 DEF ShutdownFollowsOrder, Ahead
<1>5. FailedBuildCloses' /\ NoneForgotten'
  BY <1>0 DEF FailedBuildCloses, NoneForgotten
<1>. QED
  BY <1>1, <1>2, <1>3, <1>4, <1>5, LifeKept

\* Steps of the build and of the operations, which leave every run alone.
LEMMA AroundRunsKeeps ==
  ASSUME LifecycleInv,
         UNCHANGED <<slot, live, launched, told, answer, relaunched, waiting>>,
         UNCHANGED <<passed, late>>,
         build' \in {"begin", "stores", "runtime", "built", "failed"},
         held' \subseteq {"db", "provider"}, FailedBuildCloses',
         operation' \in [Operations -> {"idle", "current"}], closing' \in BOOLEAN,
         ShutdownFollowsOrder',
         phase' \in Workers \cup {"running", "operations", "close", "closed", "abandoned"}
  PROVE  LifecycleInv'
<1>0. LifecycleTypeOK /\ RunsFollowSlots /\ Stoppable
  BY DEF LifecycleInv
<1>1. LifecycleTypeOK'
  BY <1>0 DEF LifecycleTypeOK
<1>2. Stoppable' /\ RunsFollowSlots'
  BY <1>0 DEF Stoppable, RunsFollowSlots
<1>3. NoneForgotten'
  BY DEF NoneForgotten
<1>. QED
  BY <1>1, <1>2, <1>3, LifeKept

\* The build, and a context that is replaced only while nobody uses it.
LEMMA BuildKeeps == LifecycleInv /\ (BuildStep \/ BuildFails) => LifecycleInv'
<1> SUFFICES ASSUME LifecycleInv, BuildStep \/ BuildFails PROVE LifecycleInv'
  OBVIOUS
<1>0. LifecycleTypeOK /\ ShutdownFollowsOrder /\ FailedBuildCloses /\ NoneForgotten
  BY DEF LifecycleInv
<1>1. /\ UNCHANGED <<slot, live, launched, told, answer, relaunched, waiting>>
      /\ UNCHANGED <<passed, late, phase, operation, closing>>
  BY DEF BuildStep, BuildFails, workVars, opVars, downVars
<1>2. /\ build # "built" /\ build' \in {"stores", "runtime", "built", "failed"}
      /\ held' \subseteq {"db", "provider"}
      /\ build' = "failed" => "db" \notin held'
  BY <1>0 DEF BuildStep, BuildFails, LeftOpen, LifecycleTypeOK
<1>3. FailedBuildCloses'
  BY <1>2 DEF FailedBuildCloses
<1>4. ShutdownFollowsOrder'
  BY <1>0, <1>1, <1>2 DEF ShutdownFollowsOrder, Ahead
<1>5. operation' \in [Operations -> {"idle", "current"}] /\ closing' \in BOOLEAN
  BY <1>0, <1>1 DEF LifecycleTypeOK, NoneForgotten
<1>. QED
  BY <1>0, <1>1, <1>2, <1>3, <1>4, <1>5, AroundRunsKeeps DEF LifecycleTypeOK

\* Operations begin while they are accepted, end, and are refused.
LEMMA OperationsKeep ==
  ASSUME LifecycleInv,
         \/ SetRootContext \/ RejectNewOperations
         \/ \E o \in Operations : BeginOperation(o) \/ EndOperation(o)
  PROVE  LifecycleInv'
<1>0. LifecycleTypeOK /\ ShutdownFollowsOrder /\ FailedBuildCloses /\ NoneForgotten
  BY DEF LifecycleInv
<1>1. /\ UNCHANGED <<slot, live, launched, told, answer, relaunched, waiting>>
      /\ UNCHANGED <<passed, late, phase, build, held>>
  BY DEF SetRootContext, RejectNewOperations, BeginOperation, EndOperation, appVars,
         workVars, downVars
<1>2. operation \in [Operations -> {"idle", "current"}]
  BY <1>0 DEF LifecycleTypeOK, NoneForgotten
<1>3. /\ operation' \in [Operations -> {"idle", "current"}] /\ closing' \in BOOLEAN
      /\ closing => closing'
      /\ closing => \A o \in Operations : operation[o] = "idle" => operation'[o] = "idle"
  <2>1. CASE SetRootContext
    <3>1. CASE Resets
      BY <1>0, <1>2, <2>1, <3>1 DEF SetRootContext, Resets, LifecycleTypeOK
    <3>2. CASE ~Resets
      BY <1>0, <1>2, <2>1, <3>2 DEF SetRootContext, LifecycleTypeOK
    <3>. QED
      BY <3>1, <3>2
  <2>2. CASE RejectNewOperations
    BY <1>0, <1>2, <2>2 DEF RejectNewOperations
  <2>3. ASSUME NEW o \in Operations, BeginOperation(o)
        PROVE  ~closing /\ closing' = closing /\ operation' = [operation EXCEPT ![o] = "current"]
    BY <2>3 DEF BeginOperation
  <2>4. ASSUME NEW o \in Operations, EndOperation(o)
        PROVE  closing' = closing /\ operation' = [operation EXCEPT ![o] = "idle"]
    BY <2>4 DEF EndOperation
  <2>5. closing \in BOOLEAN
    BY <1>0 DEF LifecycleTypeOK
  <2>. QED
    BY <1>2, <2>1, <2>2, <2>3, <2>4, <2>5
<1>4. ShutdownFollowsOrder'
  BY <1>0, <1>1, <1>3 DEF ShutdownFollowsOrder, Ahead
<1>5. FailedBuildCloses'
  BY <1>0, <1>1 DEF FailedBuildCloses
<1>. QED
  BY <1>0, <1>1, <1>3, <1>4, <1>5, AroundRunsKeeps DEF LifecycleTypeOK

\* Users and the handlers' own stops.
LEMMA LifeHandlersKeep == LifecycleInv /\ HandlerStep => LifecycleInv'
<1> SUFFICES ASSUME LifecycleInv, HandlerStep PROVE LifecycleInv'
  OBVIOUS
<1>0. LifecycleTypeOK /\ RunsFollowSlots
  BY DEF LifecycleInv
<1> USE DEF appVars, workVars, opVars, downVars
<1>1. CASE StartAutomation
  BY <1>1, LaunchKeeps DEF StartAutomation, Workers, Controllers
<1>2. CASE StartAnalysis
  BY <1>2, LaunchKeeps DEF StartAnalysis, Workers
<1>3. CASE StarterStarts
  BY <1>3, LaunchKeeps DEF StarterStarts, Workers, Controllers
<1>4. ASSUME NEW w \in {"message", "dm", "analysis"}, slot[w] # 0
      PROVE  <<w, slot[w]>> \in AllRuns
  BY <1>0, <1>4 DEF LifecycleTypeOK, AllRuns, Workers, Controllers
<1>5. told \subseteq AllRuns /\ waiting \in [Stoppers -> AllRuns \cup {NoStop}]
  BY <1>0 DEF LifecycleTypeOK
<1>6. CASE CancelAnalysis
  BY <1>4, <1>5, <1>6, TellingKeeps DEF CancelAnalysis
<1>7. CASE StopAutomation
  <2>1. waiting'["shutdown"] = waiting["shutdown"]
    BY <1>5, <1>7 DEF StopAutomation, Tell, Stoppers
  <2>2. waiting' \in [Stoppers -> AllRuns \cup {NoStop}]
    BY <1>4, <1>5, <1>7 DEF StopAutomation, Tell
  <2>. QED
    BY <1>4, <1>5, <1>7, <2>1, <2>2, TellingKeeps DEF StopAutomation, Tell
<1>8. CASE StarterFails
  <2>1. waiting'["shutdown"] = waiting["shutdown"]
    BY <1>5, <1>8 DEF StarterFails, Tell, Stoppers
  <2>2. waiting' \in [Stoppers -> AllRuns \cup {NoStop}]
    BY <1>4, <1>5, <1>8 DEF StarterFails, Tell
  <2>. QED
    BY <1>4, <1>5, <1>8, <2>1, <2>2, TellingKeeps DEF StarterFails, Tell
<1>9. CASE StarterAsks \/ StarterEnds
  BY <1>5, <1>9, TellingKeeps DEF StarterAsks, StarterEnds
<1>10. ASSUME NEW s \in Stoppers, StopperGoesOn(s) PROVE LifecycleInv'
  <2>1. waiting'["shutdown"] = waiting["shutdown"]
    BY <1>5, <1>10 DEF StopperGoesOn, Stoppers
  <2>2. waiting' \in [Stoppers -> AllRuns \cup {NoStop}]
    BY <1>5, <1>10 DEF StopperGoesOn
  <2>3. answer' \subseteq answer
    BY <1>10 DEF StopperGoesOn, Taken
  <2>. QED
    BY <1>5, <1>10, <2>1, <2>2, <2>3, TellingKeeps DEF StopperGoesOn
<1>11. CASE RejectNewOperations \/ \E o \in Operations : BeginOperation(o) \/ EndOperation(o)
  BY <1>11, OperationsKeep
<1>. QED
  BY <1>1, <1>2, <1>3, <1>6, <1>7, <1>8, <1>9, <1>10, <1>11 DEF HandlerStep

\* Shutdown tells the run of the next worker, if it has one, and goes past it.
LEMMA ShutdownStopsKeeps ==
  ASSUME LifecycleInv, NEW w \in Workers, ShutdownStops(w)
  PROVE  LifecycleInv'
<1>0. LifecycleTypeOK /\ RunsFollowSlots /\ Stoppable /\ ShutdownFollowsOrder
      /\ FailedBuildCloses /\ NoneForgotten
  BY DEF LifecycleInv
<1>1. /\ phase = w /\ waiting["shutdown"] = NoStop /\ passed' = passed \cup {w}
      /\ UNCHANGED <<build, held, live, launched, answer, relaunched, operation, closing>>
      /\ UNCHANGED late
  BY DEF ShutdownStops, appVars, opVars
<1>2. w \in Ahead(w) /\ w \notin passed /\ passed = Workers \ Ahead(w) /\ w # "abandoned"
  BY <1>0, <1>1 DEF ShutdownFollowsOrder, Ahead, Workers, Controllers
<1>3. live[w] \subseteq {slot[w]} /\ live[w] \subseteq 1..launched[w] /\ slot[w] \in 0..MaxRun
  BY <1>0, <1>2 DEF RunsFollowSlots, LifecycleTypeOK
<1>4. /\ slot' \in [Workers -> 0..MaxRun] /\ slot'[w] \in {slot[w], 0}
      /\ w \notin {"backup", "maintenance"} => slot'[w] = slot[w]
      /\ \A v \in Workers \ {w} : slot'[v] = slot[v]
  BY <1>0, RunNumbers DEF ShutdownStops, LifecycleTypeOK
<1>5. \/ slot[w] = 0 /\ phase' = After(w) /\ UNCHANGED <<told, waiting>>
      \/ /\ slot[w] # 0 /\ UNCHANGED phase /\ told' = told \cup {<<w, slot[w]>>}
         /\ waiting' = [waiting EXCEPT !["shutdown"] = <<w, slot[w]>>]
  BY DEF ShutdownStops, Tell
<1>6. slot[w] # 0 => <<w, slot[w]>> \in AllRuns
  BY <1>3 DEF AllRuns
<1>7. /\ After(w) \in Workers \cup {"operations", "close"}
      /\ (Workers \ Ahead(w)) \cup {w} = Workers \ Ahead(After(w))
      /\ After(w) # "maintenance"
      /\ After(w) \in {"backup", "close"} => w \in {"maintenance", "backup"}
  BY DEF After, Ahead, Workers, Controllers
<1>8. LifecycleTypeOK'
  <2>1. /\ told' \subseteq AllRuns /\ waiting' \in [Stoppers -> AllRuns \cup {NoStop}]
    BY <1>0, <1>5, <1>6 DEF LifecycleTypeOK
  <2>2. phase' \in Workers \cup {"running", "operations", "close", "closed", "abandoned"}
    BY <1>0, <1>5, <1>7 DEF LifecycleTypeOK
  <2>. QED
    BY <1>0, <1>1, <1>4, <2>1, <2>2 DEF LifecycleTypeOK
<1>9. Stoppable'
  <2> SUFFICES ASSUME NEW v \in Workers, NEW n \in live'[v]
               PROVE  slot'[v] = n \/ <<v, n>> \in told'
    BY DEF Stoppable
  <2>1. CASE v = w
    BY <1>1, <1>3, <1>5, <2>1
  <2>2. CASE v # w
    BY <1>0, <1>1, <1>4, <1>5, <2>2 DEF Stoppable
  <2>. QED
    BY <2>1, <2>2
<1>10. RunsFollowSlots'
  <2> SUFFICES ASSUME NEW v \in Workers
               PROVE  /\ live[v] \subseteq 1..launched[v] /\ slot'[v] <= launched[v]
                      /\ v \notin {"backup", "maintenance"} \/ v \notin passed'
                            => live[v] \subseteq {slot'[v]}
                      /\ \A i \in 1..MaxRun : <<v, i>> \in answer
                            => i \notin live[v] /\ i <= launched[v]
    BY <1>1 DEF RunsFollowSlots
  <2>1. CASE v = w
    BY <1>0, <1>1, <1>3, <1>4, <2>1, RunNumbers DEF RunsFollowSlots
  <2>2. CASE v # w
    BY <1>0, <1>1, <1>4, <2>2 DEF RunsFollowSlots
  <2>. QED
    BY <2>1, <2>2
<1>11. ShutdownFollowsOrder'
  <2>1. /\ phase' # "running" => build' = "built"
        /\ phase' \in {"maintenance", "backup", "close", "closed"} =>
             closing' /\ \A o \in Operations : operation'[o] = "idle"
    BY <1>0, <1>1, <1>5, <1>7 DEF ShutdownFollowsOrder, Workers, Controllers
  <2>2. CASE slot[w] = 0
    <3>1. live[w] = {}
      BY <1>3, <2>2
    <3>2. /\ phase' = After(w) /\ waiting'["shutdown"] = NoStop
          /\ passed' = Workers \ Ahead(phase')
      BY <1>1, <1>2, <1>5, <1>7, <2>2
    <3>3. \A v \in passed' : \A n \in live'[v] :
              <<v, n>> \in late' \cup relaunched' \cup {waiting'["shutdown"]}
      BY <1>0, <1>1, <1>5, <2>2, <3>1 DEF ShutdownFollowsOrder
    <3>. QED
      BY <2>1, <3>2, <3>3 DEF ShutdownFollowsOrder
  <2>3. CASE slot[w] # 0
    <3>1. waiting'["shutdown"] = <<w, slot[w]>> /\ waiting'["shutdown"] # NoStop
      BY <1>0, <1>3, <1>5, <2>3 DEF LifecycleTypeOK, Stoppers, NoStop
    <3>2. /\ phase' = w /\ waiting'["shutdown"][1] = w
          /\ passed' = (Workers \ Ahead(phase')) \cup {phase'}
      BY <1>1, <1>2, <1>5, <2>3, <3>1
    <3>3. \A v \in passed' : \A n \in live'[v] :
              <<v, n>> \in late' \cup relaunched' \cup {waiting'["shutdown"]}
      <4> SUFFICES ASSUME NEW v \in passed', NEW n \in live'[v]
                   PROVE  <<v, n>> \in late' \cup relaunched' \cup {waiting'["shutdown"]}
        OBVIOUS
      <4>1. CASE v = w
        BY <1>1, <1>3, <3>1, <4>1
      <4>2. CASE v # w
        <5>1. <<v, n>> \in late \cup relaunched \cup {NoStop}
          BY <1>0, <1>1, <4>2 DEF ShutdownFollowsOrder
        <5>2. v \in Workers
          BY <1>0, <1>1, <4>2 DEF LifecycleTypeOK
        <5>3. <<v, n>> # NoStop
          BY <5>2 DEF NoStop, Workers, Controllers
        <5>. QED
          BY <1>1, <5>1, <5>3
      <4>. QED
        BY <4>1, <4>2
    <3>. QED
      BY <1>2, <2>1, <3>1, <3>2, <3>3 DEF ShutdownFollowsOrder
  <2>. QED
    BY <2>2, <2>3
<1>12. FailedBuildCloses' /\ NoneForgotten'
  BY <1>0, <1>1 DEF FailedBuildCloses, NoneForgotten
<1>. QED
  BY <1>8, <1>9, <1>10, <1>11, <1>12, LifeKept

\* Shutdown goes past a worker whose run has answered, or has had its time.
LEMMA ShutdownGoesOnKeeps ==
  ASSUME LifecycleInv, ShutdownAnswered \/ ShutdownGivesUp
  PROVE  LifecycleInv'
<1>0. LifecycleTypeOK /\ RunsFollowSlots /\ Stoppable /\ ShutdownFollowsOrder
      /\ FailedBuildCloses /\ NoneForgotten
  BY DEF LifecycleInv
<1>1. /\ UNCHANGED <<build, held, slot, live, launched, told, relaunched, operation, closing>>
      /\ UNCHANGED passed
      /\ waiting' = [waiting EXCEPT !["shutdown"] = NoStop]
  BY DEF ShutdownAnswered, ShutdownGivesUp, appVars, opVars, workVars
<1>2. NoStop \notin AllRuns
  BY DEF NoStop, AllRuns, Workers, Controllers
<1>3. waiting["shutdown"] # NoStop /\ waiting["shutdown"] \in AllRuns
  BY <1>0, <1>2 DEF ShutdownAnswered, ShutdownGivesUp, LifecycleTypeOK, Stoppers
<1>4. PICK w \in Workers, n \in 1..MaxRun : waiting["shutdown"] = <<w, n>>
  BY <1>3 DEF AllRuns
<1>5. phase = w /\ passed = (Workers \ Ahead(w)) \cup {w}
  BY <1>0, <1>3, <1>4 DEF ShutdownFollowsOrder, Ahead, Workers, Controllers
<1>6. /\ phase' \in {After(w), "abandoned"}
      /\ answer' \subseteq answer /\ late \subseteq late' /\ late' \subseteq AllRuns
      /\ n \in live[w] => <<w, n>> \in late'
  <2>1. CASE ShutdownAnswered
    <3>1. <<w, n>> \in answer /\ UNCHANGED late /\ phase' = After(w)
      BY <1>4, <1>5, <2>1 DEF ShutdownAnswered
    <3>2. answer' \subseteq answer
      BY <2>1 DEF ShutdownAnswered, Taken
    <3>3. n \notin live[w]
      BY <1>0, <3>1 DEF RunsFollowSlots
    <3>. QED
      BY <1>0, <3>1, <3>2, <3>3 DEF LifecycleTypeOK
  <2>2. CASE ShutdownGivesUp
    BY <1>0, <1>3, <1>4, <1>5, <2>2 DEF ShutdownGivesUp, workVars, LifecycleTypeOK
  <2>. QED
    BY <2>1, <2>2
<1>7. /\ After(w) \in Workers \cup {"operations", "close"}
      /\ (Workers \ Ahead(w)) \cup {w} = Workers \ Ahead(After(w))
      /\ After(w) # "maintenance"
      /\ After(w) \in {"backup", "close"} => w \in {"maintenance", "backup"}
  BY DEF After, Ahead, Workers, Controllers
<1>8. LifecycleTypeOK'
  <2>1. waiting' \in [Stoppers -> AllRuns \cup {NoStop}] /\ waiting'["shutdown"] = NoStop
    BY <1>0, <1>1 DEF LifecycleTypeOK, Stoppers
  <2>. QED
    BY <1>0, <1>1, <1>6, <1>7, <2>1 DEF LifecycleTypeOK
<1>9. Stoppable' /\ RunsFollowSlots'
  BY <1>0, <1>1, <1>6 DEF Stoppable, RunsFollowSlots
<1>10. ShutdownFollowsOrder'
  <2>1. waiting'["shutdown"] = NoStop
    BY <1>0, <1>1 DEF LifecycleTypeOK, Stoppers
  <2>2. phase' # "abandoned" => passed' = Workers \ Ahead(phase')
    BY <1>1, <1>5, <1>6, <1>7
  <2>3. build' = "built"
    BY <1>0, <1>1, <1>5 DEF ShutdownFollowsOrder, Workers, Controllers
  <2>4. \A v \in passed' : \A i \in live'[v] :
            <<v, i>> \in late' \cup relaunched' \cup {waiting'["shutdown"]}
    <3> SUFFICES ASSUME NEW v \in passed, NEW i \in live[v]
                 PROVE  <<v, i>> \in late' \cup relaunched
      BY <1>1
    <3>1. <<v, i>> \in late \cup relaunched \cup {<<w, n>>}
      BY <1>0, <1>4 DEF ShutdownFollowsOrder
    <3>2. <<v, i>> = <<w, n>> => n \in live[w]
      OBVIOUS
    <3>. QED
      BY <1>6, <3>1, <3>2
  <2>5. phase' \in {"maintenance", "backup", "close", "closed"} =>
             closing' /\ \A o \in Operations : operation'[o] = "idle"
    BY <1>0, <1>1, <1>5, <1>6, <1>7 DEF ShutdownFollowsOrder, Workers, Controllers
  <2>. QED
    BY <2>1, <2>2, <2>3, <2>4, <2>5 DEF ShutdownFollowsOrder
<1>11. FailedBuildCloses' /\ NoneForgotten'
  BY <1>0, <1>1 DEF FailedBuildCloses, NoneForgotten
<1>. QED
  BY <1>8, <1>9, <1>10, <1>11, LifeKept

\* The ends of shutdown: the operations between the analysis and the maintenance,
\* and the resources after the last worker.
LEMMA ShutdownEndsKeep ==
  ASSUME LifecycleInv, BeginShutdown \/ StopOperations \/ CloseResources
  PROVE  LifecycleInv'
<1>0. LifecycleTypeOK /\ ShutdownFollowsOrder /\ FailedBuildCloses /\ NoneForgotten
  BY DEF LifecycleInv
<1>1. /\ UNCHANGED <<slot, live, launched, told, answer, relaunched, waiting>>
      /\ UNCHANGED <<passed, late, build, operation>>
  BY DEF BeginShutdown, StopOperations, CloseResources, appVars, opVars, workVars
<1>2. phase \notin Workers => waiting["shutdown"] = NoStop
  BY <1>0 DEF ShutdownFollowsOrder
<1>3. CASE BeginShutdown
  <2>1. /\ build = "built" /\ phase = "running" /\ phase' = "message"
        /\ UNCHANGED <<closing, held>>
    BY <1>3 DEF BeginShutdown, appVars, opVars
  <2>2. waiting["shutdown"] = NoStop
    BY <1>2, <2>1 DEF Workers, Controllers
  <2>3. ShutdownFollowsOrder'
    BY <1>0, <1>1, <2>1, <2>2 DEF ShutdownFollowsOrder, Ahead
  <2>4. FailedBuildCloses'
    BY <1>0, <1>1, <2>1 DEF FailedBuildCloses
  <2>5. operation' \in [Operations -> {"idle", "current"}] /\ phase' \in Workers
    BY <1>0, <1>1, <2>1 DEF LifecycleTypeOK, NoneForgotten, Workers, Controllers
  <2>. QED
    BY <1>0, <1>1, <2>1, <2>3, <2>4, <2>5, AroundRunsKeeps DEF LifecycleTypeOK
<1>4. CASE StopOperations
  <2>1. /\ phase = "operations" /\ phase' \in {"operations", "maintenance", "abandoned"}
        /\ closing' = TRUE /\ UNCHANGED held
        /\ phase' = "maintenance" => \A o \in Operations : operation[o] = "idle"
    BY <1>0, <1>4 DEF StopOperations, AfterOperations, appVars, LifecycleTypeOK
  <2>2. waiting["shutdown"] = NoStop
    BY <1>2, <2>1 DEF Workers, Controllers
  <2>3. ShutdownFollowsOrder'
    BY <1>0, <1>1, <2>1, <2>2 DEF ShutdownFollowsOrder, Ahead
  <2>4. FailedBuildCloses'
    BY <1>0, <1>1, <2>1 DEF FailedBuildCloses
  <2>5. /\ operation' \in [Operations -> {"idle", "current"}]
        /\ phase' \in Workers \cup {"running", "operations", "close", "closed", "abandoned"}
    BY <1>0, <1>1, <2>1 DEF LifecycleTypeOK, NoneForgotten, Workers
  <2>. QED
    BY <1>0, <1>1, <2>1, <2>3, <2>4, <2>5, AroundRunsKeeps DEF LifecycleTypeOK
<1>5. CASE CloseResources
  <2>1. /\ phase = "close" /\ phase' = "closed" /\ held' = {} /\ UNCHANGED closing
    BY <1>5 DEF CloseResources, opVars
  <2>2. waiting["shutdown"] = NoStop
    BY <1>2, <2>1 DEF Workers, Controllers
  <2>3. ShutdownFollowsOrder'
    BY <1>0, <1>1, <2>1, <2>2 DEF ShutdownFollowsOrder, Ahead
  <2>4. FailedBuildCloses'
    BY <2>1 DEF FailedBuildCloses
  <2>5. operation' \in [Operations -> {"idle", "current"}]
    BY <1>0, <1>1 DEF LifecycleTypeOK, NoneForgotten
  <2>. QED
    BY <1>0, <1>1, <2>1, <2>3, <2>4, <2>5, AroundRunsKeeps DEF LifecycleTypeOK
<1>. QED
  BY <1>3, <1>4, <1>5

\* Every step of the build, the handlers, the runs and shutdown keeps the
\* invariant, for any workers in use, operations and launches.
LEMMA LifeSteps == LifecycleInv /\ [LifecycleNext]_lifeVars => LifecycleInv'
<1> SUFFICES ASSUME LifecycleInv, [LifecycleNext]_lifeVars PROVE LifecycleInv'
  OBVIOUS
<1>1. CASE BuildStep \/ BuildFails
  BY <1>1, BuildKeeps
<1>2. CASE StartupStep
  <2>1. CASE SetRootContext
    BY <2>1, OperationsKeep
  <2>2. CASE ~SetRootContext
    BY <1>2, <2>2, LaunchKeeps DEF StartupStep, opVars, downVars, Workers, Controllers
  <2>. QED
    BY <2>1, <2>2
<1>3. CASE HandlerStep
  BY <1>3, LifeHandlersKeep
<1>4. ASSUME NEW w \in Workers, NEW n \in 1..MaxRun, RunEnds(w, n) PROVE LifecycleInv'
  BY <1>4, RunEndsKeeps
<1>5. CASE BeginShutdown \/ ShutdownStep
  BY <1>5, ShutdownStopsKeeps, ShutdownGoesOnKeeps, ShutdownEndsKeep DEF ShutdownStep
<1>6. CASE UNCHANGED lifeVars
  <2>1. LifecycleTypeOK' /\ FailedBuildCloses' /\ Stoppable' /\ NoneForgotten'
    BY <1>6 DEF lifeVars, LifecycleInv, LifecycleTypeOK, FailedBuildCloses, Stoppable,
       NoneForgotten
  <2>2. RunsFollowSlots' /\ ShutdownFollowsOrder'
    BY <1>6 DEF lifeVars, LifecycleInv, RunsFollowSlots, ShutdownFollowsOrder, Ahead
  <2>. QED
    BY <2>1, <2>2, LifeKept
<1>. QED
  BY <1>1, <1>2, <1>3, <1>4, <1>5, <1>6 DEF LifecycleNext

\* One run per controller, every run within reach of a stop, no operation
\* forgotten, and a database that is closed under nobody but the late and the
\* relaunched: whatever workers, operations and launches there are.
THEOREM LifecycleInvariant == LifecycleSpec => []LifecycleInv
<1>1. LifecycleInit => LifecycleInv
  BY LifeStarts
<1>2. LifecycleInv /\ [LifecycleNext]_lifeVars => LifecycleInv'
  BY LifeSteps
<1>. QED
  BY <1>1, <1>2, PTL DEF LifecycleSpec

(***************************************************************************)
(* Keywords.                                                               *)
(***************************************************************************)
\* The rows of the tables, of the settings, of a listing and of a call.
WordRow == [class : Classes \cup {"none"}, active : BOOLEAN]
FormRow == [owner : Values \cup {Nobody}, manual : BOOLEAN]
PrefsRow == [keywords : SUBSET Values, owned : SUBSET Values]
ListedRow == [word : Values, active : BOOLEAN, values : SUBSET Values]
DeskSteps == {"rest", "tidy", "detached", "own", "delete", "store", "reconcile", "switch",
              "neutral", "positive", "negative", "load", "save", "update",
              "extract", "search", "purge"}
DeskRow == [step : DeskSteps, rows : SUBSET ListedRow,
            was : (SUBSET Values) \cup PrefsRow, todo : SUBSET (Values \cup Classes),
            dropped : SUBSET Values, found : SUBSET (Values \X Values)]

\* The tables: only a positive keyword is a trigger, and a form has its keyword.
TablesOK ==
    /\ words \in [Values -> WordRow] /\ forms \in [Values -> FormRow] /\ stops \subseteq Values
    /\ \A w \in Values : words[w].active => words[w].class = "positive"
    /\ \A v \in Values : forms[v] # NoForm =>
          forms[v].owner \in Values /\ words[forms[v].owner].class # "none"

\* What the settings and the configuration hold.
SettingsOK == prefs \in PrefsRow /\ OnlyTypedRemains

\* What a call, or the analysis, still remembers: settings it read were made of
\* typed keywords, and a word it found is the canonical form.
DeskOK(d, by) ==
    /\ d.step = "store" => d.was \in SUBSET Values /\ d.todo \in SUBSET Values
    /\ d.step \in {"save", "update"} =>
          d.was \in PrefsRow /\ d.was.keywords \subseteq by \cup d.was.owned
    /\ \A p \in d.found : p[1] = Lemma[p[2]]

\* The inductive invariant of the keywords.
KeywordsInd ==
    /\ TablesOK /\ SettingsOK
    /\ desk \in [Clerks \cup {Cycle} -> DeskRow]
    /\ \A c \in Clerks \cup {Cycle} : DeskOK(desk[c], typed)

-----------------------------------------------------------------------------
\* A step that only adds keywords and places forms under keywords.
LEMMA TablesGrow ==
    ASSUME TablesOK,
           words' \in [Values -> WordRow], forms' \in [Values -> FormRow], stops' \subseteq Values,
           \A w \in Values : \/ words'[w] = words[w]
                             \/ /\ words'[w].class # "none"
                                /\ words'[w].active => words'[w].class = "positive",
           \A v \in Values : \/ forms'[v] = forms[v]
                             \/ /\ forms'[v].owner \in Values
                                /\ words'[forms'[v].owner].class # "none"
    PROVE  TablesOK'
BY DEF TablesOK

\* One keyword gets a class, or its trigger is switched.
LEMMA WordSet ==
    ASSUME TablesOK, NEW w \in Values, NEW row \in WordRow, words' = [words EXCEPT ![w] = row],
           row.class # "none", row.active => row.class = "positive",
           UNCHANGED <<forms, stops>>
    PROVE  TablesOK'
<1>1. /\ words \in [Values -> WordRow] /\ forms \in [Values -> FormRow] /\ stops \subseteq Values
  BY DEF TablesOK
<1>2. words' \in [Values -> WordRow]
  BY <1>1
<1>3. \A v \in Values : words'[v] = words[v] \/ words'[v] = row
  BY <1>1
<1> QED BY <1>1, <1>2, <1>3, TablesGrow

\* A form is placed under a keyword.
LEMMA FormPlaced ==
    ASSUME TablesOK, NEW w \in Values, NEW v \in Values, words[w].class # "none",
           forms' = [forms EXCEPT ![v] = [owner |-> w, manual |-> TRUE]],
           UNCHANGED <<words, stops>>
    PROVE  TablesOK'
<1>1. /\ words \in [Values -> WordRow] /\ forms \in [Values -> FormRow] /\ stops \subseteq Values
  BY DEF TablesOK
<1>2. PICK row \in FormRow : row = [owner |-> w, manual |-> TRUE]
  BY DEF FormRow
<1>3. forms' \in [Values -> FormRow] /\ \A x \in Values : forms'[x] = forms[x] \/ forms'[x] = row
  BY <1>1, <1>2
<1>4. row.owner = w
  BY <1>2
<1> QED BY <1>1, <1>3, <1>4, TablesGrow

\* The forms go with their keyword.
LEMMA RemoveKeeps ==
    ASSUME TablesOK, NEW gone, Remove(gone), UNCHANGED stops
    PROVE  TablesOK'
<1>1. /\ words \in [Values -> WordRow] /\ forms \in [Values -> FormRow]
      /\ NoWord \in WordRow /\ NoForm \in FormRow /\ ~NoWord.active
  BY DEF TablesOK, NoWord, NoForm, WordRow, FormRow
<1>2. /\ words' = [w \in Values |-> IF w \in gone THEN NoWord ELSE words[w]]
      /\ forms' = [v \in Values |-> IF forms[v].owner \in gone THEN NoForm ELSE forms[v]]
  BY DEF Remove
<1>3. words' \in [Values -> WordRow] /\ forms' \in [Values -> FormRow]
  BY <1>1, <1>2
<1>4. ASSUME NEW w \in Values, words'[w].active PROVE words'[w].class = "positive"
  BY <1>1, <1>2, <1>4 DEF TablesOK
<1>5. ASSUME NEW v \in Values, forms'[v] # NoForm
      PROVE  forms'[v].owner \in Values /\ words'[forms'[v].owner].class # "none"
  <2>1. forms'[v] = forms[v] /\ forms[v].owner \notin gone
    BY <1>2, <1>5
  <2> QED BY <1>2, <1>5, <2>1 DEF TablesOK
<1> QED BY <1>3, <1>4, <1>5 DEF TablesOK

\* What a listing returns are rows of the tables.
LEMMA RowsType ==
    ASSUME TablesOK
    PROVE  AllRows \subseteq ListedRow /\ \A class \in Classes : ListCanonical(class) \subseteq ListedRow
<1>1. words \in [Values -> WordRow]
  BY DEF TablesOK
<1>2. ASSUME NEW class, NEW r \in ListCanonical(class) PROVE r \in ListedRow
  <2>1. PICK w \in Values : r = [word |-> w, active |-> words[w].active,
                                  values |-> {w} \cup {v \in Values : forms[v].owner = w}]
    BY DEF ListCanonical
  <2>2. words[w].active \in BOOLEAN
    BY <1>1 DEF WordRow
  <2>3. {w} \cup {v \in Values : forms[v].owner = w} \subseteq Values
    OBVIOUS
  <2> QED BY <2>1, <2>2, <2>3 DEF ListedRow
<1> QED BY <1>2 DEF AllRows

\* The calls that change the tables.
LEMMA TablesStep == KeywordsInd /\ KeywordsNext => TablesOK'
<1> SUFFICES ASSUME KeywordsInd, KeywordsNext PROVE TablesOK'
  OBVIOUS
<1>1. /\ TablesOK /\ words \in [Values -> WordRow] /\ forms \in [Values -> FormRow]
      /\ stops \subseteq Values
      /\ \A w \in Values : words[w].active => words[w].class = "positive"
      /\ \A c \in Clerks \cup {Cycle} : desk[c] \in DeskRow /\ DeskOK(desk[c], typed)
  BY DEF KeywordsInd, TablesOK
<1>2. ASSUME UNCHANGED tables PROVE TablesOK'
  BY <1>1, <1>2 DEF TablesOK, tables
<1>3. ASSUME NEW c \in Clerks, NEW w \in Values, NEW class \in Classes, ClassifyCanonical(c, w, class)
      PROVE  TablesOK'
  <2>1. CASE ~IsKeyword(w)
    BY <1>2, <1>3, <2>1 DEF ClassifyCanonical, tables
  <2>2. CASE IsKeyword(w)
    <3>1. PICK row \in WordRow : row = [class |-> class, active |-> words[w].active /\ class = "positive"]
      BY <1>1 DEF WordRow
    <3>2. words' = [words EXCEPT ![w] = row] /\ UNCHANGED <<forms, stops>>
      BY <1>3, <2>2, <3>1 DEF ClassifyCanonical
    <3>3. row.class # "none" /\ (row.active => row.class = "positive")
      BY <3>1 DEF Classes
    <3> QED BY <1>1, <3>2, <3>3, WordSet
  <2> QED BY <2>1, <2>2
<1>4. ASSUME NEW w \in Values, NEW on \in BOOLEAN, SetCanonicalTrigger(w, on), UNCHANGED <<forms, stops>>
      PROVE  TablesOK'
  <2>1. PICK old \in WordRow : old = words[w]
    BY <1>1
  <2>2. PICK row : row = [old EXCEPT !.active = on]
    OBVIOUS
  <2>3. row \in WordRow /\ row.class = "positive"
    BY <1>4, <2>1, <2>2 DEF WordRow, SetCanonicalTrigger, CanBeTrigger
  <2>4. words' = [words EXCEPT ![w] = row]
    BY <1>1, <1>4, <2>1, <2>2 DEF SetCanonicalTrigger
  <2> QED BY <1>1, <1>4, <2>3, <2>4, WordSet
<1>5. ASSUME NEW c \in Clerks, NEW w \in Values, NEW v \in Values,
             AddCanonicalForm(c, w, v) \/ MoveCanonicalForm(c, w, v)
      PROVE  TablesOK'
  BY <1>1, <1>5, FormPlaced DEF AddCanonicalForm, MoveCanonicalForm, IsKeyword
<1>6. ASSUME NEW c \in Clerks \cup {Cycle}, TidyKeywords(c) PROVE TablesOK'
  <2>1. /\ words' = [w \in Values |-> IF w \in desk[c].todo \/ \E v \in Values : forms[v].owner = w
                                  THEN words[w] ELSE NoWord]
        /\ UNCHANGED <<forms, stops>>
    BY <1>6 DEF TidyKeywords
  <2>2. NoWord \in WordRow /\ ~NoWord.active
    BY DEF NoWord, WordRow
  <2>3. \A w \in Values : words'[w] = words[w] \/ words'[w] = NoWord
    BY <2>1
  <2>4. words' \in [Values -> WordRow]
    BY <1>1, <2>1, <2>2
  <2>5. ASSUME NEW v \in Values, forms[v] # NoForm PROVE words'[forms[v].owner] = words[forms[v].owner]
    <3>1. forms[v].owner \in Values
      BY <1>1, <2>5 DEF TablesOK
    <3> QED BY <2>1, <3>1
  <2> QED BY <1>1, <2>1, <2>2, <2>3, <2>4, <2>5 DEF TablesOK
<1>7. ASSUME NEW c \in Clerks, NEW w \in Values, NEW v \in Values, RemoveCanonicalForm(c, w, v)
      PROVE  TablesOK'
  <2>1. PICK row \in FormRow : row = [owner |-> v, manual |-> TRUE]
    BY DEF FormRow
  <2>2. PICK neutral \in WordRow : neutral = [class |-> "neutral", active |-> FALSE]
    BY DEF WordRow, Classes
  <2>3. /\ words' = IF IsKeyword(v) THEN words ELSE [words EXCEPT ![v] = neutral]
        /\ forms' = [forms EXCEPT ![v] = row] /\ stops' = stops
    BY <1>7, <2>1, <2>2 DEF RemoveCanonicalForm
  <2>4. /\ neutral.class = "neutral" /\ ~neutral.active /\ row.owner = v
    BY <2>1, <2>2
  <2>5. /\ words' \in [Values -> WordRow] /\ words'[v].class # "none"
        /\ \A x \in Values : words'[x] = words[x] \/ words'[x] = neutral
    BY <1>1, <2>3, <2>4 DEF IsKeyword
  <2>6. forms' \in [Values -> FormRow] /\ \A x \in Values : forms'[x] = forms[x] \/ forms'[x] = row
    BY <1>1, <2>3
  <2> QED BY <1>1, <2>3, <2>4, <2>5, <2>6, TablesGrow
<1>8. ASSUME NEW c \in Clerks, NEW w \in Values, NEW fs \in SUBSET Values, NEW class \in Classes,
             BulkImport(c, w, fs, class)
      PROVE  TablesOK'
  <2>1. PICK row \in WordRow : row = [class |-> class, active |-> words[w].active /\ class = "positive"]
    BY <1>1 DEF WordRow
  <2>2. PICK placed \in FormRow : placed = [owner |-> w, manual |-> TRUE]
    BY DEF FormRow
  <2>3. /\ words' = [words EXCEPT ![w] = row] /\ stops' = stops
        /\ forms' = [v \in Values |-> IF v \in fs THEN placed ELSE forms[v]]
    BY <1>8, <2>1, <2>2 DEF BulkImport, BulkImportCanonical
  <2>4. row.class # "none" /\ (row.active => row.class = "positive") /\ placed.owner = w
    BY <2>1, <2>2 DEF Classes
  <2>5. /\ words' \in [Values -> WordRow] /\ words'[w] = row
        /\ \A x \in Values : words'[x] = words[x] \/ words'[x] = row
    BY <1>1, <2>3
  <2>6. forms' \in [Values -> FormRow] /\ \A x \in Values : forms'[x] = forms[x] \/ forms'[x] = placed
    BY <1>1, <2>3
  <2> QED BY <1>1, <2>3, <2>4, <2>5, <2>6, TablesGrow
<1>9. ASSUME NEW c \in Clerks, NEW v \in Values, NEW add \in BOOLEAN, ServiceWord(c, v, add)
      PROVE  TablesOK'
  BY <1>1, <1>9 DEF TablesOK, ServiceWord, WithServiceWord
<1>10. ASSUME NEW c \in Clerks \cup {Cycle},
              DeleteCanonical(c) \/ \E w \in Values : DeleteServiceKeyword(w)
       PROVE  TablesOK'
  BY <1>1, <1>10, RemoveKeeps DEF DeleteCanonical, DeleteServiceKeyword
<1>11. ASSUME NEW c \in Clerks \cup {Cycle}, NEW r \in desk[c].rows, SwitchTrigger(c, r)
       PROVE  TablesOK'
  <2>1. r \in ListedRow
    BY <1>1 DEF DeskRow
  <2>2. r.word \in Values
    BY <2>1 DEF ListedRow
  <2>3. (~r.active) \in BOOLEAN
    OBVIOUS
  <2> QED BY <1>2, <1>4, <1>11, <2>2, <2>3 DEF SwitchTrigger, tables
<1>12. ASSUME SyncCanonical PROVE TablesOK'
  <2>1. PICK found \in SUBSET (Values \X Values) : found = desk[Cycle].found
    BY <1>1 DEF DeskRow
  <2>2. \A p \in found : p[1] = Lemma[p[2]]
    BY <1>1, <2>1 DEF DeskOK
  <2>3. PICK neutral \in WordRow : neutral = [class |-> "neutral", active |-> FALSE]
    BY DEF WordRow, Classes
  <2>4. /\ words' = [w \in Values |-> IF ~IsKeyword(w) /\ \E p \in found : p[1] = w
                                      THEN neutral ELSE words[w]]
        /\ forms' = [v \in Values |-> IF (\E p \in found : p[2] = v) /\ ~forms[v].manual
                                      THEN [owner |-> Lemma[v], manual |-> FALSE] ELSE forms[v]]
        /\ stops' = stops
    BY <1>12, <2>1, <2>3 DEF SyncCanonical
  <2>5. /\ words' \in [Values -> WordRow]
        /\ \A w \in Values : words'[w] = words[w] \/ words'[w] = neutral
        /\ neutral.class = "neutral" /\ ~neutral.active
    BY <1>1, <2>3, <2>4
  <2>6. forms' \in [Values -> FormRow]
    BY <1>1, <2>4, KeywordsAssumption DEF FormRow
  <2>7. ASSUME NEW v \in Values, forms'[v] # forms[v]
        PROVE  forms'[v].owner \in Values /\ words'[forms'[v].owner].class # "none"
    <3>1. /\ forms'[v] = [owner |-> Lemma[v], manual |-> FALSE] /\ \E p \in found : p[2] = v
      BY <2>4, <2>7
    <3>2. PICK p \in found : p[2] = v
      BY <3>1
    <3>3. p[1] = Lemma[v] /\ Lemma[v] \in Values
      BY <2>2, <3>2, KeywordsAssumption
    <3>4. PICK w \in Values : w = Lemma[v] /\ \E q \in found : q[1] = w
      BY <3>2, <3>3
    <3>5. words'[w].class # "none"
      BY <2>4, <2>5, <3>4 DEF IsKeyword
    <3> QED BY <3>1, <3>4, <3>5
  <2> QED BY <1>1, <2>4, <2>5, <2>6, <2>7, TablesGrow
<1>13. ASSUME NEW c \in Clerks \cup {Cycle}, CallStep(c) PROVE TablesOK'
  BY <1>2, <1>6, <1>10, <1>11, <1>13
  DEF CallStep, FindDetached, LoadOwned, StoreRequested, ReconcileSelection, Reconciled,
      ListRows, LoadSettings, SaveSettings, UpdateRuntime
<1>14. ASSUME NEW c \in Clerks, AskStep(c) PROVE TablesOK'
  BY <1>2, <1>3, <1>4, <1>5, <1>7, <1>8, <1>9, <1>14
  DEF AskStep, SetTrigger, DeleteCanonicalKeyword, ClearCanonicalKeywords, SaveKeywordSettings
<1>15. ASSUME AnalysisStep PROVE TablesOK'
  BY <1>2, <1>10, <1>12, <1>15
  DEF AnalysisStep, loadServiceWords, Analyze, SearchServiceWords
<1>16. ASSUME RestartKeywords PROVE TablesOK'
  BY <1>2, <1>16 DEF RestartKeywords
<1> QED BY <1>13, <1>14, <1>15, <1>16 DEF KeywordsNext

\* The settings a call saves: what is not a trigger of its rows is typed.
LEMMA MergedOK ==
    ASSUME NEW rs \in SUBSET ListedRow, NEW s \in PrefsRow, NEW dropped \in SUBSET Values, NEW by,
           s.keywords \subseteq by \cup s.owned
    PROVE  /\ Merged(rs, s, dropped) \in PrefsRow
           /\ Merged(rs, s, dropped).keywords \subseteq by \cup Merged(rs, s, dropped).owned
<1>1. Identifiers(Active(rs)) \subseteq Values
  BY DEF Identifiers, Active, ListedRow
<1>2. Manual(rs, s, dropped) \subseteq Values /\ Manual(rs, s, dropped) \subseteq by
  BY DEF Manual, Owned, PrefsRow
<1> QED BY <1>1, <1>2 DEF Merged, PrefsRow

\* The configuration it derives: what no trigger covers is typed.
LEMMA ConfiguredOK ==
    ASSUME NEW rs \in SUBSET ListedRow, NEW s \in PrefsRow, NEW dropped, NEW by,
           s.keywords \subseteq by \cup s.owned
    PROVE  Configured(rs, s, dropped).keywords
              \subseteq by \cup UNION {t[2] : t \in Configured(rs, s, dropped).triggers}
<1>1. Manual(rs, s, dropped) \subseteq by
  BY DEF Manual, Owned, PrefsRow
<1>2. ASSUME NEW v \in canonicalValues(Active(rs))
      PROVE  v \in UNION {t[2] : t \in Configured(rs, s, dropped).triggers}
  <2>1. PICK r \in Active(rs) : v \in r.values
    BY DEF canonicalValues
  <2>2. PICK t : t = <<r.word, r.values>>
    OBVIOUS
  <2>3. t \in Configured(rs, s, dropped).triggers /\ t[2] = r.values
    BY <2>2 DEF Configured
  <2> QED BY <2>1, <2>3
<1> QED BY <1>1, <1>2 DEF Configured

\* A call that goes on with a row that is in order, while nothing typed is forgotten.
LEMMA DeskKept ==
    ASSUME KeywordsInd, NEW c \in Clerks \cup {Cycle}, NEW d \in DeskRow, Do(c, d),
           DeskOK(d, typed'), typed \subseteq typed'
    PROVE  /\ desk' \in [Clerks \cup {Cycle} -> DeskRow]
           /\ \A k \in Clerks \cup {Cycle} : DeskOK(desk'[k], typed')
<1>1. /\ desk \in [Clerks \cup {Cycle} -> DeskRow]
      /\ \A k \in Clerks \cup {Cycle} : DeskOK(desk[k], typed)
  BY DEF KeywordsInd
<1>2. desk' = [desk EXCEPT ![c] = d]
  BY DEF Do
<1>3. ASSUME NEW k \in Clerks \cup {Cycle} PROVE DeskOK(desk'[k], typed')
  <2>1. CASE k = c
    BY <1>1, <1>2, <2>1
  <2>2. CASE k # c
    <3>1. desk'[k] = desk[k] /\ DeskOK(desk[k], typed)
      BY <1>1, <1>2, <2>2
    <3> QED BY <3>1 DEF DeskOK
  <2> QED BY <2>1, <2>2
<1> QED BY <1>1, <1>2, <1>3

\* Every operation of the keywords window.
DeskNext ==
    /\ desk' \in [Clerks \cup {Cycle} -> DeskRow]
    /\ \A k \in Clerks \cup {Cycle} : DeskOK(desk'[k], typed')

\* A call that has nothing left to do, begins to synchronise, or begins a job.
LEMMA JobKept ==
    ASSUME KeywordsInd, NEW c \in Clerks \cup {Cycle}, typed \subseteq typed',
           \/ Do(c, NothingToDo)
           \/ \E dropped \in SUBSET Values : ThenSync(c, dropped)
           \/ \E st \in {"tidy", "detached"}, todo \in SUBSET Values : Do(c, Job(st, todo))
           \/ \E was \in SUBSET Values : Do(c, [Job("extract", {}) EXCEPT !.was = was])
           \/ \E st \in {"own", "delete"}, todo \in SUBSET (Values \cup Classes),
                 rs \in SUBSET ListedRow : Do(c, [Job(st, todo) EXCEPT !.rows = rs])
           \/ \E todo \in SUBSET Values, was \in SUBSET Values :
                 Do(c, [Job("store", todo) EXCEPT !.was = was])
    PROVE  DeskNext
<1>1. \E d \in DeskRow : Do(c, d) /\ DeskOK(d, typed')
  <2>1. CASE Do(c, NothingToDo)
    <3>1. PICK d : d = NothingToDo
      OBVIOUS
    <3>2. d \in DeskRow /\ d.step = "rest" /\ d.found = {}
      BY <3>1 DEF NothingToDo, DeskRow, DeskSteps
    <3> QED BY <2>1, <3>1, <3>2 DEF DeskOK
  <2>2. ASSUME NEW dropped \in SUBSET Values, ThenSync(c, dropped)
        PROVE  \E d \in DeskRow : Do(c, d) /\ DeskOK(d, typed')
    <3>1. PICK d : d = [NothingToDo EXCEPT !.step = "neutral", !.dropped = dropped]
      OBVIOUS
    <3>2. d \in DeskRow /\ d.step = "neutral" /\ d.found = {}
      BY <3>1 DEF NothingToDo, DeskRow, DeskSteps
    <3> QED BY <2>2, <3>1, <3>2 DEF DeskOK, ThenSync
  <2>3. ASSUME NEW st \in {"tidy", "detached"}, NEW todo \in SUBSET Values, Do(c, Job(st, todo))
        PROVE  \E d \in DeskRow : Do(c, d) /\ DeskOK(d, typed')
    <3>1. PICK d : d = Job(st, todo)
      OBVIOUS
    <3>2. d \in DeskRow /\ d.step = st /\ d.found = {}
      BY <3>1 DEF NothingToDo, DeskRow, DeskSteps, Job
    <3> QED BY <2>3, <3>1, <3>2 DEF DeskOK
  <2>4. ASSUME NEW was \in SUBSET Values, Do(c, [Job("extract", {}) EXCEPT !.was = was])
        PROVE  \E d \in DeskRow : Do(c, d) /\ DeskOK(d, typed')
    <3>1. PICK d : d = [Job("extract", {}) EXCEPT !.was = was]
      OBVIOUS
    <3>2. d \in DeskRow /\ d.step = "extract" /\ d.found = {}
      BY <3>1 DEF NothingToDo, DeskRow, DeskSteps, Job
    <3> QED BY <2>4, <3>1, <3>2 DEF DeskOK
  <2>5. ASSUME NEW st \in {"own", "delete"}, NEW todo \in SUBSET (Values \cup Classes),
               NEW rs \in SUBSET ListedRow, Do(c, [Job(st, todo) EXCEPT !.rows = rs])
        PROVE  \E d \in DeskRow : Do(c, d) /\ DeskOK(d, typed')
    <3>1. PICK d : d = [Job(st, todo) EXCEPT !.rows = rs]
      OBVIOUS
    <3>2. d \in DeskRow /\ d.step = st /\ d.found = {}
      BY <3>1 DEF NothingToDo, DeskRow, DeskSteps, Job
    <3> QED BY <2>5, <3>1, <3>2 DEF DeskOK
  <2>6. ASSUME NEW todo \in SUBSET Values, NEW was \in SUBSET Values,
               Do(c, [Job("store", todo) EXCEPT !.was = was])
        PROVE  \E d \in DeskRow : Do(c, d) /\ DeskOK(d, typed')
    <3>1. PICK d : d = [Job("store", todo) EXCEPT !.was = was]
      OBVIOUS
    <3>2. d \in DeskRow /\ d.step = "store" /\ d.found = {} /\ d.todo = todo /\ d.was = was
      BY <3>1 DEF NothingToDo, DeskRow, DeskSteps, Job
    <3> QED BY <2>6, <3>1, <3>2 DEF DeskOK
  <2> QED BY <2>1, <2>2, <2>3, <2>4, <2>5, <2>6
<1> QED BY <1>1, DeskKept DEF DeskNext

\* The calls of the desktop.
LEMMA AskDesk ==
    ASSUME KeywordsInd, NEW c \in Clerks, AskStep(c)
    PROVE  DeskNext /\ UNCHANGED <<prefs, serving, typed>>
<1>1. UNCHANGED <<prefs, serving, typed>>
  BY DEF AskStep, ClassifyCanonical, SetTrigger, ServiceWord, DeleteCanonicalKeyword, AddCanonicalForm,
     MoveCanonicalForm, RemoveCanonicalForm, BulkImport, ClearCanonicalKeywords, SaveKeywordSettings
<1>2. c \in Clerks \cup {Cycle} /\ typed \subseteq typed'
  BY <1>1
<1>3. /\ AllRows \subseteq ListedRow
      /\ \A class \in Classes : ListCanonical(class) \subseteq ListedRow
  BY RowsType DEF KeywordsInd
<1>4. ASSUME NEW w \in Values, NEW x, ClassifyCanonical(c, w, x) \/ SetTrigger(c, w, x) \/ AddCanonicalForm(c, w, x)
      PROVE  DeskNext
  BY <1>2, <1>4, JobKept DEF ClassifyCanonical, SetTrigger, AddCanonicalForm
<1>5. ASSUME UNCHANGED desk PROVE DeskNext
  BY <1>1, <1>5 DEF DeskNext, KeywordsInd
<1>6. ASSUME NEW w \in Values, NEW v \in Values, MoveCanonicalForm(c, w, v) \/ RemoveCanonicalForm(c, w, v)
      PROVE  DeskNext
  <2>1. {w} \in SUBSET Values /\ {v} \in SUBSET Values
    OBVIOUS
  <2>2. Do(c, Job("tidy", {w})) \/ Do(c, Job("detached", {v}))
    BY <1>6 DEF MoveCanonicalForm, RemoveCanonicalForm
  <2> QED BY <1>2, <2>1, <2>2, JobKept
<1>7. ASSUME NEW w \in Values, NEW on \in BOOLEAN, DeleteCanonicalKeyword(c, w, on)
      PROVE  DeskNext
  <2>1. PICK rs \in SUBSET ListedRow : rs = {r \in AllRows : r.word = w}
    BY <1>3
  <2>2. PICK st \in {"own", "delete"} : st = IF on THEN "delete" ELSE "own"
    OBVIOUS
  <2>3. Do(c, [Job(st, {w}) EXCEPT !.rows = rs]) /\ {w} \in SUBSET (Values \cup Classes)
    BY <1>7, <2>1, <2>2 DEF DeleteCanonicalKeyword
  <2> QED BY <1>2, <2>3, JobKept
<1>8. ASSUME NEW class \in Classes, ClearCanonicalKeywords(c, class)
      PROVE  DeskNext
  <2>1. PICK rs \in SUBSET ListedRow : rs = ListCanonical(class)
    BY <1>3
  <2>2. Do(c, [Job("own", {class}) EXCEPT !.rows = rs]) /\ {class} \in SUBSET (Values \cup Classes)
    BY <1>8, <2>1 DEF ClearCanonicalKeywords
  <2> QED BY <1>2, <2>2, JobKept
<1>9. ASSUME NEW requested \in SUBSET Values, SaveKeywordSettings(c, requested)
      PROVE  DeskNext
  <2>1. PICK was \in SUBSET Values : was = requested \cap Identifiers(ListCanonical("positive"))
    OBVIOUS
  <2>2. Do(c, [Job("store", requested) EXCEPT !.was = was])
    BY <1>9, <2>1 DEF SaveKeywordSettings
  <2> QED BY <1>2, <2>2, JobKept
<1>10. DeskNext
  BY <1>4, <1>5, <1>6, <1>7, <1>8, <1>9 DEF AskStep, BulkImport, ServiceWord
<1> QED BY <1>1, <1>10

\* A call that goes on with other rows.
LEMMA RowsKept ==
    ASSUME KeywordsInd, NEW c \in Clerks \cup {Cycle}, typed \subseteq typed',
           NEW st \in DeskSteps \ {"store", "save", "update"}, NEW rs \in SUBSET ListedRow, NEW d,
           Do(c, d), d = [desk[c] EXCEPT !.step = st, !.rows = rs]
    PROVE  DeskNext
<1>1. PICK old \in DeskRow : old = desk[c] /\ DeskOK(old, typed)
  BY DEF KeywordsInd
<1>2. d = [old EXCEPT !.step = st, !.rows = rs]
  BY <1>1
<1>3. d \in DeskRow /\ d.step = st /\ d.found = old.found
  BY <1>2 DEF DeskRow
<1>4. DeskOK(d, typed')
  BY <1>1, <1>3 DEF DeskOK
<1> QED BY <1>3, <1>4, DeskKept DEF DeskNext

\* The steps of a call that only go on with it.
LEMMA CallDesk ==
    ASSUME KeywordsInd, NEW c \in Clerks \cup {Cycle},
           \/ TidyKeywords(c) \/ FindDetached(c) \/ LoadOwned(c) \/ DeleteCanonical(c)
           \/ ReconcileSelection(c) \/ Reconciled(c) \/ \E r \in desk[c].rows : SwitchTrigger(c, r)
           \/ ListRows(c)
    PROVE  DeskNext /\ UNCHANGED <<prefs, serving, typed>>
<1>1. UNCHANGED <<prefs, serving, typed>>
  BY DEF TidyKeywords, FindDetached, LoadOwned, DeleteCanonical, ReconcileSelection, Reconciled,
     SwitchTrigger, ListRows
<1>2. PICK old \in DeskRow : old = desk[c]
  BY DEF KeywordsInd
<1>3. old.rows \in SUBSET ListedRow /\ old.step \in DeskSteps
  BY <1>2 DEF DeskRow
<1>4. \A class \in Classes : ListCanonical(class) \in SUBSET ListedRow
  BY RowsType DEF KeywordsInd
<1>5. canonicalValues(old.rows) \in SUBSET Values
  BY <1>3 DEF canonicalValues, ListedRow
<1>6. ASSUME TidyKeywords(c) \/ FindDetached(c) \/ DeleteCanonical(c) \/ Reconciled(c) PROVE DeskNext
  <2>1. \/ Do(c, NothingToDo) \/ \E dropped \in SUBSET Values : ThenSync(c, dropped)
    BY <1>2, <1>5, <1>6 DEF TidyKeywords, FindDetached, DeleteCanonical, Reconciled
  <2> QED BY <1>1, <2>1, JobKept
<1>7. ASSUME LoadOwned(c) PROVE DeskNext
  <2>1. PICK rs \in SUBSET ListedRow : rs = {r \in old.rows : r.active \/ r.word \in prefs.owned}
    BY <1>3
  <2>2. PICK d : d = [old EXCEPT !.step = "delete", !.rows = {r \in @ : r.active \/ r.word \in prefs.owned}]
    OBVIOUS
  <2>3. d = [old EXCEPT !.step = "delete", !.rows = rs]
    BY <2>1, <2>2
  <2>4. Do(c, d)
    BY <1>2, <1>7, <2>2 DEF LoadOwned
  <2>5. "delete" \in DeskSteps \ {"store", "save", "update"}
    BY DEF DeskSteps
  <2> QED BY <1>1, <1>2, <2>3, <2>4, <2>5, RowsKept
<1>8. ASSUME ReconcileSelection(c) PROVE DeskNext
  <2>1. PICK rs \in SUBSET ListedRow :
          rs = {r \in ListCanonical("positive") : r.active # (r.word \in desk[c].todo)}
    BY <1>4 DEF Classes
  <2>2. Do(c, [old EXCEPT !.step = "switch", !.rows = rs])
    BY <1>2, <1>8, <2>1 DEF ReconcileSelection
  <2>3. "switch" \in DeskSteps \ {"store", "save", "update"}
    BY DEF DeskSteps
  <2> QED BY <1>1, <1>2, <2>2, <2>3, RowsKept
<1>9. ASSUME NEW r \in old.rows, SwitchTrigger(c, r) PROVE DeskNext
  <2>1. CASE Do(c, NothingToDo)
    BY <1>1, <2>1, JobKept
  <2>2. CASE Do(c, [desk[c] EXCEPT !.rows = @ \ {r}])
    <3>1. PICK rs \in SUBSET ListedRow : rs = old.rows \ {r}
      BY <1>3
    <3>2. PICK d : d = [old EXCEPT !.rows = @ \ {r}]
      OBVIOUS
    <3>3. d = [old EXCEPT !.step = "switch", !.rows = rs]
      BY <1>2, <1>9, <3>1, <3>2 DEF SwitchTrigger, DeskRow
    <3>4. Do(c, d)
      BY <1>2, <2>2, <3>2
    <3>5. "switch" \in DeskSteps \ {"store", "save", "update"}
      BY DEF DeskSteps
    <3> QED BY <1>1, <1>2, <3>3, <3>4, <3>5, RowsKept
  <2> QED BY <1>9, <2>1, <2>2 DEF SwitchTrigger
<1>10. ASSUME ListRows(c) PROVE DeskNext
  <2>1. PICK class \in Classes : class = old.step
    BY <1>2, <1>10 DEF ListRows
  <2>2. PICK rs \in SUBSET ListedRow : rs = old.rows \cup ListCanonical(class)
    BY <1>3, <1>4
  <2>3. PICK st \in DeskSteps \ {"store", "save", "update"} : st = NextClass[class]
    BY DEF NextClass, DeskSteps, Classes
  <2>4. PICK d : d = [old EXCEPT !.step = NextClass[class], !.rows = @ \cup ListCanonical(class)]
    OBVIOUS
  <2>5. d = [old EXCEPT !.step = st, !.rows = rs]
    BY <2>2, <2>3, <2>4
  <2>6. Do(c, d)
    BY <1>2, <1>10, <2>1, <2>4 DEF ListRows
  <2> QED BY <1>1, <1>2, <2>5, <2>6, RowsKept
<1> QED BY <1>1, <1>2, <1>6, <1>7, <1>8, <1>9, <1>10

\* The steps of a call that read or write the settings, or the configuration.
LEMMA SettingsStep ==
    ASSUME KeywordsInd, NEW c \in Clerks \cup {Cycle},
           StoreRequested(c) \/ LoadSettings(c) \/ SaveSettings(c) \/ UpdateRuntime(c)
    PROVE  DeskNext /\ SettingsOK'
<1>1. PICK old \in DeskRow : old = desk[c] /\ DeskOK(old, typed)
  BY DEF KeywordsInd
<1>2. /\ prefs \in PrefsRow
      /\ prefs.keywords \subseteq typed \cup prefs.owned
      /\ serving.keywords \subseteq typed \cup UNION {t[2] : t \in serving.triggers}
      /\ old.rows \in SUBSET ListedRow /\ old.dropped \in SUBSET Values
  BY <1>1 DEF KeywordsInd, SettingsOK, OnlyTypedRemains, DeskRow
<1>3. ASSUME StoreRequested(c) PROVE DeskNext /\ SettingsOK'
  <2>1. /\ old.was \in SUBSET Values /\ old.todo \in SUBSET Values
        /\ prefs' = [keywords |-> old.todo, owned |-> old.was]
        /\ typed' = typed \cup old.todo /\ UNCHANGED serving
    BY <1>1, <1>3 DEF StoreRequested, DeskOK
  <2>2. SettingsOK'
    BY <1>2, <2>1 DEF SettingsOK, OnlyTypedRemains, PrefsRow
  <2>3. PICK d : d = [old EXCEPT !.step = "reconcile"]
    OBVIOUS
  <2>4. d = [old EXCEPT !.step = "reconcile", !.rows = old.rows]
    BY <2>3 DEF DeskRow
  <2>5. Do(c, d) /\ "reconcile" \in DeskSteps \ {"store", "save", "update"}
    BY <1>1, <1>3, <2>3 DEF StoreRequested, DeskSteps
  <2>6. typed \subseteq typed'
    BY <2>1
  <2>7. DeskNext
    BY <1>1, <1>2, <2>4, <2>5, <2>6, RowsKept
  <2> QED BY <2>2, <2>7
<1>4. ASSUME LoadSettings(c) PROVE DeskNext /\ SettingsOK'
  <2>1. UNCHANGED <<prefs, serving, typed>>
    BY <1>4 DEF LoadSettings
  <2>2. PICK s \in PrefsRow : s = prefs
    BY <1>2
  <2>3. PICK d : d = [old EXCEPT !.step = "save", !.was = s]
    OBVIOUS
  <2>4. d \in DeskRow /\ d.step = "save" /\ d.was = s /\ d.found = old.found
    BY <2>3 DEF DeskRow, DeskSteps
  <2>5. DeskOK(d, typed')
    BY <1>1, <1>2, <2>1, <2>2, <2>4 DEF DeskOK
  <2>6. Do(c, d)
    BY <1>1, <1>4, <2>2, <2>3 DEF LoadSettings
  <2>7. SettingsOK'
    BY <1>2, <2>1 DEF SettingsOK, OnlyTypedRemains
  <2> QED BY <2>1, <2>4, <2>5, <2>6, <2>7, DeskKept DEF DeskNext
<1>5. ASSUME old.step \in {"save", "update"}
      PROVE  old.was \in PrefsRow /\ old.was.keywords \subseteq typed \cup old.was.owned
  BY <1>1, <1>5 DEF DeskOK
<1>6. ASSUME SaveSettings(c) PROVE DeskNext /\ SettingsOK'
  <2>1. /\ old.step = "save" /\ prefs' = Merged(old.rows, old.was, old.dropped)
        /\ UNCHANGED <<serving, typed>>
    BY <1>1, <1>6 DEF SaveSettings
  <2>2. prefs' \in PrefsRow /\ prefs'.keywords \subseteq typed \cup prefs'.owned
    BY <1>2, <1>5, <2>1, MergedOK
  <2>3. SettingsOK'
    BY <1>2, <2>1, <2>2 DEF SettingsOK, OnlyTypedRemains
  <2>4. PICK d : d = [old EXCEPT !.step = "update"]
    OBVIOUS
  <2>5. d \in DeskRow /\ d.step = "update" /\ d.was = old.was /\ d.found = old.found
    BY <2>4 DEF DeskRow, DeskSteps
  <2>6. DeskOK(d, typed')
    BY <1>1, <1>5, <2>1, <2>5 DEF DeskOK
  <2>7. Do(c, d)
    BY <1>1, <1>6, <2>4 DEF SaveSettings
  <2> QED BY <2>1, <2>3, <2>5, <2>6, <2>7, DeskKept DEF DeskNext
<1>7. ASSUME UpdateRuntime(c) PROVE DeskNext /\ SettingsOK'
  <2>1. /\ old.step = "update" /\ serving' = Configured(old.rows, old.was, old.dropped)
        /\ UNCHANGED <<prefs, typed>> /\ Do(c, NothingToDo)
    BY <1>1, <1>7 DEF UpdateRuntime
  <2>2. serving'.keywords \subseteq typed \cup UNION {t[2] : t \in serving'.triggers}
    BY <1>2, <1>5, <2>1, ConfiguredOK
  <2>3. SettingsOK'
    BY <1>2, <2>1, <2>2 DEF SettingsOK, OnlyTypedRemains
  <2> QED BY <2>1, <2>3, JobKept
<1> QED BY <1>3, <1>4, <1>6, <1>7

\* The analysis: a word it found is the canonical form of what it saw.
LEMMA AnalysisDesk ==
    ASSUME KeywordsInd, AnalysisStep
    PROVE  DeskNext /\ UNCHANGED <<prefs, serving, typed>>
<1>1. UNCHANGED <<prefs, serving, typed>>
  BY DEF AnalysisStep, loadServiceWords, Analyze, SearchServiceWords, DeleteServiceKeyword, SyncCanonical
<1>2. PICK old \in DeskRow : old = desk[Cycle] /\ DeskOK(old, typed)
  BY DEF KeywordsInd
<1>3. stops \in SUBSET Values /\ Cycle \in Clerks \cup {Cycle} /\ AllRows \subseteq ListedRow
  BY RowsType DEF KeywordsInd, TablesOK
<1>4. ASSUME loadServiceWords \/ SyncCanonical PROVE DeskNext
  BY <1>1, <1>3, <1>4, JobKept DEF loadServiceWords, SyncCanonical
<1>5. ASSUME NEW texts \in Corpora, Analyze(texts) PROVE DeskNext
  <2>1. PICK kept \in SUBSET ExtractCanonicalWords(texts) :
          kept = {x \in ExtractCanonicalWords(texts) : ~matchesServiceWord(x.word, x.seen, desk[Cycle].was)}
    OBVIOUS
  <2>2. PICK found : found = UNION {{x.word} \X x.seen : x \in kept}
    OBVIOUS
  <2>3. texts \subseteq Values
    BY KeywordsAssumption
  <2>4. ASSUME NEW p \in found PROVE p \in Values \X Values /\ p[1] = Lemma[p[2]]
    <3>1. PICK x \in kept : p \in {x.word} \X x.seen
      BY <2>2
    <3>2. PICK w \in {Lemma[v] : v \in texts} : x = [word |-> w, seen |-> {v \in texts : Lemma[v] = w}]
      BY <2>1 DEF ExtractCanonicalWords
    <3>3. w \in Values
      BY <2>3, KeywordsAssumption
    <3>4. p \in {w} \X {v \in texts : Lemma[v] = w}
      BY <3>1, <3>2
    <3> QED BY <2>3, <3>3, <3>4
  <2>5. PICK d : d = [old EXCEPT !.step = "search", !.found = found]
    OBVIOUS
  <2>6. d \in DeskRow /\ d.step = "search" /\ d.found = found
    BY <2>4, <2>5 DEF DeskRow, DeskSteps
  <2>7. DeskOK(d, typed') /\ Do(Cycle, d)
    BY <1>2, <1>5, <2>1, <2>2, <2>4, <2>5, <2>6 DEF DeskOK, Analyze
  <2> QED BY <1>1, <1>3, <2>6, <2>7, DeskKept DEF DeskNext
<1>6. ASSUME SearchServiceWords PROVE DeskNext
  <2>1. PICK todo \in SUBSET Values :
          todo = Identifiers({r \in AllRows : matchesServiceWord(r.word, r.values, desk[Cycle].was)})
    BY <1>3 DEF Identifiers, ListedRow
  <2>2. PICK d : d = [old EXCEPT !.step = "purge", !.todo = todo]
    OBVIOUS
  <2>3. d \in DeskRow /\ d.step = "purge" /\ d.found = old.found
    BY <2>2 DEF DeskRow, DeskSteps
  <2>4. DeskOK(d, typed') /\ Do(Cycle, d)
    BY <1>2, <1>6, <2>1, <2>2, <2>3 DEF DeskOK, SearchServiceWords
  <2> QED BY <1>1, <1>3, <2>3, <2>4, DeskKept DEF DeskNext
<1>7. ASSUME NEW w \in Values, DeleteServiceKeyword(w) PROVE DeskNext
  <2>1. PICK d : d = [old EXCEPT !.todo = @ \ {w}]
    OBVIOUS
  <2>2. d \in DeskRow /\ d.step = old.step /\ d.found = old.found
    BY <2>1 DEF DeskRow
  <2>3. old.step = "purge" /\ Do(Cycle, d)
    BY <1>2, <1>7, <2>1 DEF DeleteServiceKeyword
  <2>4. DeskOK(d, typed')
    BY <1>2, <2>2, <2>3 DEF DeskOK
  <2> QED BY <1>1, <1>3, <2>2, <2>3, <2>4, DeskKept DEF DeskNext
<1> QED BY <1>1, <1>4, <1>5, <1>6, <1>7 DEF AnalysisStep

\* The program starts again and synchronises.
LEMMA RestartDesk ==
    ASSUME KeywordsInd, RestartKeywords
    PROVE  DeskNext /\ SettingsOK'
<1>1. /\ prefs \in PrefsRow /\ prefs.keywords \subseteq typed \cup prefs.owned
      /\ AllRows \in SUBSET ListedRow /\ {} \in SUBSET Values
  BY RowsType DEF KeywordsInd, SettingsOK, OnlyTypedRemains
<1>2. /\ prefs' = Merged(AllRows, prefs, {}) /\ serving' = Configured(AllRows, prefs, {})
      /\ desk' = [c \in Clerks \cup {Cycle} |-> NothingToDo] /\ typed' = typed
  BY DEF RestartKeywords
<1>3. prefs' \in PrefsRow /\ prefs'.keywords \subseteq typed \cup prefs'.owned
  BY <1>1, <1>2, MergedOK
<1>4. serving'.keywords \subseteq typed \cup UNION {t[2] : t \in serving'.triggers}
  BY <1>1, <1>2, ConfiguredOK
<1>5. NothingToDo \in DeskRow /\ DeskOK(NothingToDo, typed)
  BY DEF NothingToDo, DeskRow, DeskSteps, DeskOK
<1>6. DeskNext
  BY <1>2, <1>5 DEF DeskNext
<1> QED BY <1>2, <1>3, <1>4, <1>6 DEF SettingsOK, OnlyTypedRemains

\* Every step keeps the invariant.
LEMMA KeywordsStep == KeywordsInd /\ [KeywordsNext]_keywordVars => KeywordsInd'
<1>1. ASSUME KeywordsInd, KeywordsNext PROVE KeywordsInd'
  <2>1. TablesOK'
    BY <1>1, TablesStep
  <2>2. ASSUME UNCHANGED <<prefs, serving, typed>> PROVE SettingsOK'
    BY <1>1, <2>2 DEF KeywordsInd, SettingsOK, OnlyTypedRemains
  <2>3. ASSUME NEW c \in Clerks \cup {Cycle}, CallStep(c) PROVE DeskNext /\ SettingsOK'
    BY <1>1, <2>2, <2>3, CallDesk, SettingsStep DEF CallStep
  <2>4. DeskNext /\ SettingsOK'
    BY <1>1, <2>2, <2>3, AskDesk, AnalysisDesk, RestartDesk DEF KeywordsNext
  <2> QED BY <2>1, <2>4 DEF KeywordsInd, DeskNext
<1>2. ASSUME KeywordsInd, UNCHANGED keywordVars PROVE KeywordsInd'
  BY <1>2 DEF KeywordsInd, keywordVars, TablesOK, SettingsOK, OnlyTypedRemains
<1> QED BY <1>1, <1>2

\* After any session.
LEMMA KeywordsStart == KeywordsInit => KeywordsInd
<1> SUFFICES ASSUME KeywordsInit PROVE KeywordsInd
  OBVIOUS
<1>1. Kept \subseteq Values
  BY KeywordsAssumption
<1>2. PICK by \in SUBSET (Values \ Kept) :
          /\ words = [w \in Values |-> IF w \in Kept THEN [class |-> "positive", active |-> TRUE] ELSE NoWord]
          /\ forms = [v \in Values |-> IF v \in Kept THEN [owner |-> v, manual |-> FALSE] ELSE NoForm]
          /\ typed = by
          /\ prefs = [keywords |-> by \cup Kept, owned |-> Kept]
          /\ serving = [keywords |-> by \cup Kept, triggers |-> {<<w, {w}>> : w \in Kept}]
  BY DEF KeywordsInit
<1>3. TablesOK
  <2>1. words \in [Values -> WordRow] /\ forms \in [Values -> FormRow] /\ stops \subseteq Values
    BY <1>2 DEF KeywordsInit, WordRow, FormRow, NoWord, NoForm, Classes
  <2>2. ASSUME NEW w \in Values, words[w].active PROVE words[w].class = "positive"
    BY <1>2, <2>2 DEF NoWord
  <2>3. ASSUME NEW v \in Values, forms[v] # NoForm
        PROVE  forms[v].owner \in Values /\ words[forms[v].owner].class # "none"
    <3>1. v \in Kept /\ forms[v].owner = v
      BY <1>2, <2>3
    <3> QED BY <1>2, <3>1
  <2> QED BY <2>1, <2>2, <2>3 DEF TablesOK
<1>4. SettingsOK
  <2>1. prefs \in PrefsRow /\ prefs.keywords \subseteq typed \cup prefs.owned
    BY <1>1, <1>2 DEF PrefsRow
  <2>2. ASSUME NEW w \in Kept PROVE w \in UNION {t[2] : t \in serving.triggers}
    <3>1. PICK t : t = <<w, {w}>>
      OBVIOUS
    <3>2. t \in serving.triggers /\ w \in t[2]
      BY <1>2, <3>1
    <3> QED BY <3>2
  <2>3. serving.keywords = typed \cup Kept
    BY <1>2
  <2> QED BY <2>1, <2>2, <2>3 DEF SettingsOK, OnlyTypedRemains
<1>5. NothingToDo \in DeskRow /\ DeskOK(NothingToDo, typed)
  BY DEF NothingToDo, DeskRow, DeskSteps, DeskOK
<1> QED BY <1>3, <1>4, <1>5 DEF KeywordsInd, KeywordsInit

\* It says what the runs check.
LEMMA KeywordsIndImplies == KeywordsInd => KeywordsInv
<1> SUFFICES ASSUME KeywordsInd PROVE KeywordsInv
  OBVIOUS
<1>1. KeywordsTypeOK
  BY DEF KeywordsInd, TablesOK, SettingsOK, KeywordsTypeOK, WordRow, FormRow, PrefsRow
<1>2. TriggersArePositive
  BY DEF KeywordsInd, TablesOK, TriggersArePositive, IsKeyword
<1> QED BY <1>1, <1>2 DEF KeywordsInd, SettingsOK, KeywordsInv

\* For any keywords, forms and calls: only a positive keyword is a trigger, no form
\* outlives its keyword, and what the settings or the configuration hold beyond the
\* triggers is what the user typed (SaveKeywordSettings, syncCanonicalTriggers).
THEOREM KeywordsInvariant == KeywordsSpec => []KeywordsInv
<1> QED BY KeywordsStart, KeywordsStep, KeywordsIndImplies, PTL DEF KeywordsSpec

=============================================================================
