---------------------------- MODULE Updater_proof ----------------------------
(***************************************************************************)
(* Proofs about Updater: its types, its inductive invariant, that a found  *)
(* or downloaded update is never lost, and the chain of automatic checks.  *)
(* Then Sparkle: the native driver's steps are steps of the service, and   *)
(* the bridge answers the operation that asked.                            *)
(***************************************************************************)
EXTENDS Sparkle, SequenceTheorems, TLAPS

-----------------------------------------------------------------------------
(* Types *)

\* A change of the position of an operation, its flags or its answer.
LEMMA OperationUpdate ==
    ASSUME NEW o \in Operations
    PROVE  /\ \A c \in {"out", "begin", "calling", "returned", "leaving", "repeat"} :
                  [o EXCEPT !.pc = c] \in Operations
           /\ [o EXCEPT !.cut = TRUE] \in Operations
           /\ \A r \in Results : [o EXCEPT !.pc = "returned", !.result = r] \in Operations
           /\ \A n \in 0..100 : [o EXCEPT !.report = n] \in Operations
BY DEF Operations

\* A snapshot that becomes ready is a snapshot.
LEMMA ReadySnapshot ==
    ASSUME NEW snap \in Snapshots
    PROVE  /\ [snap EXCEPT !.state = "ready", !.error = FALSE] \in Snapshots
           /\ [snap EXCEPT !.state = "ready", !.progress = 100, !.error = FALSE] \in Snapshots
<1>1. "ready" \in States
  BY DEF States
<1>2. 100 \in 0..100
  OBVIOUS
<1> QED
  BY <1>1, <1>2 DEF Snapshots

\* begin keeps the types.
LEMMA BeginType ==
    ASSUME TypeOK, NEW p \in Procs, NEW kind \in Kinds, Begin(p, kind)
    PROVE  TypeOK'
<1> USE UpdaterAssumption
<1>1. op + 1 \in 0..MaxOps
  BY DEF TypeOK, Begin
<1>2. [snapshot EXCEPT !.state = NextState(kind), !.retryState = "", !.error = FALSE,
           !.progress = IF kind = "download" THEN 0 ELSE @] \in Snapshots
  <2>1. NextState(kind) \in States /\ "" \in RetryStates /\ snapshot \in Snapshots
    BY DEF NextState, States, RetryStates, TypeOK
  <2>2. (IF kind = "download" THEN 0 ELSE snapshot.progress) \in 0..100
    BY DEF TypeOK, Snapshots
  <2> HIDE UpdaterAssumption
  <2> QED
    BY <2>1, <2>2 DEF Snapshots
<1>3. [pc |-> "calling", kind |-> kind, id |-> op + 1, previous |-> snapshot,
       previousRetry |-> retry, lifecycle |-> lifecycle, cut |-> FALSE,
       result |-> "none", report |-> 0] \in Operations
  BY <1>1 DEF TypeOK, Operations, Results
<1>4. proc' \in [Procs -> Operations]
  BY <1>3 DEF TypeOK, Begin
<1> QED
  BY <1>1, <1>2, <1>4 DEF TypeOK, Begin, contexts, timerVars, stopVars

\* The first section of addTimer keeps the types of the timers.
LEMMA RegisterType ==
    ASSUME TypeOK, Register
    PROVE  /\ pending' \in SUBSET Timers
           /\ kept' \in SUBSET Timers
           /\ nextTimerID' \in 0..MaxTimers
           /\ live' \in SUBSET Timers
           /\ adding' \in [Timers -> {"off", "registered", "armed", "unwanted"}]
           /\ watchTook' \in SUBSET Timers
<1>1. nextTimerID + 1 \in Timers /\ nextTimerID + 1 \in 0..MaxTimers
  BY UpdaterAssumption DEF TypeOK, Register, Timers
<1> QED
  BY <1>1 DEF TypeOK, Register

\* The snapshot of NewService is a snapshot.
LEMMA FreshSnapshot == Fresh \in Snapshots
BY DEF Fresh, Snapshots, States, RetryStates

\* The goroutine that has no operation is well typed.
LEMMA OutsideOperation == Outside \in Operations
BY FreshSnapshot, UpdaterAssumption DEF Outside, Operations, Kinds, Results, RetryStates

\* The locked section after a driver call keeps the types.
LEMMA FinishType ==
    ASSUME TypeOK, NEW p \in Procs, Finish(p)
    PROVE  TypeOK'
<1> USE UpdaterAssumption
<1>1. proc[p] \in Operations
  BY DEF TypeOK
<1>2. proc' \in [Procs -> Operations]
  <2>1. [proc[p] EXCEPT !.pc = "leaving"] \in Operations
    BY <1>1 DEF Operations
  <2> QED
    BY <2>1 DEF Finish, TypeOK
<1>5. snapshot \in Snapshots
  BY DEF TypeOK
<1>3. snapshot' \in Snapshots /\ retry' \in RetryStates
  <2>1. restoreLocked(p) => snapshot' \in Snapshots /\ retry' \in RetryStates
    BY <1>1 DEF restoreLocked, Operations
  <2>2. ASSUME NEW again \in RetryStates, setErrorLocked(again)
        PROVE  snapshot' \in Snapshots /\ retry' \in RetryStates
    BY <2>2, <1>5 DEF setErrorLocked, Snapshots, States
  <2>3. CheckEnds(p) => snapshot' \in Snapshots /\ retry' \in RetryStates
    <3>1. ASSUME NEW v \in Versions
          PROVE  [Fresh EXCEPT !.state = "available", !.version = v] \in Snapshots
      BY FreshSnapshot DEF Snapshots, States
    <3> QED
      BY <2>1, <2>2, <3>1, FreshSnapshot DEF CheckEnds, RetryStates
  <2>4. DownloadEnds(p) => snapshot' \in Snapshots /\ retry' \in RetryStates
    <3>1. CASE proc[p].result = "error"
      <4>1. setErrorLocked("available") \/ ~DownloadEnds(p)
        BY <3>1 DEF DownloadEnds
      <4> QED
        BY <2>2, <4>1 DEF RetryStates
    <3>2. CASE proc[p].result # "error"
      BY <1>5, <3>2, ReadySnapshot DEF DownloadEnds, RetryStates
    <3> QED
      BY <3>1, <3>2
  <2>5. InstallEnds(p) => snapshot' \in Snapshots /\ retry' \in RetryStates
    <3>1. CASE proc[p].result = "error"
      <4>1. setErrorLocked("ready") \/ ~InstallEnds(p)
        BY <3>1 DEF InstallEnds
      <4> QED
        BY <2>2, <4>1 DEF RetryStates
    <3>2. CASE proc[p].result # "error"
      BY <1>5, <3>2, ReadySnapshot DEF InstallEnds, RetryStates
    <3> QED
      BY <3>1, <3>2
  <2> QED
    BY <2>1, <2>3, <2>4, <2>5 DEF Finish, TypeOK, service
<1>4. busy' \in BOOLEAN /\ op' \in 0..MaxOps
  BY DEF Finish, TypeOK, service
<1> QED
  BY <1>2, <1>3, <1>4 DEF Finish, TypeOK, contexts, timerVars, stopVars

\* Every step keeps the types.
LEMMA TypeStep == TypeOK /\ [Next]_vars => TypeOK'
<1> USE UpdaterAssumption
<1> SUFFICES ASSUME TypeOK, [Next]_vars PROVE TypeOK'
  OBVIOUS
<1> USE DEF contexts, timerVars, stopVars, service
<1>1. ASSUME NEW c \in Callers, NEW k \in Kinds \ {"auto"}, UserBegins(c, k)
      PROVE  TypeOK'
  <2>1. c \in Procs /\ k \in Kinds /\ Begin(c, k)
    BY <1>1 DEF UserBegins, Procs
  <2>2. TypeOK
    OBVIOUS
  <2> HIDE DEF contexts, timerVars, stopVars, service
  <2> QED
    BY <2>1, <2>2, BeginType
<1>2. ASSUME NEW c \in Callers, CancelCaller(c) PROVE TypeOK'
  BY <1>2, OperationUpdate DEF CancelCaller, TypeOK, Procs
<1>3. ASSUME NEW p \in Procs, NEW r \in Results, DriverReturns(p, r) PROVE TypeOK'
  BY <1>3, OperationUpdate DEF DriverReturns, TypeOK
<1>4. ASSUME NEW id \in 1..op, NEW n \in Reports, Progress(id, n) PROVE TypeOK'
  <2>1. Clamp(n) \in 0..100
    BY DEF Clamp
  <2> QED
    <3>1. snapshot' \in Snapshots
      <4>1. snapshot \in Snapshots
        BY DEF TypeOK
      <4> QED
        BY <1>4, <2>1, <4>1 DEF Progress, Snapshots
    <3>2. \A p \in Procs : /\ proc[p] \in Operations
                            /\ [proc[p] EXCEPT !.report = Clamp(n)] \in Operations
      BY <2>1, OperationUpdate DEF TypeOK
    <3>3. proc' \in [Procs -> Operations]
      BY <1>4, <3>2 DEF Progress
    <3> QED
      BY <1>4, <3>1, <3>3 DEF Progress, TypeOK
<1>5. ASSUME NEW p \in Procs, Finish(p) PROVE TypeOK'
  BY <1>5, FinishType
<1>6. ASSUME NEW p \in Procs, Leave(p) PROVE TypeOK'
  <2>1. [Outside EXCEPT !.pc = IF p \in Timers THEN "repeat" ELSE "out"] \in Operations
    BY OutsideOperation, OperationUpdate
  <2> QED
    BY <1>6, <2>1 DEF Leave, TypeOK
<1>7. ASSUME NEW t \in Timers, AutoBegins(t) PROVE TypeOK'
  BY <1>7, BeginType DEF AutoBegins, Procs, Kinds
<1>8. ASSUME NEW t \in Timers, AutoSkips(t) PROVE TypeOK'
  BY <1>8, OperationUpdate DEF AutoSkips, TypeOK, Procs
<1>9. ASSUME NEW t \in Timers, Arm(t) PROVE TypeOK'
  BY <1>9 DEF Arm, TypeOK
<1>10. ASSUME NEW t \in Timers, Keep(t) \/ Discard(t) PROVE TypeOK'
  BY <1>10 DEF Keep, Discard, TypeOK
<1>11. ASSUME NEW t \in Timers, Fire(t) PROVE TypeOK'
  BY <1>11, OperationUpdate DEF Fire, TypeOK, Procs
<1>12. ASSUME NEW t \in Timers, Repeat(t) PROVE TypeOK'
  <2>1. proc' \in [Procs -> Operations]
    BY <1>12, OperationUpdate DEF Repeat, TypeOK, Procs
  <2> QED
    BY <1>12, <2>1, RegisterType DEF Repeat, TypeOK
<1>13. LifecycleWatch \/ WatchStops => TypeOK'
  BY DEF LifecycleWatch, WatchStops, TypeOK
<1>14. Start \/ StartCancelsOld \/ CancelRoot => TypeOK'
  BY DEF Start, StartCancelsOld, CancelRoot, TypeOK
<1>15. StartAddsTimer => TypeOK'
  BY RegisterType DEF StartAddsTimer, TypeOK
<1>16. ASSUME NEW s \in Stoppers, StopLocks(s) PROVE TypeOK'
  <2>1. stopper' \in [Stoppers -> StopCalls]
    BY <1>16 DEF StopLocks, TypeOK, StopCalls
  <2> QED
    BY <1>16, <2>1 DEF StopLocks, TypeOK
<1>17. ASSUME NEW s \in Stoppers, StopCancels(s) PROVE TypeOK'
  <2>1. stopper' \in [Stoppers -> StopCalls] /\ stopper[s].lifecycle \in {0, 1}
    BY <1>17 DEF StopCancels, TypeOK, StopCalls
  <2> QED
    BY <1>17, <2>1 DEF StopCancels, TypeOK
<1>18. ASSUME NEW s \in Stoppers, StopDriver(s) \/ StopJoins(s) PROVE TypeOK'
  <2>1. stopper' \in [Stoppers -> StopCalls]
    BY <1>18 DEF StopDriver, StopJoins, TypeOK, StopCalls
  <2> QED
    BY <1>18, <2>1 DEF StopDriver, StopJoins, TypeOK
<1>19. CASE UNCHANGED vars
  BY <1>19 DEF vars, TypeOK
<1> QED
  BY <1>1, <1>2, <1>3, <1>4, <1>5, <1>6, <1>7, <1>8, <1>9, <1>10, <1>11,
     <1>12, <1>13, <1>14, <1>15, <1>16, <1>17, <1>18, <1>19
  DEF Next, UserSteps, DriverSteps, OperationSteps, TimerSteps, StartSteps, StopSteps

\* The first state is well typed.
LEMMA TypeStarts == Init => TypeOK
<1> USE UpdaterAssumption
<1> SUFFICES ASSUME Init PROVE TypeOK
  OBVIOUS
<1>1. proc \in [Procs -> Operations]
  BY OutsideOperation DEF Init
<1>2. stopper \in [Stoppers -> StopCalls]
  BY DEF Init, StopCalls
<1>3. snapshot \in Snapshots /\ retry \in RetryStates
  BY FreshSnapshot DEF Init, RetryStates
<1>4. op \in 0..MaxOps /\ nextTimerID \in 0..MaxTimers
  <2>1. op = 0 /\ nextTimerID = 0
    BY DEF Init
  <2> QED
    BY <2>1
<1>5. adding \in [Timers -> {"off", "registered", "armed", "unwanted"}]
  BY DEF Init
<1> HIDE UpdaterAssumption
<1> QED
  <2>1. /\ busy \in BOOLEAN
        /\ started \in BOOLEAN
        /\ stopped \in BOOLEAN
        /\ lifecycle \in {0, 1}
        /\ driverStopped \in BOOLEAN
        /\ stopDone \in BOOLEAN
        /\ watch \in {"off", "armed"}
        /\ starter \in {"out", "locked", "adding", "done"}
    BY DEF Init
  <2>2. /\ cancelled \in SUBSET {0, 1}
        /\ pending \in SUBSET Timers
        /\ kept \in SUBSET Timers
        /\ watchTook \in SUBSET Timers
        /\ live \in SUBSET Timers
    BY DEF Init
  <2> QED
    BY <1>1, <1>2, <1>3, <1>4, <1>5, <2>1, <2>2 DEF TypeOK

\* Every variable of Updater keeps its type.
THEOREM TypeCorrect == Spec => []TypeOK
<1> USE UpdaterAssumption
<1>1. Init => TypeOK
  BY TypeStarts
<1>2. TypeOK /\ [Next]_vars => TypeOK'
  BY TypeStep
<1> QED
  BY <1>1, <1>2, PTL DEF Spec

-----------------------------------------------------------------------------
(* Timers fire once *)

\* A timer that may still fire, or that is not armed yet, has no goroutine.
FiredOnce ==
    \A t \in Timers :
        /\ t > nextTimerID => adding[t] = "off" /\ t \notin live /\ proc[t].pc = "out"
        /\ adding[t] = "registered" => t \notin live
        /\ t \in live \/ adding[t] = "registered" => proc[t].pc = "out"

\* A step that touches no timer, and starts no goroutine of one, keeps FiredOnce.
LEMMA GoroutineFiredOnce ==
    ASSUME FiredOnce, UNCHANGED timerVars,
           \A t \in Timers : proc'[t].pc # proc[t].pc => proc[t].pc # "out"
    PROVE  FiredOnce'
BY DEF FiredOnce, timerVars

\* The first section of addTimer takes a timer that was never used.
LEMMA RegisterFiredOnce ==
    ASSUME TypeOK, FiredOnce, Register,
           \A t \in Timers : proc'[t].pc # proc[t].pc => proc[t].pc # "out"
    PROVE  FiredOnce'
<1>1. /\ adding \in [Timers -> {"off", "registered", "armed", "unwanted"}]
      /\ nextTimerID \in Int
      /\ Timers \subseteq Int
  BY UpdaterAssumption DEF TypeOK, Timers
<1>2. /\ nextTimerID' = nextTimerID + 1
      /\ adding' = [adding EXCEPT ![nextTimerID + 1] = "registered"]
      /\ live' = live
  BY DEF Register
<1>3. ASSUME NEW t \in Timers, t # nextTimerID + 1
      PROVE  /\ adding'[t] = adding[t]
             /\ t > nextTimerID' => t > nextTimerID
  BY <1>1, <1>2, <1>3
<1>4. ASSUME NEW t \in Timers, t = nextTimerID + 1
      PROVE  /\ t > nextTimerID
             /\ ~(t > nextTimerID')
  BY <1>1, <1>2, <1>4
<1> QED
  BY <1>2, <1>3, <1>4 DEF FiredOnce

\* Every step keeps the timers that way.
LEMMA FiredOnceStep == TypeOK /\ FiredOnce /\ [Next]_vars => FiredOnce'
<1> SUFFICES ASSUME TypeOK, FiredOnce, [Next]_vars PROVE FiredOnce'
  OBVIOUS
<1>1. Timers \subseteq Procs /\ Callers \intersect Timers = {} /\ proc \in [Procs -> Operations]
  BY UpdaterAssumption DEF Procs, TypeOK
\* A goroutine that is not outside moves on, or a caller does.
<1>2. ASSUME NEW p \in Procs, NEW o, p \in Callers \/ proc[p].pc # "out",
             proc' = [proc EXCEPT ![p] = o], UNCHANGED timerVars
      PROVE  FiredOnce'
  BY <1>1, <1>2, GoroutineFiredOnce
<1>3. ASSUME UNCHANGED <<proc, timerVars>> PROVE FiredOnce'
  BY <1>3, GoroutineFiredOnce
<1>4. ASSUME NEW c \in Callers, NEW k \in Kinds \ {"auto"}, UserBegins(c, k)
      PROVE  FiredOnce'
  BY <1>4, <1>2 DEF UserBegins, Begin, Procs
<1>5. ASSUME NEW c \in Callers, CancelCaller(c) PROVE FiredOnce'
  BY <1>5, <1>2 DEF CancelCaller, Procs
<1>6. ASSUME NEW p \in Procs, NEW r \in Results, DriverReturns(p, r) PROVE FiredOnce'
  <2>1. \A t \in Timers : proc'[t].pc # proc[t].pc => proc[t].pc # "out"
    BY <1>1, <1>6 DEF DriverReturns
  <2> QED
    BY <1>6, <2>1, GoroutineFiredOnce DEF DriverReturns
<1>7. ASSUME NEW id \in 1..op, NEW n \in Reports, Progress(id, n) PROVE FiredOnce'
  <2>1. \A t \in Timers : proc'[t].pc = proc[t].pc
    BY <1>1, <1>7 DEF Progress, Operations
  <2> QED
    BY <1>7, <2>1, GoroutineFiredOnce DEF Progress
<1>8. ASSUME NEW p \in Procs, Finish(p) PROVE FiredOnce'
  BY <1>8, <1>2 DEF Finish
<1>9. ASSUME NEW p \in Procs, Leave(p) PROVE FiredOnce'
  BY <1>9, <1>2 DEF Leave
<1>10. ASSUME NEW t \in Timers, AutoBegins(t) PROVE FiredOnce'
  BY <1>1, <1>10, <1>2 DEF AutoBegins, Begin
<1>11. ASSUME NEW t \in Timers, AutoSkips(t) PROVE FiredOnce'
  BY <1>1, <1>11, <1>2 DEF AutoSkips
<1>12. ASSUME NEW t \in Timers, Arm(t) \/ Keep(t) \/ Discard(t) PROVE FiredOnce'
  BY <1>12 DEF Arm, Keep, Discard, FiredOnce, TypeOK
<1>13. ASSUME NEW t \in Timers, Fire(t) PROVE FiredOnce'
  <2>1. \A u \in Timers : u # t => proc'[u] = proc[u]
    BY <1>1, <1>13 DEF Fire
  <2>2. live' = live \ {t} /\ adding' = adding /\ nextTimerID' = nextTimerID /\ t \in live
    BY <1>13 DEF Fire
  <2> QED
    BY <2>1, <2>2 DEF FiredOnce
<1>14. ASSUME NEW t \in Timers, Repeat(t) PROVE FiredOnce'
  <2>1. \A u \in Timers : proc'[u].pc # proc[u].pc => proc[u].pc # "out"
    BY <1>1, <1>14 DEF Repeat
  <2> QED
    BY <1>14, <2>1, RegisterFiredOnce, GoroutineFiredOnce DEF Repeat
<1>15. LifecycleWatch \/ WatchStops => FiredOnce'
  BY DEF LifecycleWatch, WatchStops, FiredOnce
<1>16. Start \/ StartCancelsOld \/ CancelRoot => FiredOnce'
  BY <1>3 DEF Start, StartCancelsOld, CancelRoot
<1>17. StartAddsTimer => FiredOnce'
  BY RegisterFiredOnce, GoroutineFiredOnce DEF StartAddsTimer
<1>18. ASSUME NEW s \in Stoppers, StopLocks(s) \/ StopCancels(s) PROVE FiredOnce'
  BY <1>18 DEF StopLocks, StopCancels, FiredOnce
<1>19. ASSUME NEW s \in Stoppers, StopDriver(s) \/ StopJoins(s) PROVE FiredOnce'
  BY <1>19, <1>3 DEF StopDriver, StopJoins
<1>20. CASE UNCHANGED vars
  BY <1>20, <1>3 DEF vars
<1> QED
  BY <1>4, <1>5, <1>6, <1>7, <1>8, <1>9, <1>10, <1>11, <1>12, <1>13, <1>14,
     <1>15, <1>16, <1>17, <1>18, <1>19, <1>20
  DEF Next, UserSteps, DriverSteps, OperationSteps, TimerSteps, StartSteps, StopSteps

\* At first no timer has a goroutine.
LEMMA FiredOnceStarts == Init => FiredOnce
<1> SUFFICES ASSUME Init PROVE FiredOnce
  OBVIOUS
<1>1. \A t \in Timers : proc[t] = Outside
  BY DEF Init, Procs
<1>2. live = {} /\ \A t \in Timers : adding[t] = "off"
  BY DEF Init
<1>3. Outside.pc = "out"
  BY DEF Outside
<1> QED
  BY <1>1, <1>2, <1>3 DEF FiredOnce

\* A timer fires at most once, and only after addTimer armed it: fireTimer
\* never finds the goroutine of its timer at work.
THEOREM FireOnce == Spec => []FiredOnce
<1>1. Init => FiredOnce
  BY FiredOnceStarts
<1>2. TypeOK /\ FiredOnce /\ [Next]_vars => FiredOnce'
  BY FiredOnceStep
<1> QED
  BY <1>1, <1>2, TypeCorrect, PTL DEF Spec

-----------------------------------------------------------------------------
(* The inductive invariant *)

\* A step that neither begins nor ends an operation.
Undisturbed ==
    /\ UNCHANGED service
    /\ Running' = Running
    /\ \A p \in Running :
           /\ proc'[p].id = proc[p].id
           /\ proc'[p].kind = proc[p].kind
           /\ proc'[p].previous = proc[p].previous
           /\ proc'[p].previousRetry = proc[p].previousRetry
           /\ proc'[p].report = proc[p].report

\* A step that leaves the operations alone, and that does not stop the driver,
\* keeps the invariant.
LEMMA UndisturbedInv ==
    ASSUME UpdaterInv, Undisturbed, Counted' \subseteq Counted,
           driverStopped' = driverStopped, stopped => stopped',
           \A s \in Stoppers : stopper'[s].pc # "out" => stopped'
    PROVE  UpdaterInv'
<1>1. OneOperation'
  BY DEF UpdaterInv, OneOperation, Undisturbed, service, Running
<1>2. (driverStopped => stopped /\ Counted = {})'
  BY DEF UpdaterInv
<1>3. (~busy => AtRest(snapshot, retry))'
  BY DEF UpdaterInv, Undisturbed, service
<1>4. ASSUME NEW p \in Running' PROVE InFlight(p)'
  <2>1. p \in Running /\ InFlight(p)
    BY <1>4 DEF UpdaterInv, Undisturbed
  <2> QED
    BY <2>1 DEF InFlight, Undisturbed, service
<1> QED
  BY <1>1, <1>2, <1>3, <1>4 DEF UpdaterInv

\* Steps that leave the service and its goroutines alone.
LEMMA FrameUndisturbed ==
    ASSUME UNCHANGED <<service, proc>>
    PROVE  Undisturbed /\ Counted' = Counted
BY DEF Undisturbed, Running, Counted, service

\* begin keeps the invariant: nothing runs when it passes its tests, and the
\* new operation remembers a service at rest.
LEMMA BeginInv ==
    ASSUME TypeOK, UpdaterInv, NEW p \in Procs, NEW kind \in Kinds,
           proc[p].pc \in {"out", "begin"}, MayBegin(kind), Begin(p, kind)
    PROVE  UpdaterInv'
<1> DEFINE o == [pc |-> "calling", kind |-> kind, id |-> op + 1, previous |-> snapshot,
                 previousRetry |-> retry, lifecycle |-> lifecycle, cut |-> FALSE,
                 result |-> "none", report |-> 0]
<1>1. ~busy /\ ~stopped /\ Running = {}
  BY DEF MayBegin, UpdaterInv, OneOperation
<1>2. proc' = [proc EXCEPT ![p] = o]
  BY DEF Begin
<1>3. proc'[p] = o /\ \A q \in Procs : q # p => proc'[q] = proc[q]
  BY <1>2 DEF TypeOK
<1> HIDE DEF o
<1>4. Running' = {p}
  <2>1. o.pc = "calling"
    BY DEF o
  <2> QED
    BY <1>1, <1>3, <2>1 DEF Running
<1>5. busy' = TRUE /\ op' = op + 1 /\ retry' = retry /\ stopped' = stopped
  BY DEF Begin, stopVars
<1>6. OneOperation'
  <2>1. o.id = op + 1
    BY DEF o
  <2> QED
    BY <1>3, <1>4, <1>5, <2>1 DEF OneOperation
<1>7. ~driverStopped' /\ stopper' = stopper
  BY <1>1 DEF UpdaterInv, Begin, stopVars
<1>8. InFlight(p)'
  <2>1. o.kind = kind /\ o.previous = snapshot /\ o.previousRetry = retry /\ o.report = 0
    BY DEF o
  <2>2. AtRest(snapshot, retry) /\ Decision(kind, snapshot.state, retry) = "begin"
    BY <1>1 DEF UpdaterInv, MayBegin
  <2>3. /\ snapshot'.state = NextState(kind)
        /\ snapshot'.retryState = ""
        /\ snapshot'.version = snapshot.version
        /\ snapshot'.progress = IF kind = "download" THEN 0 ELSE snapshot.progress
    <3>1. snapshot \in Snapshots
      BY DEF TypeOK
    <3> QED
      BY <3>1 DEF Begin, Snapshots
  <2> QED
    BY <1>3, <1>5, <2>1, <2>2, <2>3 DEF InFlight
<1> QED
  BY <1>1, <1>4, <1>5, <1>6, <1>7, <1>8 DEF UpdaterInv

\* setProgress keeps the invariant: only the running download passes its tests.
LEMMA ProgressInv ==
    ASSUME TypeOK, UpdaterInv, NEW id \in 1..op, NEW n \in Reports, Progress(id, n)
    PROVE  UpdaterInv'
<1>1. \A q \in Procs :
          /\ proc'[q].pc = proc[q].pc
          /\ proc'[q].kind = proc[q].kind
          /\ proc'[q].id = proc[q].id
          /\ proc'[q].previous = proc[q].previous
          /\ proc'[q].previousRetry = proc[q].previousRetry
          /\ q \in Running /\ proc[q].id = id => proc'[q].report = Clamp(n)
  BY DEF Progress, TypeOK, Operations
<1>2. /\ snapshot'.state = snapshot.state
      /\ snapshot'.retryState = snapshot.retryState
      /\ snapshot'.version = snapshot.version
      /\ snapshot'.progress = Clamp(n)
  <2>1. snapshot \in Snapshots
    BY DEF TypeOK
  <2> QED
    BY <2>1 DEF Progress, Snapshots
<1>3. busy /\ op = id /\ snapshot.state = "downloading"
  BY DEF Progress, MayReport
<1>4. Running' = Running /\ Counted' = Counted
  BY <1>1 DEF Running, Counted
<1>5. UNCHANGED <<retry, busy, op, stopVars>>
  BY DEF Progress
<1>6. OneOperation'
  BY <1>1, <1>4, <1>5 DEF UpdaterInv, OneOperation, Running
<1>7. ASSUME NEW q \in Running' PROVE InFlight(q)'
  <2>1. q \in Running /\ q \in Procs /\ InFlight(q)
    BY <1>4, <1>7 DEF UpdaterInv, Running
  <2>2. proc[q].kind = "download"
    BY <1>3, <2>1 DEF InFlight, NextState
  <2>3. proc'[q].report = Clamp(n)
    BY <1>1, <1>3, <2>1 DEF UpdaterInv, OneOperation
  <2> QED
    BY <1>1, <1>2, <1>5, <2>1, <2>2, <2>3 DEF InFlight
<1> QED
  BY <1>3, <1>4, <1>5, <1>6, <1>7 DEF UpdaterInv, stopVars

\* A finished operation leaves the service at rest, with the update at least
\* where it stood before.
LEMMA FinishRests ==
    ASSUME TypeOK, UpdaterInv, NEW p \in Procs, Finish(p)
    PROVE  /\ ~busy'
           /\ op' = op
           /\ AtRest(snapshot', retry')
           /\ Rank(snapshot', retry') >= Rank(proc[p].previous, proc[p].previousRetry)
<1>1. p \in Running /\ InFlight(p) /\ proc[p].id = op
  BY DEF Finish, Running, UpdaterInv, OneOperation
<1> DEFINE prev == proc[p].previous
           again == proc[p].previousRetry
<1>2. snapshot \in Snapshots /\ prev \in Snapshots /\ again \in RetryStates
  BY DEF TypeOK, Operations
<1>3. proc[p].kind \in Kinds /\ AtRest(prev, again) /\ Decision(proc[p].kind, prev.state, again) = "begin"
  BY <1>1 DEF InFlight, TypeOK, Operations
<1>4. ~busy' /\ op' = op
  BY <1>1 DEF Finish
<1>5. /\ snapshot.retryState = ""
      /\ snapshot.version = prev.version
      /\ proc[p].kind # "download" => snapshot.progress = prev.progress
  BY <1>1 DEF InFlight
<1> DEFINE Goal == AtRest(snapshot', retry') /\ Rank(snapshot', retry') >= Rank(prev, again)
<1>6. ASSUME restoreLocked(p) PROVE Goal
  <2>1. Rank(prev, again) \in Int
    BY DEF Rank
  <2> QED
    BY <1>3, <1>6, <2>1 DEF restoreLocked
<1>7. ASSUME proc[p].kind = "download", DownloadEnds(p) PROVE Goal
  <2>1. prev.version \in Versions /\ Rank(prev, again) = 1
    BY <1>3, <1>7 DEF AtRest, Decision, Rank
  <2>2. CASE proc[p].result = "error"
    <3>1. /\ retry' = "available"
          /\ snapshot'.state = "error"
          /\ snapshot'.retryState = "available"
          /\ snapshot'.version = snapshot.version
      <4>1. /\ retry' = "available"
            /\ snapshot' = [snapshot EXCEPT !.state = "error", !.retryState = "available", !.error = TRUE]
        BY <1>7, <2>2 DEF DownloadEnds, setErrorLocked
      <4> QED
        BY <1>2, <4>1 DEF Snapshots
    <3>2. AtRest(snapshot', retry') /\ Rank(snapshot', retry') \in {1, 2}
      BY <1>5, <2>1, <3>1 DEF AtRest, Rank
    <3> QED
      BY <2>1, <3>2
  <2>3. CASE proc[p].result # "error"
    <3>1. /\ retry' = ""
          /\ snapshot'.state = "ready"
          /\ snapshot'.retryState = snapshot.retryState
          /\ snapshot'.version = snapshot.version
          /\ snapshot'.progress = 100
      <4>1. /\ retry' = ""
            /\ snapshot' = [snapshot EXCEPT !.state = "ready", !.progress = 100, !.error = FALSE]
        BY <1>7, <2>3 DEF DownloadEnds
      <4> QED
        BY <1>2, <4>1 DEF Snapshots
    <3>2. AtRest(snapshot', retry') /\ Rank(snapshot', retry') \in {1, 2}
      BY <1>5, <2>1, <3>1 DEF AtRest, Rank
    <3> QED
      BY <2>1, <3>2
  <2> QED
    BY <2>2, <2>3
<1>8. ASSUME proc[p].kind = "install", InstallEnds(p) PROVE Goal
  <2>1. prev.version \in Versions /\ prev.progress = 100 /\ Rank(prev, again) = 2
    BY <1>3, <1>8 DEF AtRest, Decision, Rank
  <2>2. CASE proc[p].result = "error"
    <3>1. /\ retry' = "ready"
          /\ snapshot'.state = "error"
          /\ snapshot'.retryState = "ready"
          /\ snapshot'.version = snapshot.version
          /\ snapshot'.progress = snapshot.progress
      <4>1. /\ retry' = "ready"
            /\ snapshot' = [snapshot EXCEPT !.state = "error", !.retryState = "ready", !.error = TRUE]
        BY <1>8, <2>2 DEF InstallEnds, setErrorLocked
      <4> QED
        BY <1>2, <4>1 DEF Snapshots
    <3>2. AtRest(snapshot', retry') /\ Rank(snapshot', retry') = 2
      BY <1>5, <1>8, <2>1, <3>1 DEF AtRest, Rank
    <3> QED
      BY <2>1, <3>2
  <2>3. CASE proc[p].result # "error"
    <3>1. /\ retry' = ""
          /\ snapshot'.state = "ready"
          /\ snapshot'.retryState = snapshot.retryState
          /\ snapshot'.version = snapshot.version
          /\ snapshot'.progress = snapshot.progress
      <4>1. /\ retry' = ""
            /\ snapshot' = [snapshot EXCEPT !.state = "ready", !.error = FALSE]
        BY <1>8, <2>3 DEF InstallEnds
      <4> QED
        BY <1>2, <4>1 DEF Snapshots
    <3>2. AtRest(snapshot', retry') /\ Rank(snapshot', retry') = 2
      BY <1>5, <1>8, <2>1, <3>1 DEF AtRest, Rank
    <3> QED
      BY <2>1, <3>2
  <2> QED
    BY <2>2, <2>3
<1>9. ASSUME proc[p].kind \notin {"download", "install"}, CheckEnds(p) PROVE Goal
  <2>1. checkBeginDecision(proc[p].kind, prev.state, again) = "begin"
    BY <1>3, <1>9 DEF Decision
  <2>2. prev.state = "available" \/ Rank(prev, again) = 0
    BY <2>1, <1>3 DEF checkBeginDecision, AtRest, Rank
  <2>3. CASE proc[p].result \in Versions
    <3>1. /\ retry' = ""
          /\ snapshot'.state = "available"
          /\ snapshot'.retryState = ""
          /\ snapshot'.version \in Versions
      <4>1. /\ retry' = ""
            /\ snapshot' = [Fresh EXCEPT !.state = "available", !.version = proc[p].result]
        BY <1>9, <2>3 DEF CheckEnds
      <4> QED
        BY <2>3, <4>1 DEF Fresh
    <3>2. prev.state = "available" => Rank(prev, again) = 1
      BY DEF Rank
    <3>3. AtRest(snapshot', retry') /\ Rank(snapshot', retry') = 1
      BY <3>1 DEF AtRest, Rank
    <3> QED
      BY <2>2, <3>2, <3>3
  <2>4. CASE proc[p].result \notin Versions /\ HadUpdate(p)
    BY <1>6, <1>9, <2>4 DEF CheckEnds
  <2>5. CASE proc[p].result \notin Versions /\ ~HadUpdate(p)
    <3>1. Rank(prev, again) = 0
      BY <2>2, <2>5 DEF HadUpdate
    <3>2. CASE proc[p].result = "error"
      <4>1. /\ retry' = "idle"
            /\ snapshot'.state = "error"
            /\ snapshot'.retryState = "idle"
        <5>1. /\ retry' = "idle"
              /\ snapshot' = [snapshot EXCEPT !.state = "error", !.retryState = "idle", !.error = TRUE]
          BY <1>9, <2>5, <3>2 DEF CheckEnds, setErrorLocked
        <5> QED
          BY <1>2, <5>1 DEF Snapshots
      <4> QED
        <5>1. AtRest(snapshot', retry')
          BY <4>1 DEF AtRest
        <5>2. Rank(snapshot', retry') = 0
          BY <4>1 DEF Rank
        <5> QED
          BY <3>1, <5>1, <5>2
    <3>3. CASE proc[p].result # "error"
      <4>1. retry' = "" /\ snapshot'.state = "idle" /\ snapshot'.retryState = ""
        <5>1. snapshot' = Fresh /\ retry' = ""
          BY <1>9, <2>5, <3>3 DEF CheckEnds
        <5> QED
          BY <5>1 DEF Fresh
      <4>2. AtRest(snapshot', retry')
        BY <4>1 DEF AtRest
      <4>3. Rank(snapshot', retry') = 0
        BY <4>1 DEF Rank
      <4> QED
        BY <3>1, <4>2, <4>3
    <3> QED
      BY <3>2, <3>3
  <2> QED
    BY <2>3, <2>4, <2>5
<1> HIDE DEF Goal
<1>10. \/ restoreLocked(p)
       \/ proc[p].kind = "download" /\ DownloadEnds(p)
       \/ proc[p].kind = "install" /\ InstallEnds(p)
       \/ proc[p].kind \notin {"download", "install"} /\ CheckEnds(p)
  BY <1>1, <1>3 DEF Finish, Kinds
<1>11. Goal
  BY <1>6, <1>7, <1>8, <1>9, <1>10
<1> QED
  BY <1>4, <1>11 DEF Goal

\* The locked section after a driver call keeps the invariant.
LEMMA FinishInv ==
    ASSUME TypeOK, UpdaterInv, NEW p \in Procs, Finish(p)
    PROVE  UpdaterInv'
<1>1. /\ proc' = [proc EXCEPT ![p].pc = "leaving"]
      /\ proc \in [Procs -> Operations]
      /\ UNCHANGED stopVars
  BY DEF Finish, TypeOK
<1>2. /\ \A q \in Procs : q # p => proc'[q].pc = proc[q].pc
      /\ proc'[p].pc = "leaving" /\ proc[p].pc = "returned"
  BY <1>1 DEF Operations, Finish
<1>3. p \in Running /\ Running = {p}
  BY <1>2 DEF UpdaterInv, OneOperation, Running
<1>4. Running' = {} /\ Counted' = Counted
  BY <1>2, <1>3 DEF Running, Counted
<1> QED
  BY <1>1, <1>2, <1>4, FinishRests DEF UpdaterInv, OneOperation, stopVars

\* StopDriver keeps the invariant: it waited for every operation.
LEMMA StopDriverInv ==
    ASSUME TypeOK, UpdaterInv, NEW s \in Stoppers, StopDriver(s)
    PROVE  UpdaterInv'
<1>1. UNCHANGED <<service, proc, stopped>> /\ stopped /\ Counted = {}
  BY DEF StopDriver, UpdaterInv
<1>2. Undisturbed /\ Counted' = Counted
  BY <1>1, FrameUndisturbed
<1>3. OneOperation' /\ (~busy => AtRest(snapshot, retry))'
  BY <1>2 DEF UpdaterInv, OneOperation, Undisturbed, service, Running
<1>4. ASSUME NEW p \in Running' PROVE InFlight(p)'
  BY <1>1, <1>4 DEF UpdaterInv, InFlight, Running, service
<1> QED
  BY <1>1, <1>2, <1>3, <1>4 DEF UpdaterInv

-----------------------------------------------------------------------------
(* What an update is worth *)

\* While an operation runs, the standing is that of the service it began from.
LEMMA StandingOfRunning ==
    ASSUME UpdaterInv, NEW p \in Running
    PROVE  Standing = Rank(proc[p].previous, proc[p].previousRetry)
<1>1. busy /\ Running = {p}
  BY DEF UpdaterInv, OneOperation
<1>2. (CHOOSE q \in Running : TRUE) = p
  BY <1>1
<1> QED
  BY <1>1, <1>2 DEF Standing

\* Ranks are integers, so every standing can be compared with itself.
LEMMA StandingNumber == Standing \in Int
BY DEF Standing, Rank

\* A step that leaves the operations alone leaves the standing alone.
LEMMA UndisturbedStanding ==
    ASSUME UpdaterInv, UpdaterInv', Undisturbed
    PROVE  Standing' = Standing
<1>1. CASE ~busy
  BY <1>1 DEF Standing, Undisturbed, service
<1>2. CASE busy
  <2>1. PICK p \in Running : TRUE
    BY <1>2 DEF UpdaterInv, OneOperation
  <2>2. Standing = Rank(proc[p].previous, proc[p].previousRetry)
    BY StandingOfRunning
  <2>3. p \in Running'
    BY DEF Undisturbed
  <2>4. busy' /\ Running' = {p}
    BY <2>3 DEF UpdaterInv, OneOperation
  <2>5. (CHOOSE q \in Running' : TRUE) = p
    BY <2>4
  <2>6. Standing' = Rank(proc'[p].previous, proc'[p].previousRetry)
    BY <2>4, <2>5 DEF Standing
  <2> QED
    BY <2>2, <2>6 DEF Undisturbed
<1> QED
  BY <1>1, <1>2

\* An operation that begins remembers where the update stood.
LEMMA BeginStanding ==
    ASSUME TypeOK, UpdaterInv, UpdaterInv', NEW p \in Procs, NEW kind \in Kinds,
           MayBegin(kind), Begin(p, kind)
    PROVE  Standing' = Standing
<1> DEFINE o == [pc |-> "calling", kind |-> kind, id |-> op + 1, previous |-> snapshot,
                 previousRetry |-> retry, lifecycle |-> lifecycle, cut |-> FALSE,
                 result |-> "none", report |-> 0]
<1>1. proc'[p] = o
  BY DEF Begin, TypeOK
<1>2. o.pc = "calling" /\ o.previous = snapshot /\ o.previousRetry = retry
  OBVIOUS
<1> HIDE DEF o
<1>3. p \in Running'
  BY <1>1, <1>2 DEF Running
<1>4. busy' /\ Running' = {p}
  BY <1>3 DEF UpdaterInv, OneOperation
<1>5. (CHOOSE q \in Running' : TRUE) = p
  BY <1>4
<1>6. Standing' = Rank(proc'[p].previous, proc'[p].previousRetry)
  BY <1>4, <1>5 DEF Standing
<1>7. Standing = Rank(snapshot, retry)
  BY DEF Standing, MayBegin
<1> QED
  BY <1>1, <1>2, <1>6, <1>7

\* A progress report changes nothing that the standing depends on.
LEMMA ProgressStanding ==
    ASSUME TypeOK, UpdaterInv, UpdaterInv', NEW id \in 1..op, NEW n \in Reports,
           Progress(id, n)
    PROVE  Standing' = Standing
<1>1. PICK p \in Running : TRUE
  BY DEF Progress, MayReport, UpdaterInv, OneOperation
<1>2. p \in Procs
  BY DEF Running
<1>3. /\ proc'[p].pc = proc[p].pc
      /\ proc'[p].previous = proc[p].previous
      /\ proc'[p].previousRetry = proc[p].previousRetry
  BY <1>2 DEF Progress, TypeOK, Operations
<1>4. p \in Running'
  BY <1>1, <1>2, <1>3 DEF Running
<1>5. busy' /\ Running' = {p}
  BY <1>4 DEF UpdaterInv, OneOperation
<1>6. (CHOOSE q \in Running' : TRUE) = p
  BY <1>5
<1>7. Standing' = Rank(proc'[p].previous, proc'[p].previousRetry)
  BY <1>5, <1>6 DEF Standing
<1> QED
  BY <1>1, <1>3, <1>7, StandingOfRunning

\* An operation that ends leaves the update at least where it stood.
LEMMA FinishStanding ==
    ASSUME TypeOK, UpdaterInv, NEW p \in Procs, Finish(p)
    PROVE  Standing' >= Standing
<1>1. p \in Running
  BY DEF Finish, Running
<1>2. Standing = Rank(proc[p].previous, proc[p].previousRetry)
  BY <1>1, StandingOfRunning
<1>3. Standing' = Rank(snapshot', retry')
  BY FinishRests DEF Standing
<1> QED
  BY <1>2, <1>3, FinishRests

-----------------------------------------------------------------------------
(* The steps together *)

\* Every step keeps the invariant and loses no update.
LEMMA StepInv ==
    ASSUME TypeOK, FiredOnce, UpdaterInv, [Next]_vars
    PROVE  UpdaterInv' /\ Standing' >= Standing
<1> DEFINE Kept == UpdaterInv' /\ Standing' >= Standing
<1>1. ASSUME Undisturbed, Counted' \subseteq Counted, driverStopped' = driverStopped,
             stopped => stopped', \A s \in Stoppers : stopper'[s].pc # "out" => stopped'
      PROVE  Kept
  <2>1. UpdaterInv'
    BY <1>1, UndisturbedInv
  <2> QED
    BY <1>1, <2>1, UndisturbedStanding, StandingNumber
<1>2. ASSUME Undisturbed, Counted' \subseteq Counted, UNCHANGED stopVars
      PROVE  Kept
  <2>1. /\ driverStopped' = driverStopped
        /\ stopped => stopped'
        /\ \A s \in Stoppers : stopper'[s].pc # "out" => stopped'
    BY <1>2 DEF stopVars, UpdaterInv
  <2> QED
    BY <1>1, <1>2, <2>1
<1>3. ASSUME UNCHANGED <<service, proc, stopVars>> PROVE Kept
  BY <1>2, <1>3, FrameUndisturbed
<1>4. ASSUME NEW p \in Procs, NEW kind \in Kinds, proc[p].pc \in {"out", "begin"},
             MayBegin(kind), Begin(p, kind)
      PROVE  Kept
  <2>1. UpdaterInv'
    BY <1>4, BeginInv
  <2> QED
    BY <1>4, <2>1, BeginStanding, StandingNumber
\* A goroutine moves on without the service.
<1>5. ASSUME NEW p \in Procs, NEW o \in Operations, UNCHANGED <<service, stopVars>>,
             proc' = [proc EXCEPT ![p] = o],
             \/ proc[p].pc \notin {"calling", "returned"} /\ o.pc \in {"out", "begin", "repeat"}
             \/ /\ proc[p].pc \in {"calling", "returned"} /\ o.pc \in {"calling", "returned"}
                /\ o.id = proc[p].id /\ o.kind = proc[p].kind
                /\ o.previous = proc[p].previous /\ o.report = proc[p].report
                /\ o.previousRetry = proc[p].previousRetry
      PROVE  Kept
  <2>1. proc'[p] = o /\ \A q \in Procs : q # p => proc'[q] = proc[q]
    BY <1>5 DEF TypeOK
  <2>2. Running' = Running /\ Counted' \subseteq Counted
    BY <1>5, <2>1 DEF Running, Counted
  <2>3. Undisturbed
    BY <1>5, <2>1, <2>2 DEF Undisturbed, Running
  <2> QED
    BY <1>2, <1>5, <2>2, <2>3
<1>6. \A p \in Procs : proc[p] \in Operations /\ proc \in [Procs -> Operations]
  BY DEF TypeOK
<1> HIDE DEF Kept
<1>7. ASSUME NEW c \in Callers, NEW k \in Kinds \ {"auto"}, UserBegins(c, k) PROVE Kept
  <2>1. c \in Procs /\ k \in Kinds
    BY DEF Procs
  <2> QED
    BY <1>4, <1>7, <2>1 DEF UserBegins
<1>8. ASSUME NEW c \in Callers, CancelCaller(c) PROVE Kept
  <2>1. c \in Procs /\ [proc[c] EXCEPT !.cut = TRUE] \in Operations
    BY <1>6, OperationUpdate DEF Procs
  <2> DEFINE o == [proc[c] EXCEPT !.cut = TRUE]
  <2>2. /\ o.id = proc[c].id /\ o.kind = proc[c].kind /\ o.previous = proc[c].previous
        /\ o.previousRetry = proc[c].previousRetry /\ o.report = proc[c].report
        /\ o.pc = proc[c].pc
    BY <1>6, <2>1 DEF Operations
  <2>3. proc' = [proc EXCEPT ![c] = o]
    BY <1>8 DEF CancelCaller
  <2>4. proc[c].pc \in {"calling", "returned"} /\ UNCHANGED <<service, stopVars>>
    BY <1>8 DEF CancelCaller
  <2> HIDE DEF o
  <2>5. o \in Operations
    BY <2>1 DEF o
  <2> QED
    BY <1>5, <2>1, <2>2, <2>3, <2>4, <2>5
<1>9. ASSUME NEW p \in Procs, NEW r \in Results, DriverReturns(p, r) PROVE Kept
  <2> DEFINE o == [proc[p] EXCEPT !.pc = "returned", !.result = r]
  <2>1. o \in Operations
    BY <1>6, OperationUpdate
  <2>2. /\ o.id = proc[p].id /\ o.kind = proc[p].kind /\ o.previous = proc[p].previous
        /\ o.previousRetry = proc[p].previousRetry /\ o.report = proc[p].report
        /\ o.pc = "returned"
    BY <1>6 DEF Operations
  <2>3. proc' = [proc EXCEPT ![p] = o]
    BY <1>9, <1>6 DEF DriverReturns, Operations
  <2>4. proc[p].pc \in {"calling", "returned"} /\ UNCHANGED <<service, stopVars>>
    BY <1>9 DEF DriverReturns
  <2> HIDE DEF o
  <2> QED
    BY <1>5, <2>1, <2>2, <2>3, <2>4
<1>10. ASSUME NEW id \in 1..op, NEW n \in Reports, Progress(id, n) PROVE Kept
  <2>1. UpdaterInv'
    BY <1>10, ProgressInv
  <2> QED
    BY <1>10, <2>1, ProgressStanding, StandingNumber DEF Kept
<1>11. ASSUME NEW p \in Procs, Finish(p) PROVE Kept
  BY <1>11, FinishInv, FinishStanding DEF Kept
<1>12. ASSUME NEW p \in Procs, Leave(p) PROVE Kept
  <2> DEFINE o == [Outside EXCEPT !.pc = IF p \in Timers THEN "repeat" ELSE "out"]
  <2>1. o \in Operations /\ o.pc \in {"out", "begin", "repeat"}
    BY OutsideOperation DEF Operations
  <2>2. proc' = [proc EXCEPT ![p] = o]
    BY <1>12 DEF Leave
  <2>3. proc[p].pc \notin {"calling", "returned"} /\ UNCHANGED <<service, stopVars>>
    BY <1>12 DEF Leave
  <2> HIDE DEF o
  <2> QED
    BY <1>5, <2>1, <2>2, <2>3
\* The steps of a timer's goroutine outside its operation.
<1>13. ASSUME NEW t \in Timers, NEW c \in {"out", "begin", "repeat"},
              UNCHANGED <<service, stopVars>>, proc' = [proc EXCEPT ![t].pc = c],
              proc[t].pc \in {"out", "begin", "repeat"}
       PROVE  Kept
  <2> DEFINE o == [proc[t] EXCEPT !.pc = c]
  <2>1. t \in Procs /\ o \in Operations
    BY <1>6, OperationUpdate DEF Procs
  <2>2. o.pc = c
    BY <1>6, <2>1 DEF Operations
  <2>3. proc' = [proc EXCEPT ![t] = o]
    BY <1>13
  <2> HIDE DEF o
  <2> QED
    BY <1>5, <1>13, <2>1, <2>2, <2>3
<1>14. ASSUME NEW t \in Timers, AutoBegins(t) PROVE Kept
  <2>1. t \in Procs /\ "auto" \in Kinds
    BY DEF Procs, Kinds
  <2> QED
    BY <1>4, <1>14, <2>1 DEF AutoBegins
<1>15. ASSUME NEW t \in Timers, AutoSkips(t) \/ Repeat(t) PROVE Kept
  BY <1>13, <1>15 DEF AutoSkips, Repeat
<1>16. ASSUME NEW t \in Timers, Arm(t) \/ Keep(t) \/ Discard(t) PROVE Kept
  BY <1>3, <1>16 DEF Arm, Keep, Discard
<1>17. ASSUME NEW t \in Timers, Fire(t) PROVE Kept
  <2>1. proc[t].pc = "out" /\ UNCHANGED <<service, stopVars>>
    BY <1>17 DEF Fire, FiredOnce
  <2>2. proc' = [proc EXCEPT ![t].pc = "begin"] \/ proc' = proc
    BY <1>17 DEF Fire
  <2> QED
    BY <1>3, <1>13, <2>1, <2>2
<1>18. LifecycleWatch \/ WatchStops \/ Start \/ StartCancelsOld \/ CancelRoot \/ StartAddsTimer => Kept
  <2>1. ASSUME Start PROVE Kept
    BY <1>3, <2>1 DEF Start
  <2> QED
    BY <1>3, <2>1 DEF LifecycleWatch, WatchStops, StartCancelsOld, CancelRoot, StartAddsTimer
<1>19. ASSUME NEW s \in Stoppers, StopLocks(s) \/ StopCancels(s) \/ StopJoins(s) PROVE Kept
  <2>1. UNCHANGED <<service, proc, driverStopped>> /\ (stopped => stopped')
    BY <1>19 DEF StopLocks, StopCancels, StopJoins
  <2>2. \A u \in Stoppers : stopper'[u].pc # "out" => stopped'
    <3>1. stopper[s].pc # "out" => stopped
      BY DEF UpdaterInv
    <3>2. stopped'
      BY <1>19, <3>1 DEF StopLocks, StopCancels, StopJoins
    <3> QED
      BY <3>2
  <2>3. Undisturbed /\ Counted' = Counted
    BY <2>1, FrameUndisturbed
  <2> QED
    BY <1>1, <2>1, <2>2, <2>3
<1>20. ASSUME NEW s \in Stoppers, StopDriver(s) PROVE Kept
  <2>1. UpdaterInv'
    BY <1>20, StopDriverInv
  <2>2. Undisturbed
    BY <1>20, FrameUndisturbed DEF StopDriver
  <2> QED
    BY <2>1, <2>2, UndisturbedStanding, StandingNumber DEF Kept
<1>21. ASSUME UNCHANGED vars PROVE Kept
  <2>1. UNCHANGED <<service, proc, stopVars>>
    BY <1>21 DEF vars
  <2> QED
    BY <1>3, <2>1
<1>22. Kept
  BY <1>7, <1>8, <1>9, <1>10, <1>11, <1>12, <1>14, <1>15, <1>16, <1>17, <1>18,
     <1>19, <1>20, <1>21
  DEF Next, UserSteps, DriverSteps, OperationSteps, TimerSteps, StartSteps, StopSteps
<1> QED
  BY <1>22 DEF Kept

-----------------------------------------------------------------------------
(* Theorems *)

\* A fresh service rests and nothing runs.
LEMMA InvStarts == Init => UpdaterInv
<1> SUFFICES ASSUME Init PROVE UpdaterInv
  OBVIOUS
<1>1. \A p \in Procs : proc[p] = Outside
  BY DEF Init
<1>2. Outside.pc = "out"
  BY DEF Outside
<1>3. Running = {} /\ Counted = {}
  BY <1>1, <1>2 DEF Running, Counted
<1>4. ~busy /\ ~driverStopped /\ op = 0 /\ retry = "" /\ snapshot = Fresh
  BY DEF Init
<1>5. AtRest(snapshot, retry)
  BY <1>4 DEF AtRest, Fresh
<1>6. \A s \in Stoppers : stopper[s].pc = "out"
  BY DEF Init
<1>7. OneOperation
  BY <1>3, <1>4 DEF OneOperation
<1> QED
  BY <1>3, <1>4, <1>5, <1>6, <1>7 DEF UpdaterInv

\* The service, its running operation and Stop agree at every moment.
THEOREM Invariant == Spec => []UpdaterInv
<1>1. Init => UpdaterInv
  BY InvStarts
<1>2. TypeOK /\ FiredOnce /\ UpdaterInv /\ [Next]_vars => UpdaterInv'
  BY StepInv
<1> QED
  BY <1>1, <1>2, TypeCorrect, FireOnce, PTL DEF Spec

\* One operation at a time holds busy, and it is the latest one: the answer of
\* the driver in checkNow, Download and Install is never thrown away as stale.
THEOREM SingleOperation == Spec => []OneOperation
<1>1. UpdaterInv => OneOperation
  BY DEF UpdaterInv
<1> QED
  BY <1>1, Invariant, PTL

\* Stop calls driver.Stop only when no driver call runs, and none begins later.
THEOREM QuietDriver == Spec => []DriverQuiet
<1>1. UpdaterInv => DriverQuiet
  BY DEF UpdaterInv, DriverQuiet
<1> QED
  BY <1>1, Invariant, PTL

\* A ready update is complete and has a version, whatever a late progress
\* callback reports and however an installation fails.
THEOREM ReadyComplete == Spec => []ReadyIsComplete
<1>1. ASSUME UpdaterInv, snapshot.state = "ready" \/ retry = "ready"
      PROVE  snapshot.progress = 100 /\ snapshot.version \in Versions
  <2>1. CASE ~busy
    BY <1>1, <2>1 DEF UpdaterInv, AtRest
  <2>2. CASE busy
    <3>1. PICK p \in Running : TRUE
      BY <1>1, <2>2 DEF UpdaterInv, OneOperation
    <3>2. InFlight(p)
      BY <1>1, <3>1 DEF UpdaterInv
    <3>3. proc[p].kind = "install"
      <4>1. CASE snapshot.state = "ready"
        BY <3>2, <4>1 DEF InFlight, NextState
      <4>2. CASE retry = "ready"
        <5>1. proc[p].previousRetry = "ready"
          BY <3>2, <4>2 DEF InFlight
        <5>2. proc[p].previous.state = "error"
          BY <3>2, <5>1 DEF InFlight, AtRest
        <5> QED
          BY <3>2, <5>1, <5>2 DEF InFlight, Decision, checkBeginDecision
      <4> QED
        BY <1>1, <4>1, <4>2
    <3>4. proc[p].previous.state = "ready" \/ proc[p].previousRetry = "ready"
      BY <3>2, <3>3 DEF InFlight, Decision
    <3>5. proc[p].previous.version \in Versions /\ proc[p].previous.progress = 100
      BY <3>2, <3>4 DEF InFlight, AtRest
    <3> QED
      BY <3>2, <3>3, <3>5 DEF InFlight
  <2> QED
    BY <2>1, <2>2
<1>2. UpdaterInv => ReadyIsComplete
  BY <1>1 DEF ReadyIsComplete
<1> QED
  BY <1>2, Invariant, PTL

\* The progress that setProgress shows was reported by the running download.
THEOREM OwnProgress == Spec => []ProgressIsOwn
<1>1. UpdaterInv => ProgressIsOwn
  BY DEF UpdaterInv, InFlight, ProgressIsOwn
<1> QED
  BY <1>1, Invariant, PTL

\* "No check can replace an available or ready update with idle or error
\* state", and no failed download, failed installation, interruption or Stop
\* loses one either.
THEOREM NeverLost == Spec => UpdateNeverLost
<1>1. TypeOK /\ FiredOnce /\ UpdaterInv /\ [Next]_vars => [Standing' >= Standing]_vars
  BY StepInv
<1> QED
  BY <1>1, TypeCorrect, FireOnce, Invariant, PTL DEF Spec, UpdateNeverLost

-----------------------------------------------------------------------------
(* The automatic checks *)

\* The automatic checks: one chain, which Start begins, and no timer that waits
\* and has fired.
ChainOK ==
    /\ OneChain
    /\ \A t \in pending : proc[t].pc = "out"
    /\ starter # "done" => Chain = {}

\* A call of Stop that is under way.
Stopping(s) == stopper[s].pc \in {"locked", "waiting"}

\* Who still holds a timer of the scheduler, and who is in Stop.
TimersHeld ==
    /\ \A t \in live : \/ adding[t] \in {"armed", "unwanted"} \/ t \in kept \/ t \in watchTook
                       \/ \E s \in Stoppers : stopper[s].pc = "locked" /\ t \in stopper[s].taken
    /\ stopped => kept = {}
    /\ \A s, r \in Stoppers : Stopping(s) /\ Stopping(r) => s = r
    /\ stopDone => stopped /\ \A s \in Stoppers : ~Stopping(s)
    /\ watch = "armed" => started /\ watchTook = {}
    /\ ~started => watchTook = {}

\* The inductive invariant of the automatic checks.
ChainInd == TypeOK /\ FiredOnce /\ UpdaterInv /\ ChainOK /\ TimersHeld

\* A step after which the chain is the same, or shorter because nothing may be
\* scheduled any more.
LEMMA ChainStays ==
    ASSUME ChainOK, Chain' \subseteq Chain, Chain' = Chain \/ ~MaySchedule',
           \A t \in pending' : t \in pending /\ proc'[t].pc = "out",
           starter' = "done" <=> starter = "done",
           starter = "done" => (MaySchedule' => MaySchedule)
    PROVE  ChainOK'
BY DEF ChainOK, OneChain

\* A step that registers no timer and lets no goroutine of one come or go.
LEMMA SameChain ==
    ASSUME TypeOK, ChainOK, UNCHANGED pending,
           \A t \in Timers : proc'[t].pc # "out" <=> proc[t].pc # "out"
    PROVE  /\ Chain' = Chain
           /\ \A t \in pending' : t \in pending /\ proc'[t].pc = "out"
BY DEF Chain, ChainOK, TypeOK

\* The next timer takes over from the goroutine that ends, or begins the chain.
LEMMA RegisterChains ==
    ASSUME TypeOK, FiredOnce, Register, starter' = "done",
           {t \in Timers : proc'[t].pc # "out"} = {}, pending = {}
    PROVE  ChainOK'
<1>1. PICK n \in Timers : n = nextTimerID + 1 /\ pending' = {n}
  BY UpdaterAssumption DEF Register, TypeOK, Timers
<1>2. Chain' = {n}
  BY <1>1 DEF Chain
<1>3. proc'[n].pc = "out"
  OBVIOUS
<1>4. \A t \in pending' : proc'[t].pc = "out"
  BY <1>1, <1>3
<1>5. OneChain'
  BY <1>2 DEF OneChain
<1> QED BY <1>4, <1>5 DEF ChainOK

\* A step that leaves the timers, and who stops them, alone.
LEMMA HeldStay ==
    ASSUME TimersHeld, UNCHANGED <<live, adding, kept, watchTook, stopper, stopped, stopDone>>,
           watch' = watch \/ watch' = "off", started' = started
    PROVE  TimersHeld'
BY DEF TimersHeld, Stopping

\* A timer that is registered is not armed yet.
LEMMA RegisterHeld ==
    ASSUME TypeOK, FiredOnce, TimersHeld, Register,
           UNCHANGED <<stopper, stopped, stopDone, watch, started>>
    PROVE  TimersHeld'
<1>1. /\ adding \in [Timers -> {"off", "registered", "armed", "unwanted"}]
      /\ live \subseteq Timers /\ Timers \subseteq Int /\ nextTimerID \in Int
  BY UpdaterAssumption DEF TypeOK, Timers
<1>2. /\ adding' = [adding EXCEPT ![nextTimerID + 1] = "registered"]
      /\ UNCHANGED <<kept, live, watchTook>>
  BY DEF Register
<1>3. nextTimerID + 1 \notin live
  BY <1>1 DEF FiredOnce
<1>4. \A t \in live : adding'[t] = adding[t]
  BY <1>1, <1>2, <1>3
<1> QED BY <1>2, <1>4 DEF TimersHeld, Stopping

\* Every step of the service keeps the chain and who holds its timers.
LEMMA ChainStep ==
    ASSUME ChainInd, [Next]_vars
    PROVE  ChainOK' /\ TimersHeld'
<1>1. /\ TypeOK /\ FiredOnce /\ UpdaterInv /\ ChainOK /\ TimersHeld
      /\ proc \in [Procs -> Operations] /\ Timers \subseteq Procs /\ Callers \subseteq Procs
      /\ Callers \intersect Timers = {} /\ stopper \in [Stoppers -> StopCalls]
      /\ pending \subseteq Timers /\ kept \subseteq Timers /\ live \subseteq Timers
      /\ adding \in [Timers -> {"off", "registered", "armed", "unwanted"}]
  BY UpdaterAssumption DEF ChainInd, TypeOK, Procs
\* The operations: no goroutine of a timer comes or goes.
<1>2. ASSUME UNCHANGED <<contexts, timerVars, stopVars>>,
             \A t \in Timers : proc'[t].pc # "out" <=> proc[t].pc # "out"
      PROVE  ChainOK' /\ TimersHeld'
  <2>1. Chain' = Chain /\ \A u \in pending' : u \in pending /\ proc'[u].pc = "out"
    BY <1>1, <1>2, SameChain DEF timerVars
  <2>2. ChainOK'
    BY <1>1, <1>2, <2>1, ChainStays DEF contexts, stopVars, MaySchedule
  <2> QED BY <1>1, <1>2, <2>2, HeldStay DEF contexts, timerVars, stopVars
<1>3. ASSUME NEW p \in Procs, NEW o, p \in Callers \/ (proc[p].pc # "out" /\ o.pc # "out"),
             proc' = [proc EXCEPT ![p] = o], UNCHANGED <<contexts, timerVars, stopVars>>
      PROVE  ChainOK' /\ TimersHeld'
  <2>1. \A t \in Timers : t # p => proc'[t] = proc[t]
    BY <1>1, <1>3
  <2>2. p \in Timers => proc'[p] = o
    BY <1>1, <1>3
  <2>3. \A t \in Timers : proc'[t].pc # "out" <=> proc[t].pc # "out"
    BY <1>1, <1>3, <2>1, <2>2
  <2> QED BY <1>2, <1>3, <2>3
<1>4. ASSUME NEW p \in Procs, NEW kind, p \in Callers \/ proc[p].pc # "out", Begin(p, kind)
      PROVE  ChainOK' /\ TimersHeld'
  <2> DEFINE o == [pc |-> "calling", kind |-> kind, id |-> op + 1, previous |-> snapshot,
                   previousRetry |-> retry, lifecycle |-> lifecycle, cut |-> FALSE,
                   result |-> "none", report |-> 0]
  <2>1. proc' = [proc EXCEPT ![p] = o] /\ UNCHANGED <<contexts, timerVars, stopVars>>
    BY <1>4 DEF Begin
  <2>2. o.pc # "out"
    OBVIOUS
  <2> HIDE DEF o
  <2> QED BY <1>3, <1>4, <2>1, <2>2
<1>5. ASSUME NEW c \in Callers, NEW k \in Kinds \ {"auto"}, UserBegins(c, k)
      PROVE  ChainOK' /\ TimersHeld'
  BY <1>1, <1>4, <1>5 DEF UserBegins
<1>6. ASSUME NEW c \in Callers, CancelCaller(c) PROVE ChainOK' /\ TimersHeld'
  BY <1>1, <1>3, <1>6 DEF CancelCaller
<1>7. ASSUME NEW p \in Procs, NEW c, c # "out", proc[p].pc # "out",
             proc' = [proc EXCEPT ![p].pc = c], UNCHANGED <<contexts, timerVars, stopVars>>
      PROVE  ChainOK' /\ TimersHeld'
  <2>1. PICK o : o = [proc[p] EXCEPT !.pc = c]
    OBVIOUS
  <2>2. o.pc = c
    BY <1>1, <2>1 DEF Operations
  <2> QED BY <1>3, <1>7, <2>1, <2>2
<1>8. ASSUME NEW p \in Procs, NEW r \in Results, DriverReturns(p, r) PROVE ChainOK' /\ TimersHeld'
  <2>1. PICK o : o = [proc[p] EXCEPT !.pc = "returned", !.result = r]
    OBVIOUS
  <2>2. o.pc = "returned"
    BY <1>1, <2>1 DEF Operations
  <2>3. proc' = [proc EXCEPT ![p] = o]
    BY <1>1, <1>8, <2>1 DEF DriverReturns
  <2> QED BY <1>3, <1>8, <2>2, <2>3 DEF DriverReturns
<1>9. ASSUME NEW id \in 1..op, NEW n \in Reports, Progress(id, n) PROVE ChainOK' /\ TimersHeld'
  <2>1. \A t \in Timers : proc'[t].pc = proc[t].pc
    BY <1>1, <1>9 DEF Progress, Operations
  <2> QED BY <1>2, <1>9, <2>1 DEF Progress
<1>10. ASSUME NEW p \in Procs, Finish(p) PROVE ChainOK' /\ TimersHeld'
  BY <1>7, <1>10 DEF Finish
<1>11. ASSUME NEW p \in Procs, Leave(p) PROVE ChainOK' /\ TimersHeld'
  <2>1. PICK o : o = [Outside EXCEPT !.pc = IF p \in Timers THEN "repeat" ELSE "out"]
    OBVIOUS
  <2>2. p \in Timers => o.pc = "repeat"
    BY <2>1 DEF Outside
  <2>3. p \in Callers \/ p \in Timers
    BY DEF Procs
  <2> QED BY <1>3, <1>11, <2>1, <2>2, <2>3 DEF Leave
<1>12. ASSUME NEW t \in Timers, AutoBegins(t) PROVE ChainOK' /\ TimersHeld'
  BY <1>1, <1>4, <1>12 DEF AutoBegins
<1>13. ASSUME NEW t \in Timers, AutoSkips(t) PROVE ChainOK' /\ TimersHeld'
  BY <1>1, <1>7, <1>13 DEF AutoSkips
\* The timers.
<1>14. ASSUME NEW t \in Timers, Arm(t) PROVE ChainOK' /\ TimersHeld'
  <2>1. Chain' = Chain /\ \A u \in pending' : u \in pending /\ proc'[u].pc = "out"
    BY <1>1, <1>14, SameChain DEF Arm
  <2>2. ChainOK'
    BY <1>1, <1>14, <2>1, ChainStays DEF Arm, contexts, stopVars, MaySchedule
  <2>3. \A u \in Timers : u # t => adding'[u] = adding[u]
    BY <1>1, <1>14 DEF Arm
  <2>4. adding'[t] = "armed" /\ live' = live \union {t}
        /\ UNCHANGED <<kept, watchTook, stopped, stopper, stopDone, watch, started>>
    BY <1>1, <1>14 DEF Arm, contexts, stopVars
  <2> QED BY <1>1, <2>2, <2>3, <2>4 DEF TimersHeld, Stopping
<1>15. ASSUME NEW t \in Timers, Keep(t) PROVE ChainOK' /\ TimersHeld'
  <2>1. CASE t \in pending /\ ~stopped /\ 1 \notin cancelled
    <3>1. Chain' = Chain /\ \A u \in pending' : u \in pending /\ proc'[u].pc = "out"
      BY <1>1, <1>15, <2>1, SameChain DEF Keep
    <3>2. ChainOK'
      BY <1>1, <1>15, <3>1, ChainStays DEF Keep, contexts, stopVars, MaySchedule
    <3>3. \A u \in Timers : u # t => adding'[u] = adding[u]
      BY <1>1, <1>15, <2>1 DEF Keep
    <3>4. kept' = kept \union {t}
          /\ UNCHANGED <<live, watchTook, stopped, stopper, stopDone, watch, started>>
      BY <1>15, <2>1 DEF Keep, contexts, stopVars
    <3> QED BY <1>1, <2>1, <3>2, <3>3, <3>4 DEF TimersHeld, Stopping
  <2>2. CASE ~(t \in pending /\ ~stopped /\ 1 \notin cancelled)
    <3>1. pending' = pending \ {t} /\ adding' = [adding EXCEPT ![t] = "unwanted"]
          /\ UNCHANGED <<proc, kept, live, watchTook, contexts, stopVars>>
      BY <1>15, <2>2 DEF Keep
    <3>2. /\ Chain' \subseteq Chain /\ (t \notin pending => Chain' = Chain)
          /\ \A u \in pending' : u \in pending /\ proc'[u].pc = "out"
      BY <1>1, <3>1 DEF Chain, ChainOK
    <3>3. ChainOK'
      BY <1>1, <2>2, <3>1, <3>2, ChainStays DEF contexts, stopVars, MaySchedule
    <3>4. \A u \in live : adding[u] \in {"armed", "unwanted"} => adding'[u] \in {"armed", "unwanted"}
      BY <1>1, <3>1
    <3> QED BY <1>1, <3>1, <3>3, <3>4 DEF TimersHeld, Stopping, contexts, stopVars
  <2> QED BY <2>1, <2>2
<1>16. ASSUME NEW t \in Timers, Discard(t) PROVE ChainOK' /\ TimersHeld'
  <2>1. Chain' = Chain /\ \A u \in pending' : u \in pending /\ proc'[u].pc = "out"
    BY <1>1, <1>16, SameChain DEF Discard
  <2>2. ChainOK'
    BY <1>1, <1>16, <2>1, ChainStays DEF Discard, contexts, stopVars, MaySchedule
  <2>3. live' = live \ {t} /\ \A u \in live' : adding'[u] = adding[u]
    BY <1>1, <1>16 DEF Discard
  <2> QED BY <1>1, <1>16, <2>2, <2>3 DEF Discard, TimersHeld, Stopping, contexts, stopVars
<1>17. ASSUME NEW t \in Timers, Fire(t) PROVE ChainOK' /\ TimersHeld'
  <2>1. /\ t \in live /\ live' = live \ {t} /\ pending' = pending \ {t} /\ kept' = kept \ {t}
        /\ UNCHANGED <<contexts, adding, watchTook, stopVars>>
    BY <1>17 DEF Fire
  <2>2. proc[t].pc = "out"
    BY <1>1, <2>1 DEF FiredOnce
  <2>3. CASE t \in pending /\ MaySchedule
    <3>1. proc'[t].pc = "begin" /\ \A u \in Timers : u # t => proc'[u] = proc[u]
      BY <1>1, <1>17, <2>3 DEF Fire, Operations
    <3>2. Chain' = Chain /\ \A u \in pending' : u \in pending /\ proc'[u].pc = "out"
      BY <1>1, <2>1, <2>3, <3>1 DEF Chain, ChainOK
    <3>3. ChainOK'
      BY <1>1, <2>1, <3>2, ChainStays DEF contexts, stopVars, MaySchedule
    <3> QED BY <1>1, <2>1, <3>3 DEF TimersHeld, Stopping, contexts, stopVars
  <2>4. CASE ~(t \in pending /\ MaySchedule)
    <3>1. proc' = proc
      BY <1>17, <2>4 DEF Fire
    <3>2. /\ Chain' \subseteq Chain /\ (t \notin pending => Chain' = Chain)
          /\ \A u \in pending' : u \in pending /\ proc'[u].pc = "out"
      BY <1>1, <2>1, <3>1 DEF Chain, ChainOK
    <3>3. ChainOK'
      BY <1>1, <2>1, <2>4, <3>2, ChainStays DEF contexts, stopVars, MaySchedule
    <3> QED BY <1>1, <2>1, <3>3 DEF TimersHeld, Stopping, contexts, stopVars
  <2> QED BY <2>3, <2>4
<1>18. ASSUME NEW t \in Timers, Repeat(t) PROVE ChainOK' /\ TimersHeld'
  <2>1. /\ proc[t].pc = "repeat" /\ proc' = [proc EXCEPT ![t].pc = "out"]
        /\ UNCHANGED <<contexts, stopVars>>
    BY <1>18 DEF Repeat
  <2>2. proc'[t].pc = "out" /\ \A u \in Timers : u # t => proc'[u] = proc[u]
    BY <1>1, <2>1 DEF Operations
  <2>3. t \in Chain /\ starter = "done" /\ \A u \in Chain : u = t
    <3>1. t \in Chain
      BY <2>1 DEF Chain
    <3> QED BY <1>1, <3>1 DEF ChainOK, OneChain
  <2>4. {u \in Timers : proc'[u].pc # "out"} = {}
    BY <2>2, <2>3 DEF Chain
  <2>5. CASE MaySchedule
    <3>1. Register
      BY <1>18, <2>5 DEF Repeat
    <3>2. pending = {}
      <4>1. t \notin pending
        BY <1>1, <2>1 DEF ChainOK
      <4> QED BY <2>3, <4>1 DEF Chain
    <3>3. ChainOK'
      BY <1>1, <2>1, <2>3, <2>4, <3>1, <3>2, RegisterChains DEF contexts
    <3>4. TimersHeld'
      BY <1>1, <2>1, <3>1, RegisterHeld DEF contexts, stopVars
    <3> QED BY <3>3, <3>4
  <2>6. CASE ~MaySchedule
    <3>1. UNCHANGED timerVars
      BY <1>18, <2>6 DEF Repeat
    <3>2. Chain' \subseteq Chain /\ \A u \in pending' : u \in pending /\ proc'[u].pc = "out"
      BY <1>1, <2>2, <3>1 DEF Chain, ChainOK, timerVars
    <3>3. ChainOK'
      BY <1>1, <2>1, <2>6, <3>2, ChainStays DEF contexts, stopVars, MaySchedule
    <3> QED BY <1>1, <2>1, <3>1, <3>3, HeldStay DEF contexts, stopVars, timerVars
  <2> QED BY <2>5, <2>6
\* A step that leaves the chain and the goroutines alone.
<1>19. ASSUME UNCHANGED <<proc, pending>>, starter' = "done" <=> starter = "done",
             starter = "done" => (MaySchedule' => MaySchedule)
      PROVE  ChainOK'
  <2>1. Chain' = Chain /\ \A u \in pending' : u \in pending /\ proc'[u].pc = "out"
    BY <1>1, <1>19, SameChain
  <2> QED BY <1>1, <1>19, <2>1, ChainStays
\* A step that empties the timers because nothing may be scheduled any more.
<1>20. ASSUME UNCHANGED proc, pending' = {}, starter' = starter, ~MaySchedule'
      PROVE  ChainOK'
  <2>1. Chain' \subseteq Chain
    BY <1>20 DEF Chain
  <2> QED BY <1>1, <1>20, <2>1, ChainStays
<1>21. ASSUME LifecycleWatch PROVE ChainOK' /\ TimersHeld'
  <2>1. /\ watch = "armed" /\ watch' = "off" /\ watchTook' = kept /\ kept' = {}
        /\ pending' = {} /\ 1 \in cancelled
        /\ UNCHANGED <<proc, started, cancelled, starter, live, adding, stopped, stopper, stopDone>>
    BY <1>21 DEF LifecycleWatch, stopVars
  <2>2. ChainOK'
    BY <1>20, <2>1 DEF MaySchedule
  <2>3. watchTook = {} /\ started
    BY <1>1, <2>1 DEF TimersHeld
  <2> QED BY <1>1, <2>1, <2>2, <2>3 DEF TimersHeld, Stopping
<1>22. ASSUME WatchStops PROVE ChainOK' /\ TimersHeld'
  <2>1. /\ watchTook' = {} /\ live' = live \ watchTook
        /\ UNCHANGED <<proc, pending, contexts, kept, adding, stopVars>>
    BY <1>22 DEF WatchStops
  <2>2. ChainOK'
    BY <1>19, <2>1 DEF contexts, stopVars, MaySchedule
  <2> QED BY <1>1, <2>1, <2>2 DEF TimersHeld, Stopping, contexts, stopVars
<1>23. ASSUME Start PROVE ChainOK' /\ TimersHeld'
  <2>1. /\ starter = "out" /\ ~started /\ starter' = "locked" /\ watch' = "armed" /\ started'
        /\ UNCHANGED <<proc, timerVars, stopVars>>
    BY <1>23 DEF Start
  <2>2. ChainOK'
    BY <1>19, <2>1 DEF timerVars
  <2> QED BY <1>1, <2>1, <2>2 DEF TimersHeld, Stopping, timerVars, stopVars
<1>24. ASSUME StartCancelsOld PROVE ChainOK' /\ TimersHeld'
  <2>1. /\ starter = "locked" /\ starter' = "adding"
        /\ UNCHANGED <<proc, watch, started, timerVars, stopVars>>
    BY <1>24 DEF StartCancelsOld
  <2>2. ChainOK'
    BY <1>19, <2>1 DEF timerVars
  <2> QED BY <1>1, <2>1, <2>2, HeldStay DEF timerVars, stopVars
<1>25. ASSUME StartAddsTimer PROVE ChainOK' /\ TimersHeld'
  <2>1. /\ starter = "adding" /\ starter' = "done"
        /\ UNCHANGED <<proc, started, cancelled, watch, stopVars>>
    BY <1>25 DEF StartAddsTimer
  <2>2. Chain = {}
    BY <1>1, <2>1 DEF ChainOK
  <2>3. {t \in Timers : proc'[t].pc # "out"} = {} /\ pending = {}
    BY <2>1, <2>2 DEF Chain
  <2>4. CASE MaySchedule
    <3>1. Register
      BY <1>25, <2>4 DEF StartAddsTimer
    <3>2. ChainOK'
      BY <1>1, <2>1, <2>3, <3>1, RegisterChains
    <3> QED BY <1>1, <2>1, <3>1, <3>2, RegisterHeld DEF stopVars
  <2>5. CASE ~MaySchedule
    <3>1. UNCHANGED timerVars
      BY <1>25, <2>5 DEF StartAddsTimer
    <3>2. Chain' = {} /\ ~MaySchedule' /\ pending' = {}
      BY <2>1, <2>3, <2>5, <3>1 DEF Chain, MaySchedule, timerVars, stopVars
    <3>3. ChainOK'
      BY <2>1, <3>2 DEF ChainOK, OneChain
    <3> QED BY <1>1, <2>1, <3>1, <3>3, HeldStay DEF timerVars, stopVars
  <2> QED BY <2>4, <2>5
<1>26. ASSUME CancelRoot PROVE ChainOK' /\ TimersHeld'
  <2>1. /\ cancelled' = cancelled \union {1}
        /\ UNCHANGED <<proc, starter, started, watch, timerVars, stopVars>>
    BY <1>26 DEF CancelRoot
  <2>2. ChainOK'
    BY <1>19, <2>1 DEF timerVars, stopVars, MaySchedule
  <2> QED BY <1>1, <2>1, <2>2, HeldStay DEF timerVars, stopVars
<1>27. ASSUME NEW s \in Stoppers, StopLocks(s) PROVE ChainOK' /\ TimersHeld'
  <2>1. stopper[s].pc = "out" /\ UNCHANGED <<proc, contexts, live, adding, watchTook, stopDone>>
    BY <1>27 DEF StopLocks
  <2>2. CASE stopped
    <3>1. stopper' = [stopper EXCEPT ![s].pc = "joining"] /\ UNCHANGED <<stopped, pending, kept>>
      BY <1>27, <2>2 DEF StopLocks
    <3>2. stopper'[s].pc = "joining" /\ \A r \in Stoppers : r # s => stopper'[r] = stopper[r]
      BY <1>1, <3>1 DEF StopCalls
    <3>3. ChainOK'
      BY <1>19, <2>1, <3>1 DEF contexts, MaySchedule
    <3> QED BY <1>1, <2>1, <3>1, <3>2, <3>3 DEF TimersHeld, Stopping, contexts
  <2>3. CASE ~stopped
    <3>1. PICK o : o = [pc |-> "locked", lifecycle |-> lifecycle, taken |-> kept]
      OBVIOUS
    <3>2. /\ stopped' = TRUE /\ stopper' = [stopper EXCEPT ![s] = o] /\ pending' = {} /\ kept' = {}
      BY <1>27, <2>3, <3>1 DEF StopLocks
    <3>3. /\ stopper'[s] = o /\ o.pc = "locked" /\ o.taken = kept
          /\ \A r \in Stoppers : r # s => stopper'[r] = stopper[r]
      BY <1>1, <3>1, <3>2
    <3>4. \A r \in Stoppers : stopper[r].pc = "out"
      BY <1>1, <2>3 DEF UpdaterInv
    <3>5. ChainOK'
      BY <1>20, <2>1, <3>2 DEF contexts, MaySchedule
    <3>6. \A r, q \in Stoppers : Stopping(r)' /\ Stopping(q)' => r = q
      BY <3>3, <3>4 DEF Stopping
    <3>7. ~stopDone'
      BY <1>1, <2>1, <2>3 DEF TimersHeld
    <3>8. \A t \in live' : \/ adding'[t] \in {"armed", "unwanted"} \/ t \in watchTook'
                           \/ stopper'[s].pc = "locked" /\ t \in stopper'[s].taken
      BY <1>1, <2>1, <3>3, <3>4 DEF TimersHeld
    <3> QED BY <1>1, <2>1, <3>2, <3>5, <3>6, <3>7, <3>8 DEF TimersHeld, contexts
  <2> QED BY <2>2, <2>3
<1>28. ASSUME NEW s \in Stoppers, StopCancels(s) PROVE ChainOK' /\ TimersHeld'
  <2>1. /\ stopper[s].pc = "locked" /\ stopper' = [stopper EXCEPT ![s].pc = "waiting"]
        /\ watch' \in {watch, "off"} /\ live' = live \ stopper[s].taken
        /\ cancelled \subseteq cancelled'
        /\ UNCHANGED <<proc, started, starter, pending, kept, adding, watchTook, stopped, stopDone>>
    BY <1>28 DEF StopCancels
  <2>2. stopper'[s].pc = "waiting" /\ \A r \in Stoppers : r # s => stopper'[r] = stopper[r]
    BY <1>1, <2>1 DEF StopCalls
  <2>3. ChainOK'
    BY <1>19, <2>1 DEF MaySchedule
  <2>4. \A r \in Stoppers : Stopping(r)' <=> Stopping(r)
    BY <2>1, <2>2 DEF Stopping
  <2>5. \A t \in live' : \/ adding'[t] \in {"armed", "unwanted"} \/ t \in kept' \/ t \in watchTook'
                         \/ \E r \in Stoppers : stopper'[r].pc = "locked" /\ t \in stopper'[r].taken
    BY <1>1, <2>1, <2>2 DEF TimersHeld
  <2> QED BY <1>1, <2>1, <2>3, <2>4, <2>5 DEF TimersHeld
<1>29. ASSUME NEW s \in Stoppers, StopDriver(s) \/ StopJoins(s) PROVE ChainOK' /\ TimersHeld'
  <2>1. /\ stopper[s].pc \in {"waiting", "joining"}
        /\ stopper' = [stopper EXCEPT ![s].pc = "done"] /\ stopDone' = TRUE
        /\ stopper[s].pc = "waiting" \/ stopDone
        /\ UNCHANGED <<proc, contexts, timerVars, stopped>>
    BY <1>1, <1>29 DEF StopDriver, StopJoins, TypeOK
  <2>2. stopper'[s].pc = "done" /\ \A r \in Stoppers : r # s => stopper'[r] = stopper[r]
    BY <1>1, <2>1 DEF StopCalls
  <2>3. ChainOK'
    BY <1>19, <2>1 DEF contexts, timerVars, MaySchedule
  <2>4. \A r \in Stoppers : ~Stopping(r)'
    BY <1>1, <2>1, <2>2 DEF TimersHeld, Stopping
  <2>5. stopped
    BY <1>1, <2>1 DEF UpdaterInv
  <2>6. \A r \in Stoppers : stopper[r].pc = "locked" => stopper'[r] = stopper[r]
    BY <2>1, <2>2
  <2> QED BY <1>1, <2>1, <2>3, <2>4, <2>5, <2>6 DEF TimersHeld, contexts, timerVars
<1>30. CASE UNCHANGED vars
  BY <1>2, <1>30 DEF vars
<1>31. CASE UserSteps
  BY <1>5, <1>6, <1>31 DEF UserSteps
<1>32. CASE DriverSteps
  BY <1>8, <1>9, <1>32 DEF DriverSteps
<1>33. CASE OperationSteps
  BY <1>10, <1>11, <1>33 DEF OperationSteps
<1>34. CASE TimerSteps
  BY <1>12, <1>13, <1>14, <1>15, <1>16, <1>17, <1>18, <1>21, <1>22, <1>34 DEF TimerSteps
<1>35. CASE StartSteps
  BY <1>23, <1>24, <1>25, <1>26, <1>35 DEF StartSteps
<1>36. CASE StopSteps
  BY <1>27, <1>28, <1>29, <1>36 DEF StopSteps
<1> QED BY <1>30, <1>31, <1>32, <1>33, <1>34, <1>35, <1>36 DEF Next

\* No timer at first.
LEMMA ChainStarts ==
    ASSUME Init
    PROVE  ChainOK /\ TimersHeld
<1>1. /\ pending = {} /\ starter = "out" /\ live = {} /\ stopped = FALSE /\ stopDone = FALSE
      /\ started = FALSE /\ watch = "off" /\ watchTook = {}
      /\ \A t \in Timers : proc[t] = Outside
      /\ \A s \in Stoppers : stopper[s].pc = "out"
  BY DEF Init, Procs
<1>2. Outside.pc = "out"
  BY DEF Outside
<1>3. Chain = {}
  BY <1>1, <1>2 DEF Chain
<1> QED BY <1>1, <1>3 DEF ChainOK, OneChain, TimersHeld, Stopping

\* For any number of timers and of calls of Stop: while the service may schedule
\* there is exactly one automatic check on its way, and when Stop has returned only
\* an addTimer or the watch of the lifecycle may still hold a timer, which it is
\* about to stop (Start, schedule, addTimer, Stop).
THEOREM ChainInvariant == Spec => []ChainInv
<1>1. Init => ChainInd
  BY TypeStarts, FiredOnceStarts, InvStarts, ChainStarts DEF ChainInd
<1>2. ChainInd /\ [Next]_vars => ChainInd'
  <2> SUFFICES ASSUME ChainInd, [Next]_vars PROVE ChainInd'
    OBVIOUS
  <2>1. TypeOK /\ FiredOnce /\ UpdaterInv
    BY DEF ChainInd
  <2> QED BY <2>1, TypeStep, FiredOnceStep, StepInv, ChainStep DEF ChainInd
<1>3. ChainInd => ChainInv
  <2> SUFFICES ASSUME ChainInd PROVE ChainInv
    OBVIOUS
  <2>1. TypeOK /\ ChainOK /\ TimersHeld
    BY DEF ChainInd
  <2>2. NoTimerLeft
    BY <2>1 DEF TimersHeld, Stopping, NoTimerLeft
  <2> QED BY <2>1, <2>2 DEF ChainInv, ChainOK
<1> QED BY <1>1, <1>2, <1>3, PTL DEF Spec

-----------------------------------------------------------------------------
(* The native driver *)

\* What a step of the service does to the calls of the driver.
CallsGoOn ==
    /\ \A p \in Procs :
          /\ proc[p].pc = "calling" =>
                proc'[p].pc = "calling" /\ proc'[p].id = proc[p].id /\ proc'[p].kind = proc[p].kind
          /\ proc'[p].pc = "calling" =>
                proc[p].pc = "calling" \/ proc'[p].id = op'
    /\ op' \in op .. MaxOps /\ (op' = op \/ op' = op + 1)
    /\ \A p \in Procs : proc'[p].pc = "calling" /\ proc[p].pc # "calling" => op' = op + 1
    /\ driverStopped' = driverStopped
    /\ \A s \in Stoppers : stopper[s].pc # "out" => stopper'[s].pc # "out"

\* Whoever calls the driver has an operation of its own.
CallsNumbered == \A p \in Procs : proc[p].pc = "calling" => proc[p].id \in 1 .. op

\* A step of the service goes on with the calls of the driver, and begins at most
\* one, with the next number.
LEMMA ServiceCalls ==
    ASSUME TypeOK, FiredOnce, ServiceSteps
    PROVE  CallsGoOn
<1>1. /\ proc \in [Procs -> Operations] /\ stopper \in [Stoppers -> StopCalls]
      /\ op \in 0 .. MaxOps /\ MaxOps \in Nat
      /\ Timers \subseteq Procs /\ Callers \subseteq Procs
  BY UpdaterAssumption DEF TypeOK, Procs
<1>2. ASSUME UNCHANGED <<op, driverStopped>>,
             \A s \in Stoppers : stopper[s].pc # "out" => stopper'[s].pc # "out",
             \A p \in Procs :
                IF proc[p].pc = "calling"
                THEN /\ proc'[p].pc = "calling" /\ proc'[p].id = proc[p].id
                     /\ proc'[p].kind = proc[p].kind
                ELSE proc'[p].pc # "calling"
      PROVE  CallsGoOn
  BY <1>1, <1>2 DEF CallsGoOn
<1>3. ASSUME UNCHANGED <<service, stopVars>>, NEW p \in Procs, NEW o,
             proc' = [proc EXCEPT ![p] = o] \/ proc' = proc,
             IF proc[p].pc = "calling"
             THEN o.pc = "calling" /\ o.id = proc[p].id /\ o.kind = proc[p].kind
             ELSE o.pc # "calling"
      PROVE  CallsGoOn
  <2>1. \A q \in Procs : proc'[q] = proc[q] \/ (q = p /\ proc'[q] = o)
    BY <1>1, <1>3
  <2>2. UNCHANGED <<op, driverStopped, stopper>>
    BY <1>3 DEF service, stopVars
  <2> QED BY <1>2, <1>3, <2>1, <2>2
<1>4. ASSUME NEW p \in Procs, NEW kind, proc[p].pc # "calling", Begin(p, kind) PROVE CallsGoOn
  <2>1. PICK o : proc' = [proc EXCEPT ![p] = o] /\ o.pc = "calling" /\ o.id = op + 1
    <3> DEFINE o == [pc |-> "calling", kind |-> kind, id |-> op + 1, previous |-> snapshot,
                     previousRetry |-> retry, lifecycle |-> lifecycle, cut |-> FALSE,
                     result |-> "none", report |-> 0]
    <3>1. proc' = [proc EXCEPT ![p] = o]
      BY <1>4 DEF Begin
    <3>2. o.pc = "calling" /\ o.id = op + 1
      OBVIOUS
    <3> HIDE DEF o
    <3> QED BY <3>1, <3>2
  <2>2. \A q \in Procs : IF q = p THEN proc'[q] = o ELSE proc'[q] = proc[q]
    BY <1>1, <2>1
  <2>3. op < MaxOps /\ op' = op + 1 /\ UNCHANGED <<stopper, driverStopped>>
    BY <1>4 DEF Begin, stopVars
  <2>4. op' \in op .. MaxOps
    BY <1>1, <2>3
  <2> QED BY <1>4, <2>1, <2>2, <2>3, <2>4 DEF CallsGoOn
<1>5. ASSUME NEW c \in Callers, NEW k \in Kinds \ {"auto"}, UserBegins(c, k) PROVE CallsGoOn
  BY <1>1, <1>4, <1>5 DEF UserBegins
<1>6. ASSUME NEW c \in Callers, CancelCaller(c) PROVE CallsGoOn
  <2>1. PICK o : o = [proc[c] EXCEPT !.cut = TRUE]
    OBVIOUS
  <2>2. o.pc = proc[c].pc /\ o.id = proc[c].id /\ o.kind = proc[c].kind
    BY <1>1, <2>1 DEF Operations
  <2>3. proc' = [proc EXCEPT ![c] = o] /\ UNCHANGED <<service, stopVars>>
    BY <1>6, <2>1 DEF CancelCaller
  <2> QED BY <1>1, <1>3, <2>2, <2>3
\* A goroutine that does not call the driver goes on to a place of its own.
<1>7. ASSUME NEW p \in Procs, NEW c, c # "calling", proc[p].pc # "calling",
             proc' = [proc EXCEPT ![p].pc = c], UNCHANGED <<op, stopper, driverStopped>>
      PROVE  CallsGoOn
  <2>1. \A q \in Procs : proc'[q] = proc[q] \/ (q = p /\ proc'[q].pc = c)
    BY <1>1, <1>7 DEF Operations
  <2> QED BY <1>2, <1>7, <2>1
<1>8. ASSUME NEW p \in Procs, Finish(p) PROVE CallsGoOn
  BY <1>7, <1>8 DEF Finish, service, stopVars
<1>9. ASSUME NEW p \in Procs, Leave(p) PROVE CallsGoOn
  <2>1. PICK o : o = [Outside EXCEPT !.pc = IF p \in Timers THEN "repeat" ELSE "out"]
    OBVIOUS
  <2>2. o.pc # "calling" /\ proc' = [proc EXCEPT ![p] = o] /\ proc[p].pc = "leaving"
    BY <1>9, <2>1 DEF Leave, Outside
  <2>3. UNCHANGED <<service, stopVars>>
    BY <1>9 DEF Leave
  <2> QED BY <1>3, <2>2, <2>3
<1>10. ASSUME NEW t \in Timers, AutoBegins(t) PROVE CallsGoOn
  BY <1>1, <1>4, <1>10 DEF AutoBegins
<1>11. ASSUME NEW t \in Timers, AutoSkips(t) \/ Repeat(t) PROVE CallsGoOn
  BY <1>1, <1>7, <1>11 DEF AutoSkips, Repeat, service, stopVars
<1>12. ASSUME UNCHANGED <<op, proc, stopper, driverStopped>> PROVE CallsGoOn
  BY <1>2, <1>12
<1>13. ASSUME NEW t \in Timers, Arm(t) \/ Keep(t) \/ Discard(t) PROVE CallsGoOn
  BY <1>12, <1>13 DEF Arm, Keep, Discard, service, stopVars
\* fireTimer starts the goroutine of a timer that has none.
<1>14. ASSUME NEW t \in Timers, Fire(t) PROVE CallsGoOn
  <2>1. proc[t].pc = "out"
    BY <1>14 DEF Fire, FiredOnce
  <2> QED BY <1>1, <1>7, <1>12, <1>14, <2>1 DEF Fire, service, stopVars
<1>15. ASSUME LifecycleWatch \/ WatchStops \/ StartSteps PROVE CallsGoOn
  <2> USE DEF service, stopVars
  <2>1. CASE LifecycleWatch \/ WatchStops
    BY <1>12, <2>1 DEF LifecycleWatch, WatchStops
  <2>2. CASE StartSteps
    BY <1>12, <2>2 DEF StartSteps, Start, StartCancelsOld, StartAddsTimer, CancelRoot
  <2> QED BY <1>15, <2>1, <2>2
<1>16. ASSUME NEW s \in Stoppers, StopLocks(s) \/ StopCancels(s) \/ StopJoins(s) PROVE CallsGoOn
  <2>1. UNCHANGED <<op, proc, driverStopped>>
    BY <1>16 DEF StopLocks, StopCancels, StopJoins, service
  <2>2. PICK o : stopper' = [stopper EXCEPT ![s] = o] /\ o.pc # "out"
    <3>1. CASE StopLocks(s)
      BY <1>1, <3>1 DEF StopLocks, StopCalls
    <3>2. CASE StopCancels(s) \/ StopJoins(s)
      BY <1>1, <3>2 DEF StopCancels, StopJoins, StopCalls
    <3> QED BY <1>16, <3>1, <3>2
  <2>3. \A r \in Stoppers : stopper[r].pc # "out" => stopper'[r].pc # "out"
    BY <1>1, <2>2
  <2> QED BY <1>2, <2>1, <2>3
<1>17. CASE UserSteps
  BY <1>5, <1>6, <1>17 DEF UserSteps
<1>18. CASE OperationSteps
  BY <1>8, <1>9, <1>18 DEF OperationSteps
<1>19. CASE TimerSteps
  BY <1>10, <1>11, <1>13, <1>14, <1>15, <1>19 DEF TimerSteps
<1> QED BY <1>15, <1>16, <1>17, <1>18, <1>19 DEF ServiceSteps

\* Driver.run returns: the call is over.
LEMMA ReturnEnds ==
    ASSUME TypeOK, NEW p \in Procs, NEW r, DriverReturns(p, r)
    PROVE  /\ proc[p].pc = "calling" /\ proc'[p].pc = "returned"
           /\ \A q \in Procs : q # p => proc'[q] = proc[q]
           /\ UNCHANGED <<op, driverStopped, stopper>>
<1>1. proc \in [Procs -> Operations]
  BY DEF TypeOK
<1>2. proc[p].pc = "calling" /\ proc' = [proc EXCEPT ![p].pc = "returned", ![p].result = r]
  BY DEF DriverReturns
<1> QED BY <1>1, <1>2 DEF DriverReturns, Operations, service, stopVars

\* A progress report begins and ends no call.
LEMMA ReportChanges ==
    ASSUME TypeOK, NEW id, NEW n, Progress(id, n)
    PROVE  /\ \A q \in Procs : /\ proc'[q].pc = proc[q].pc /\ proc'[q].id = proc[q].id
                               /\ proc'[q].kind = proc[q].kind
           /\ UNCHANGED <<op, driverStopped, stopper>> /\ op = id
<1>1. proc \in [Procs -> Operations]
  BY DEF TypeOK
<1> QED BY <1>1 DEF Progress, MayReport, Operations, stopVars

\* What the polling loop answers is an answer the service knows.
LEMMA AnswersAreResults ==
    ASSUME NEW p
    PROVE  Answer(p) \in Results /\ "error" \in Results
BY DEF Answer, Results

\* Who holds Driver.operation.
Held(p) == driverRun[p] # "out"

\* The driver's mutex: one call holds it, and only while it runs.
HeldCalls ==
    /\ driverRun \in [Procs -> {"out", "begin", "refused", "polling"}]
    /\ \A p \in Procs : Held(p) => proc[p].pc = "calling"
    /\ \A p, q \in Procs : Held(p) /\ Held(q) => p = q

\* The blocks of the main queue: a cancellation of the operation that began last,
\* and behind it the begin of the call that holds the mutex.
CancelBlocks == {[block |-> "cancel", by |-> q, id |-> begun] : q \in Procs}
BeginBlock(p) == [block |-> "begin", by |-> p, id |-> proc[p].id]
QueueShape ==
    \/ queue = <<>> /\ \A p \in Procs : driverRun[p] # "begin"
    \/ \E c \in CancelBlocks : queue = <<c>> /\ begun # 0 /\ \A p \in Procs : ~Held(p)
    \/ \E p \in Procs : driverRun[p] = "begin" /\ queue = <<BeginBlock(p)>>
    \/ \E p \in Procs : driverRun[p] = "begin" /\ begun # 0
          /\ \E c \in CancelBlocks : queue = <<c, BeginBlock(p)>>

\* What the driver's calls and the main queue keep.
QueueInd ==
    /\ HeldCalls /\ QueueShape /\ begun \in 0 .. MaxOps
    /\ \A p \in Procs : driverRun[p] = "polling" => begun = proc[p].id
    /\ alive \in BOOLEAN /\ (~alive => driverStopped)
    /\ BridgeOutlivesBlocks

\* What the bridge and the framework's session keep.
SessionInd ==
    /\ action \in {"none", "check", "download", "install"}
    /\ native \in {"idle", "pending", "done", "failed"}
    /\ found \in Versions \union {NoVersion}
    /\ cancellation \in BOOLEAN /\ readyReply \in BOOLEAN
    /\ session \in Stages /\ sessionOf \in 0..MaxOps
    /\ session = "info" /\ Pending("check") => sessionOf = begun
    /\ OwnAnswer /\ ReplyIsHeld

\* The inductive invariant of the bridge: what is proved of the service, the
\* numbers of its calls, the queue and the session.
BridgeInd ==
    TypeOK /\ FiredOnce /\ UpdaterInv /\ CallsNumbered /\ QueueInd /\ SessionInd

\* A step of the native driver, of the main thread or of the framework is a step
\* of the service, or changes nothing in it.
LEMMA NativeStepIsServiceStep ==
    ASSUME TypeOK, FiredOnce, CallsNumbered, HeldCalls, [NativeNext]_allVars
    PROVE  [Next]_vars /\ CallsNumbered'
<1>1. op \in 0 .. MaxOps /\ proc \in [Procs -> Operations] /\ MaxOps \in Nat
  BY UpdaterAssumption DEF TypeOK
<1>2. ASSUME UNCHANGED vars PROVE [Next]_vars /\ CallsNumbered'
  BY <1>2 DEF vars, service, CallsNumbered
<1>3. ASSUME NEW p \in Procs, NEW r \in Results, DriverReturns(p, r)
      PROVE  Next /\ CallsNumbered'
  <2>1. CallsNumbered'
    BY <1>3, ReturnEnds DEF CallsNumbered
  <2> QED BY <1>3, <2>1 DEF Next, DriverSteps
<1>4. CASE UNCHANGED allVars
  BY <1>2, <1>4 DEF allVars
<1>5. CASE ServiceSteps
  <2>1. CallsNumbered'
    <3>1. CallsGoOn
      BY <1>5, ServiceCalls
    <3> QED BY <1>1, <3>1 DEF CallsGoOn, CallsNumbered
  <2>2. Next
    BY <1>5 DEF ServiceSteps, Next, StopSteps
  <2> QED BY <2>1, <2>2
<1>6. ASSUME NEW p \in Procs, RunBegins(p) PROVE [Next]_vars /\ CallsNumbered'
  BY <1>2, <1>6 DEF RunBegins
<1>7. ASSUME NEW p \in Procs, RunRefused(p) \/ RunNotBegun(p) \/ RunEnds(p) \/ RunCancelled(p)
      PROVE  Next /\ CallsNumbered'
  BY <1>3, <1>7, AnswersAreResults DEF RunRefused, RunNotBegun, RunEnds, RunCancelled
<1>8. ASSUME NEW p \in Procs, RunReports(p) PROVE Next /\ CallsNumbered'
  <2>1. PICK n \in Reports : Progress(proc[p].id, n)
    BY <1>8 DEF RunReports
  <2>2. proc[p].id \in 1 .. op
    BY <1>8 DEF CallsNumbered, HeldCalls, Held, RunReports
  <2>3. CallsNumbered'
    BY <2>1, ReportChanges DEF CallsNumbered
  <2> QED BY <2>1, <2>2, <2>3 DEF Next, DriverSteps
<1>9. CASE RunSteps
  BY <1>6, <1>7, <1>8, <1>9 DEF RunSteps
<1>10. CASE MainRuns \/ FrameworkSteps
  BY <1>2, <1>10 DEF MainRuns, FrameworkSteps
<1>11. ASSUME NEW s \in Stoppers, NativeStop(s) PROVE Next /\ CallsNumbered'
  <2>1. StopDriver(s)
    BY <1>11 DEF NativeStop
  <2>2. CallsNumbered'
    BY <2>1 DEF StopDriver, service, CallsNumbered
  <2> QED BY <2>1, <2>2 DEF Next, StopSteps
<1> QED BY <1>4, <1>5, <1>9, <1>10, <1>11 DEF NativeNext

-----------------------------------------------------------------------------
\* Facts about short queues.
LEMMA ShortQueues ==
    ASSUME NEW x, NEW y
    PROVE  /\ Append(<<>>, x) = <<x>> /\ Append(<<x>>, y) = <<x, y>>
           /\ Head(<<x>>) = x /\ Tail(<<x>>) = <<>>
           /\ Head(<<x, y>>) = x /\ Tail(<<x, y>>) = <<y>>
           /\ <<x>> # <<>> /\ <<x, y>> # <<>>
<1>1. PICK S : x \in S /\ y \in S
  BY x \in {x, y}, y \in {x, y}
<1>2. <<>> \in Seq(S) /\ <<x>> \in Seq(S) /\ <<y>> \in Seq(S) /\ <<x, y>> \in Seq(S)
  BY <1>1
<1>3. Append(<<>>, x) = <<x>>
  BY <1>1, <1>2
<1>4. Append(<<x>>, y) = <<x, y>>
  <2>1. /\ Append(<<x>>, y) \in Seq(S) /\ Len(Append(<<x>>, y)) = 2
        /\ Append(<<x>>, y)[1] = x /\ Append(<<x>>, y)[2] = y
    BY <1>1, <1>2, AppendProperties
  <2>2. Len(<<x, y>>) = 2 /\ \A i \in 1 .. 2 : Append(<<x>>, y)[i] = <<x, y>>[i]
    BY <2>1
  <2> QED BY <1>2, <2>1, <2>2, SeqEqual
<1>5. Head(<<x>>) = x /\ Head(<<x, y>>) = x
  BY <1>1, <1>2
<1>6. Tail(<<x>>) = <<>>
  BY <1>1, <1>2
<1>7. Tail(<<x, y>>) = <<y>>
  BY <1>1, <1>2
<1>8. <<x>> # <<>> /\ <<x, y>> # <<>>
  BY <1>1, <1>2
<1> QED BY <1>3, <1>4, <1>5, <1>6, <1>7, <1>8

\* The blocks of a queue, and that a block tells what it is.
LEMMA QueueBlocks ==
    ASSUME TypeOK, CallsNumbered, QueueInd
    PROVE  /\ queue \in Seq(Blocks)
           /\ \A i \in DOMAIN queue : queue[i].block = "cancel" => queue[i].id = begun
<1>1. \A p \in Procs : Held(p) => BeginBlock(p) \in Blocks /\ BeginBlock(p).block = "begin"
  <2> SUFFICES ASSUME NEW p \in Procs, Held(p)
               PROVE  BeginBlock(p) \in Blocks /\ BeginBlock(p).block = "begin"
    OBVIOUS
  <2>1. proc[p].id \in 1 .. MaxOps
    BY UpdaterAssumption DEF QueueInd, HeldCalls, CallsNumbered, TypeOK
  <2> QED BY <2>1 DEF BeginBlock, Blocks
<1>2. begun # 0 => begun \in 1 .. MaxOps
  BY UpdaterAssumption DEF QueueInd
<1>3. \A c \in CancelBlocks : c.block = "cancel" /\ c.id = begun /\ (begun # 0 => c \in Blocks)
  BY <1>2 DEF CancelBlocks, Blocks
<1>4. CASE queue = <<>>
  BY <1>4
<1>5. ASSUME NEW c \in CancelBlocks, queue = <<c>>, begun # 0
      PROVE  /\ queue \in Seq(Blocks)
             /\ \A i \in DOMAIN queue : queue[i].block = "cancel" => queue[i].id = begun
  BY <1>3, <1>5
<1>6. ASSUME NEW p \in Procs, driverRun[p] = "begin", queue = <<BeginBlock(p)>>
      PROVE  /\ queue \in Seq(Blocks)
             /\ \A i \in DOMAIN queue : queue[i].block = "cancel" => queue[i].id = begun
  <2>1. BeginBlock(p) \in Blocks /\ BeginBlock(p).block = "begin"
    BY <1>1, <1>6 DEF Held
  <2> QED BY <1>6, <2>1
<1>7. ASSUME NEW p \in Procs, driverRun[p] = "begin", NEW c \in CancelBlocks, begun # 0,
             queue = <<c, BeginBlock(p)>>
      PROVE  /\ queue \in Seq(Blocks)
             /\ \A i \in DOMAIN queue : queue[i].block = "cancel" => queue[i].id = begun
  <2>1. BeginBlock(p) \in Blocks /\ BeginBlock(p).block = "begin"
    BY <1>1, <1>7 DEF Held
  <2> QED BY <1>3, <1>7, <2>1
<1> QED BY <1>4, <1>5, <1>6, <1>7 DEF QueueInd, QueueShape

\* A step that leaves the queue, the bridge's operation and the calls alone.
LEMMA QueueStays ==
    ASSUME QueueInd, UNCHANGED <<driverRun, queue, begun, alive, driverStopped>>,
           \A p \in Procs : Held(p) => proc'[p].pc = "calling" /\ proc'[p].id = proc[p].id,
           \A s \in Stoppers : stopper[s].pc # "out" => stopper'[s].pc # "out"
    PROVE  QueueInd'
<1>1. HeldCalls'
  BY DEF QueueInd, HeldCalls, Held
<1>2. CancelBlocks' = CancelBlocks /\ \A p \in Procs : Held(p) => BeginBlock(p)' = BeginBlock(p)
  BY DEF CancelBlocks, BeginBlock
<1>3. QueueShape'
  BY <1>2 DEF QueueInd, QueueShape, Held
<1>4. \A p \in Procs : driverRun'[p] = "polling" => begun' = proc'[p].id
  BY DEF QueueInd, Held
<1>5. MainFree' => MainFree
  BY DEF MainFree
<1>6. BridgeOutlivesBlocks'
  BY <1>5 DEF QueueInd, BridgeOutlivesBlocks
<1> QED BY <1>1, <1>3, <1>4, <1>6 DEF QueueInd

\* A step that leaves the bridge and the framework alone.
LEMMA SessionStays ==
    ASSUME SessionInd, UNCHANGED <<bridge, framework>>
    PROVE  SessionInd'
BY DEF SessionInd, Pending, OwnAnswer, ReplyIsHeld, bridge, framework

\* The holder of the mutex gives it up, or hands a block to the main thread.
LEMMA RunStepsKeep ==
    ASSUME BridgeInd, RunSteps
    PROVE  QueueInd'
<1>1. /\ TypeOK /\ QueueInd /\ HeldCalls /\ QueueShape /\ CallsNumbered
      /\ driverRun \in [Procs -> {"out", "begin", "refused", "polling"}]
      /\ \A p \in Procs : Held(p) => proc[p].pc = "calling"
  BY DEF BridgeInd, QueueInd, HeldCalls
<1>2. ASSUME NEW p \in Procs, RunBegins(p) PROVE QueueInd'
  <2>1. /\ driverRun' = [driverRun EXCEPT ![p] = "begin"] /\ alive
        /\ \A q \in Procs : driverRun[q] = "out"
        /\ queue' = Append(queue, BeginBlock(p)) /\ proc[p].pc = "calling"
        /\ UNCHANGED <<proc, stopper, driverStopped, begun, alive>>
    BY <1>2 DEF RunBegins, BeginBlock, vars, stopVars, bridge
  <2>2. \A q \in Procs : driverRun'[q] = IF q = p THEN "begin" ELSE "out"
    BY <1>1, <2>1
  <2>3. HeldCalls'
    BY <1>1, <2>1, <2>2 DEF HeldCalls, Held
  <2>4. QueueShape'
    <3>1. BeginBlock(p)' = BeginBlock(p) /\ CancelBlocks' = CancelBlocks
      BY <2>1 DEF BeginBlock, CancelBlocks
    <3>2. CASE queue = <<>>
      <4>1. queue' = <<BeginBlock(p)>>
        BY <2>1, <3>2, ShortQueues
      <4> QED BY <2>2, <3>1, <4>1 DEF QueueShape
    <3>3. ASSUME NEW c \in CancelBlocks, queue = <<c>>, begun # 0 PROVE QueueShape'
      <4>1. queue' = <<c, BeginBlock(p)>>
        BY <2>1, <3>3, ShortQueues
      <4> QED BY <2>1, <2>2, <3>1, <3>3, <4>1 DEF QueueShape
    <3> QED BY <1>1, <2>1, <3>2, <3>3 DEF QueueShape
  <2>5. BridgeOutlivesBlocks'
    BY <2>1 DEF BridgeOutlivesBlocks
  <2> QED BY <1>1, <2>1, <2>2, <2>3, <2>4, <2>5 DEF QueueInd
<1>3. ASSUME NEW p \in Procs, NEW r, DriverReturns(p, r), ~Held(p), UNCHANGED nativeVars
      PROVE  QueueInd'
  <2>1. \A q \in Procs : Held(q) => proc'[q] = proc[q]
    BY <1>1, <1>3, ReturnEnds
  <2>2. UNCHANGED <<driverRun, queue, begun, alive, driverStopped, stopper>>
    BY <1>1, <1>3, ReturnEnds DEF nativeVars, bridge
  <2> QED BY <1>1, <2>1, <2>2, QueueStays
<1>4. ASSUME NEW p \in Procs, RunReports(p) PROVE QueueInd'
  <2>1. PICK n \in Reports : Progress(proc[p].id, n)
    BY <1>4 DEF RunReports
  <2>2. /\ \A q \in Procs : proc'[q].pc = proc[q].pc /\ proc'[q].id = proc[q].id
        /\ UNCHANGED <<driverStopped, stopper>>
    BY <1>1, <2>1, ReportChanges
  <2>3. UNCHANGED <<driverRun, queue, begun, alive>>
    BY <1>4 DEF RunReports, nativeVars, bridge
  <2> QED BY <1>1, <2>2, <2>3, QueueStays
<1>5. ASSUME NEW p \in Procs, NEW r, DriverReturns(p, r), driverRun[p] \in {"refused", "polling"},
             driverRun' = [driverRun EXCEPT ![p] = "out"], UNCHANGED <<bridge, framework>>,
             \/ UNCHANGED queue
             \/ /\ driverRun[p] = "polling"
                /\ queue' = Append(queue, [block |-> "cancel", by |-> p, id |-> proc[p].id])
      PROVE  QueueInd'
  <2>1. Held(p) /\ proc[p].pc = "calling" /\ \A q \in Procs : q # p => ~Held(q)
    BY <1>1, <1>5 DEF HeldCalls, Held
  <2>2. \A q \in Procs : driverRun'[q] = "out"
    BY <1>1, <1>5, <2>1 DEF Held
  <2>3. queue = <<>>
    BY <1>1, <1>5, <2>1 DEF QueueShape, Held
  <2>4. UNCHANGED <<driverStopped, stopper, begun, alive>>
    BY <1>1, <1>5, ReturnEnds DEF bridge
  <2>5. HeldCalls'
    BY <1>1, <1>5, <2>2 DEF HeldCalls, Held
  <2>6. alive
    <3>1. p \in Counted
      BY <2>1 DEF Counted
    <3> QED BY <1>1, <3>1 DEF BridgeInd, UpdaterInv, QueueInd
  <2>7. QueueShape'
    <3>1. CASE UNCHANGED queue
      BY <2>2, <2>3, <3>1 DEF QueueShape
    <3>2. CASE /\ driverRun[p] = "polling"
               /\ queue' = Append(queue, [block |-> "cancel", by |-> p, id |-> proc[p].id])
      <4>1. PICK c : c = [block |-> "cancel", by |-> p, id |-> proc[p].id]
        OBVIOUS
      <4>2. queue' = <<c>>
        BY <2>3, <3>2, <4>1, ShortQueues
      <4>3. begun = proc[p].id /\ begun # 0
        BY <1>1, <2>1, <3>2 DEF QueueInd, CallsNumbered
      <4>4. c \in CancelBlocks'
        BY <2>4, <4>1, <4>3 DEF CancelBlocks
      <4> QED BY <2>2, <2>4, <4>2, <4>3, <4>4 DEF QueueShape, Held
    <3> QED BY <1>5, <3>1, <3>2
  <2>8. BridgeOutlivesBlocks'
    BY <2>4, <2>6 DEF BridgeOutlivesBlocks
  <2> QED BY <1>1, <2>2, <2>4, <2>5, <2>6, <2>7, <2>8 DEF QueueInd
<1>6. ASSUME NEW p \in Procs, RunRefused(p) PROVE QueueInd'
  BY <1>3, <1>6 DEF RunRefused, Held
<1>7. ASSUME NEW p \in Procs, RunNotBegun(p) \/ RunEnds(p) \/ RunCancelled(p) PROVE QueueInd'
  BY <1>5, <1>7 DEF RunNotBegun, RunEnds, RunCancelled
<1> QED BY <1>2, <1>4, <1>6, <1>7 DEF RunSteps

-----------------------------------------------------------------------------
\* cancelCurrent drops the answers that the framework waits for and ends the session.
LEMMA CancelCurrentKeeps ==
    ASSUME SessionInd, CancelCurrent, action' \in {action, "none"}
    PROVE  SessionInd'
<1>1. /\ cancellation' = FALSE /\ readyReply' = FALSE
      /\ session' = IF cancellation \/ readyReply THEN "none" ELSE session
      /\ native' = IF native = "pending" THEN "failed" ELSE native
      /\ UNCHANGED <<found, begun, sessionOf>>
  BY DEF CancelCurrent
<1>2. native' \in {"idle", "pending", "done", "failed"} /\ native' # "pending"
  BY <1>1 DEF SessionInd
<1>3. session' \in Stages /\ session' # "ready"
  BY <1>1 DEF SessionInd, ReplyIsHeld, Stages
<1>4. OwnAnswer' /\ ReplyIsHeld'
  BY <1>1, <1>3 DEF SessionInd, OwnAnswer, ReplyIsHeld
<1> QED BY <1>1, <1>2, <1>3, <1>4 DEF SessionInd, Pending

\* The begin of a call on the bridge.
LEMMA BeginsOnBridge ==
    ASSUME SessionInd, NEW p, NEW can \in CanCheck, Begins(p, can), ResetFor(p),
           NativeAction(p) \in {"check", "download", "install"}, proc[p].id \in 0 .. MaxOps
    PROVE  SessionInd'
<1>1. PICK a \in {"check", "download", "install"} : a = NativeAction(p)
  OBVIOUS
<1>2. action' = a /\ native' = "pending" /\ begun' = proc[p].id
  BY <1>1 DEF ResetFor
<1>3. CASE a = "install"
  <2>1. readyReply' = FALSE /\ session' = "install" /\ UNCHANGED <<found, cancellation, sessionOf>>
    BY <1>1, <1>3 DEF ResetFor
  <2> QED BY <1>2, <1>3, <2>1 DEF SessionInd, Pending, OwnAnswer, ReplyIsHeld, Stages
<1>4. CASE a # "install"
  <2>1. found' = NoVersion /\ cancellation' = FALSE /\ readyReply' = readyReply /\ can
    BY <1>1, <1>4 DEF ResetFor, Begins
  <2>2. found' \notin Versions
    BY <2>1, UpdaterAssumption
  <2>3. CASE session = "none"
    <3>1. session' = (IF a = "check" THEN "info" ELSE "user") /\ sessionOf' = proc[p].id
      BY <1>1, <1>4, <2>3 DEF ResetFor
    <3>2. session' \in {"info", "user"}
      BY <3>1
    <3>3. ReplyIsHeld'
      BY <2>1, <2>3, <3>2 DEF SessionInd, ReplyIsHeld
    <3> QED BY <1>2, <2>1, <2>2, <3>1, <3>2, <3>3 DEF SessionInd, Pending, OwnAnswer, Stages
  <2>4. CASE session # "none"
    <3>1. UNCHANGED <<session, sessionOf>>
      BY <1>1, <1>4, <2>4 DEF ResetFor, framework
    <3>2. session # "info"
      BY <2>1 DEF CanCheck
    <3> QED BY <1>2, <2>1, <2>2, <3>1, <3>2 DEF SessionInd, Pending, OwnAnswer, ReplyIsHeld
  <2> QED BY <2>3, <2>4
<1> QED BY <1>3, <1>4

\* A callback of the framework answers the check that began its session.
LEMMA FrameworkKeeps ==
    ASSUME SessionInd, FrameworkSteps
    PROVE  SessionInd'
<1>2. ASSUME NEW v \in Versions, InfoFinds(v) PROVE SessionInd'
  <2>1. /\ session = "info" /\ found' = IF Pending("check") THEN v ELSE found
        /\ UNCHANGED <<action, native, cancellation, readyReply, begun, session, sessionOf>>
    BY <1>2 DEF InfoFinds, framework
  <2>2. OwnAnswer'
    BY <2>1 DEF SessionInd, OwnAnswer, Pending
  <2> QED BY <2>1, <2>2 DEF SessionInd, Pending, ReplyIsHeld
<1>3. ASSUME InfoEnds PROVE SessionInd'
  <2>1. /\ session = "info" /\ session' = "none"
        /\ native' \in {native, "done"}
        /\ UNCHANGED <<action, found, cancellation, readyReply, begun, sessionOf>>
    BY <1>3 DEF InfoEnds
  <2> QED BY <2>1 DEF SessionInd, OwnAnswer, ReplyIsHeld, Stages
<1>4. ASSUME UserFinds PROVE SessionInd'
  <2>1. /\ session = "user" /\ session' \in {"download", "none"}
        /\ UNCHANGED <<action, native, found, cancellation, readyReply, begun, sessionOf>>
    BY <1>4 DEF UserFinds
  <2> QED BY <2>1 DEF SessionInd, OwnAnswer, ReplyIsHeld, Stages
<1>5. ASSUME CancellationOffered PROVE SessionInd'
  <2>1. /\ cancellation' = TRUE
        /\ UNCHANGED <<action, native, found, readyReply, begun, session, sessionOf>>
    BY <1>5 DEF CancellationOffered, framework
  <2> QED BY <2>1 DEF SessionInd, OwnAnswer, ReplyIsHeld, Pending
<1>6. ASSUME ExtractStarts PROVE SessionInd'
  <2>1. /\ session = "download" /\ session' = "extract" /\ cancellation' = FALSE
        /\ UNCHANGED <<action, native, found, readyReply, begun, sessionOf>>
    BY <1>6 DEF ExtractStarts
  <2> QED BY <2>1 DEF SessionInd, OwnAnswer, ReplyIsHeld, Stages
<1>7. ASSUME ReadyToInstall PROVE SessionInd'
  <2>1. /\ session = "extract" /\ native' \in {native, "done"}
        /\ \/ session' = "ready" /\ readyReply' = TRUE
           \/ session' = "none" /\ readyReply' = readyReply
        /\ UNCHANGED <<action, found, cancellation, begun, sessionOf>>
    BY <1>7 DEF ReadyToInstall
  <2>2. session' \in Stages /\ session' # "info" /\ readyReply' \in BOOLEAN
    BY <2>1 DEF SessionInd, Stages
  <2>3. ReplyIsHeld'
    BY <2>1 DEF SessionInd, ReplyIsHeld
  <2> QED BY <2>1, <2>2, <2>3 DEF SessionInd, OwnAnswer
<1>8. ASSUME Installs PROVE SessionInd'
  <2>1. /\ session = "install" /\ session' \in {"install", "none"} /\ native' \in {native, "done"}
        /\ UNCHANGED <<action, found, cancellation, readyReply, begun, sessionOf>>
    BY <1>8 DEF Installs
  <2> QED BY <2>1 DEF SessionInd, OwnAnswer, ReplyIsHeld, Stages
<1>9. ASSUME SessionFails PROVE SessionInd'
  <2>1. /\ session' = "none" /\ native' \in {native, "failed"}
        /\ cancellation' = FALSE /\ readyReply' = FALSE
        /\ UNCHANGED <<action, found, begun, sessionOf>>
    BY <1>9 DEF SessionFails
  <2> QED BY <2>1 DEF SessionInd, OwnAnswer, ReplyIsHeld, Stages
<1> QED BY <1>2, <1>3, <1>4, <1>5, <1>6, <1>7, <1>8, <1>9 DEF FrameworkSteps

\* The main thread runs the first block of its queue.
LEMMA MainRunsKeep ==
    ASSUME BridgeInd, MainRuns
    PROVE  QueueInd' /\ SessionInd'
<1>1. /\ TypeOK /\ CallsNumbered /\ QueueInd /\ SessionInd /\ HeldCalls /\ QueueShape
      /\ driverRun \in [Procs -> {"out", "begin", "refused", "polling"}]
      /\ \A p \in Procs : Held(p) => proc[p].pc = "calling"
      /\ \A p, q \in Procs : Held(p) /\ Held(q) => p = q
  BY DEF BridgeInd, QueueInd, HeldCalls
<1>2. /\ UNCHANGED <<proc, stopper, driverStopped>>
      /\ queue # <<>> /\ queue' = Tail(queue)
      /\ MainBegins(Head(queue)) \/ MainCancels(Head(queue))
      /\ MainFree' = MainFree /\ MainFree
  BY DEF MainRuns, vars, stopVars, MainFree
<1>3. \A p \in Procs : BeginBlock(p)' = BeginBlock(p) /\ BeginBlock(p).block = "begin"
                       /\ BeginBlock(p).by = p
  BY <1>2 DEF BeginBlock
<1>4. \A c \in CancelBlocks : c.block = "cancel"
  BY DEF CancelBlocks
<1>5. ASSUME NEW c \in CancelBlocks, Head(queue) = c,
             \/ Tail(queue) = <<>> /\ \A p \in Procs : ~Held(p)
             \/ \E p \in Procs : driverRun[p] = "begin" /\ Tail(queue) = <<BeginBlock(p)>>
      PROVE  QueueInd' /\ SessionInd'
  <2>1. /\ CancelCurrent /\ UNCHANGED <<driverRun, action, alive, begun>>
    BY <1>2, <1>4, <1>5 DEF MainBegins, MainCancels, CancelCurrent
  <2>2. SessionInd'
    BY <1>1, <2>1, CancelCurrentKeeps
  <2>3. HeldCalls'
    BY <1>1, <1>2, <2>1 DEF HeldCalls, Held
  <2>4. QueueShape'
    BY <1>2, <1>3, <1>5, <2>1 DEF QueueShape, Held
  <2>5. BridgeOutlivesBlocks'
    BY <1>1, <1>2, <2>1 DEF QueueInd, BridgeOutlivesBlocks
  <2> QED BY <1>1, <1>2, <2>1, <2>2, <2>3, <2>4, <2>5 DEF QueueInd
<1>6. ASSUME NEW p \in Procs, driverRun[p] = "begin", queue = <<BeginBlock(p)>>
      PROVE  QueueInd' /\ SessionInd'
  <2>1. PICK can \in CanCheck :
           \/ /\ Begins(p, can) /\ ResetFor(p) /\ driverRun' = [driverRun EXCEPT ![p] = "polling"]
           \/ /\ driverRun' = [driverRun EXCEPT ![p] = "refused"]
              /\ UNCHANGED <<action, native, found, cancellation, readyReply, begun, framework>>
    <3>1. Head(queue) = BeginBlock(p)
      BY <1>6, ShortQueues
    <3>2. MainBegins(BeginBlock(p))
      BY <1>2, <1>3, <3>1 DEF MainCancels
    <3> QED BY <1>3, <3>2 DEF MainBegins
  <2>2. alive' = alive /\ queue' = <<>>
    <3>1. Head(queue) = BeginBlock(p) /\ Tail(queue) = <<>>
      BY <1>6, ShortQueues
    <3> QED BY <1>2, <1>3, <3>1 DEF MainBegins, MainCancels
  <2>3. proc[p].pc = "calling" /\ \A q \in Procs : q # p => ~Held(q)
    BY <1>1, <1>6 DEF Held
  <2>4. proc[p].id \in 0 .. MaxOps /\ proc[p].kind \in Kinds
    BY <1>1, UpdaterAssumption DEF TypeOK, Operations
  <2>5. NativeAction(p) \in {"check", "download", "install"}
    BY <2>4 DEF NativeAction, Kinds
  <2>6. SessionInd'
    <3>1. CASE Begins(p, can) /\ ResetFor(p)
      BY <1>1, <2>4, <2>5, <3>1, BeginsOnBridge
    <3>2. CASE UNCHANGED <<action, native, found, cancellation, readyReply, begun, framework>>
      BY <1>1, <2>2, <3>2, SessionStays DEF bridge
    <3> QED BY <2>1, <3>1, <3>2
  <2>7. \A q \in Procs : IF q = p THEN driverRun'[q] \in {"polling", "refused"}
                                  ELSE driverRun'[q] = "out"
    BY <1>1, <2>1, <2>3 DEF Held
  <2>8. HeldCalls'
    BY <1>1, <1>2, <2>1, <2>3, <2>7 DEF HeldCalls, Held
  <2>9. /\ begun' \in 0 .. MaxOps
        /\ \A q \in Procs : driverRun'[q] = "polling" => begun' = proc'[q].id
    <3>1. CASE ResetFor(p)
      BY <1>2, <2>4, <2>7, <3>1 DEF ResetFor
    <3>2. CASE /\ driverRun' = [driverRun EXCEPT ![p] = "refused"] /\ UNCHANGED begun
      <4>1. driverRun'[p] = "refused"
        BY <1>1, <3>2
      <4> QED BY <1>1, <2>7, <3>2, <4>1 DEF QueueInd
    <3> QED BY <2>1, <3>1, <3>2
  <2>10. QueueShape'
    BY <2>2, <2>7 DEF QueueShape
  <2>11. BridgeOutlivesBlocks'
    BY <2>2 DEF BridgeOutlivesBlocks
  <2> QED BY <1>1, <1>2, <2>2, <2>6, <2>8, <2>9, <2>10, <2>11 DEF QueueInd
<1>7. ASSUME NEW c \in CancelBlocks, queue = <<c>>, \A p \in Procs : ~Held(p)
      PROVE  QueueInd' /\ SessionInd'
  <2>1. Head(queue) = c /\ Tail(queue) = <<>>
    BY <1>7, ShortQueues
  <2> QED BY <1>5, <1>7, <2>1
<1>8. ASSUME NEW p \in Procs, driverRun[p] = "begin", NEW c \in CancelBlocks,
             queue = <<c, BeginBlock(p)>>
      PROVE  QueueInd' /\ SessionInd'
  <2>1. Head(queue) = c /\ Tail(queue) = <<BeginBlock(p)>>
    BY <1>8, ShortQueues
  <2> QED BY <1>5, <1>8, <2>1
<1> QED BY <1>1, <1>2, <1>6, <1>7, <1>8 DEF QueueShape

\* The driver is stopped: nobody calls it any more.
LEMMA NativeStopKeeps ==
    ASSUME BridgeInd, NEW s \in Stoppers, NativeStop(s)
    PROVE  QueueInd' /\ SessionInd'
<1>1. /\ TypeOK /\ QueueInd /\ SessionInd /\ HeldCalls /\ QueueShape
      /\ \A p \in Procs : Held(p) => proc[p].pc = "calling"
  BY DEF BridgeInd, QueueInd, HeldCalls
<1>2. /\ Counted = {} /\ stopper' = [stopper EXCEPT ![s].pc = "done"] /\ driverStopped' = TRUE
      /\ StopOnMain \/ queue = <<>>
      /\ CancelCurrent /\ action' = "none" /\ alive' = FALSE
      /\ UNCHANGED <<driverRun, queue, proc, begun>>
  BY DEF NativeStop, StopDriver, CancelCurrent
<1>3. SessionInd'
  BY <1>1, <1>2, CancelCurrentKeeps
<1>4. \A p \in Procs : ~Held(p)
  BY <1>1, <1>2 DEF Counted
<1>5. HeldCalls'
  BY <1>1, <1>2 DEF HeldCalls, Held
<1>6. CancelBlocks' = CancelBlocks
  BY <1>2 DEF CancelBlocks
<1>7. QueueShape'
  BY <1>1, <1>2, <1>4, <1>6 DEF QueueShape, Held
<1>8. BridgeOutlivesBlocks'
  <2>1. stopper'[s].pc = "done"
    BY <1>1, <1>2 DEF TypeOK, StopCalls
  <2> QED BY <1>2, <2>1 DEF BridgeOutlivesBlocks, MainFree
<1> QED BY <1>1, <1>2, <1>3, <1>4, <1>5, <1>7, <1>8 DEF QueueInd, Held

\* Every step keeps the invariant.
LEMMA BridgeStep ==
    ASSUME BridgeInd, [NativeNext]_allVars
    PROVE  [Next]_vars /\ BridgeInd'
<1>1. /\ TypeOK /\ FiredOnce /\ UpdaterInv /\ CallsNumbered /\ QueueInd /\ SessionInd /\ HeldCalls
  BY DEF BridgeInd, QueueInd
<1>2. [Next]_vars /\ CallsNumbered'
  BY <1>1, NativeStepIsServiceStep
<1>3. TypeOK' /\ FiredOnce' /\ UpdaterInv'
  BY <1>1, <1>2, TypeStep, FiredOnceStep, StepInv
<1>4. QueueInd' /\ SessionInd'
  <2>1. CASE UNCHANGED allVars
    <3>1. /\ UNCHANGED <<bridge, framework, driverRun, queue, begun, alive, driverStopped, proc, stopper>>
      BY <2>1 DEF allVars, nativeVars, bridge, vars, stopVars
    <3>2. \A p \in Procs : Held(p) => proc'[p].pc = "calling" /\ proc'[p].id = proc[p].id
      BY <1>1, <3>1 DEF HeldCalls
    <3> QED BY <1>1, <3>1, <3>2, QueueStays, SessionStays
  <2>2. CASE ServiceSteps
    <3>1. CallsGoOn
      BY <1>1, <2>2, ServiceCalls
    <3>2. UNCHANGED <<bridge, framework, driverRun, queue, begun, alive>>
      BY <2>2 DEF ServiceSteps, nativeVars, bridge
    <3>3. \A p \in Procs : Held(p) => proc'[p].pc = "calling" /\ proc'[p].id = proc[p].id
      BY <1>1, <3>1 DEF HeldCalls, CallsGoOn
    <3> QED BY <1>1, <3>1, <3>2, <3>3, QueueStays, SessionStays DEF CallsGoOn
  <2>3. CASE RunSteps
    <3>1. UNCHANGED <<bridge, framework>>
      BY <2>3 DEF RunSteps, RunBegins, RunRefused, RunNotBegun, RunReports, RunEnds, RunCancelled,
                  nativeVars
    <3> QED BY <1>1, <2>3, <3>1, RunStepsKeep, SessionStays
  <2>4. CASE MainRuns
    BY <2>4, MainRunsKeep
  <2>5. CASE FrameworkSteps
    <3>1. UNCHANGED <<driverRun, queue, alive, proc, stopper, driverStopped>>
      BY <2>5 DEF FrameworkSteps, vars, stopVars
    <3>2. UNCHANGED begun
      BY <2>5 DEF FrameworkSteps, InfoFinds, InfoEnds, UserFinds, CancellationOffered,
                  ExtractStarts, ReadyToInstall, Installs, SessionFails
    <3>3. \A p \in Procs : Held(p) => proc'[p].pc = "calling" /\ proc'[p].id = proc[p].id
      BY <1>1, <3>1 DEF HeldCalls
    <3> QED BY <1>1, <2>5, <3>1, <3>2, <3>3, QueueStays, FrameworkKeeps
  <2>6. ASSUME NEW s \in Stoppers, NativeStop(s) PROVE QueueInd' /\ SessionInd'
    BY <2>6, NativeStopKeeps
  <2> QED BY <2>1, <2>2, <2>3, <2>4, <2>5, <2>6 DEF NativeNext
<1> QED BY <1>2, <1>3, <1>4 DEF BridgeInd

\* An idle bridge and an empty queue.
LEMMA BridgeStarts ==
    ASSUME NativeInit, TypeOK, FiredOnce, UpdaterInv
    PROVE  BridgeInd
<1>1. /\ proc = [p \in Procs |-> Outside] /\ driverRun = [p \in Procs |-> "out"] /\ queue = <<>>
      /\ action = "none" /\ native = "idle" /\ found = NoVersion /\ cancellation = FALSE
      /\ readyReply = FALSE /\ begun = 0 /\ alive = TRUE /\ session = "none" /\ sessionOf = 0
  BY DEF NativeInit, Init
<1>2. 0 \in 0 .. MaxOps /\ NoVersion \notin Versions
  BY UpdaterAssumption
<1>3. CallsNumbered
  <2>1. Outside.pc = "out"
    BY DEF Outside
  <2> QED BY <1>1, <2>1 DEF CallsNumbered
<1>4. QueueInd
  BY <1>1, <1>2 DEF QueueInd, HeldCalls, Held, QueueShape, BridgeOutlivesBlocks
<1>5. SessionInd
  BY <1>1, <1>2 DEF SessionInd, Pending, OwnAnswer, ReplyIsHeld, Stages
<1> QED BY <1>3, <1>4, <1>5 DEF BridgeInd

\* It says what the runs check.
LEMMA BridgeIndImplies == BridgeInd => BridgeInv
<1> SUFFICES ASSUME BridgeInd PROVE BridgeInv
  OBVIOUS
<1>1. TypeOK /\ CallsNumbered /\ QueueInd /\ SessionInd
  BY DEF BridgeInd
<1>2. /\ queue \in Seq(Blocks)
      /\ \A i \in DOMAIN queue : queue[i].block = "cancel" => queue[i].id = begun
  BY <1>1, QueueBlocks
<1>3. NativeTypeOK
  BY <1>1, <1>2 DEF NativeTypeOK, QueueInd, HeldCalls, SessionInd
<1> QED BY <1>1, <1>2, <1>3 DEF BridgeInv, CancelHitsItsOwn, QueueInd, SessionInd

\* The service on the native driver implements the service on a driver that may
\* answer anything: the polling loop, the main queue and the framework make no
\* step that the service of Updater could not see (Driver.run, the blocks of the
\* bridge), so what is proved of the service holds on the real driver as well.
THEOREM NativeImplements == NativeSpec => Spec
<1>1. NativeInit => BridgeInd
  BY BridgeStarts, TypeStarts, FiredOnceStarts, InvStarts DEF NativeInit
<1>2. BridgeInd /\ [NativeNext]_allVars => [Next]_vars /\ BridgeInd'
  BY BridgeStep
<1>3. NativeInit => Init
  BY DEF NativeInit
<1> QED BY <1>1, <1>2, <1>3, PTL DEF NativeSpec, Spec

\* For any number of callers, timers and operations, whether or not Stop runs on
\* the main thread: a dispatched cancellation reaches the operation it was meant
\* for, a check is answered by the session it opened, the framework waits exactly
\* while the bridge holds its reply, and no block uses a destroyed bridge
\* (tc_sparkle_cancel, tc_sparkle_destroy, the callbacks).
THEOREM BridgeInvariant == NativeSpec => []BridgeInv
<1>1. NativeInit => BridgeInd
  BY BridgeStarts, TypeStarts, FiredOnceStarts, InvStarts DEF NativeInit
<1>2. BridgeInd /\ [NativeNext]_allVars => BridgeInd'
  BY BridgeStep
<1>3. BridgeInd => BridgeInv
  BY BridgeIndImplies
<1> QED BY <1>1, <1>2, <1>3, PTL DEF NativeSpec

=============================================================================
