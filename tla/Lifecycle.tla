----------------------------- MODULE Lifecycle -----------------------------
(***************************************************************************)
(* The desktop program's life: what is opened when it is built, what its   *)
(* startup and its users start, and the order in which its shutdown stops  *)
(* all of it and closes the database.  Startup, shutdown, the handlers and *)
(* every worker are goroutines of their own: a run that is told to stop    *)
(* may take its time or never obey, and a handler may start another.  The  *)
(* automation controllers share one scheme, the analysis, the backups and  *)
(* the maintenance each have theirs.  The analytics scheduler is that of   *)
(* module Collection, the supervisor of the licence that of License, the   *)
(* update service that of Updater.                                         *)
(***************************************************************************)
EXTENDS Naturals, FiniteSets

CONSTANTS Operations,    \* handlers that may hold an operation at a time
          InUse,         \* the sets of workers that are configured and used together
          MaxLaunches    \* runs of one worker that users start

ASSUME LifecycleAssumption == IsFiniteSet(Operations) /\ MaxLaunches \in Nat

VARIABLES
    used,       \* the workers of this program, one of InUse
    build,      \* the step of newDesktopAppWithPaths
    held,       \* resources that are open
    startup,    \* the next step of DesktopApp.Startup
    slot,       \* the run each worker's cancel and done belong to, 0 for none
    live,       \* runs of each worker that have not returned
    launched,   \* runs of each worker so far
    told,       \* runs whose context is done
    answer,     \* runs with a value in done, or with done closed
    waiting,    \* the run whose done each stopper waits for
    starter,    \* the step of StartScheduledDMTask
    operation,  \* operations: idle, under the current context, under a forgotten one
    closing,    \* Bindings.operationsClosing
    phase,      \* what shutdown is at
    passed,     \* workers that shutdown has begun to stop
    late,       \* runs that shutdown gave up waiting for
    relaunched  \* runs launched after shutdown began to stop their worker

lifeVars == <<used, build, held, startup, slot, live, launched, told, answer, waiting, starter,
              operation, closing, phase, passed, late, relaunched>>
appVars == <<build, held, startup>>
opVars == <<operation, closing>>
workVars == <<slot, live, launched, told, answer, relaunched>>
downVars == <<phase, passed, late>>

-----------------------------------------------------------------------------
Controllers == {"message", "connectivity", "dm"}
Workers == Controllers \cup {"analysis", "maintenance", "backup"}
\* shutdown, a user's StopAutomation, a StartScheduledDMTask that failed.
Stoppers == {"shutdown", "user", "starter"}
NoStop == <<"none", 0>>
MaxRun == MaxLaunches + 1
AllRuns == Workers \X (1..MaxRun)

LifecycleInit ==
    /\ used \in InUse
    /\ build = "begin" /\ held = {} /\ startup = "none"
    /\ slot = [w \in Workers |-> 0] /\ live = [w \in Workers |-> {}]
    /\ launched = slot /\ told = {} /\ answer = {}
    /\ waiting = [s \in Stoppers |-> NoStop] /\ starter = "idle"
    /\ operation = [o \in Operations |-> "idle"] /\ closing = FALSE
    /\ phase = "running" /\ passed = {} /\ late = {} /\ relaunched = {}

-----------------------------------------------------------------------------
(* newDesktopAppWithPaths and main *)

\* What a failure leaves open: fail closes the database, every path but the
\* one of a wrong proxy mode closes the embedding provider first.
LeftOpen(wrongMode) == IF wrongMode THEN held \ {"db"} ELSE {}

BuildFails ==
    /\ build \in {"begin", "stores", "runtime"}
    /\ build' = "failed"
    /\ \E wrongMode \in BOOLEAN :
           /\ wrongMode => build = "runtime"
           /\ held' = LeftOpen(wrongMode)
    /\ UNCHANGED <<startup, workVars, waiting, starter, opVars, downVars>>

\* The database, then the stores and keys that need it, then the provider and
\* all that is built on it.  Wails runs OnStartup once the window exists.
BuildStep ==
    /\ \/ build = "begin" /\ build' = "stores" /\ held' = {"db"} /\ UNCHANGED startup
       \/ build = "stores" /\ build' = "runtime" /\ held' = {"db", "provider"}
          /\ UNCHANGED startup
       \/ build = "runtime" /\ build' = "built" /\ startup' = "root" /\ UNCHANGED held
    /\ UNCHANGED <<workVars, waiting, starter, opVars, downVars>>

-----------------------------------------------------------------------------
(* Runs: AutomationController.Start, StartAnalysis, StartBackgroundServices, *)
(* startStorageMaintenance                                                   *)

MayLaunch(w) == w \in used /\ slot[w] = 0 /\ launched[w] < MaxRun

\* With a run in the slot nothing is started and the caller is told all is well.
Launch(workers) ==
    LET new == {w \in workers : MayLaunch(w)} IN
    /\ launched' = [w \in Workers |-> IF w \in new THEN launched[w] + 1 ELSE launched[w]]
    /\ slot' = [w \in Workers |-> IF w \in new THEN launched'[w] ELSE slot[w]]
    /\ live' = [w \in Workers |-> live[w] \cup (IF w \in new THEN {launched'[w]} ELSE {})]
    /\ relaunched' = relaunched \cup {<<w, launched'[w]>> : w \in new \cap passed}
    /\ UNCHANGED <<told, answer>>

\* The run returns and, if the slot is still its own, empties it; then done
\* gets its one value, or is closed.  The backup runner's slot and the
\* maintenance's are emptied by their stop only.
Emptied(w, n) ==
    IF slot[w] = n /\ w \notin {"backup", "maintenance"} THEN 0 ELSE slot[w]

RunEnds(w, n) ==
    /\ n \in live[w]
    /\ live' = [live EXCEPT ![w] = @ \ {n}]
    /\ slot' = [slot EXCEPT ![w] = Emptied(w, n)]
    /\ answer' = IF Emptied(w, n) = n \/ \E s \in Stoppers : waiting[s] = <<w, n>>
                 THEN answer \cup {<<w, n>>} ELSE answer
    /\ UNCHANGED <<appVars, launched, told, relaunched, waiting, starter, opVars,
                   downVars>>

\* The value in done is for one stopper, a closed done for all.
Taken(run) == IF run[1] \in {"analysis", "maintenance"} THEN answer ELSE answer \ {run}

HasDeadlineUser(s) == s = "user"
\* Shutdown's and the user's stops have a deadline, the maintenance is waited
\* for and the failed start's stop waits without one.
HasDeadline(s) ==
    s \in {"shutdown", "user"} /\ waiting[s][1] # "maintenance"

\* Stop of worker w by s: cancel, then waiting for done.
Tell(s, w) ==
    /\ told' = told \cup {<<w, slot[w]>>}
    /\ waiting' = [waiting EXCEPT ![s] = <<w, slot[w]>>]

-----------------------------------------------------------------------------
(* Startup *)

\* SetRootContext replaces the operations' context only if nobody uses it.
Resets == ~closing /\ \A o \in Operations : operation[o] = "idle"

SetRootContext ==
    /\ startup = "root" /\ startup' = "maintenance"
    /\ operation' = IF Resets
             THEN [o \in Operations |->
                      IF operation[o] = "current" THEN "forgotten" ELSE operation[o]]
             ELSE operation
    /\ UNCHANGED <<build, held, workVars, waiting, starter, closing, downVars>>

StartupStep ==
    \/ SetRootContext
    \/ /\ \/ startup = "maintenance" /\ Launch({"maintenance"}) /\ startup' = "backup"
          \/ startup = "backup" /\ Launch({"backup"}) /\ startup' = "connectivity"
          \/ startup = "connectivity" /\ Launch({"connectivity"}) /\ startup' = "done"
       /\ UNCHANGED <<build, held, waiting, starter, opVars, downVars>>

-----------------------------------------------------------------------------
(* Handlers of the desktop *)

UserMay(w) == build = "built" /\ w \in used /\ launched[w] < MaxLaunches

\* StartAutomation starts the backups as well, StartAnalysis and
\* StartTopicComparison share one slot.
StartAutomation ==
    /\ UserMay("message")
    /\ Launch({"backup", "message"})
    /\ UNCHANGED <<appVars, waiting, starter, opVars, downVars>>

StartAnalysis ==
    /\ UserMay("analysis") /\ slot["analysis"] = 0
    /\ Launch({"analysis"})
    /\ UNCHANGED <<appVars, waiting, starter, opVars, downVars>>

CancelAnalysis ==
    /\ slot["analysis"] # 0
    /\ told' = told \cup {<<"analysis", slot["analysis"]>>}
    /\ UNCHANGED <<appVars, slot, live, launched, answer, relaunched, waiting,
                   starter, opVars, downVars>>

StopAutomation ==
    /\ waiting["user"] = NoStop /\ slot["message"] # 0
    /\ Tell("user", "message")
    /\ UNCHANGED <<appVars, slot, live, launched, answer, relaunched, starter,
                   opVars, downVars>>

\* StartScheduledDMTask: whether the runner was running, its Start, the task's
\* start, and the runner's Stop when that failed.
StarterAsks ==
    /\ starter = "idle" /\ UserMay("dm")
    /\ starter' = IF slot["dm"] # 0 THEN "was" ELSE "was not"
    /\ UNCHANGED <<appVars, workVars, waiting, opVars, downVars>>

StarterStarts ==
    /\ starter \in {"was", "was not"}
    /\ Launch({"dm"})
    /\ starter' = IF starter = "was" THEN "keep" ELSE "own"
    /\ UNCHANGED <<appVars, waiting, opVars, downVars>>

StarterEnds ==
    /\ starter \in {"keep", "own"} /\ starter' = "idle"
    /\ UNCHANGED <<appVars, workVars, waiting, opVars, downVars>>

StarterFails ==
    /\ starter = "own" /\ slot["dm"] # 0
    /\ starter' = "stop" /\ Tell("starter", "dm")
    /\ UNCHANGED <<appVars, slot, live, launched, answer, relaunched, opVars,
                   downVars>>

\* A stopper other than shutdown goes on.
StopperGoesOn(s) ==
    /\ s # "shutdown" /\ waiting[s] # NoStop
    /\ \/ waiting[s] \in answer /\ answer' = Taken(waiting[s])
       \/ HasDeadline(s) /\ UNCHANGED answer
    /\ waiting' = [waiting EXCEPT ![s] = NoStop]
    /\ starter' = IF s = "starter" THEN "idle" ELSE starter
    /\ UNCHANGED <<appVars, slot, live, launched, told, relaunched, opVars,
                   downVars>>

BeginOperation(o) ==
    /\ build = "built" /\ operation[o] = "idle" /\ ~closing
    /\ operation' = [operation EXCEPT ![o] = "current"]
    /\ UNCHANGED <<appVars, workVars, waiting, starter, closing, downVars>>

EndOperation(o) ==
    /\ operation[o] # "idle" /\ operation' = [operation EXCEPT ![o] = "idle"]
    /\ UNCHANGED <<appVars, workVars, waiting, starter, closing, downVars>>

\* RejectNewOperations, by the supervisor of the licence.
RejectNewOperations ==
    /\ build = "built" /\ ~closing /\ closing' = TRUE
    /\ UNCHANGED <<appVars, workVars, waiting, starter, operation, downVars>>

-----------------------------------------------------------------------------
(* shutdown *)

After(w) == CASE w = "message" -> "connectivity"
              [] w = "connectivity" -> "dm"
              [] w = "dm" -> "analysis"
              [] w = "analysis" -> "operations"
              [] w = "maintenance" -> "backup"
              [] OTHER -> "close"

BeginShutdown ==
    /\ build = "built" /\ phase = "running"
    /\ phase' = "message"
    /\ UNCHANGED <<appVars, workVars, waiting, starter, opVars, passed, late>>

ShutdownStops(w) ==
    /\ phase = w /\ waiting["shutdown"] = NoStop
    /\ passed' = passed \cup {w}
    /\ IF slot[w] = 0 THEN phase' = After(w) /\ UNCHANGED <<told, waiting>>
                      ELSE Tell("shutdown", w) /\ UNCHANGED phase
    /\ slot' = IF w \in {"backup", "maintenance"} THEN [slot EXCEPT ![w] = 0] ELSE slot
    /\ UNCHANGED <<appVars, live, launched, answer, relaunched, starter, opVars,
                   late>>

ShutdownAnswered ==
    /\ waiting["shutdown"] \in answer
    /\ answer' = Taken(waiting["shutdown"])
    /\ phase' = After(phase) /\ waiting' = [waiting EXCEPT !["shutdown"] = NoStop]
    /\ UNCHANGED <<appVars, slot, live, launched, told, relaunched, starter,
                   opVars, passed, late>>

\* Only an analysis that does not end keeps shutdown from going on.
ShutdownGivesUp ==
    /\ waiting["shutdown"] # NoStop /\ HasDeadline("shutdown")
    /\ late' = late \cup {waiting["shutdown"]}
    /\ phase' = IF phase = "analysis" THEN "abandoned" ELSE After(phase)
    /\ waiting' = [waiting EXCEPT !["shutdown"] = NoStop]
    /\ UNCHANGED <<appVars, workVars, starter, opVars, passed>>

AfterOperationsAnyway == "maintenance"
\* StopOperations: refuse new ones, waiting for the others with a deadline.
AfterOperations ==
    IF \A o \in Operations : operation[o] = "idle" THEN "maintenance" ELSE "abandoned"

StopOperations ==
    /\ phase = "operations"
    /\ \/ ~closing /\ closing' = TRUE /\ UNCHANGED phase
       \/ closing /\ UNCHANGED closing /\ phase' = AfterOperations
    /\ UNCHANGED <<appVars, workVars, waiting, starter, operation, passed, late>>

CloseResources ==
    /\ phase = "close" /\ phase' = "closed" /\ held' = {}
    /\ UNCHANGED <<build, startup, workVars, waiting, starter, opVars, passed,
                   late>>

ShutdownStep ==
    \/ \E w \in Workers : ShutdownStops(w)
    \/ ShutdownAnswered \/ ShutdownGivesUp \/ StopOperations \/ CloseResources

-----------------------------------------------------------------------------
HandlerStep ==
    \/ StartAutomation \/ StopAutomation \/ StartAnalysis \/ CancelAnalysis
    \/ StarterAsks \/ StarterStarts \/ StarterEnds \/ StarterFails
    \/ \E s \in Stoppers : StopperGoesOn(s)
    \/ \E o \in Operations : BeginOperation(o) \/ EndOperation(o)
    \/ RejectNewOperations

LifecycleNext ==
    /\ UNCHANGED used
    /\ \/ BuildStep \/ BuildFails \/ StartupStep \/ HandlerStep
       \/ \E w \in Workers, n \in 1..MaxRun : RunEnds(w, n)
       \/ BeginShutdown \/ ShutdownStep

MaintenanceObeys == <<"maintenance", 1>> \in told /\ RunEnds("maintenance", 1)

\* Shutdown's goroutine and its deadlines go on, and the maintenance obeys its
\* context.  No other worker is trusted to end when told.
LifecycleFairness ==
    /\ WF_lifeVars(UNCHANGED used /\ ShutdownStep)
    /\ WF_lifeVars(UNCHANGED used /\ MaintenanceObeys)

LifecycleSpec == LifecycleInit /\ [][LifecycleNext]_lifeVars /\ LifecycleFairness

-----------------------------------------------------------------------------
LifecycleTypeOK ==
    /\ build \in {"begin", "stores", "runtime", "built", "failed"}
    /\ held \subseteq {"db", "provider"}
    /\ slot \in [Workers -> 0..MaxRun] /\ live \in [Workers -> SUBSET (1..MaxRun)]
    /\ launched \in [Workers -> 0..MaxRun] /\ closing \in BOOLEAN
    /\ phase \in Workers \cup {"running", "operations", "close", "closed", "abandoned"}
    /\ passed \subseteq Workers
    /\ told \cup answer \cup late \cup relaunched \subseteq AllRuns
    /\ waiting \in [Stoppers -> AllRuns \cup {NoStop}]
    /\ operation \in [Operations -> {"idle", "current", "forgotten"}]

\* A build that failed leaves no database open.
FailedBuildCloses == build = "failed" => "db" \notin held

\* Two runs of one controller, or two analyses, never overlap.
OneRun == \A w \in Controllers \cup {"analysis"} : Cardinality(live[w]) <= 1

\* No run is out of reach: each is in its slot, where a stop finds it, or was
\* told to stop already.
Stoppable == \A w \in Workers : \A n \in live[w] : slot[w] = n \/ <<w, n>> \in told

\* The database is closed under no operation, and under no run but one that
\* had its time to end or was started when shutdown had passed its worker.
ClosedUnderNobody ==
    phase = "closed" =>
        /\ \A o \in Operations : operation[o] = "idle"
        /\ \A w \in Workers : \A n \in live[w] : <<w, n>> \in late \cup relaunched

\* StopOperations reaches every operation that is under way.
NoneForgotten == \A o \in Operations : operation[o] # "forgotten"

\* A run is numbered, it fills the slot it runs in for as long as its worker
\* empties the slot itself or shutdown has not, and only one that returned has
\* answered.
RunsFollowSlots ==
    \A w \in Workers :
        /\ live[w] \subseteq 1..launched[w] /\ slot[w] <= launched[w]
        /\ w \notin {"backup", "maintenance"} \/ w \notin passed => live[w] \subseteq {slot[w]}
        /\ \A n \in 1..MaxRun : <<w, n>> \in answer => n \notin live[w] /\ n <= launched[w]

\* What shutdown has not reached yet, the worker it is at included.
Ahead(p) ==
    CASE p \in {"running", "message"} -> Workers
      [] p = "connectivity" -> Workers \ {"message"}
      [] p = "dm" -> Workers \ {"message", "connectivity"}
      [] p = "analysis" -> {"analysis", "maintenance", "backup"}
      [] p \in {"operations", "maintenance"} -> {"maintenance", "backup"}
      [] p = "backup" -> {"backup"}
      [] OTHER -> {}

\* Shutdown passes every worker in its order, waits for one run at a time and
\* leaves nobody behind but the late and the relaunched; it refuses operations
\* and has seen the last one end before it goes on to the maintenance.
ShutdownFollowsOrder ==
    /\ phase # "running" => build = "built"
    /\ phase # "abandoned" =>
         IF waiting["shutdown"] = NoStop
         THEN passed = Workers \ Ahead(phase)
         ELSE /\ phase \in Workers /\ waiting["shutdown"][1] = phase
              /\ passed = (Workers \ Ahead(phase)) \cup {phase}
    /\ phase = "abandoned" => waiting["shutdown"] = NoStop
    /\ \A w \in passed : \A n \in live[w] :
         <<w, n>> \in late \cup relaunched \cup {waiting["shutdown"]}
    /\ phase \in {"maintenance", "backup", "close", "closed"} =>
         closing /\ \A o \in Operations : operation[o] = "idle"

\* The inductive invariant of the program's life.
LifecycleInv == LifecycleTypeOK /\ FailedBuildCloses /\ OneRun /\ Stoppable
                /\ ClosedUnderNobody /\ NoneForgotten /\ RunsFollowSlots
                /\ ShutdownFollowsOrder

\* Shutdown ends, closing the database or leaving it to the end of the process,
\* whatever the workers do and whoever else stopped them at the same time.
ShutdownEnds == []<>(phase \in {"running", "closed", "abandoned"})
=============================================================================
