------------------------------- MODULE Routes -------------------------------
(***************************************************************************)
(* Proxy routes: the profiles and the accounts' assignments in the store,  *)
(* the registry that knows which route is healthy, its checks, and the     *)
(* assignments published to the runtime.  The registry's loop, a user's    *)
(* check, the handlers that save and assign, and the workers that ask for a*)
(* route or report its failure run concurrently.  A revision number is     *)
(* only ever compared with the one a check began with, so a check carries  *)
(* instead whether somebody wrote the route since.  The system route is    *)
(* that of module Connectivity.                                            *)
(***************************************************************************)
EXTENDS Naturals, FiniteSets

CONSTANTS RouteAccounts,
          Profiles,
          RouteCapacity,      \* accounts one profile takes
          RouteCalls,         \* handlers under way at a time
          MaxCalls,           \* handlers in all
          MaxRouteFaults      \* failed probes, reads and connections

ASSUME RoutesAssumption ==
    /\ IsFiniteSet(RouteAccounts) /\ IsFiniteSet(Profiles)
    /\ {"system", "unassigned", "nobody"} \cap Profiles = {}
    /\ {RouteCapacity, MaxCalls, MaxRouteFaults} \subseteq Nat

VARIABLES
    profile,      \* proxy_profiles: each row absent, off or on
    assigned,     \* accounts.proxy_mode and proxy_profile_id
    published,    \* ProxyAssignments of the runtime snapshot
    health,       \* Registry.routes of the profiles: state, whether it has to wait for retryAt
    failed,       \* profiles that failed since their last check began
    probing,      \* Registry.checks: who runs it, its step, whether the revision is unchanged
    loop,         \* Registry.Run: its step, the profiles yet to visit, those listed as off
    handler,         \* handlers of the desktop: their step, and the list they read
    routeCount    \* handlers and faults so far

routesVars == <<profile, assigned, published, health, failed, probing, loop, handler,
                routeCount>>
storeVars == <<profile, assigned>>

-----------------------------------------------------------------------------
System == "system"
NoCaller == "nobody"
AllRoutes == Profiles \cup {System}
Assignments == [RouteAccounts -> AllRoutes \cup {"unassigned"}]
RouteStates == {"unknown", "ready", "checking", "degraded", "disabled"}
Walks == [step : {"rest", "walk", "wait"}, todo : SUBSET Profiles, off : SUBSET Profiles,
          at : Profiles \cup {NoCaller}]
Handlers == [step : {"free", "list", "update", "assign"}, list : Assignments,
             who : RouteAccounts \cup {NoCaller}, to : AllRoutes]
NotProbing == [by |-> NoCaller, step |-> "none", same |-> TRUE]
NoHandler == [step |-> "free", list |-> [a \in RouteAccounts |-> "unassigned"],
           who |-> NoCaller, to |-> System]

RoutesInit ==
    /\ profile = [p \in Profiles |-> "absent"]
    /\ assigned = [a \in RouteAccounts |-> System]
    /\ published = assigned
    /\ health = [p \in Profiles |-> [state |-> "unknown", wait |-> FALSE]]
    /\ failed = {}
    /\ probing = [p \in Profiles |-> NotProbing]
    /\ loop = [step |-> "rest", todo |-> {}, off |-> {}, at |-> NoCaller]
    /\ handler = [c \in RouteCalls |-> NoHandler]
    /\ routeCount = [calls |-> 0, faults |-> 0]

RouteFault ==
    /\ routeCount.faults < MaxRouteFaults
    /\ routeCount' = [routeCount EXCEPT !.faults = @ + 1]
NoRouteFault == UNCHANGED routeCount

\* setRuntime and every other write: it moves the revision of the route on.
WriteHealth(p, state, waits) ==
    /\ health' = [health EXCEPT ![p] = [state |-> state, wait |-> waits]]
    /\ probing' = [probing EXCEPT ![p].same = @ /\ probing[p].by = NoCaller]

-----------------------------------------------------------------------------
(* Checks of a profile: Check, by the loop or by a user *)

startCheck(p, by) ==
    /\ probing[p].by = NoCaller /\ ~health[p].wait
    /\ health' = [health EXCEPT ![p].state = "checking"]
    /\ probing' = [probing EXCEPT ![p] = [by |-> by, step |-> "read", same |-> TRUE]]
    /\ failed' = failed \ {p}

CheckRoute(p) ==
    /\ probing[p].step = "read"
    /\ \/ RouteFault /\ probing' = [probing EXCEPT ![p].step = "bad"]
       \/ /\ NoRouteFault
          /\ probing' = [probing EXCEPT ![p].step =
                 CASE profile[p] = "absent" -> "bad"
                   [] profile[p] = "off" -> "off"
                   [] OTHER -> "probe"]
    /\ UNCHANGED <<storeVars, published, health, failed, loop, handler>>

Probe(p) ==
    /\ probing[p].step = "probe"
    /\ \/ RouteFault /\ probing' = [probing EXCEPT ![p].step = "bad"]
       \/ NoRouteFault /\ probing' = [probing EXCEPT ![p].step = "good"]
    /\ UNCHANGED <<storeVars, published, health, failed, loop, handler>>

Outcome(step) == CASE step = "good" -> [state |-> "ready", wait |-> FALSE]
                   [] step = "off" -> [state |-> "disabled", wait |-> FALSE]
                   [] OTHER -> [state |-> "degraded", wait |-> TRUE]

\* The result is dropped when the route was written meanwhile.
Applied(p) == IF probing[p].same THEN Outcome(probing[p].step) ELSE health[p]

UnlistedIfApplied(p) ==
    IF probing[p].same THEN [probing EXCEPT ![p] = NotProbing] ELSE probing
Unlisted(p) == [probing EXCEPT ![p] = NotProbing]

\* finishCheck: everybody who waited for the check goes on.
FinishCheck(p) ==
    /\ probing[p].step \in {"bad", "off", "good"}
    /\ health' = [health EXCEPT ![p] = Applied(p)]
    /\ probing' = Unlisted(p)
    /\ loop' = IF loop.step = "wait" /\ loop.at = p
               THEN [loop EXCEPT !.step = "walk", !.at = NoCaller] ELSE loop
    /\ UNCHANGED <<storeVars, published, failed, handler, routeCount>>

\* CheckProxyProfile; a second caller waits for the first one's check.
UserChecks(p) ==
    /\ startCheck(p, "user")
    /\ UNCHANGED <<storeVars, published, loop, handler, routeCount>>

-----------------------------------------------------------------------------
(* Registry.Run: CheckAll at every tick *)

Tick ==
    /\ loop.step = "rest"
    /\ loop' = [step |-> "walk", todo |-> {p \in Profiles : profile[p] # "absent"},
                off |-> {p \in Profiles : profile[p] = "off"}, at |-> NoCaller]
    /\ UNCHANGED <<storeVars, published, health, failed, probing, handler, routeCount>>

Visit(p) ==
    /\ loop.step = "walk" /\ p \in loop.todo
    /\ UNCHANGED <<storeVars, published, handler, routeCount>>
    /\ \/ /\ p \in loop.off
          /\ WriteHealth(p, "disabled", FALSE)
          /\ loop' = [loop EXCEPT !.todo = @ \ {p}] /\ UNCHANGED failed
       \/ /\ p \notin loop.off /\ health[p].wait
          /\ loop' = [loop EXCEPT !.todo = @ \ {p}]
          /\ UNCHANGED <<health, probing, failed>>
       \/ /\ p \notin loop.off /\ ~health[p].wait
          /\ loop' = [loop EXCEPT !.step = "wait", !.todo = @ \ {p}, !.at = p]
          /\ IF probing[p].by = NoCaller THEN startCheck(p, "loop")
                                     ELSE UNCHANGED <<health, probing, failed>>

EndWalk ==
    /\ loop.step = "walk" /\ loop.todo = {}
    /\ loop' = [loop EXCEPT !.step = "rest", !.off = {}]
    /\ UNCHANGED <<storeVars, published, health, failed, probing, handler, routeCount>>

\* The time of retryAt comes.
RetryDue(p) ==
    /\ health[p].wait
    /\ health' = [health EXCEPT ![p].wait = FALSE]
    /\ UNCHANGED <<storeVars, published, failed, probing, loop, handler, routeCount>>

-----------------------------------------------------------------------------
(* Workers *)

\* RouteFor an account with a profile: a row that cannot be read counts as a
\* disabled one.  Only the registry's own change is of interest here.
RouteForAssigned(p) ==
    /\ \/ RouteFault
       \/ NoRouteFault /\ profile[p] # "on"
    /\ WriteHealth(p, "disabled", FALSE)
    /\ UNCHANGED <<storeVars, published, failed, loop, handler>>

RecordFailure(p) ==
    /\ RouteFault
    /\ WriteHealth(p, "degraded", TRUE)
    /\ failed' = failed \cup {p}
    /\ UNCHANGED <<storeVars, published, loop, handler>>

-----------------------------------------------------------------------------
(* Handlers: SaveProxyProfile, DeleteProxyProfile, AssignAccountProxy *)

CallBegins ==
    /\ routeCount.calls < MaxCalls
    /\ routeCount' = [routeCount EXCEPT !.calls = @ + 1]

SaveProxyProfile(c, p, enabled) ==
    /\ handler[c].step = "free" /\ CallBegins
    /\ profile' = [profile EXCEPT ![p] = IF enabled THEN "on" ELSE "off"]
    /\ handler' = [handler EXCEPT ![c].step = "list"]
    /\ UNCHANGED <<assigned, published, health, failed, probing, loop>>

Users(p) == {a \in RouteAccounts : assigned[a] = p}

Deletable(p) == Users(p) = {}

DeleteProxyProfile(p) ==
    /\ profile[p] # "absent" /\ Deletable(p)
    /\ profile' = [profile EXCEPT ![p] = "absent"]
    /\ UNCHANGED <<assigned, published, health, failed, probing, loop, handler, routeCount>>

\* Status: full is ready with no place left.
Accepts(p, a) ==
    /\ profile[p] = "on" /\ health[p].state = "ready"
    /\ Cardinality(Users(p)) < RouteCapacity \/ assigned[a] = p

\* The system route may be ready or not; it has no limit.
AskRoute(c, a, r) ==
    /\ handler[c].step = "free" /\ CallBegins
    /\ r \in Profiles => Accepts(r, a)
    /\ handler' = [handler EXCEPT ![c].step = "assign", ![c].who = a, ![c].to = r]
    /\ UNCHANGED <<storeVars, published, health, failed, probing, loop>>

AdmitsEnabled(a, r) == r # System => profile[r] = "on"
\* The trigger accounts_proxy_assignment_update.
Admits(a, r) ==
    r # System => profile[r] = "on" /\ Cardinality(Users(r) \ {a}) < RouteCapacity

AssignAccount(c) ==
    LET a == handler[c].who
        r == handler[c].to
    IN  /\ handler[c].step = "assign"
        /\ IF Admits(a, r)
           THEN /\ assigned' = [assigned EXCEPT ![a] = r]
                /\ handler' = [handler EXCEPT ![c] = [NoHandler EXCEPT !.step = "list"]]
           ELSE handler' = [handler EXCEPT ![c] = NoHandler] /\ UNCHANGED assigned
        /\ UNCHANGED <<profile, published, health, failed, probing, loop, routeCount>>

\* publishProxyAssignments: the list first, the snapshot's update later.
ListAccounts(c) ==
    /\ handler[c].step = "list"
    /\ handler' = [handler EXCEPT ![c].step = "update", ![c].list = assigned]
    /\ UNCHANGED <<storeVars, published, health, failed, probing, loop, routeCount>>

PublishAssignments(c) ==
    /\ handler[c].step = "update"
    /\ published' = handler[c].list
    /\ handler' = [handler EXCEPT ![c] = NoHandler]
    /\ UNCHANGED <<storeVars, health, failed, probing, loop, routeCount>>

-----------------------------------------------------------------------------
LoopStep == Tick \/ EndWalk \/ \E p \in Profiles : Visit(p)
CheckStep(p) == CheckRoute(p) \/ Probe(p) \/ FinishCheck(p)
HandlerGoesOn(c) == AssignAccount(c) \/ ListAccounts(c) \/ PublishAssignments(c)
DeskStep ==
    \/ \E c \in RouteCalls, p \in Profiles, on \in BOOLEAN : SaveProxyProfile(c, p, on)
    \/ \E p \in Profiles : DeleteProxyProfile(p) \/ UserChecks(p)
    \/ \E c \in RouteCalls, a \in RouteAccounts, r \in AllRoutes : AskRoute(c, a, r)

RoutesNext ==
    \/ LoopStep \/ DeskStep
    \/ \E p \in Profiles : \/ CheckStep(p) \/ RetryDue(p)
                          \/ RouteForAssigned(p) \/ RecordFailure(p)
    \/ \E c \in RouteCalls : HandlerGoesOn(c)

\* The loop and a check go on, retryAt comes: goroutines and timers of the
\* process.
RoutesFairness ==
    /\ WF_routesVars(LoopStep)
    /\ \A p \in Profiles : WF_routesVars(CheckStep(p)) /\ WF_routesVars(RetryDue(p))

RoutesSpec == RoutesInit /\ [][RoutesNext]_routesVars /\ RoutesFairness

-----------------------------------------------------------------------------
RoutesTypeOK ==
    /\ profile \in [Profiles -> {"absent", "off", "on"}]
    /\ assigned \in Assignments /\ published \in Assignments
    /\ health \in [Profiles -> [state : RouteStates, wait : BOOLEAN]]
    /\ failed \subseteq Profiles
    /\ probing \in [Profiles -> [by : {NoCaller, "loop", "user"}, same : BOOLEAN,
                               step : {"none", "read", "probe", "good", "off", "bad"}]]
    /\ loop \in Walks /\ handler \in [RouteCalls -> Handlers]

\* The store never gives a profile more accounts than it takes, however many
\* assignments read a free place at once (the trigger decides).
WithinCapacity == \A p \in Profiles : Cardinality(Users(p)) <= RouteCapacity

\* No account is assigned to a profile that was deleted.
NoOrphan ==
    \A a \in RouteAccounts : assigned[a] \in Profiles => profile[assigned[a]] # "absent"

\* A route is ready only if nothing failed on it since the check that says so
\* began: a failure reported during a check is not overwritten by its success.
FailureKept == \A p \in Profiles : health[p].state = "ready" => p \notin failed

\* A check that is under way has a caller, an assignment an account; and a check
\* whose result will count has seen no failure since it began.
CheckSeesFailures ==
    /\ \A p \in Profiles : probing[p].step # "none" => probing[p].by # NoCaller
    /\ \A p \in Profiles : probing[p].by # NoCaller /\ probing[p].same => p \notin failed
    /\ \A c \in RouteCalls : handler[c].step = "assign" => handler[c].who \in RouteAccounts

\* The inductive invariant of the routes.
RoutesInv == RoutesTypeOK /\ WithinCapacity /\ NoOrphan /\ FailureKept
             /\ CheckSeesFailures

\* An enabled profile becomes ready again after its failures: the loop checks
\* it, no check is left behind that everybody waits for.
RouteRecovers ==
    \A p \in Profiles : []<>(profile[p] # "on" \/ health[p].state = "ready")
=============================================================================
