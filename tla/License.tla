------------------------------ MODULE License ------------------------------
(***************************************************************************)
(* The program's side of revocation on one computer: the gate that decides *)
(* at start and on activation, the supervisor that checks while the        *)
(* workspace runs, the checker both share, and the state it keeps in the   *)
(* keyring.  The manifest is read over the network from a history that only*)
(* grows (ManifestLog), late or not at all.  One action is one access to   *)
(* the keyring with the computation around it, or one publication of the   *)
(* gate's state.                                                           *)
(***************************************************************************)
EXTENDS ManifestLog, FiniteSets

CONSTANTS MaxClock,        \* the clock of the computer runs, and is set, in 0 .. MaxClock
          OfflineGrace,    \* how long a success counts without the network
          ClockRollback,   \* how far the clock may go back unpunished
          MaxReceipts,     \* receipts the kept state can hold
          MaxKeyFaults     \* accesses to the keyring or the token file that fail

ASSUME LicenseAssumption ==
    /\ IsFiniteSet(Handles) /\ "none" \notin Handles
    /\ {MaxClock, OfflineGrace, ClockRollback, MaxReceipts, MaxKeyFaults} \subseteq Nat

VARIABLES
    clock,       \* the computer's wall clock
    kept,        \* SecureState in the keyring
    token,       \* the licence in the token file
    gate,        \* the snapshot the gate publishes and the licence it is for
    check,       \* the gate's and the supervisor's call of the checker
    proc,        \* the program: off, starting, activation, workspace, down
    keyFaults

licVars == <<log, clock, kept, token, gate, check, proc, keyFaults>>

-----------------------------------------------------------------------------
Checkers == {"gate", "sup"}
NoSuccess == [known |-> FALSE, digest |-> 0, success |-> 0, wall |-> 0, receipts |-> {}]

Decisions == {"none", "active", "grace", "check", "revoked"}
NoCheck == [step |-> "none", lic |-> "none", at |-> 0, decision |-> "none", start |-> FALSE]

GateAs(state, h) == [state |-> state, lic |-> h]

LicInit ==
    /\ LogInit
    /\ clock = 0
    /\ kept = NoSuccess
    /\ token = "none"
    /\ gate = GateAs("checking", "none")
    /\ check = [c \in Checkers |-> NoCheck]
    /\ proc = "off"
    /\ keyFaults = 0

Step(c, s) == check[c].step = s
KeyFault == keyFaults < MaxKeyFaults /\ keyFaults' = keyFaults + 1
laterTime(a, b) == IF b > a THEN b ELSE a

-----------------------------------------------------------------------------
(* The checker: load, fetch, evaluate, save, one call at a time *)

\* i is the manifest that came back, 0 when none did.
AnyFetch(s, i) == i > 0
validatedFetch(s, i) == i > 0 /\ (s.known => i >= s.digest)

\* The state to keep: a receipt wins over everything, a manifest that is not
\* older than the last replaces it, and only time passes without one.
EvaluatedState(h, s, i, now) ==
    LET later == [s EXCEPT !.wall = laterTime(@, now)]
        fresh == [later EXCEPT !.known = TRUE, !.digest = i, !.success = now]
    IN  IF h \in s.receipts THEN later
        ELSE IF ~validatedFetch(s, i) THEN (IF s.known THEN later ELSE s)
        ELSE IF h \in log[i].entries /\ Cardinality(s.receipts) < MaxReceipts
        THEN [fresh EXCEPT !.receipts = @ \cup {h}]
        ELSE fresh

EvaluateManifestFirst(h, s, i, now) ==
    IF validatedFetch(s, i) /\ h \notin log[i].entries THEN "active"
    ELSE IF s.known /\ now < s.success + OfflineGrace THEN "grace" ELSE "revoked"
Evaluate(h, s, i, now) ==
    IF h \in s.receipts THEN "revoked"
    ELSE IF validatedFetch(s, i)
    THEN IF h \notin log[i].entries THEN "active"
         ELSE IF Cardinality(s.receipts) < MaxReceipts THEN "revoked" ELSE "check"
    ELSE IF \/ ~s.known \/ now + ClockRollback < s.wall
            \/ now >= s.success + OfflineGrace
    THEN "check" ELSE "grace"

Decided(r, d) == [r EXCEPT !.step = "decided", !.at = 0, !.decision = d]
CheckerFree == \A c \in Checkers : ~Step(c, "loaded")

CheckLoad(c) ==
    /\ Step(c, "asked") /\ CheckerFree
    /\ \/ /\ check' = [check EXCEPT ![c].step = "loaded", ![c].at = clock]
          /\ UNCHANGED keyFaults
       \/ /\ KeyFault
          /\ check' = [check EXCEPT ![c] = Decided(@, "check")]
    /\ UNCHANGED <<log, clock, kept, token, gate, proc>>

\* The mutex makes what is in the keyring now the state that was loaded.
CheckSave(c) ==
    /\ Step(c, "loaded")
    /\ \E i \in 0 .. Len(log) :
        \/ /\ kept' = EvaluatedState(check[c].lic, kept, i, check[c].at)
           /\ check' = [check EXCEPT ![c] = Decided(@, Evaluate(@.lic, kept, i, @.at))]
           /\ UNCHANGED keyFaults
        \/ /\ KeyFault /\ UNCHANGED kept
           /\ check' = [check EXCEPT ![c] = Decided(@, "check")]
    /\ UNCHANGED <<log, clock, token, gate, proc>>

-----------------------------------------------------------------------------
(* The gate *)

\* main: the first check runs before anything else is built.
StartProgram ==
    /\ proc = "off"
    /\ \/ /\ token # "none" /\ proc' = "starting" /\ gate' = GateAs("checking", "none")
          /\ check' = [check EXCEPT !["gate"] =
                          [NoCheck EXCEPT !.step = "asked", !.lic = token, !.start = TRUE]]
       \/ /\ proc' = "activation" /\ UNCHANGED check
          /\ gate' = GateAs(IF token = "none" THEN "needs" ELSE "error", "none")
    /\ UNCHANGED <<log, clock, kept, token, keyFaults>>

\* ActivateLicenseKey is bound whatever mode the program is in.
Activate(h) ==
    /\ proc \in {"activation", "workspace", "down"} /\ Step("gate", "none")
    /\ \/ /\ gate' = GateAs("checking", "none")
          /\ check' = [check EXCEPT !["gate"] =
                          [NoCheck EXCEPT !.step = "asked", !.lic = h]]
       \/ /\ gate' = GateAs("error", "none") /\ UNCHANGED check
    /\ UNCHANGED <<log, clock, kept, token, proc, keyFaults>>

\* revocationSnapshot: grace counts at the start only.
SnapshotFor(r) ==
    IF r.decision = "active" \/ (r.start /\ r.decision = "grace")
    THEN GateAs("activated", r.lic)
    ELSE GateAs(IF r.decision = "revoked" THEN "revoked" ELSE "check", "none")

\* A new token is stored before the gate opens; failing that it stays shut.
PublishGate ==
    LET r == check["gate"]
        next == SnapshotFor(r)
    IN  /\ Step("gate", "decided")
        /\ \/ /\ gate' = next /\ UNCHANGED keyFaults
              /\ token' = IF ~r.start /\ next.state = "activated" THEN r.lic ELSE token
           \/ /\ ~r.start /\ next.state = "activated" /\ KeyFault
              /\ gate' = GateAs("error", "none") /\ UNCHANGED token
        /\ proc' = IF ~r.start THEN proc
                   ELSE IF gate'.state = "activated" THEN "workspace" ELSE "activation"
        /\ check' = [check EXCEPT !["gate"] = NoCheck,
                         !["sup"] = IF proc' = "workspace" /\ proc # "workspace"
                                    THEN [NoCheck EXCEPT !.step = "waiting", !.lic = r.lic]
                                    ELSE @]
        /\ UNCHANGED <<log, clock, kept>>

-----------------------------------------------------------------------------
(* The supervisor and what a terminal decision does *)

\* The timer fires or the computer wakes up.
SupervisorWakes ==
    /\ Step("sup", "waiting")
    /\ check' = [check EXCEPT !["sup"].step = "asked"]
    /\ UNCHANGED <<log, clock, kept, token, gate, proc, keyFaults>>

SupervisorDecides ==
    /\ Step("sup", "decided")
    /\ check' = [check EXCEPT !["sup"] =
                    IF @.decision \in {"check", "revoked"} THEN [@ EXCEPT !.step = "closing"]
                    ELSE [@ EXCEPT !.step = "waiting", !.decision = "none"]]
    /\ UNCHANGED <<log, clock, kept, token, gate, proc, keyFaults>>

\* Applying the decision waits for a gate operation that is under way.
ApplyRevocationDecision ==
    /\ Step("sup", "closing") /\ Step("gate", "none") /\ proc = "workspace"
    /\ gate' = GateAs(check["sup"].decision, "none")
    /\ proc' = "closing"
    /\ UNCHANGED <<log, clock, kept, token, check, keyFaults>>

\* RejectNewOperations and Shutdown; the relaunch may fail after them.
handleTerminal ==
    /\ proc = "closing"
    /\ check' = [check EXCEPT !["sup"] = NoCheck]
    /\ proc' = "down"
    /\ UNCHANGED <<log, clock, kept, token, gate, keyFaults>>

ExitProgram ==
    /\ proc # "off"
    /\ proc' = "off" /\ gate' = GateAs("checking", "none")
    /\ check' = [c \in Checkers |-> NoCheck]
    /\ UNCHANGED <<log, clock, kept, token, keyFaults>>

SetClock ==
    /\ clock' \in (0 .. MaxClock) \ {clock}
    /\ UNCHANGED <<log, kept, token, gate, check, proc, keyFaults>>

GrowLog == LogNext /\ UNCHANGED <<clock, kept, token, gate, check, proc, keyFaults>>

LicWork == \/ \E c \in Checkers : CheckLoad(c) \/ CheckSave(c)
           \/ PublishGate \/ SupervisorWakes \/ SupervisorDecides
           \/ ApplyRevocationDecision \/ handleTerminal

LicNext == LicWork \/ StartProgram \/ (\E h \in Handles : Activate(h))
           \/ ExitProgram \/ SetClock \/ GrowLog

\* The supervisor takes the mutex it waits for: the checker's, then the gate's.
SupervisorLocks == CheckLoad("sup") \/ ApplyRevocationDecision

\* Goroutines that can run do run, timers fire, calls return; the user may do
\* anything or nothing.  However often the user checks a licence, the supervisor
\* gets the mutex in the end, for a sync.Mutex starves nobody.
LicFairness ==
    /\ \A c \in Checkers : WF_licVars(CheckSave(c))
    /\ WF_licVars(CheckLoad("gate")) /\ WF_licVars(PublishGate)
    /\ WF_licVars(SupervisorWakes) /\ WF_licVars(SupervisorDecides)
    /\ WF_licVars(handleTerminal) /\ SF_licVars(SupervisorLocks)

LicSpec == LicInit /\ [][LicNext]_licVars /\ LicFairness

-----------------------------------------------------------------------------
(* Properties *)

\* The types, and that the number of the kept manifest means nothing before one
\* was kept: the inductive invariant of the checker and the gate.
LicInv ==
    /\ clock \in Nat
    /\ kept \in [known : BOOLEAN, digest : Nat, success : Nat, wall : Nat,
                 receipts : SUBSET Handles]
    /\ ~kept.known => kept.digest = 0
    /\ token \in Handles \cup {"none"}
    /\ check \in [Checkers -> [step : {"none", "waiting", "asked", "loaded", "decided", "closing"},
                               lic : Handles \cup {"none"}, at : Nat, decision : Decisions,
                               start : BOOLEAN]]
    /\ \A c \in Checkers : ~Step(c, "none") => check[c].lic \in Handles

\* What runs on a licence: a gate that is open for it or is about to open, and
\* a workspace that was opened with it and is not shut down.
Running ==
    {h \in Handles :
        \/ gate = GateAs("activated", h)
        \/ Step("gate", "decided") /\ SnapshotFor(check["gate"]) = GateAs("activated", h)
        \/ ~Step("sup", "none") /\ check["sup"].lic = h}

Lock == INSTANCE LicenseLock WITH
    Licences <- Handles, open <- Running, banned <- kept.receipts

\* The gate, the supervisor and their shared checker implement the lock.
LockHolds == Lock!LockSpec

\* No interleaving of foreground and supervisor checks replaces the kept state
\* by an older one: the manifest, the receipts and the latest time only grow.
NeverOlder ==
    [][/\ kept'.digest >= kept.digest /\ kept.receipts \subseteq kept'.receipts
       /\ kept'.wall >= kept.wall]_licVars
============================================================================
