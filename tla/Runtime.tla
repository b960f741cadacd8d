------------------------------ MODULE Runtime ------------------------------
(***************************************************************************)
(* The Telegram runtime: the manager that turns configuration snapshots    *)
(* into one supervised worker per account, and the activator a connected   *)
(* worker calls with each snapshot, which registers the account as a scout *)
(* or as a sender.  The manager's loop, the workers and the goroutines that*)
(* wait for a scout's disconnection run concurrently; an activation is     *)
(* split where it talks to Telegram.                                       *)
(***************************************************************************)
EXTENDS Naturals, FiniteSets

CONSTANTS Accounts,
          Routes,          \* proxy routes an account can be assigned to
          MaxRevision,     \* snapshots applied to the manager
          MaxConnects,     \* connections of one account that come about
          MaxRechecks,     \* periodic checks of one account's memberships
          MaxRuns          \* runs of the manager

ASSUME RuntimeAssumption ==
    /\ IsFiniteSet(Accounts) /\ IsFiniteSet(Routes)
    /\ {MaxRevision, MaxConnects, MaxRechecks, MaxRuns} \subseteq Nat

VARIABLES
    latest,      \* the newest snapshot the manager was given
    slot,        \* the channel of one snapshot its loop reads
    run,         \* the loop: its step, what it reconciles with, whom it has yet to visit
    cur,         \* the workers map: the worker of each account, 0 for none
    worker,      \* the worker goroutines
    scouts,      \* UpdateActivator.scouts: the connection registered, 0 for none
    epoch,       \* UpdateActivator.scoutEpoch
    watchers,    \* goroutines waiting for a scout's disconnection
    senders,     \* ClientSenderRegistry.senders: the connection, 0 for none
    handler,     \* the session's update handler
    counts       \* connections and rechecks per account, runs of the manager

runtimeVars == <<latest, slot, run, cur, worker, scouts, epoch, watchers,
                 senders, handler, counts>>
managerVars == <<latest, slot, run, cur>>
activatorVars == <<scouts, epoch, watchers, senders, handler>>

-----------------------------------------------------------------------------
Wants == [role : {"scout", "spammer"}, route : Routes] \cup {[role |-> "none", route |-> "none"]}
RuntimeSnapshots == [rev : 0 .. MaxRevision, want : [Accounts -> Wants], paused : BOOLEAN]
Unset == [rev |-> 0, want |-> [a \in Accounts |-> [role |-> "none", route |-> "none"]],
          paused |-> FALSE]

\* Two places for an account's workers: the second is for a worker that is
\* started while another still runs.
Places == Accounts \X {1, 2}
Steps == {"free", "connecting", "ready", "applying", "registering", "ended",
          "waiting", "finished"}
Idle == [step |-> "free", route |-> "none", snap |-> Unset, using |-> Unset,
         applied |-> FALSE, conn |-> 0, cancelled |-> FALSE, down |-> FALSE]

RuntimeInit ==
    /\ latest = Unset /\ slot = Unset
    /\ run = [step |-> "off", snap |-> Unset, desired |-> {}, todo |-> {}]
    /\ cur = [a \in Accounts |-> 0]
    /\ worker = [w \in Places |-> Idle]
    /\ scouts = [a \in Accounts |-> 0] /\ epoch = [a \in Accounts |-> 0]
    /\ watchers = {}
    /\ senders = [a \in Accounts |-> 0]
    /\ handler = [a \in Accounts |-> "off"]
    /\ counts = [conn |-> [a \in Accounts |-> 0], checks |-> [a \in Accounts |-> 0],
                 runs |-> 0]

At(w, s) == worker[w].step = s
Finished(w) == worker[w].step \in {"free", "finished"}
ctxDone(w) == worker[w].cancelled \/ worker[w].down
Live(w) == worker[w].step \in {"ready", "applying", "registering", "ended"}

-----------------------------------------------------------------------------
(* Manager *)

sameTelegramActivationConfig(s, t) == s.want = t.want /\ s.paused = t.paused

ManagerApply(want, paused) ==
    /\ latest.rev < MaxRevision
    /\ latest' = [rev |-> latest.rev + 1, want |-> want, paused |-> paused]
    /\ slot' = IF latest.rev = 0 \/ ~sameTelegramActivationConfig(latest, latest')
               THEN latest' ELSE slot
    /\ UNCHANGED <<run, cur, worker, activatorVars, counts>>

StartRun ==
    /\ run.step = "off" /\ counts.runs < MaxRuns
    /\ run' = [run EXCEPT !.step = "loop"]
    /\ slot' = IF latest.rev > 0 THEN latest ELSE slot
    /\ counts' = [counts EXCEPT !.runs = @ + 1]
    /\ UNCHANGED <<latest, cur, worker, activatorVars>>

CancelAll(ws) == [w \in Places |-> IF Finished(w) THEN ws[w]
                                   ELSE [ws[w] EXCEPT !.cancelled = TRUE]]

\* Close, the end of the caller's context, or an error of ListActive: every
\* worker's context is a child of the run's.
StopRun ==
    /\ run.step \in {"loop", "visit", "await"}
    /\ run' = [run EXCEPT !.step = "stopping", !.desired = {}, !.todo = {}]
    /\ worker' = CancelAll(worker)
    /\ UNCHANGED <<latest, slot, cur, activatorVars, counts>>

ResetExplicitLifecycle ==
    /\ scouts' = [a \in Accounts |-> 0]
    /\ senders' = [a \in Accounts |-> 0]
    /\ handler' = [a \in Accounts |-> "off"]
    /\ UNCHANGED <<epoch, watchers>>

EndRun ==
    /\ run.step = "stopping" /\ \A w \in Places : Finished(w)
    /\ run' = [run EXCEPT !.step = "off", !.snap = Unset]
    /\ cur' = [a \in Accounts |-> 0]
    /\ worker' = [w \in Places |-> Idle]
    /\ ResetExplicitLifecycle
    /\ UNCHANGED <<latest, slot, counts>>

\* The accounts a snapshot wants connected, of those the store lists as active
\* and eligible.
desired(s, active) == {a \in active : s.want[a].role # "none"}

TakeSnapshot(active) ==
    /\ run.step = "loop" /\ slot.rev > 0
    /\ run' = [step |-> "visit", snap |-> slot, desired |-> desired(slot, active),
               todo |-> {a \in Accounts : cur[a] # 0}]
    /\ slot' = Unset
    /\ UNCHANGED <<latest, cur, worker, activatorVars, counts>>

Keeps(a) == a \in run.desired /\ run.snap.want[a].route = worker[<<a, cur[a]>>].route

KeepUntold(a) ==
    /\ run.step = "visit" /\ a \in run.todo /\ Keeps(a)
    /\ run' = [run EXCEPT !.todo = @ \ {a}]
    /\ UNCHANGED <<latest, slot, cur, worker, activatorVars, counts>>
\* publish: the worker finds the snapshot at its next round.
KeepWorker(a) ==
    /\ run.step = "visit" /\ a \in run.todo /\ Keeps(a)
    /\ worker' = [worker EXCEPT ![<<a, cur[a]>>].snap =
                     IF Finished(<<a, cur[a]>>) THEN @ ELSE run.snap]
    /\ run' = [run EXCEPT !.todo = @ \ {a}]
    /\ UNCHANGED <<latest, slot, cur, activatorVars, counts>>

CancelWorker(a) ==
    /\ run.step = "visit" /\ a \in run.todo /\ ~Keeps(a)
    /\ worker' = [worker EXCEPT ![<<a, cur[a]>>].cancelled = TRUE]
    /\ run' = [run EXCEPT !.step = "await"]
    /\ UNCHANGED <<latest, slot, cur, activatorVars, counts>>

\* The loop waits for the cancelled worker's goroutine to end.
ForgetWorker(a) ==
    /\ run.step = "await" /\ a \in run.todo
    /\ worker[<<a, cur[a]>>].cancelled /\ Finished(<<a, cur[a]>>)
    /\ worker' = [worker EXCEPT ![<<a, cur[a]>>] = Idle]
    /\ cur' = [cur EXCEPT ![a] = 0]
    /\ run' = [run EXCEPT !.step = "visit", !.todo = @ \ {a}]
    /\ UNCHANGED <<latest, slot, activatorVars, counts>>

StartWorkers ==
    LET new == {a \in run.desired : cur[a] = 0}
        place(a) == IF Finished(<<a, 1>>) THEN 1 ELSE 2
    IN  /\ run.step = "visit" /\ run.todo = {}
        /\ cur' = [a \in Accounts |-> IF a \in new THEN place(a) ELSE cur[a]]
        /\ worker' = [w \in Places |->
                         IF w[1] \in new /\ w[2] = place(w[1])
                         THEN [Idle EXCEPT !.step = "connecting", !.snap = run.snap,
                                           !.route = run.snap.want[w[1]].route]
                         ELSE worker[w]]
        /\ run' = [run EXCEPT !.step = "loop", !.snap = Unset, !.desired = {}]
        /\ UNCHANGED <<latest, slot, activatorVars, counts>>

-----------------------------------------------------------------------------
(* supervise: one account's worker *)

Put(w, r) == worker' = [worker EXCEPT ![w] = r]
Ended(r) == [r EXCEPT !.step = IF r.cancelled THEN "finished" ELSE "waiting",
                      !.conn = 0, !.down = FALSE, !.applied = FALSE, !.using = Unset]

\* The client connects, proves the account's identity and calls back; its
\* session's handler is empty until an activation sets it.
Connect(w) ==
    LET a == w[1]
    IN  /\ At(w, "connecting") /\ ~worker[w].cancelled
        /\ counts.conn[a] < MaxConnects
        /\ counts' = [counts EXCEPT !.conn[a] = @ + 1]
        /\ Put(w, [worker[w] EXCEPT !.step = "ready", !.conn = counts.conn[a] + 1])
        /\ handler' = [handler EXCEPT ![a] = "off"]
        /\ UNCHANGED <<managerVars, scouts, epoch, watchers, senders>>

\* No client, no connection in time, another identity; Deactivate has nothing
\* to undo, and a duplicated key ends the worker for good.
ConnectFails(w) ==
    /\ At(w, "connecting")
    /\ \/ Put(w, Ended(worker[w]))
       \/ Put(w, [Ended(worker[w]) EXCEPT !.step = "finished"])
    /\ senders' = [senders EXCEPT ![w[1]] = 0]
    /\ UNCHANGED <<managerVars, scouts, epoch, watchers, handler, counts>>

RetryConnect(w) ==
    /\ At(w, "waiting")
    /\ Put(w, [worker[w] EXCEPT !.step = IF @ = "waiting" /\ worker[w].cancelled
                                         THEN "finished" ELSE "connecting"])
    /\ UNCHANGED <<managerVars, activatorVars, counts>>

NetworkDrops(w) ==
    /\ worker[w].step \in {"ready", "applying", "registering"} /\ ~worker[w].down
    /\ Put(w, [worker[w] EXCEPT !.down = TRUE])
    /\ UNCHANGED <<managerVars, activatorVars, counts>>

LeaveRun(w) ==
    /\ At(w, "ready") /\ ctxDone(w)
    /\ Put(w, [worker[w] EXCEPT !.step = "ended"])
    /\ UNCHANGED <<managerVars, activatorVars, counts>>

\* The client's Run is over: Deactivate, and again unless the worker is to end.
Deactivate(w) ==
    /\ At(w, "ended")
    /\ senders' = [senders EXCEPT ![w[1]] = 0]
    /\ \/ Put(w, Ended(worker[w]))
       \/ Put(w, [Ended(worker[w]) EXCEPT !.step = "finished"])
    /\ UNCHANGED <<managerVars, scouts, epoch, watchers, handler, counts>>

-----------------------------------------------------------------------------
(* Apply of the activator *)

Role(w) == worker[w].using.want[w[1]].role

\* A newer snapshot, or the ticker or a membership deadline.  A scout is
\* registered, and its disconnection watched, before the memberships.
BeginApply(w) ==
    LET a == w[1]
        s == worker[w].snap
        newer == ~worker[w].applied \/ s.rev > worker[w].using.rev
        scouting == s.want[a].role = "scout"
        counted == scouting /\ ~s.paused
    IN  /\ At(w, "ready")
        /\ newer \/ counts.checks[a] < MaxRechecks
        /\ counts' = IF newer THEN counts ELSE [counts EXCEPT !.checks[a] = @ + 1]
        /\ Put(w, [worker[w] EXCEPT !.step = "applying", !.using = s, !.applied = FALSE])
        /\ senders' = IF scouting THEN [senders EXCEPT ![a] = 0] ELSE senders
        /\ scouts' = IF counted THEN [scouts EXCEPT ![a] = worker[w].conn] ELSE scouts
        /\ epoch' = IF counted THEN [epoch EXCEPT ![a] = @ + 1] ELSE epoch
        /\ watchers' = IF counted
                       THEN watchers \cup {[acc |-> a, epoch |-> epoch'[a], conn |-> worker[w].conn]}
                       ELSE watchers
        /\ UNCHANGED <<managerVars, handler>>

\* An error of the store or of Telegram ends the client's Run.
ApplyFails(w) ==
    /\ worker[w].step \in {"applying", "registering"}
    /\ Put(w, [worker[w] EXCEPT !.step = "ended"])
    /\ senders' = IF At(w, "registering") THEN [senders EXCEPT ![w[1]] = 0] ELSE senders
    /\ UNCHANGED <<managerVars, scouts, epoch, watchers, handler, counts>>

Applied(r) == [r EXCEPT !.step = "ready", !.applied = TRUE]

\* Disable: nothing is dispatched and nobody is registered while paused.
FinishPaused(w) ==
    LET a == w[1]
    IN  /\ At(w, "applying") /\ worker[w].using.paused
        /\ Put(w, Applied(worker[w]))
        /\ handler' = [handler EXCEPT ![a] = "off"]
        /\ scouts' = [scouts EXCEPT ![a] = 0]
        /\ senders' = [senders EXCEPT ![a] = 0]
        /\ UNCHANGED <<managerVars, epoch, watchers, counts>>

FinishScout(w) ==
    LET a == w[1]
    IN  /\ At(w, "applying") /\ ~worker[w].using.paused /\ Role(w) = "scout"
        /\ Put(w, Applied(worker[w]))
        /\ handler' = [handler EXCEPT ![a] = "collect"]
        /\ scouts' = [scouts EXCEPT ![a] = worker[w].conn]
        /\ UNCHANGED <<managerVars, epoch, watchers, senders, counts>>

\* Its updates trigger from here on; RegisterSender then checks the memberships.
FinishOutbound(w) ==
    LET a == w[1]
    IN  /\ At(w, "applying") /\ ~worker[w].using.paused /\ Role(w) = "spammer"
        /\ Put(w, [worker[w] EXCEPT !.step = "registering"])
        /\ handler' = [handler EXCEPT ![a] = "trigger"]
        /\ scouts' = [scouts EXCEPT ![a] = 0]
        /\ epoch' = [epoch EXCEPT ![a] = @ + 1]
        /\ UNCHANGED <<managerVars, watchers, senders, counts>>

RegisterSender(w) ==
    /\ At(w, "registering")
    /\ Put(w, Applied(worker[w]))
    /\ senders' = [senders EXCEPT ![w[1]] = worker[w].conn]
    /\ UNCHANGED <<managerVars, scouts, epoch, watchers, handler, counts>>

\* The connection is over when no worker holds it with a context that runs.
Connected(a, c) == \E w \in Places : w[1] = a /\ Live(w) /\ worker[w].conn = c
                                     /\ ~ctxDone(w) /\ ~At(w, "ended")

UnregisterAnyway(x) ==
    /\ x \in watchers /\ ~Connected(x.acc, x.conn)
    /\ scouts' = [scouts EXCEPT ![x.acc] = 0]
    /\ watchers' = watchers \ {x}
    /\ UNCHANGED <<managerVars, worker, epoch, senders, handler, counts>>
unregisterScoutOnDisconnect(x) ==
    /\ x \in watchers /\ ~Connected(x.acc, x.conn)
    /\ scouts' = IF epoch[x.acc] = x.epoch THEN [scouts EXCEPT ![x.acc] = 0] ELSE scouts
    /\ watchers' = watchers \ {x}
    /\ UNCHANGED <<managerVars, worker, epoch, senders, handler, counts>>

-----------------------------------------------------------------------------
ManagerStep ==
    \/ \E active \in SUBSET Accounts : TakeSnapshot(active)
    \/ \E a \in Accounts : KeepWorker(a) \/ CancelWorker(a) \/ ForgetWorker(a)
    \/ StartWorkers \/ EndRun
WorkerStep(w) ==
    \/ ConnectFails(w) \/ Connect(w) \/ RetryConnect(w) \/ LeaveRun(w) \/ Deactivate(w)
    \/ BeginApply(w) \/ ApplyFails(w) \/ FinishPaused(w) \/ FinishScout(w)
    \/ FinishOutbound(w) \/ RegisterSender(w)

RuntimeNext ==
    \/ \E want \in [Accounts -> Wants], paused \in BOOLEAN : ManagerApply(want, paused)
    \/ StartRun \/ StopRun \/ ManagerStep
    \/ \E w \in Places : WorkerStep(w) \/ NetworkDrops(w)
    \/ \E x \in watchers : unregisterScoutOnDisconnect(x)

\* Goroutines that can run do run, and what they call returns.
RuntimeFairness == /\ WF_runtimeVars(ManagerStep)
                   /\ \A w \in Places : WF_runtimeVars(WorkerStep(w))

RuntimeSpec == RuntimeInit /\ [][RuntimeNext]_runtimeVars /\ RuntimeFairness

-----------------------------------------------------------------------------
(* Properties *)

RuntimeTypeOK ==
    /\ latest \in RuntimeSnapshots /\ slot \in RuntimeSnapshots
    /\ cur \in [Accounts -> 0 .. 2]
    /\ \A w \in Places : worker[w].step \in Steps /\ worker[w].conn \in 0 .. MaxConnects
    /\ scouts \in [Accounts -> 0 .. MaxConnects] /\ senders \in [Accounts -> 0 .. MaxConnects]
    /\ handler \in [Accounts -> {"off", "collect", "trigger"}]

\* However routes and roles change and the manager is restarted, an account
\* has one client at most: two would use its session at once.
OneClient ==
    \A w, v \in Places : w # v /\ w[1] = v[1]
        => Finished(w) \/ Finished(v)

\* Between two activations a connected worker's account is registered for the
\* role of the snapshot it applied, on this connection, and for no other:
\* nothing that an earlier connection left behind undoes it.
ServesWhatItApplied ==
    \A w \in Places :
        LET a == w[1]
            s == worker[w].using
        IN  At(w, "ready") /\ worker[w].applied /\ ~ctxDone(w) =>
            IF s.paused THEN scouts[a] = 0 /\ senders[a] = 0 /\ handler[a] = "off"
            ELSE IF Role(w) = "scout"
            THEN scouts[a] = worker[w].conn /\ senders[a] = 0 /\ handler[a] = "collect"
            ELSE senders[a] = worker[w].conn /\ scouts[a] = 0 /\ handler[a] = "trigger"

\* Settings reach the clients: unless the manager stops, in the end every
\* worker that serves has applied the newest configuration, although the
\* channels between them hold one snapshot and one signal only.
Settles ==
    \/ []<>(run.step \in {"off", "stopping"})
    \/ <>[](\A w \in Places : At(w, "ready") /\ worker[w].applied
                => sameTelegramActivationConfig(worker[w].using, latest))

\* A sender in the registry belongs to a client whose Run is not cleaned up:
\* no delivery is given to a connection that was replaced.
SenderHasItsClient ==
    \A a \in Accounts : senders[a] # 0 =>
        \E w \in Places : w[1] = a /\ Live(w) /\ worker[w].conn = senders[a]

\* Everything about one state of the workers: types, one client per account,
\* no sender without its client, and each account serves as it was applied.
RuntimeInv ==
    /\ RuntimeTypeOK /\ OneClient /\ SenderHasItsClient
    /\ ServesWhatItApplied

============================================================================
