---------------------------- MODULE ScheduledDM ----------------------------
(***************************************************************************)
(* Scheduled direct messages: tasks, their runs and deliveries             *)
(* (repository/sqlite/scheduled_dm_store.go), the service that starts,     *)
(* stops and cancels tasks (usecase/scheduled_dm.go, the Wails handlers)   *)
(* and the one runner that claims and sends deliveries                     *)
(* (usecase/scheduled_dm_runner.go).                                       *)
(*                                                                         *)
(* One transaction of the store is one step.  A handler that lists the     *)
(* tasks and then sets a status is two steps, and a RunOnce is the steps   *)
(* its phases name; anything may happen between two of them.  Whether a    *)
(* time has passed (next_run_at, next_attempt_at, lease_until) is left     *)
(* open, so a claim may find any of them due; the planned times themselves *)
(* are kept.                                                               *)
(***************************************************************************)
EXTENDS Integers, Sequences, FiniteSets

CONSTANTS
    Tasks,        \* task identifiers
    Recipients,   \* usernames
    Accounts,     \* account identifiers
    Callers,      \* concurrent calls of the start and stop handlers
    Drafts,       \* what the editor may submit
    MaxRuns,      \* largest max_runs (12 in the code)
    MaxContacts,  \* most recipients of a task (3 in the code)
    MaxSaves,     \* bound on how often a task is saved
    MaxCrashes,   \* bound on restarts and on failures of the runner
    NoTask        \* SQL NULL

RunNumbers == 1..MaxRuns
Ordinals   == 1..MaxContacts
NoTime     == -1

Draft == [recipients : Seq(Recipients), accounts : Seq(Accounts),
          start : Nat, interval : Nat, max : Nat]

ASSUME ScheduledDMAssumption ==
    /\ MaxRuns \in Nat \ {0}
    /\ MaxContacts \in Nat \ {0}
    /\ MaxSaves \in Nat
    /\ MaxCrashes \in Nat
    /\ Drafts \subseteq Draft
    /\ NoTask \notin Tasks

VARIABLES
    task,     \* scheduled_dm_tasks, with its recipients and accounts
    peer,     \* scheduled_dm_recipients.peer_status
    runs,     \* scheduled_dm_runs
    rows,     \* scheduled_dm_deliveries
    runner,   \* AutomationController and the RunOnce in progress
    call,     \* the start and stop handlers in progress
    drawn,    \* random identifiers drawn so far
    sent,     \* messages Telegram accepted
    crashes

vars == <<task, peer, runs, rows, runner, call, drawn, sent, crashes>>

-----------------------------------------------------------------------------
Statuses == {"absent", "paused", "active", "completed", "cancelled"}
PeerStatuses == {"none", "unchecked", "open", "closed", "invalid", "error"}
Terminal == {"sent", "closed", "failed"}
Phases == {"stopped", "idle", "claimed", "ready", "resolved", "sent",
           "closed", "invalid", "failed", "retry"}

TaskRow ==
    [status : Statuses, start : Nat, interval : Nat,
     max : RunNumbers, completed : 0..MaxRuns, next : Nat \cup {NoTime},
     recipients : Seq(Recipients), accounts : Seq(Accounts),
     saves : Nat]                       \* history: how often it was saved

RunRow == [made : BOOLEAN, scheduled : Nat, completed : BOOLEAN]

\* "none" is the absent row of an ordinal; lease "held" is the token of the
\* RunOnce in progress, "lost" a token nobody knows any more.
DeliveryRow ==
    [status : {"absent", "pending", "sending"} \cup Terminal,
     recipient : Recipients \cup {"none"}, account : Accounts \cup {"none"},
     random : Nat, lease : {"none", "held", "lost"}]

RunnerRow == [phase : Phases, task : Tasks \cup {NoTask},
              run : 0..MaxRuns, ordinal : 0..MaxContacts]

CallRow == [step : {"idle", "startRunner", "listForStart", "setActive",
                    "undo", "listForStop", "setPaused"},
            task : Tasks \cup {NoTask}, wasRunning : BOOLEAN]

Message == [task : Tasks, run : RunNumbers, recipient : Recipients,
            account : Accounts, random : Nat]

NoRow    == [status |-> "absent", recipient |-> "none", account |-> "none",
             random |-> 0, lease |-> "none"]
NoRun    == [made |-> FALSE, scheduled |-> 0, completed |-> FALSE]
NoCall   == [step |-> "idle", task |-> NoTask, wasRunning |-> FALSE]
AtRest(phase) == [phase |-> phase, task |-> NoTask, run |-> 0, ordinal |-> 0]

Init ==
    /\ task = [t \in Tasks |->
                 [status |-> "absent", start |-> 0, interval |-> 0, max |-> 1,
                  completed |-> 0, next |-> NoTime, recipients |-> <<>>,
                  accounts |-> <<>>, saves |-> 0]]
    /\ peer = [t \in Tasks |-> [r \in Recipients |-> "none"]]
    /\ runs = [t \in Tasks |-> [n \in RunNumbers |-> NoRun]]
    /\ rows = [t \in Tasks |-> [n \in RunNumbers |-> [i \in Ordinals |-> NoRow]]]
    /\ runner = AtRest("stopped")
    /\ call = [c \in Callers |-> NoCall]
    /\ drawn = 0
    /\ sent = {}
    /\ crashes = 0

-----------------------------------------------------------------------------
(* The service: Save, Start, Stop, Cancel.                                 *)

Listed(seq) == {seq[i] : i \in 1..Len(seq)}
Distinct(seq) == \A i, j \in 1..Len(seq) : seq[i] = seq[j] => i = j

\* validateScheduledDMDraft and NewScheduledDMTask; an interval of 0 is "once".
ValidDraft(d) ==
    /\ Len(d.recipients) \in Ordinals /\ Distinct(d.recipients)
    /\ Len(d.accounts) \in 1..3 /\ Distinct(d.accounts)
    /\ d.max \in RunNumbers
    /\ d.interval = 0 => d.max = 1

\* SaveTask: a saved task is paused, whatever it was; its runs stay.
Save(t, d) ==
    /\ task[t].saves < MaxSaves
    /\ ValidDraft(d)
    /\ task' = [task EXCEPT ![t] =
                  [status |-> "paused", start |-> d.start,
                   interval |-> d.interval, max |-> d.max, completed |-> 0,
                   next |-> d.start, recipients |-> d.recipients,
                   accounts |-> d.accounts, saves |-> task[t].saves + 1]]
    /\ peer' = [peer EXCEPT ![t] =
                  [r \in Recipients |->
                     IF r \in Listed(d.recipients) THEN "unchecked" ELSE "none"]]
    /\ UNCHANGED <<runs, rows, runner, call, drawn, sent, crashes>>

\* SetTaskStatus: COALESCE(next_run_at, start_at) when the task is activated.
WithStatus(row, status) ==
    [row EXCEPT !.status = status,
                !.next = IF status = "active" /\ row.next = NoTime
                         THEN row.start ELSE row.next]

Cancel(t) ==
    /\ task[t].status # "absent"
    /\ task' = [task EXCEPT ![t] = WithStatus(@, "cancelled")]
    /\ UNCHANGED <<peer, runs, rows, runner, call, drawn, sent, crashes>>

Move(c, step) == call' = [call EXCEPT ![c].step = step]
Return(c) == call' = [call EXCEPT ![c] = NoCall]

NotRestartable(t) == task[t].status \in {"completed", "cancelled"}

\* StartScheduledDMTask: Running(), Runner.Start, then Service.Start.
BeginStart(c, t) ==
    /\ call[c].step = "idle"
    /\ task[t].status # "absent"
    /\ call' = [call EXCEPT ![c] =
                  [step |-> "startRunner", task |-> t,
                   wasRunning |-> runner.phase # "stopped"]]
    /\ UNCHANGED <<task, peer, runs, rows, runner, drawn, sent, crashes>>

StartRunner(c) ==
    /\ call[c].step = "startRunner"
    /\ runner' = IF runner.phase = "stopped" THEN AtRest("idle") ELSE runner
    /\ Move(c, "listForStart")
    /\ UNCHANGED <<task, peer, runs, rows, drawn, sent, crashes>>

ListForStart(c) ==
    /\ call[c].step = "listForStart"
    /\ \/ ~NotRestartable(call[c].task) /\ Move(c, "setActive")
       \/ NotRestartable(call[c].task) /\ call[c].wasRunning /\ Return(c)
       \/ NotRestartable(call[c].task) /\ ~call[c].wasRunning /\ Move(c, "undo")
    /\ UNCHANGED <<task, peer, runs, rows, runner, drawn, sent, crashes>>

\* SetTaskStatus does not look at the status again.
SetActive(c) ==
    /\ call[c].step = "setActive"
    /\ task' = [task EXCEPT ![call[c].task] = WithStatus(@, "active")]
    /\ Return(c)
    /\ UNCHANGED <<peer, runs, rows, runner, drawn, sent, crashes>>

BeginStop(c, t) ==
    /\ call[c].step = "idle"
    /\ task[t].status # "absent"
    /\ call' = [call EXCEPT ![c] = [step |-> "listForStop", task |-> t,
                                    wasRunning |-> FALSE]]
    /\ UNCHANGED <<task, peer, runs, rows, runner, drawn, sent, crashes>>

ListForStop(c) ==
    /\ call[c].step = "listForStop"
    /\ IF NotRestartable(call[c].task) THEN Return(c) ELSE Move(c, "setPaused")
    /\ UNCHANGED <<task, peer, runs, rows, runner, drawn, sent, crashes>>

SetPaused(c) ==
    /\ call[c].step = "setPaused"
    /\ task' = [task EXCEPT ![call[c].task] = WithStatus(@, "paused")]
    /\ Return(c)
    /\ UNCHANGED <<peer, runs, rows, runner, drawn, sent, crashes>>

-----------------------------------------------------------------------------
(* The runner.  A lease whose RunOnce ends without a result is lost.       *)

Dropped(row) == [row EXCEPT !.lease = IF @ = "held" THEN "lost" ELSE @]

RunnerEnds ==
    /\ runner' = AtRest("stopped")
    /\ rows' = [t \in Tasks |-> [n \in RunNumbers |-> [i \in Ordinals |->
                  Dropped(rows[t][n][i])]]]

\* Runner.Stop: the context is cancelled in whatever phase RunOnce is.
UndoStart(c) ==
    /\ call[c].step = "undo"
    /\ RunnerEnds
    /\ Return(c)
    /\ UNCHANGED <<task, peer, runs, drawn, sent, crashes>>

\* RunOnce returns an error of the store and Run ends with it.
RunnerFails ==
    /\ runner.phase # "stopped"
    /\ crashes < MaxCrashes
    /\ crashes' = crashes + 1
    /\ RunnerEnds
    /\ UNCHANGED <<task, peer, runs, call, drawn, sent>>

\* The process ends; opening the database pauses what was active.
Restart ==
    /\ crashes < MaxCrashes
    /\ crashes' = crashes + 1
    /\ RunnerEnds
    /\ task' = [t \in Tasks |-> IF task[t].status = "active"
                                THEN [task[t] EXCEPT !.status = "paused"]
                                ELSE task[t]]
    /\ call' = [c \in Callers |-> NoCall]
    /\ UNCHANGED <<peer, runs, drawn, sent>>

\* materializeDueRun: the task's next run has no row yet.
Materializable(t) ==
    /\ task[t].status = "active"
    /\ task[t].next # NoTime
    /\ task[t].completed < task[t].max
    /\ ~runs[t][task[t].completed + 1].made

\* accounts[ordinal % len(accounts)]
Assigned(accounts, i) == accounts[((i - 1) % Len(accounts)) + 1]

RunsWith(m) ==
    IF m = NoTask THEN runs
    ELSE [runs EXCEPT ![m][task[m].completed + 1] =
            [made |-> TRUE, scheduled |-> task[m].next, completed |-> FALSE]]

NewRows(row) ==
    [i \in Ordinals |->
       IF i <= Len(row.recipients)
       THEN [status |-> "pending", recipient |-> row.recipients[i],
             account |-> Assigned(row.accounts, i), random |-> drawn + i,
             lease |-> "none"]
       ELSE NoRow]

RowsWith(m) ==
    IF m = NoTask THEN rows
    ELSE [rows EXCEPT ![m][task[m].completed + 1] = NewRows(task[m])]

\* Mutant: an expired lease is never taken over.
ClaimableIfPending(row) == row.status = "pending"

Claimable(row) ==
    row.status = "pending" \/ (row.status = "sending" /\ row.lease = "lost")

\* ClaimDueDelivery: one transaction creates at most one due run and leases
\* at most one due delivery of an active task.
Claim(m, t, n, i) ==
    /\ runner.phase = "idle"
    /\ m # NoTask => Materializable(m)
    /\ task[t].status = "active"
    /\ Claimable(RowsWith(m)[t][n][i])
    /\ runs' = RunsWith(m)
    /\ rows' = [RowsWith(m) EXCEPT ![t][n][i] =
                  [@ EXCEPT !.status = "sending", !.lease = "held"]]
    /\ drawn' = IF m = NoTask THEN drawn ELSE drawn + MaxContacts
    /\ runner' = [phase |-> "claimed", task |-> t, run |-> n, ordinal |-> i]
    /\ UNCHANGED <<task, peer, call, sent, crashes>>

Current == rows[runner.task][runner.run][runner.ordinal]

Reach(phase) == runner' = [runner EXCEPT !.phase = phase]

StoreUnchanged == UNCHANGED <<task, peer, runs, rows, call, drawn, crashes>>

\* assignedAccount: the delivery's own account, or none.
FindAccount ==
    /\ runner.phase = "claimed"
    /\ Reach("ready")
    /\ StoreUnchanged /\ UNCHANGED sent

AccountUnavailable ==
    /\ runner.phase = "claimed"
    /\ Reach("retry")
    /\ StoreUnchanged /\ UNCHANGED sent

ResolveUsername(outcome) ==
    /\ runner.phase = "ready"
    /\ Reach(outcome)
    /\ StoreUnchanged /\ UNCHANGED sent

MessageOf(t, n, row) ==
    [task |-> t, run |-> n, recipient |-> row.recipient,
     account |-> row.account, random |-> row.random]

\* Telegram accepts the message; the answer may still be lost.
SendAccepted(outcome) ==
    /\ runner.phase = "resolved"
    /\ sent' = sent \cup {MessageOf(runner.task, runner.run, Current)}
    /\ Reach(outcome)
    /\ StoreUnchanged

SendRefused(outcome) ==
    /\ runner.phase = "resolved"
    /\ Reach(outcome)
    /\ StoreUnchanged /\ UNCHANGED sent

DelayDelivery ==
    /\ runner.phase = "retry"
    /\ Current.status = "sending" /\ Current.lease = "held"
    /\ rows' = [rows EXCEPT ![runner.task][runner.run][runner.ordinal] =
                  [@ EXCEPT !.status = "pending", !.lease = "none"]]
    /\ runner' = AtRest("idle")
    /\ UNCHANGED <<task, peer, runs, call, drawn, sent, crashes>>

Result(phase) == IF phase = "invalid" THEN "failed" ELSE phase

PeerStatus(phase) ==
    CASE phase = "sent"    -> "open"
      [] phase = "closed"  -> "closed"
      [] phase = "invalid" -> "invalid"
      [] phase = "failed"  -> "error"

OpenRow(row) == row.status \in {"pending", "sending"}

\* No delivery of the run but the i-th is open.
Finished(t, n, i) == \A k \in Ordinals : k # i => ~OpenRow(rows[t][n][k])

\* Mutant: a run is counted twice.
RunCountedTwice(t, n) ==
    IF n >= task[t].max \/ task[t].interval = 0
    THEN [task[t] EXCEPT !.completed = n + 1, !.status = "completed",
                         !.next = NoTime]
    ELSE [task[t] EXCEPT !.completed = n + 1,
                         !.next = runs[t][n].scheduled + task[t].interval]

\* completeRun; the status is overwritten whatever it is.
RunCounted(t, n) ==
    IF n >= task[t].max \/ task[t].interval = 0
    THEN [task[t] EXCEPT !.completed = n, !.status = "completed",
                         !.next = NoTime]
    ELSE [task[t] EXCEPT !.completed = n,
                         !.next = runs[t][n].scheduled + task[t].interval]

EndsRun(t, n, i) == Finished(t, n, i) /\ ~runs[t][n].completed

CompleteDelivery ==
    LET t == runner.task
        n == runner.run
        i == runner.ordinal
    IN  /\ runner.phase \in {"sent", "closed", "invalid", "failed"}
        /\ Current.status = "sending" /\ Current.lease = "held"
        /\ EndsRun(t, n, i) => n <= task[t].max
        /\ rows' = [rows EXCEPT ![t][n][i] =
                      [@ EXCEPT !.status = Result(runner.phase), !.lease = "none"]]
        /\ peer' = [peer EXCEPT ![t] = [r \in Recipients |->
                      IF r = Current.recipient /\ @[r] # "none"
                      THEN PeerStatus(runner.phase) ELSE @[r]]]
        /\ IF EndsRun(t, n, i)
           THEN /\ runs' = [runs EXCEPT ![t][n].completed = TRUE]
                /\ task' = [task EXCEPT ![t] = RunCounted(t, n)]
           ELSE UNCHANGED <<runs, task>>
        /\ runner' = AtRest("idle")
        /\ UNCHANGED <<call, drawn, sent, crashes>>

\* CHECK(completed_runs BETWEEN 0 AND max_runs) fails, the transaction is
\* rolled back and the error ends the runner.
CompleteRejected ==
    LET t == runner.task
        n == runner.run
    IN  /\ runner.phase \in {"sent", "closed", "invalid", "failed"}
        /\ EndsRun(t, n, runner.ordinal) /\ n > task[t].max
        /\ RunnerEnds
        /\ UNCHANGED <<task, peer, runs, call, drawn, sent, crashes>>

-----------------------------------------------------------------------------
RunnerStep ==
    \/ \E m \in Tasks \cup {NoTask}, t \in Tasks, n \in RunNumbers,
          i \in Ordinals : Claim(m, t, n, i)
    \/ FindAccount
    \/ AccountUnavailable
    \/ \E outcome \in {"resolved", "closed", "invalid", "retry"} :
          ResolveUsername(outcome)
    \/ \E outcome \in {"sent", "retry"} : SendAccepted(outcome)
    \/ \E outcome \in {"closed", "failed", "retry"} : SendRefused(outcome)
    \/ DelayDelivery
    \/ CompleteDelivery
    \/ CompleteRejected

CallStep(c) ==
    \/ \E t \in Tasks : BeginStart(c, t) \/ BeginStop(c, t)
    \/ StartRunner(c) \/ ListForStart(c) \/ SetActive(c) \/ UndoStart(c)
    \/ ListForStop(c) \/ SetPaused(c)

Next ==
    \/ RunnerStep
    \/ \E c \in Callers : CallStep(c)
    \/ \E t \in Tasks : Cancel(t) \/ \E d \in Drafts : Save(t, d)
    \/ RunnerFails
    \/ Restart

Spec == Init /\ [][Next]_vars

\* The runner's loop goes on; of the accounts looked up again and again one
\* is found in the end, and of the usernames and messages tried again and
\* again one meets no temporary error.  None is promised to any one delivery.
Fairness ==
    /\ WF_vars(RunnerStep)
    /\ SF_vars(FindAccount)
    /\ SF_vars(\E o \in {"resolved", "closed", "invalid"} : ResolveUsername(o))
    /\ SF_vars(SendAccepted("sent") \/ \E o \in {"closed", "failed"} : SendRefused(o))

FairSpec == Spec /\ Fairness

-----------------------------------------------------------------------------
\* The rows are of the types migration 22 declares, its
\* CHECK(completed_runs BETWEEN 0 AND max_runs) included.
TypeOK ==
    /\ task \in [Tasks -> TaskRow]
    /\ \A t \in Tasks : task[t].completed <= task[t].max
    /\ peer \in [Tasks -> [Recipients -> PeerStatuses]]
    /\ runs \in [Tasks -> [RunNumbers -> RunRow]]
    /\ rows \in [Tasks -> [RunNumbers -> [Ordinals -> DeliveryRow]]]
    /\ runner \in RunnerRow
    /\ call \in [Callers -> CallRow]
    /\ drawn \in Nat
    /\ sent \subseteq Message
    /\ crashes \in Nat

\* In one run a recipient gets at most one message: every accepted attempt,
\* also after a lost answer, a restart or an edited task, was made by the same
\* account with the same random identifier, which Telegram deduplicates.
OneMessagePerRun ==
    \A x, y \in sent :
        (x.task = y.task /\ x.run = y.run /\ x.recipient = y.recipient) => x = y

\* A task never has two open runs: the next one is created only once every
\* delivery of the one before is final, whatever was saved, restarted or
\* reclaimed in between.
OneOpenRun ==
    \A t \in Tasks : \A n, k \in RunNumbers :
        (n < k /\ runs[t][k].made) =>
            /\ runs[t][n].made /\ runs[t][n].completed
            /\ \A i \in Ordinals : ~OpenRow(rows[t][n][i])

\* A run is recorded as complete exactly when none of its deliveries is open,
\* so no delivery is left behind and no finished run blocks the schedule.
RunCompletedExactly ==
    \A t \in Tasks : \A n \in RunNumbers :
        runs[t][n].made =>
            (runs[t][n].completed <=> \A i \in Ordinals : ~OpenRow(rows[t][n][i]))

\* Delays, retries and restarts do not shift the schedule: in a task saved
\* once, run n is planned at start + (n-1) * interval.
ScheduleKept ==
    \A t \in Tasks : task[t].saves = 1 =>
        \A n \in RunNumbers : runs[t][n].made =>
            runs[t][n].scheduled = task[t].start + (n - 1) * task[t].interval

\* A task saved once that reads "completed" has made and finished every run.
CompletedMeansDone ==
    \A t \in Tasks : (task[t].saves = 1 /\ task[t].status = "completed") =>
        \A n \in 1..task[t].max : runs[t][n].made /\ runs[t][n].completed

\* "open" is only ever shown for a recipient some message was accepted for.
OpenMeansSent ==
    \A t \in Tasks : \A r \in Recipients : peer[t][r] = "open" =>
        \E x \in sent : x.task = t /\ x.recipient = r

\* Again and again no delivery of an active task is open, however many runs it
\* makes, unless the task stops being active or the runner ends.
OpenDeliveryEnds ==
    \A t \in Tasks :
        []<>(\/ \A n \in RunNumbers : \A i \in Ordinals : ~OpenRow(rows[t][n][i])
             \/ task[t].status # "active"
             \/ runner.phase = "stopped")

-----------------------------------------------------------------------------
(* The inductive invariant: what makes the properties above hold.          *)

\* A saved task has recipients and accounts; an unsaved one has nothing.
SavedOK ==
    \A t \in Tasks :
        /\ task[t].status = "absent" <=> task[t].saves = 0
        /\ task[t].saves = 0 => \A n \in RunNumbers : ~runs[t][n].made
        /\ task[t].saves > 0 =>
             /\ Len(task[t].recipients) \in Ordinals
             /\ Distinct(task[t].recipients)
             /\ Len(task[t].accounts) > 0
             /\ task[t].interval = 0 => task[t].max = 1

\* A handler works on a task that exists.
CallOK ==
    \A c \in Callers : call[c].step # "idle" =>
        call[c].task \in Tasks /\ task[call[c].task].saves > 0

\* Runs are made in order, each after the one before is complete, and the
\* last counted run is complete.
RunOrder ==
    \A t \in Tasks :
        /\ task[t].completed > 0 => runs[t][task[t].completed].completed
        /\ \A n \in RunNumbers :
             /\ runs[t][n].completed => runs[t][n].made
             /\ ~runs[t][n].made =>
                  \A i \in Ordinals : rows[t][n][i].status = "absent"
        /\ \A n, k \in RunNumbers : (n < k /\ runs[t][k].made) =>
             runs[t][n].made /\ runs[t][n].completed

\* A delivery names a recipient and an account; a run's recipients differ.
RowsOK ==
    \A t \in Tasks : \A n \in RunNumbers : \A i \in Ordinals :
        rows[t][n][i].status # "absent" =>
            /\ rows[t][n][i].recipient \in Recipients
            /\ rows[t][n][i].account \in Accounts
            /\ \A k \in Ordinals :
                 (rows[t][n][k].status # "absent"
                  /\ rows[t][n][k].recipient = rows[t][n][i].recipient) => k = i

\* Every accepted message is the one its delivery describes.
SentOK ==
    \A x \in sent : \E i \in Ordinals :
        /\ rows[x.task][x.run][i].status # "absent"
        /\ x = MessageOf(x.task, x.run, rows[x.task][x.run][i])

\* The runner works on a delivery it holds the lease of; it reports "sent"
\* only once the message was accepted.
RunnerOK ==
    runner.phase \notin {"stopped", "idle"} =>
        /\ runner.task \in Tasks /\ runner.run \in RunNumbers
        /\ runner.ordinal \in Ordinals
        /\ Current.status = "sending" /\ Current.lease = "held"
        /\ runner.phase = "sent" =>
             MessageOf(runner.task, runner.run, Current) \in sent

\* The planned time of the next run, for a task saved once.
NextOK ==
    \A t \in Tasks : (task[t].saves = 1 /\ task[t].completed < task[t].max) =>
        task[t].next = task[t].start + task[t].completed * task[t].interval

\* The inductive invariant of the store, the runner and the handlers.
ScheduledDMInv ==
    /\ TypeOK /\ SavedOK /\ CallOK /\ RunOrder /\ RunCompletedExactly
    /\ RowsOK /\ SentOK /\ RunnerOK /\ OpenMeansSent /\ NextOK
    /\ ScheduleKept /\ CompletedMeansDone

-----------------------------------------------------------------------------
=============================================================================
