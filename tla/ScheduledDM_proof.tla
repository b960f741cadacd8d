------------------------- MODULE ScheduledDM_proof -------------------------
(***************************************************************************)
(* ScheduledDMInv is an inductive invariant of ScheduledDM, and the safety *)
(* properties the runs check follow from it, for every set of tasks,       *)
(* recipients, accounts and drafts and every bound.                        *)
(***************************************************************************)
EXTENDS ScheduledDM, SequenceTheorems, TLAPS

-----------------------------------------------------------------------------
(* The initial state.                                                      *)

\* An empty store satisfies the inductive invariant.
LEMMA InitInv == Init => ScheduledDMInv
<1> SUFFICES ASSUME Init PROVE ScheduledDMInv
  OBVIOUS
<1>1. TypeOK
  <2>1. task \in [Tasks -> TaskRow]
    BY ScheduledDMAssumption DEF Init, TaskRow, Statuses, RunNumbers, NoTime
  <2>2. rows \in [Tasks -> [RunNumbers -> [Ordinals -> DeliveryRow]]]
    BY DEF Init, NoRow, DeliveryRow
  <2>3. runner \in RunnerRow
    BY ScheduledDMAssumption DEF Init, AtRest, RunnerRow, Phases
  <2>4. call \in [Callers -> CallRow]
    BY DEF Init, NoCall, CallRow
  <2>5. runs \in [Tasks -> [RunNumbers -> RunRow]]
    BY DEF Init, NoRun, RunRow
  <2> QED
    BY <2>1, <2>2, <2>3, <2>4, <2>5, ScheduledDMAssumption
    DEF Init, TypeOK, PeerStatuses
<1>2. SavedOK /\ NextOK /\ ScheduleKept /\ CompletedMeansDone
  BY DEF Init, SavedOK, NextOK, ScheduleKept, CompletedMeansDone, NoRun
<1>3. CallOK /\ RunnerOK
  BY DEF Init, CallOK, RunnerOK, NoCall, AtRest
<1>4. RunOrder /\ RunCompletedExactly
  BY ScheduledDMAssumption
  DEF Init, RunOrder, RunCompletedExactly, NoRun, NoRow, RunNumbers
<1>5. RowsOK /\ SentOK /\ OpenMeansSent
  BY DEF Init, RowsOK, SentOK, OpenMeansSent, NoRow
<1> QED
  BY <1>1, <1>2, <1>3, <1>4, <1>5 DEF ScheduledDMInv

\* A runner at rest is a runner.
LEMMA AtRestType ==
    \A phase \in {"stopped", "idle"} : AtRest(phase) \in RunnerRow
  BY ScheduledDMAssumption DEF AtRest, RunnerRow, Phases

-----------------------------------------------------------------------------
(* Steps that only move the runner's phase or record an accepted message.  *)

\* A RunOnce that goes on without touching the store.
LEMMA PhaseInv ==
    ASSUME ScheduledDMInv, StoreUnchanged,
           NEW q \in Phases, runner' = [runner EXCEPT !.phase = q],
           runner.phase \notin {"stopped", "idle"},
           q \notin {"stopped", "idle"},
           \/ sent' = sent /\ q # "sent"
           \/ sent' = sent \cup {MessageOf(runner.task, runner.run, Current)}
    PROVE  ScheduledDMInv'
<1> USE DEF StoreUnchanged
<1> DEFINE m == MessageOf(runner.task, runner.run, Current)
<1>1. /\ runner.task \in Tasks /\ runner.run \in RunNumbers
      /\ runner.ordinal \in Ordinals
      /\ Current.status = "sending" /\ Current.lease = "held"
  BY DEF ScheduledDMInv, RunnerOK
<1>2. /\ runner' \in RunnerRow /\ runner'.phase = q
      /\ runner'.task = runner.task /\ runner'.run = runner.run
      /\ runner'.ordinal = runner.ordinal
  BY DEF ScheduledDMInv, TypeOK, RunnerRow
<1>3. Current' = Current
  BY <1>2 DEF Current
<1>4. m \in Message
  <2>1. Current.recipient \in Recipients /\ Current.account \in Accounts
    BY <1>1 DEF ScheduledDMInv, RowsOK, Current
  <2>2. rows[runner.task][runner.run][runner.ordinal] \in DeliveryRow
    BY <1>1 DEF ScheduledDMInv, TypeOK
  <2>3. Current.random \in Nat
    BY <2>2 DEF Current, DeliveryRow
  <2> QED
    BY <1>1, <2>1, <2>3 DEF MessageOf, Message
<1>5. TypeOK'
  BY <1>2, <1>4 DEF ScheduledDMInv, TypeOK
<1>6. SavedOK' /\ CallOK' /\ NextOK' /\ ScheduleKept' /\ CompletedMeansDone'
  BY DEF ScheduledDMInv, SavedOK, CallOK, NextOK, ScheduleKept,
     CompletedMeansDone
<1>7. RunOrder' /\ RunCompletedExactly' /\ RowsOK'
  BY DEF ScheduledDMInv, RunOrder, RunCompletedExactly, RowsOK
<1>8. SentOK'
  <2> SUFFICES ASSUME NEW x \in sent'
               PROVE  \E i \in Ordinals :
                        /\ rows[x.task][x.run][i].status # "absent"
                        /\ x = MessageOf(x.task, x.run, rows[x.task][x.run][i])
    BY DEF SentOK, MessageOf
  <2>1. CASE x \in sent
    BY <2>1 DEF ScheduledDMInv, SentOK
  <2>2. CASE x = m
    BY <2>2, <1>1 DEF MessageOf, Current
  <2> QED
    BY <2>1, <2>2
<1>9. RunnerOK'
  BY <1>1, <1>2, <1>3 DEF RunnerOK, MessageOf
<1>10. OpenMeansSent'
  BY DEF ScheduledDMInv, OpenMeansSent
<1> QED
  BY <1>5, <1>6, <1>7, <1>8, <1>9, <1>10 DEF ScheduledDMInv

\* The steps of RunOnce that ask accounts and Telegram.
LEMMA RunnerPhases ==
    ASSUME ScheduledDMInv,
           \/ FindAccount
           \/ AccountUnavailable
           \/ \E outcome \in {"resolved", "closed", "invalid", "retry"} :
                ResolveUsername(outcome)
           \/ \E outcome \in {"sent", "retry"} : SendAccepted(outcome)
           \/ \E outcome \in {"closed", "failed", "retry"} : SendRefused(outcome)
    PROVE  ScheduledDMInv'
<1>1. CASE FindAccount
  BY <1>1, PhaseInv DEF FindAccount, Reach, Phases
<1>2. CASE AccountUnavailable
  BY <1>2, PhaseInv DEF AccountUnavailable, Reach, Phases
<1>3. CASE \E outcome \in {"resolved", "closed", "invalid", "retry"} :
             ResolveUsername(outcome)
  BY <1>3, PhaseInv DEF ResolveUsername, Reach, Phases
<1>4. CASE \E outcome \in {"sent", "retry"} : SendAccepted(outcome)
  BY <1>4, PhaseInv DEF SendAccepted, Reach, Phases
<1>5. CASE \E outcome \in {"closed", "failed", "retry"} : SendRefused(outcome)
  BY <1>5, PhaseInv DEF SendRefused, Reach, Phases
<1> QED
  BY <1>1, <1>2, <1>3, <1>4, <1>5

-----------------------------------------------------------------------------
(* Steps of the handlers that leave the store alone.                       *)

\* A handler that advances keeps the handlers well formed.
LEMMA CallUpdate ==
    ASSUME TypeOK, CallOK, NEW c \in Callers, NEW z \in CallRow,
           call' = [call EXCEPT ![c] = z],
           z.step # "idle" => z.task \in Tasks /\ task[z.task].saves > 0,
           \A t \in Tasks : task'[t].saves = task[t].saves
    PROVE  call' \in [Callers -> CallRow] /\ CallOK'
<1>1. call' \in [Callers -> CallRow]
  BY DEF TypeOK
<1>2. \A b \in Callers : call'[b] = IF b = c THEN z ELSE call[b]
  BY DEF TypeOK
<1> QED
  BY <1>1, <1>2 DEF CallOK

\* Move and Return advance one handler.
LEMMA CallMoveOrReturn ==
    ASSUME TypeOK, CallOK, NEW c \in Callers,
           \/ Return(c)
           \/ /\ call[c].step # "idle"
              /\ \E s \in {"listForStart", "setActive", "undo", "setPaused"} :
                    Move(c, s),
           \A t \in Tasks : task'[t].saves = task[t].saves
    PROVE  call' \in [Callers -> CallRow] /\ CallOK'
<1>1. CASE Return(c)
  <2>1. NoCall \in CallRow /\ NoCall.step = "idle"
    BY DEF NoCall, CallRow
  <2> QED
    BY <1>1, <2>1, CallUpdate DEF Return
<1>2. CASE /\ call[c].step # "idle"
           /\ \E s \in {"listForStart", "setActive", "undo", "setPaused"} :
                 Move(c, s)
  <2> PICK s \in {"listForStart", "setActive", "undo", "setPaused"} : Move(c, s)
    BY <1>2
  <2> DEFINE z == [call[c] EXCEPT !.step = s]
  <2>1. call[c] \in CallRow
    BY DEF TypeOK
  <2>2. z \in CallRow /\ z.task = call[c].task
    BY <2>1 DEF CallRow
  <2>3. call' = [call EXCEPT ![c] = z]
    BY DEF Move
  <2>4. z.task \in Tasks /\ task[z.task].saves > 0
    BY <1>2, <2>2 DEF CallOK
  <2> HIDE DEF z
  <2> QED
    BY <2>2, <2>3, <2>4, CallUpdate
<1> QED
  BY <1>1, <1>2

\* The steps of the start and stop handlers that change no task.
LEMMA CallMoves ==
    ASSUME ScheduledDMInv, NEW c \in Callers,
           \/ \E t \in Tasks : BeginStart(c, t) \/ BeginStop(c, t)
           \/ StartRunner(c) \/ ListForStart(c) \/ ListForStop(c)
    PROVE  ScheduledDMInv'
<1>1. UNCHANGED <<task, peer, runs, rows, drawn, sent, crashes>>
  BY DEF BeginStart, BeginStop, StartRunner, ListForStart, ListForStop
<1>2. runner' = runner \/ (runner.phase = "stopped" /\ runner' = AtRest("idle"))
  BY DEF BeginStart, BeginStop, StartRunner, ListForStart, ListForStop
<1>3. call' \in [Callers -> CallRow] /\ CallOK'
  <2>1. ASSUME NEW t \in Tasks, BeginStart(c, t) \/ BeginStop(c, t)
        PROVE  call' \in [Callers -> CallRow] /\ CallOK'
    <3>1. task[t].saves > 0
      BY <2>1 DEF BeginStart, BeginStop, ScheduledDMInv, SavedOK, TypeOK, TaskRow
    <3> DEFINE z(step, was) == [step |-> step, task |-> t, wasRunning |-> was]
    <3>2. CASE BeginStart(c, t)
      <4>1. z("startRunner", runner.phase # "stopped") \in CallRow
        BY DEF CallRow
      <4> QED
        BY <3>1, <3>2, <4>1, <1>1, CallUpdate DEF BeginStart, ScheduledDMInv
    <3>3. CASE BeginStop(c, t)
      <4>1. z("listForStop", FALSE) \in CallRow
        BY DEF CallRow
      <4> QED
        BY <3>1, <3>3, <4>1, <1>1, CallUpdate DEF BeginStop, ScheduledDMInv
    <3> QED
      BY <2>1, <3>2, <3>3
  <2>2. CASE StartRunner(c) \/ ListForStart(c) \/ ListForStop(c)
    BY <2>2, <1>1, CallMoveOrReturn
    DEF StartRunner, ListForStart, ListForStop, ScheduledDMInv
  <2> QED
    BY <2>1, <2>2
<1>4. TypeOK'
  BY <1>1, <1>2, <1>3, ScheduledDMAssumption
  DEF ScheduledDMInv, TypeOK, AtRest, RunnerRow, Phases
<1>5. RunnerOK'
  BY <1>1, <1>2 DEF ScheduledDMInv, RunnerOK, AtRest, Current, MessageOf
<1>6. SavedOK' /\ NextOK' /\ ScheduleKept' /\ CompletedMeansDone'
  BY <1>1 DEF ScheduledDMInv, SavedOK, NextOK, ScheduleKept, CompletedMeansDone
<1>7. RunOrder' /\ RunCompletedExactly' /\ RowsOK' /\ SentOK' /\ OpenMeansSent'
  BY <1>1 DEF ScheduledDMInv, RunOrder, RunCompletedExactly, RowsOK, SentOK,
     OpenMeansSent
<1> QED
  BY <1>3, <1>4, <1>5, <1>6, <1>7 DEF ScheduledDMInv
-----------------------------------------------------------------------------
(* Steps that set the status of a task.                                    *)

\* SetTaskStatus keeps the invariant, whatever the status was.
LEMMA StatusInv ==
    ASSUME ScheduledDMInv, NEW t \in Tasks, task[t].saves > 0,
           NEW s \in {"active", "paused", "cancelled"},
           task' = [task EXCEPT ![t] = WithStatus(@, s)],
           call' \in [Callers -> CallRow], CallOK',
           UNCHANGED <<peer, runs, rows, runner, drawn, sent, crashes>>
    PROVE  ScheduledDMInv'
<1>1. task \in [Tasks -> TaskRow]
  BY DEF ScheduledDMInv, TypeOK
<1>2. /\ WithStatus(task[t], s) \in TaskRow
      /\ WithStatus(task[t], s).status = s
      /\ WithStatus(task[t], s).saves = task[t].saves
      /\ WithStatus(task[t], s).start = task[t].start
      /\ WithStatus(task[t], s).interval = task[t].interval
      /\ WithStatus(task[t], s).max = task[t].max
      /\ WithStatus(task[t], s).completed = task[t].completed
      /\ WithStatus(task[t], s).recipients = task[t].recipients
      /\ WithStatus(task[t], s).accounts = task[t].accounts
      /\ task[t].next # NoTime => WithStatus(task[t], s).next = task[t].next
  BY <1>1 DEF WithStatus, TaskRow, Statuses
<1>3. /\ task' \in [Tasks -> TaskRow]
      /\ \A u \in Tasks :
           /\ task'[u].saves = task[u].saves
           /\ task'[u].start = task[u].start
           /\ task'[u].interval = task[u].interval
           /\ task'[u].max = task[u].max
           /\ task'[u].completed = task[u].completed
           /\ task'[u].recipients = task[u].recipients
           /\ task'[u].accounts = task[u].accounts
           /\ task[u].next # NoTime => task'[u].next = task[u].next
           /\ task'[u].status = task[u].status \/ (u = t /\ task'[u].status = s)
  BY <1>1, <1>2
<1>4. TypeOK'
  BY <1>3 DEF ScheduledDMInv, TypeOK
<1>5. SavedOK'
  BY <1>3 DEF ScheduledDMInv, SavedOK, TypeOK, TaskRow, Distinct
<1>6. NextOK'
  <2> SUFFICES ASSUME NEW u \in Tasks, task[u].saves = 1,
                      task[u].completed < task[u].max
               PROVE  task'[u].next =
                        task[u].start + task[u].completed * task[u].interval
    BY <1>3 DEF NextOK
  <2> DEFINE p == task[u].completed * task[u].interval
  <2>1. task[u].next = task[u].start + p
    BY DEF ScheduledDMInv, NextOK
  <2>2. task[u] \in TaskRow
    BY <1>1
  <2>3. p \in Nat /\ task[u].start \in Nat
    BY <2>2, ScheduledDMAssumption DEF TaskRow
  <2> HIDE DEF p
  <2>4. task[u].next # NoTime
    BY <2>1, <2>3 DEF NoTime
  <2> QED
    BY <2>1, <2>4, <1>3 DEF p
<1>7. ScheduleKept' /\ CompletedMeansDone'
  BY <1>3 DEF ScheduledDMInv, ScheduleKept, CompletedMeansDone
<1>8. RunOrder'
  BY <1>3 DEF ScheduledDMInv, RunOrder
<1>9. RunCompletedExactly' /\ RowsOK' /\ SentOK' /\ OpenMeansSent'
  BY DEF ScheduledDMInv, RunCompletedExactly, RowsOK, SentOK, OpenMeansSent
<1>10. RunnerOK'
  BY DEF ScheduledDMInv, RunnerOK, Current, MessageOf
<1> QED
  BY <1>4, <1>5, <1>6, <1>7, <1>8, <1>9, <1>10 DEF ScheduledDMInv

\* The steps that set a status: Cancel, SetActive, SetPaused.
LEMMA StatusSteps ==
    ASSUME ScheduledDMInv,
           \/ \E c \in Callers : SetActive(c) \/ SetPaused(c)
           \/ \E t \in Tasks : Cancel(t)
    PROVE  ScheduledDMInv'
<1>1. \A t \in Tasks, s \in {"active", "paused", "cancelled"} :
        WithStatus(task[t], s).saves = task[t].saves
  BY DEF ScheduledDMInv, TypeOK, TaskRow, WithStatus
<1>2. ASSUME NEW c \in Callers, SetActive(c) \/ SetPaused(c)
      PROVE  ScheduledDMInv'
  <2> PICK s \in {"active", "paused"} :
        /\ task' = [task EXCEPT ![call[c].task] = WithStatus(@, s)]
        /\ call[c].step # "idle"
        /\ Return(c)
        /\ UNCHANGED <<peer, runs, rows, runner, drawn, sent, crashes>>
    BY <1>2 DEF SetActive, SetPaused
  <2>1. call[c].task \in Tasks /\ task[call[c].task].saves > 0
    BY DEF ScheduledDMInv, CallOK
  <2>2. \A t \in Tasks : task'[t].saves = task[t].saves
    BY <1>1 DEF ScheduledDMInv, TypeOK
  <2>3. call' \in [Callers -> CallRow] /\ CallOK'
    BY <2>2, CallMoveOrReturn DEF ScheduledDMInv
  <2> QED
    BY <2>1, <2>3, StatusInv
<1>3. ASSUME NEW t \in Tasks, Cancel(t)
      PROVE  ScheduledDMInv'
  <2>1. task[t].saves > 0
    BY <1>3 DEF Cancel, ScheduledDMInv, SavedOK, TypeOK, TaskRow
  <2>2. \A u \in Tasks : task'[u].saves = task[u].saves
    BY <1>1, <1>3 DEF Cancel, ScheduledDMInv, TypeOK
  <2>3. call' \in [Callers -> CallRow] /\ CallOK'
    BY <1>3, <2>2 DEF Cancel, ScheduledDMInv, TypeOK, CallOK
  <2> QED
    BY <1>3, <2>1, <2>3, StatusInv DEF Cancel
<1> QED
  BY <1>2, <1>3
-----------------------------------------------------------------------------
(* Save.                                                                   *)

\* Saving a task, also over an existing one, keeps its runs.
LEMMA SaveInv ==
    ASSUME ScheduledDMInv, NEW t \in Tasks, NEW d \in Drafts, Save(t, d)
    PROVE  ScheduledDMInv'
<1>1. /\ task \in [Tasks -> TaskRow]
      /\ peer \in [Tasks -> [Recipients -> PeerStatuses]]
      /\ task[t].saves \in Nat
  BY DEF ScheduledDMInv, TypeOK, TaskRow
<1>2. /\ d.recipients \in Seq(Recipients) /\ d.accounts \in Seq(Accounts)
      /\ d.start \in Nat /\ d.interval \in Nat
  BY ScheduledDMAssumption DEF Draft
<1> DEFINE z == [status |-> "paused", start |-> d.start,
                 interval |-> d.interval, max |-> d.max, completed |-> 0,
                 next |-> d.start, recipients |-> d.recipients,
                 accounts |-> d.accounts, saves |-> task[t].saves + 1]
<1>3. z \in TaskRow
  BY <1>1, <1>2, ScheduledDMAssumption DEF Save, ValidDraft, TaskRow, Statuses
<1>4. task' = [task EXCEPT ![t] = z]
  BY DEF Save
<1>5. task' \in [Tasks -> TaskRow] /\ \A u \in Tasks : task'[u] = IF u = t THEN z ELSE task[u]
  BY <1>1, <1>3, <1>4
<1>6. /\ z.status = "paused" /\ z.completed = 0 /\ z.saves = task[t].saves + 1
      /\ z.next = d.start /\ z.start = d.start /\ z.max = d.max
      /\ z.interval = d.interval /\ z.recipients = d.recipients
      /\ z.accounts = d.accounts
  OBVIOUS
<1> HIDE DEF z
<1>7. UNCHANGED <<runs, rows, runner, call, drawn, sent, crashes>>
  BY DEF Save
<1>8. /\ peer' \in [Tasks -> [Recipients -> PeerStatuses]]
      /\ \A u \in Tasks, r \in Recipients :
           peer'[u][r] = "open" => peer[u][r] = "open"
  BY <1>1 DEF Save, PeerStatuses
<1>9. z.completed <= z.max
  BY <1>3, <1>6 DEF TaskRow, RunNumbers
<1>10. TypeOK'
  BY <1>5, <1>7, <1>8, <1>9 DEF ScheduledDMInv, TypeOK
<1>11. SavedOK'
  <2>1. /\ Len(d.recipients) \in Ordinals /\ Distinct(d.recipients)
        /\ Len(d.accounts) \in 1..3 /\ (d.interval = 0 => d.max = 1)
    BY DEF Save, ValidDraft
  <2>4. Len(d.accounts) \in 1..3
    BY <2>1
  <2>5. \A q \in 1..3 : q > 0
    OBVIOUS
  <2>3. Len(d.accounts) > 0
    BY <2>4, <2>5, Zenon
  <2>2. z.saves # 0 /\ z.saves > 0 /\ z.status # "absent"
    BY <1>1, <1>6
  <2> QED
    BY <1>5, <1>6, <1>7, <2>1, <2>2, <2>3 DEF ScheduledDMInv, SavedOK
<1>12. CallOK'
  <2>1. z.saves > 0
    BY <1>1, <1>6
  <2> QED
    BY <1>5, <1>7, <2>1 DEF ScheduledDMInv, CallOK
<1>13. NextOK'
  <2>1. z.start + z.completed * z.interval = z.next
    BY <1>2, <1>6
  <2> QED
    BY <1>5, <2>1 DEF ScheduledDMInv, NextOK
<1>14. ScheduleKept' /\ CompletedMeansDone'
  <2>1. z.saves = 1 => \A n \in RunNumbers : ~runs[t][n].made
    BY <1>1, <1>6 DEF ScheduledDMInv, SavedOK
  <2> QED
    BY <1>5, <1>6, <1>7, <2>1 DEF ScheduledDMInv, ScheduleKept, CompletedMeansDone
<1>15. RunOrder'
  BY <1>5, <1>6, <1>7 DEF ScheduledDMInv, RunOrder
<1>16. RunCompletedExactly' /\ RowsOK' /\ SentOK'
  BY <1>7 DEF ScheduledDMInv, RunCompletedExactly, RowsOK, SentOK
<1>17. RunnerOK'
  BY <1>7 DEF ScheduledDMInv, RunnerOK, Current, MessageOf
<1>18. OpenMeansSent'
  BY <1>7, <1>8 DEF ScheduledDMInv, OpenMeansSent
<1> QED
  BY <1>10, <1>11, <1>12, <1>13, <1>14, <1>15, <1>16, <1>17, <1>18
  DEF ScheduledDMInv

-----------------------------------------------------------------------------
(* The runner ends: a lease it held is lost, nothing else changes in the   *)
(* deliveries.  A restart also pauses the active tasks.                    *)

\* Losing a lease changes nothing else of a delivery.
LEMMA DroppedRow ==
    ASSUME NEW r \in DeliveryRow
    PROVE  /\ Dropped(r) \in DeliveryRow
           /\ Dropped(r).status = r.status /\ Dropped(r).recipient = r.recipient
           /\ Dropped(r).account = r.account /\ Dropped(r).random = r.random
  BY DEF Dropped, DeliveryRow

\* What the invariant says of the messages depends only on what the
\* deliveries describe, and on which of them exist.
LEMMA SameMessages ==
    ASSUME TypeOK, RowsOK, SentOK, sent' = sent,
           \A t \in Tasks : \A n \in RunNumbers : \A i \in Ordinals :
              /\ rows'[t][n][i].recipient = rows[t][n][i].recipient
              /\ rows'[t][n][i].account = rows[t][n][i].account
              /\ rows'[t][n][i].random = rows[t][n][i].random,
           \A t \in Tasks : \A n \in RunNumbers : \A i \in Ordinals :
              rows'[t][n][i].status = "absent" <=> rows[t][n][i].status = "absent"
    PROVE  RowsOK' /\ SentOK'
<1>1. RowsOK'
  <2> SUFFICES ASSUME NEW t \in Tasks, NEW n \in RunNumbers, NEW i \in Ordinals,
                      rows'[t][n][i].status # "absent"
               PROVE  /\ rows'[t][n][i].recipient \in Recipients
                      /\ rows'[t][n][i].account \in Accounts
                      /\ \A k \in Ordinals :
                           (rows'[t][n][k].status # "absent"
                            /\ rows'[t][n][k].recipient = rows'[t][n][i].recipient)
                           => k = i
    BY DEF RowsOK
  <2> QED
    BY DEF RowsOK
<1>2. SentOK'
  <2> SUFFICES ASSUME NEW x \in sent
               PROVE  \E i \in Ordinals :
                        /\ rows'[x.task][x.run][i].status # "absent"
                        /\ x = MessageOf(x.task, x.run, rows'[x.task][x.run][i])
    BY DEF SentOK, MessageOf
  <2>1. PICK i \in Ordinals :
          /\ rows[x.task][x.run][i].status # "absent"
          /\ x = MessageOf(x.task, x.run, rows[x.task][x.run][i])
    BY DEF SentOK
  <2>2. x.task \in Tasks /\ x.run \in RunNumbers
    BY DEF TypeOK, Message
  <2>3. /\ rows'[x.task][x.run][i].status # "absent"
        /\ MessageOf(x.task, x.run, rows'[x.task][x.run][i])
             = MessageOf(x.task, x.run, rows[x.task][x.run][i])
    BY <2>1, <2>2 DEF MessageOf
  <2> QED
    BY <2>1, <2>3
<1> QED
  BY <1>1, <1>2

\* What it says of the runs depends only on which deliveries are open.
LEMMA SameOpen ==
    ASSUME RunOrder, RunCompletedExactly, runs' = runs,
           \A t \in Tasks : task'[t].completed = task[t].completed,
           \A t \in Tasks : \A n \in RunNumbers : \A i \in Ordinals :
              /\ OpenRow(rows'[t][n][i]) <=> OpenRow(rows[t][n][i])
              /\ rows'[t][n][i].status = "absent" <=> rows[t][n][i].status = "absent"
    PROVE  RunOrder' /\ RunCompletedExactly'
<1>1. RunCompletedExactly'
  <2> SUFFICES ASSUME NEW t \in Tasks, NEW n \in RunNumbers, runs[t][n].made
               PROVE  runs[t][n].completed <=>
                        \A i \in Ordinals : ~OpenRow(rows'[t][n][i])
    BY DEF RunCompletedExactly, OpenRow
  <2> QED
    BY DEF RunCompletedExactly
<1>2. ASSUME NEW t \in Tasks, NEW n \in RunNumbers, NEW i \in Ordinals,
             ~runs[t][n].made
      PROVE  rows'[t][n][i].status = "absent"
  BY <1>2 DEF RunOrder
<1>3. RunOrder'
  BY <1>2 DEF RunOrder
<1> QED
  BY <1>1, <1>3

\* The runner ends and its lease is lost.
LEMMA EndInv ==
    ASSUME ScheduledDMInv, RunnerEnds,
           task' \in [Tasks -> TaskRow],
           \A t \in Tasks :
              \/ task'[t] = task[t]
              \/ /\ task[t].status = "active"
                 /\ task'[t] = [task[t] EXCEPT !.status = "paused"],
           call' \in [Callers -> CallRow], CallOK', crashes' \in Nat,
           UNCHANGED <<peer, runs, drawn, sent>>
    PROVE  ScheduledDMInv'
<1>1. /\ task \in [Tasks -> TaskRow]
      /\ rows \in [Tasks -> [RunNumbers -> [Ordinals -> DeliveryRow]]]
  BY DEF ScheduledDMInv, TypeOK
<1>2. \A u \in Tasks :
        /\ task'[u].saves = task[u].saves
        /\ task'[u].start = task[u].start
        /\ task'[u].interval = task[u].interval
        /\ task'[u].max = task[u].max
        /\ task'[u].completed = task[u].completed
        /\ task'[u].recipients = task[u].recipients
        /\ task'[u].accounts = task[u].accounts
        /\ task'[u].next = task[u].next
        /\ \/ task'[u].status = task[u].status
           \/ task[u].status = "active" /\ task'[u].status = "paused"
  BY <1>1 DEF TaskRow
<1>3. \A t \in Tasks : \A n \in RunNumbers : \A i \in Ordinals :
        /\ rows[t][n][i] \in DeliveryRow
        /\ rows'[t][n][i] = Dropped(rows[t][n][i])
  BY <1>1 DEF RunnerEnds
<1>4. /\ rows' \in [Tasks -> [RunNumbers -> [Ordinals -> DeliveryRow]]]
      /\ \A t \in Tasks : \A n \in RunNumbers : \A i \in Ordinals :
           /\ rows'[t][n][i].status = rows[t][n][i].status
           /\ rows'[t][n][i].recipient = rows[t][n][i].recipient
           /\ rows'[t][n][i].account = rows[t][n][i].account
           /\ rows'[t][n][i].random = rows[t][n][i].random
  <2>2. \A t \in Tasks : \A n \in RunNumbers : \A i \in Ordinals :
          Dropped(rows[t][n][i]) \in DeliveryRow
    BY <1>3, DroppedRow
  <2> QED
    BY <1>3, <2>2, DroppedRow DEF RunnerEnds
<1>5. runner' = AtRest("stopped") /\ runner' \in RunnerRow
  BY ScheduledDMAssumption DEF RunnerEnds, AtRest, RunnerRow, Phases
<1>6. TypeOK'
  BY <1>2, <1>4, <1>5 DEF ScheduledDMInv, TypeOK
<1>7. SavedOK'
  BY <1>2 DEF ScheduledDMInv, SavedOK, Distinct
<1>8. NextOK' /\ ScheduleKept' /\ CompletedMeansDone'
  BY <1>2 DEF ScheduledDMInv, NextOK, ScheduleKept, CompletedMeansDone
<1>9. RunOrder' /\ RunCompletedExactly'
  BY <1>2, <1>4, SameOpen DEF ScheduledDMInv, OpenRow
<1>12. RowsOK' /\ SentOK'
  BY <1>4, SameMessages DEF ScheduledDMInv
<1>13. RunnerOK'
  BY <1>5 DEF RunnerOK, AtRest
<1>14. OpenMeansSent'
  BY DEF ScheduledDMInv, OpenMeansSent
<1> QED
  BY <1>6, <1>7, <1>8, <1>9, <1>12, <1>13, <1>14
  DEF ScheduledDMInv

\* Everything that ends the runner: undo, failure, restart, rejection.
LEMMA EndSteps ==
    ASSUME ScheduledDMInv,
           \/ \E c \in Callers : UndoStart(c)
           \/ RunnerFails
           \/ Restart
           \/ CompleteRejected
    PROVE  ScheduledDMInv'
<1>1. /\ task \in [Tasks -> TaskRow] /\ crashes \in Nat
      /\ call \in [Callers -> CallRow] /\ CallOK /\ TypeOK
  BY DEF ScheduledDMInv, TypeOK
<1>2. ASSUME NEW c \in Callers, UndoStart(c)
      PROVE  ScheduledDMInv'
  <2>1. call' \in [Callers -> CallRow] /\ CallOK'
    BY <1>1, <1>2, CallMoveOrReturn DEF UndoStart
  <2> QED
    BY <1>1, <1>2, <2>1, EndInv DEF UndoStart
<1>3. CASE RunnerFails
  <2>1. CallOK'
    BY <1>1, <1>3 DEF RunnerFails, CallOK
  <2> QED
    BY <1>1, <1>3, <2>1, EndInv DEF RunnerFails
<1>4. CASE Restart
  <2>1. \A t \in Tasks : [task[t] EXCEPT !.status = "paused"] \in TaskRow
    BY <1>1 DEF TaskRow, Statuses
  <2>2. task' \in [Tasks -> TaskRow]
    BY <1>1, <1>4, <2>1 DEF Restart
  <2>3. call' \in [Callers -> CallRow] /\ CallOK'
    BY <1>4 DEF Restart, NoCall, CallRow, CallOK
  <2> QED
    BY <1>1, <1>4, <2>2, <2>3, EndInv DEF Restart
<1>5. CASE CompleteRejected
  <2>1. CallOK'
    BY <1>1, <1>5 DEF CompleteRejected, CallOK
  <2> QED
    BY <1>1, <1>5, <2>1, EndInv DEF CompleteRejected
<1> QED
  BY <1>2, <1>3, <1>4, <1>5
-----------------------------------------------------------------------------
(* DelayDelivery and CompleteDelivery: the runner's own delivery changes.  *)

\* One delivery gets another status; what it describes stays.
OneDelivery(t, n, i, status, lease) ==
    rows' = [rows EXCEPT ![t][n][i] =
               [@ EXCEPT !.status = status, !.lease = lease]]

\* What an update of one delivery leaves alone.
LEMMA OneDeliveryRows ==
    ASSUME TypeOK, NEW t \in Tasks, NEW n \in RunNumbers, NEW i \in Ordinals,
           NEW s \in {"pending", "sending"} \cup Terminal,
           NEW l \in {"none", "held", "lost"},
           OneDelivery(t, n, i, s, l)
    PROVE  /\ rows' \in [Tasks -> [RunNumbers -> [Ordinals -> DeliveryRow]]]
           /\ \A u \in Tasks : \A p \in RunNumbers : \A k \in Ordinals :
                /\ rows'[u][p][k].recipient = rows[u][p][k].recipient
                /\ rows'[u][p][k].account = rows[u][p][k].account
                /\ rows'[u][p][k].random = rows[u][p][k].random
                /\ <<u, p, k>> # <<t, n, i>> => rows'[u][p][k] = rows[u][p][k]
           /\ rows'[t][n][i].status = s /\ rows'[t][n][i].lease = l
<1> DEFINE z == [rows[t][n][i] EXCEPT !.status = s, !.lease = l]
<1>1. rows \in [Tasks -> [RunNumbers -> [Ordinals -> DeliveryRow]]]
  BY DEF TypeOK
<1>2. rows[t][n][i] \in DeliveryRow
  BY <1>1
<1>3. /\ z \in DeliveryRow /\ z.status = s /\ z.lease = l
      /\ z.recipient = rows[t][n][i].recipient
      /\ z.account = rows[t][n][i].account
      /\ z.random = rows[t][n][i].random
  BY <1>2 DEF DeliveryRow
<1>4. rows' = [rows EXCEPT ![t][n][i] = z]
  BY <1>1 DEF OneDelivery
<1> HIDE DEF z
<1>5. rows' \in [Tasks -> [RunNumbers -> [Ordinals -> DeliveryRow]]]
  BY <1>1, <1>3, <1>4
<1>6. \A u \in Tasks : \A p \in RunNumbers : \A k \in Ordinals :
        rows'[u][p][k] = IF u = t /\ p = n /\ k = i THEN z ELSE rows[u][p][k]
  BY <1>1, <1>4
<1> QED
  BY <1>3, <1>5, <1>6

\* DelayDelivery gives the delivery back.
LEMMA DelayInv ==
    ASSUME ScheduledDMInv, DelayDelivery
    PROVE  ScheduledDMInv'
<1> DEFINE t == runner.task
           n == runner.run
           i == runner.ordinal
<1>1. /\ t \in Tasks /\ n \in RunNumbers /\ i \in Ordinals
      /\ rows[t][n][i].status = "sending"
  BY DEF DelayDelivery, ScheduledDMInv, RunnerOK, Current
<1>2. OneDelivery(t, n, i, "pending", "none")
  BY DEF DelayDelivery, OneDelivery
<1>3. UNCHANGED <<task, peer, runs, call, drawn, sent, crashes>>
  BY DEF DelayDelivery
<1>4. runner' = AtRest("idle") /\ runner' \in RunnerRow
  BY AtRestType DEF DelayDelivery
<1>5. TypeOK
  BY DEF ScheduledDMInv
<1> HIDE DEF t, n, i
<1>6. /\ rows' \in [Tasks -> [RunNumbers -> [Ordinals -> DeliveryRow]]]
      /\ \A u \in Tasks : \A p \in RunNumbers : \A k \in Ordinals :
           /\ rows'[u][p][k].recipient = rows[u][p][k].recipient
           /\ rows'[u][p][k].account = rows[u][p][k].account
           /\ rows'[u][p][k].random = rows[u][p][k].random
           /\ <<u, p, k>> # <<t, n, i>> => rows'[u][p][k] = rows[u][p][k]
      /\ rows'[t][n][i].status = "pending"
  BY <1>1, <1>2, <1>5, OneDeliveryRows
<1>7. \A u \in Tasks : \A p \in RunNumbers : \A k \in Ordinals :
        /\ OpenRow(rows'[u][p][k]) <=> OpenRow(rows[u][p][k])
        /\ rows'[u][p][k].status = "absent" <=> rows[u][p][k].status = "absent"
  BY <1>1, <1>6 DEF OpenRow
<1>8. TypeOK'
  BY <1>3, <1>4, <1>5, <1>6 DEF TypeOK
<1>9. SavedOK' /\ CallOK' /\ NextOK' /\ ScheduleKept' /\ CompletedMeansDone'
      /\ OpenMeansSent'
  BY <1>3 DEF ScheduledDMInv, SavedOK, CallOK, NextOK, ScheduleKept,
     CompletedMeansDone, OpenMeansSent
<1>10. RunnerOK'
  BY <1>4 DEF RunnerOK, AtRest
<1>11. RowsOK' /\ SentOK'
  BY <1>3, <1>5, <1>6, <1>7, SameMessages DEF ScheduledDMInv
<1>12. RunOrder' /\ RunCompletedExactly'
  BY <1>3, <1>7, SameOpen DEF ScheduledDMInv
<1> QED
  BY <1>8, <1>9, <1>10, <1>11, <1>12 DEF ScheduledDMInv

\* CompleteDelivery, with the completion of its run.
LEMMA CompleteInv ==
    ASSUME ScheduledDMInv, CompleteDelivery
    PROVE  ScheduledDMInv'
<1> DEFINE t == runner.task
           n == runner.run
           i == runner.ordinal
           s == Result(runner.phase)
           ends == EndsRun(t, n, i)
<1>1. /\ t \in Tasks /\ n \in RunNumbers /\ i \in Ordinals
      /\ rows[t][n][i].status = "sending"
      /\ Current = rows[t][n][i]
      /\ runner.phase = "sent" => MessageOf(t, n, rows[t][n][i]) \in sent
  BY DEF CompleteDelivery, ScheduledDMInv, RunnerOK, Current
<1>2. OneDelivery(t, n, i, s, "none") /\ s \in Terminal
  BY DEF CompleteDelivery, OneDelivery, Result, Terminal
<1>3. /\ UNCHANGED <<call, drawn, sent, crashes>>
      /\ ends => n <= task[t].max
      /\ IF ends THEN /\ runs' = [runs EXCEPT ![t][n].completed = TRUE]
                      /\ task' = [task EXCEPT ![t] = RunCounted(t, n)]
                 ELSE UNCHANGED <<runs, task>>
      /\ peer' = [peer EXCEPT ![t] = [r \in Recipients |->
                    IF r = Current.recipient /\ @[r] # "none"
                    THEN PeerStatus(runner.phase) ELSE @[r]]]
      /\ runner.phase \in {"sent", "closed", "invalid", "failed"}
  BY DEF CompleteDelivery
<1>4. runner' = AtRest("idle") /\ runner' \in RunnerRow
  BY AtRestType DEF CompleteDelivery
<1>5. TypeOK /\ ends = (Finished(t, n, i) /\ ~runs[t][n].completed)
  BY DEF ScheduledDMInv, EndsRun
<1> HIDE DEF t, n, i, s, ends
<1>6. /\ rows' \in [Tasks -> [RunNumbers -> [Ordinals -> DeliveryRow]]]
      /\ \A u \in Tasks : \A p \in RunNumbers : \A k \in Ordinals :
           /\ rows'[u][p][k].recipient = rows[u][p][k].recipient
           /\ rows'[u][p][k].account = rows[u][p][k].account
           /\ rows'[u][p][k].random = rows[u][p][k].random
           /\ <<u, p, k>> # <<t, n, i>> => rows'[u][p][k] = rows[u][p][k]
      /\ rows'[t][n][i].status = s
  BY <1>1, <1>2, <1>5, OneDeliveryRows
<1>7. \A u \in Tasks : \A p \in RunNumbers : \A k \in Ordinals :
        rows'[u][p][k].status = "absent" <=> rows[u][p][k].status = "absent"
  BY <1>1, <1>2, <1>6 DEF Terminal
<1>8. /\ ~OpenRow(rows'[t][n][i])
      /\ \A u \in Tasks : \A p \in RunNumbers : \A k \in Ordinals :
           <<u, p, k>> # <<t, n, i>> =>
             (OpenRow(rows'[u][p][k]) <=> OpenRow(rows[u][p][k]))
  BY <1>1, <1>2, <1>6 DEF Terminal, OpenRow
\* The run was open, since one of its deliveries was.
<1>9. runs[t][n].made /\ ~runs[t][n].completed
  <2>1. OpenRow(rows[t][n][i])
    BY <1>1 DEF OpenRow
  <2>2. runs[t][n].made
    <3> SUFFICES ASSUME ~runs[t][n].made PROVE FALSE
      OBVIOUS
    <3>1. rows[t][n][i].status = "absent"
      BY <1>1 DEF ScheduledDMInv, RunOrder
    <3> QED
      BY <3>1, <1>1
  <2> QED
    BY <1>1, <2>1, <2>2 DEF ScheduledDMInv, RunCompletedExactly
<1>10. /\ runs \in [Tasks -> [RunNumbers -> RunRow]]
       /\ task \in [Tasks -> TaskRow]
       /\ task[t].saves > 0
  <2>1. runs \in [Tasks -> [RunNumbers -> RunRow]] /\ task \in [Tasks -> TaskRow]
    BY <1>5 DEF TypeOK
  <2>2. task[t].saves # 0
    BY <1>1, <1>9 DEF ScheduledDMInv, SavedOK
  <2>3. task[t] \in TaskRow
    BY <1>1, <2>1
  <2> QED
    BY <2>1, <2>2, <2>3 DEF TaskRow
\* What happens to the runs.
<1>11. /\ runs' \in [Tasks -> [RunNumbers -> RunRow]]
       /\ \A u \in Tasks : \A p \in RunNumbers :
            /\ runs'[u][p].made = runs[u][p].made
            /\ runs'[u][p].scheduled = runs[u][p].scheduled
            /\ runs'[u][p].completed <=>
                 (runs[u][p].completed \/ (ends /\ u = t /\ p = n))
  <2>1. CASE ends
    <3> DEFINE z == [runs[t][n] EXCEPT !.completed = TRUE]
    <3>1. runs' = [runs EXCEPT ![t][n] = z]
      BY <1>3, <2>1
    <3>2. runs[t][n] \in RunRow
      BY <1>1, <1>10
    <3>3. /\ z \in RunRow /\ z.made = runs[t][n].made
          /\ z.scheduled = runs[t][n].scheduled /\ z.completed = TRUE
      BY <3>2 DEF RunRow
    <3> HIDE DEF z
    <3>4. runs' \in [Tasks -> [RunNumbers -> RunRow]]
      BY <3>1, <3>3, <1>1, <1>10
    <3>5. \A u \in Tasks : \A p \in RunNumbers :
            runs'[u][p] = IF u = t /\ p = n THEN z ELSE runs[u][p]
      BY <3>1, <1>1, <1>10
    <3>6. \A u \in Tasks : \A p \in RunNumbers :
            /\ runs'[u][p].made = runs[u][p].made
            /\ runs'[u][p].scheduled = runs[u][p].scheduled
      BY <3>3, <3>5
    <3>7. \A u \in Tasks : \A p \in RunNumbers :
            runs'[u][p].completed <=>
              (runs[u][p].completed \/ (ends /\ u = t /\ p = n))
      BY <2>1, <3>3, <3>5, Zenon
    <3> QED
      BY <3>4, <3>6, <3>7
  <2>2. CASE ~ends
    <3>1. runs' = runs
      BY <1>3, <2>2
    <3> QED
      BY <2>2, <3>1, <1>10
  <2> QED
    BY <2>1, <2>2
\* What happens to the task.
<1>12. /\ RunCounted(t, n) \in TaskRow
       /\ RunCounted(t, n).completed = n
       /\ RunCounted(t, n).saves = task[t].saves
       /\ RunCounted(t, n).start = task[t].start
       /\ RunCounted(t, n).interval = task[t].interval
       /\ RunCounted(t, n).max = task[t].max
       /\ RunCounted(t, n).recipients = task[t].recipients
       /\ RunCounted(t, n).accounts = task[t].accounts
       /\ RunCounted(t, n).status \in {task[t].status, "completed"}
       /\ RunCounted(t, n).status # task[t].status =>
            n >= task[t].max \/ task[t].interval = 0
       /\ ~(n >= task[t].max \/ task[t].interval = 0) =>
            RunCounted(t, n).next = runs[t][n].scheduled + task[t].interval
  <2>1. task[t] \in TaskRow /\ runs[t][n] \in RunRow
    BY <1>1, <1>10
  <2>2. n \in 0..MaxRuns
    BY <1>1, ScheduledDMAssumption DEF RunNumbers
  <2>3. /\ runs[t][n].scheduled \in Nat /\ task[t].interval \in Nat
        /\ runs[t][n].scheduled + task[t].interval \in Nat
    BY <2>1 DEF TaskRow, RunRow
  <2> QED
    BY <2>1, <2>2, <2>3 DEF RunCounted, TaskRow, Statuses
<1>13. /\ task' \in [Tasks -> TaskRow]
       /\ \A u \in Tasks : task'[u] =
            IF ends /\ u = t THEN RunCounted(t, n) ELSE task[u]
  BY <1>1, <1>3, <1>10, <1>12
<1>14. \A u \in Tasks :
         /\ task'[u].saves = task[u].saves
         /\ task'[u].start = task[u].start
         /\ task'[u].interval = task[u].interval
         /\ task'[u].max = task[u].max
         /\ task'[u].recipients = task[u].recipients
         /\ task'[u].accounts = task[u].accounts
         /\ task'[u].status = "absent" <=> task[u].status = "absent"
         /\ ~(ends /\ u = t) => task'[u] = task[u]
  <2>1. task[t].status # "absent"
    BY <1>1, <1>10 DEF ScheduledDMInv, SavedOK
  <2> QED
    BY <1>12, <1>13, <2>1
<1>15. TypeOK'
  <2>1. \A u \in Tasks : task'[u].completed <= task'[u].max
    BY <1>3, <1>5, <1>12, <1>13 DEF TypeOK
  <2>2. PeerStatus(runner.phase) \in PeerStatuses
    BY <1>3 DEF PeerStatus, PeerStatuses
  <2>3. peer' \in [Tasks -> [Recipients -> PeerStatuses]]
    BY <1>1, <1>3, <1>5, <2>2 DEF TypeOK
  <2> QED
    BY <1>3, <1>4, <1>5, <1>6, <1>11, <1>13, <2>1, <2>3 DEF TypeOK
<1>16. SavedOK'
  BY <1>11, <1>14 DEF ScheduledDMInv, SavedOK
<1>17. CallOK'
  BY <1>3, <1>14 DEF ScheduledDMInv, CallOK
<1>18. RunOrder'
  <2>1. ASSUME NEW u \in Tasks, task'[u].completed > 0
        PROVE  runs'[u][task'[u].completed].completed
    <3>1. CASE ends /\ u = t
      BY <3>1, <1>1, <1>11, <1>12, <1>13
    <3>2. CASE ~(ends /\ u = t)
      <4>1. task'[u] = task[u]
        BY <3>2, <1>14
      <4>2. task[u].completed \in RunNumbers
        BY <2>1, <4>1, <1>10, ScheduledDMAssumption DEF TaskRow, RunNumbers
      <4>3. runs[u][task[u].completed].completed
        BY <2>1, <4>1 DEF ScheduledDMInv, RunOrder
      <4> QED
        BY <4>1, <4>2, <4>3, <1>11
    <3> QED
      BY <3>1, <3>2
  <2>2. ASSUME NEW u \in Tasks, NEW p \in RunNumbers
        PROVE  /\ runs'[u][p].completed => runs'[u][p].made
               /\ ~runs'[u][p].made =>
                    \A k \in Ordinals : rows'[u][p][k].status = "absent"
    BY <1>7, <1>9, <1>11 DEF ScheduledDMInv, RunOrder
  <2>3. ASSUME NEW u \in Tasks, NEW p \in RunNumbers, NEW k \in RunNumbers,
               p < k, runs'[u][k].made
        PROVE  runs'[u][p].made /\ runs'[u][p].completed
    BY <2>3, <1>11 DEF ScheduledDMInv, RunOrder
  <2> QED
    BY <2>1, <2>2, <2>3 DEF RunOrder
<1>19. RunCompletedExactly'
  <2> SUFFICES ASSUME NEW u \in Tasks, NEW p \in RunNumbers, runs'[u][p].made
               PROVE  runs'[u][p].completed <=>
                        \A k \in Ordinals : ~OpenRow(rows'[u][p][k])
    BY DEF RunCompletedExactly, OpenRow
  <2>1. CASE u = t /\ p = n
    <3>1. ends <=> Finished(t, n, i)
      BY <1>5, <1>9
    <3>2. Finished(t, n, i) <=> \A k \in Ordinals : ~OpenRow(rows'[t][n][k])
      BY <1>1, <1>8 DEF Finished
    <3> QED
      BY <2>1, <3>1, <3>2, <1>9, <1>11
  <2>2. CASE ~(u = t /\ p = n)
    <3>1. runs'[u][p].completed <=> runs[u][p].completed
      BY <2>2, <1>11
    <3>2. runs[u][p].made
      BY <1>11
    <3>3. \A k \in Ordinals : OpenRow(rows'[u][p][k]) <=> OpenRow(rows[u][p][k])
      BY <2>2, <1>8
    <3> QED
      BY <3>1, <3>2, <3>3 DEF ScheduledDMInv, RunCompletedExactly
  <2> QED
    BY <2>1, <2>2
<1>20. RowsOK' /\ SentOK'
  BY <1>3, <1>5, <1>6, <1>7, SameMessages DEF ScheduledDMInv
<1>21. RunnerOK'
  BY <1>4 DEF RunnerOK, AtRest
<1>22. OpenMeansSent'
  <2> SUFFICES ASSUME NEW u \in Tasks, NEW r \in Recipients, peer'[u][r] = "open"
               PROVE  \E x \in sent : x.task = u /\ x.recipient = r
    BY <1>3 DEF OpenMeansSent
  <2>1. CASE peer[u][r] = "open"
    BY <2>1 DEF ScheduledDMInv, OpenMeansSent
  <2>2. CASE peer[u][r] # "open"
    <3>1. peer \in [Tasks -> [Recipients -> PeerStatuses]]
      BY <1>5 DEF TypeOK
    <3>2. u = t /\ r = Current.recipient /\ PeerStatus(runner.phase) = "open"
      BY <2>2, <3>1, <1>1, <1>3
    <3>3. runner.phase = "sent"
      BY <1>3, <3>2 DEF PeerStatus
    <3> QED
      BY <1>1, <3>2, <3>3 DEF MessageOf
  <2> QED
    BY <2>1, <2>2
\* The schedule: run n was planned at its time, so the next one is too.
<1>23. NextOK'
  <2> SUFFICES ASSUME NEW u \in Tasks, task'[u].saves = 1,
                      task'[u].completed < task'[u].max
               PROVE  task'[u].next =
                        task'[u].start + task'[u].completed * task'[u].interval
    BY DEF NextOK
  <2>1. CASE ~(ends /\ u = t)
    BY <2>1, <1>14 DEF ScheduledDMInv, NextOK
  <2>2. CASE ends /\ u = t
    <3>1. n < task[t].max /\ task'[u] = RunCounted(t, n)
      BY <2>2, <1>12, <1>13
    <3>2. /\ task[t].max \in RunNumbers /\ task[t].start \in Nat
          /\ task[t].interval \in Nat /\ n \in Nat
      BY <1>1, <1>10 DEF TaskRow, RunNumbers
    <3>3. task[t].saves = 1
      BY <2>2, <1>14
    <3>4. task[t].interval # 0
      <4> SUFFICES ASSUME task[t].interval = 0 PROVE FALSE
        OBVIOUS
      <4>1. task[t].max = 1
        BY <1>1, <1>10 DEF ScheduledDMInv, SavedOK
      <4> QED
        BY <4>1, <3>1, <1>1 DEF RunNumbers
    <3>5. ~(n >= task[t].max)
      BY <3>1, <3>2 DEF RunNumbers
    <3>6. task'[u].next = runs[t][n].scheduled + task[t].interval
      BY <3>1, <3>4, <3>5, <1>12
    <3>7. runs[t][n].scheduled = task[t].start + (n - 1) * task[t].interval
      BY <1>1, <1>9, <3>3 DEF ScheduledDMInv, ScheduleKept
    <3>8. (n - 1) * task[t].interval + task[t].interval = n * task[t].interval
      BY <3>2
    <3>9. (n - 1) * task[t].interval \in Int /\ n * task[t].interval \in Int
      BY <3>2
    <3>10. task'[u].next = task[t].start + n * task[t].interval
      <4> DEFINE a == (n - 1) * task[t].interval
                 b == n * task[t].interval
      <4>1. /\ task'[u].next = (task[t].start + a) + task[t].interval
            /\ a + task[t].interval = b /\ a \in Int /\ b \in Int
        BY <3>6, <3>7, <3>8, <3>9
      <4> HIDE DEF a, b
      <4>2. task'[u].next = task[t].start + b
        BY <4>1, <3>2
      <4> QED
        BY <4>2 DEF b
    <3> QED
      BY <3>1, <3>10, <1>12
  <2> QED
    BY <2>1, <2>2
<1>24. ScheduleKept'
  BY <1>11, <1>14 DEF ScheduledDMInv, ScheduleKept
<1>25. CompletedMeansDone'
  <2> SUFFICES ASSUME NEW u \in Tasks, task'[u].saves = 1,
                      task'[u].status = "completed",
                      NEW p \in 1..task'[u].max
               PROVE  runs'[u][p].made /\ runs'[u][p].completed
    BY DEF CompletedMeansDone
  <2>1. task'[u].max = task[u].max /\ task[u].saves = 1
    BY <1>14
  <2>2. task[u].max \in RunNumbers /\ p \in RunNumbers
    BY <1>10, <2>1, ScheduledDMAssumption DEF TaskRow, RunNumbers
  <2>3. CASE task[u].status = "completed"
    BY <2>1, <2>2, <2>3, <1>11 DEF ScheduledDMInv, CompletedMeansDone
  <2>4. CASE task[u].status # "completed"
    <3>1. ends /\ u = t
      BY <2>4, <1>14
    <3>2. n >= task[t].max \/ task[t].interval = 0
      BY <2>4, <3>1, <1>12, <1>13
    <3>3. n >= task[t].max
      <4>1. task[t].interval = 0 => task[t].max = 1
        BY <1>1, <1>10 DEF ScheduledDMInv, SavedOK
      <4> QED
        BY <3>2, <4>1, <1>1 DEF RunNumbers
    <3>4. p = n \/ p < n
      BY <2>1, <2>2, <3>1, <3>3, <1>1 DEF RunNumbers
    <3>5. CASE p = n
      BY <3>1, <3>5, <1>1, <1>9, <1>11
    <3>6. CASE p < n
      <4>1. runs[t][p].made /\ runs[t][p].completed
        BY <3>6, <2>2, <1>1, <1>9 DEF ScheduledDMInv, RunOrder
      <4> QED
        BY <4>1, <3>1, <2>2, <1>1, <1>11
    <3> QED
      BY <3>4, <3>5, <3>6
  <2> QED
    BY <2>3, <2>4
<1> QED
  BY <1>15, <1>16, <1>17, <1>18, <1>19, <1>20, <1>21, <1>22, <1>23, <1>24, <1>25
  DEF ScheduledDMInv

-----------------------------------------------------------------------------
(* ClaimDueDelivery: a new run, and the lease of one delivery.             *)

\* The account assigned to an ordinal is one of the accounts.
LEMMA AssignedType ==
    ASSUME NEW as \in Seq(Accounts), Len(as) > 0, NEW i \in Nat, i > 0
    PROVE  Assigned(as, i) \in Accounts
<1> DEFINE q == Len(as)
           r == (i - 1) % q
<1>1. q \in Nat /\ \A k \in 1..q : as[k] \in Accounts
  BY LenProperties, ElementOfSeq
<1>2. q \in Nat /\ q > 0
  BY <1>1, Zenon
<1> HIDE DEF q
<1>3. r \in 0..(q - 1)
  BY <1>2
<1> HIDE DEF r
<1>4. r + 1 \in 1..q
  BY <1>2, <1>3
<1>5. as[r + 1] \in Accounts
  BY <1>1, <1>4
<1> QED
  BY <1>5 DEF Assigned, r, q

\* The deliveries of a new run.
LEMMA NewRowsOK ==
    ASSUME TypeOK, NEW t \in Tasks,
           Len(task[t].recipients) \in Ordinals,
           Distinct(task[t].recipients), Len(task[t].accounts) > 0
    PROVE  /\ NewRows(task[t]) \in [Ordinals -> DeliveryRow]
           /\ \A k \in Ordinals :
                /\ NewRows(task[t])[k].status \in {"absent", "pending"}
                /\ NewRows(task[t])[k].status = "pending" =>
                     /\ NewRows(task[t])[k].recipient \in Recipients
                     /\ NewRows(task[t])[k].account \in Accounts
           /\ 1 \in Ordinals /\ NewRows(task[t])[1].status = "pending"
           /\ \A k, l \in Ordinals :
                /\ NewRows(task[t])[k].status = "pending"
                /\ NewRows(task[t])[l].status = "pending"
                /\ NewRows(task[t])[k].recipient = NewRows(task[t])[l].recipient
                => k = l
<1> DEFINE w == task[t]
           rs == w.recipients
<1>1. w \in TaskRow
  BY DEF TypeOK
<1>2. rs \in Seq(Recipients) /\ w.accounts \in Seq(Accounts) /\ Len(rs) \in Ordinals
  BY <1>1 DEF TaskRow
<1>3. ASSUME NEW k \in Ordinals, k <= Len(rs)
      PROVE  /\ rs[k] \in Recipients /\ k \in 1..Len(rs)
             /\ Assigned(w.accounts, k) \in Accounts
  <2>1. k \in Nat /\ k > 0 /\ Len(rs) \in Nat
    BY <1>2, ScheduledDMAssumption DEF Ordinals
  <2>2. k \in 1..Len(rs)
    BY <1>3, <2>1
  <2>3. rs[k] \in Recipients
    BY <1>2, <2>2
  <2> QED
    BY <1>2, <2>1, <2>2, <2>3, AssignedType
<1>4. ASSUME NEW k \in Ordinals, k <= Len(rs)
      PROVE  /\ NewRows(w)[k] \in DeliveryRow
             /\ NewRows(w)[k].status = "pending"
             /\ NewRows(w)[k].recipient = rs[k]
             /\ NewRows(w)[k].account = Assigned(w.accounts, k)
  <2>1. drawn + k \in Nat
    BY ScheduledDMAssumption DEF Ordinals, TypeOK
  <2>2. rs[k] \in Recipients /\ Assigned(w.accounts, k) \in Accounts
    BY <1>3, <1>4
  <2>3. NewRows(w)[k] =
          [status |-> "pending", recipient |-> rs[k],
           account |-> Assigned(w.accounts, k), random |-> drawn + k,
           lease |-> "none"]
    BY <1>4 DEF NewRows
  <2> QED
    BY <2>1, <2>2, <2>3 DEF DeliveryRow
<1>5. ASSUME NEW k \in Ordinals, ~(k <= Len(rs))
      PROVE  NewRows(w)[k] \in DeliveryRow /\ NewRows(w)[k].status = "absent"
  BY <1>5 DEF NewRows, NoRow, DeliveryRow
<1>6. NewRows(w) \in [Ordinals -> DeliveryRow]
  <2>1. NewRows(w) = [k \in Ordinals |-> NewRows(w)[k]]
    BY DEF NewRows
  <2>2. \A k \in Ordinals : NewRows(w)[k] \in DeliveryRow
    BY <1>4, <1>5
  <2> HIDE DEF w
  <2> QED
    BY <2>1, <2>2
<1>7. 1 \in Ordinals /\ 1 <= Len(rs)
  BY <1>2, ScheduledDMAssumption DEF Ordinals
<1>8. ASSUME NEW k \in Ordinals
      PROVE  /\ NewRows(w)[k].status \in {"absent", "pending"}
             /\ NewRows(w)[k].status = "pending" =>
                  /\ k <= Len(rs)
                  /\ NewRows(w)[k].recipient \in Recipients
                  /\ NewRows(w)[k].account \in Accounts
  BY <1>3, <1>4, <1>5
<1>9. ASSUME NEW k \in Ordinals, NEW l \in Ordinals,
             NewRows(w)[k].status = "pending", NewRows(w)[l].status = "pending",
             NewRows(w)[k].recipient = NewRows(w)[l].recipient
      PROVE  k = l
  <2>1. k <= Len(rs) /\ l <= Len(rs)
    BY <1>8, <1>9
  <2>2. k \in 1..Len(rs) /\ l \in 1..Len(rs) /\ rs[k] = rs[l]
    BY <1>3, <1>4, <1>9, <2>1
  <2> QED
    BY <2>2 DEF Distinct
<1> QED
  BY <1>4, <1>6, <1>7, <1>8, <1>9

\* ClaimDueDelivery, with the run it may create.
LEMMA ClaimInv ==
    ASSUME ScheduledDMInv, NEW m \in Tasks \cup {NoTask}, NEW t \in Tasks,
           NEW n \in RunNumbers, NEW i \in Ordinals, Claim(m, t, n, i)
    PROVE  ScheduledDMInv'
<1> DEFINE c == task[m].completed + 1
           new(u, p) == m # NoTask /\ u = m /\ p = c
           z == [RowsWith(m)[t][n][i] EXCEPT !.status = "sending",
                                             !.lease = "held"]
<1>1. /\ TypeOK
      /\ task \in [Tasks -> TaskRow]
      /\ runs \in [Tasks -> [RunNumbers -> RunRow]]
      /\ rows \in [Tasks -> [RunNumbers -> [Ordinals -> DeliveryRow]]]
  BY DEF ScheduledDMInv, TypeOK
<1>2. /\ UNCHANGED <<task, peer, call, sent, crashes>>
      /\ runs' = RunsWith(m)
      /\ rows' = [RowsWith(m) EXCEPT ![t][n][i] = z]
      /\ runner' = [phase |-> "claimed", task |-> t, run |-> n, ordinal |-> i]
      /\ drawn' = IF m = NoTask THEN drawn ELSE drawn + MaxContacts
      /\ RowsWith(m)[t][n][i].status \in {"pending", "sending"}
  BY DEF Claim, Claimable
\* A task whose run is created is saved and the run is its next one.
<1>3. ASSUME m # NoTask
      PROVE  /\ m \in Tasks /\ c \in RunNumbers /\ ~runs[m][c].made
             /\ task[m].next \in Nat /\ task[m].saves > 0
             /\ task[m].completed < task[m].max
  <2>1. m \in Tasks /\ Materializable(m)
    BY <1>3 DEF Claim
  <2>2. task[m] \in TaskRow
    BY <1>1, <2>1
  <2>3. task[m].completed < task[m].max /\ task[m].next # NoTime
        /\ ~runs[m][c].made /\ task[m].status = "active"
    BY <2>1 DEF Materializable
  <2>4. c \in RunNumbers
    BY <2>2, <2>3, ScheduledDMAssumption DEF TaskRow, RunNumbers
  <2>5. task[m].next \in Nat
    BY <2>2, <2>3 DEF TaskRow
  <2>6. task[m].saves # 0
    BY <2>1, <2>3 DEF ScheduledDMInv, SavedOK
  <2>7. task[m].saves > 0
    BY <2>2, <2>6 DEF TaskRow
  <2> QED
    BY <2>1, <2>3, <2>4, <2>5, <2>7
<1>4. ASSUME m # NoTask
      PROVE  /\ NewRows(task[m]) \in [Ordinals -> DeliveryRow]
             /\ \A k \in Ordinals :
                  /\ NewRows(task[m])[k].status \in {"absent", "pending"}
                  /\ NewRows(task[m])[k].status = "pending" =>
                       /\ NewRows(task[m])[k].recipient \in Recipients
                       /\ NewRows(task[m])[k].account \in Accounts
             /\ 1 \in Ordinals /\ NewRows(task[m])[1].status = "pending"
             /\ \A k, l \in Ordinals :
                  /\ NewRows(task[m])[k].status = "pending"
                  /\ NewRows(task[m])[l].status = "pending"
                  /\ NewRows(task[m])[k].recipient = NewRows(task[m])[l].recipient
                  => k = l
  <2>1. /\ Len(task[m].recipients) \in Ordinals
        /\ Distinct(task[m].recipients) /\ Len(task[m].accounts) > 0
    BY <1>3, <1>4 DEF ScheduledDMInv, SavedOK
  <2> QED
    BY <1>1, <1>3, <1>4, <2>1, NewRowsOK
\* The runs and deliveries after the step.
<1>5. /\ runs' \in [Tasks -> [RunNumbers -> RunRow]]
      /\ \A u \in Tasks : \A p \in RunNumbers :
           /\ ~new(u, p) => runs'[u][p] = runs[u][p]
           /\ new(u, p) => /\ runs'[u][p].made /\ ~runs'[u][p].completed
                           /\ runs'[u][p].scheduled = task[m].next
  <2>1. CASE m = NoTask
    BY <2>1, <1>1, <1>2 DEF RunsWith
  <2>2. CASE m # NoTask
    <3> DEFINE r == [made |-> TRUE, scheduled |-> task[m].next,
                     completed |-> FALSE]
    <3>1. r \in RunRow /\ r.made /\ ~r.completed /\ r.scheduled = task[m].next
      BY <2>2, <1>3 DEF RunRow
    <3>2. runs' = [runs EXCEPT ![m][c] = r]
      BY <2>2, <1>2 DEF RunsWith
    <3> HIDE DEF r
    <3>3. runs' \in [Tasks -> [RunNumbers -> RunRow]]
      BY <2>2, <3>1, <3>2, <1>1, <1>3
    <3>4. \A u \in Tasks : \A p \in RunNumbers :
            runs'[u][p] = IF u = m /\ p = c THEN r ELSE runs[u][p]
      BY <2>2, <3>2, <1>1, <1>3
    <3> QED
      BY <2>2, <3>1, <3>3, <3>4
  <2> QED
    BY <2>1, <2>2
<1>6. /\ RowsWith(m) \in [Tasks -> [RunNumbers -> [Ordinals -> DeliveryRow]]]
      /\ \A u \in Tasks : \A p \in RunNumbers : \A k \in Ordinals :
           RowsWith(m)[u][p][k] =
             IF new(u, p) THEN NewRows(task[m])[k] ELSE rows[u][p][k]
  <2>1. CASE m = NoTask
    BY <2>1, <1>1 DEF RowsWith
  <2>2. CASE m # NoTask
    <3> DEFINE f == NewRows(task[m])
    <3>1. RowsWith(m) = [rows EXCEPT ![m][c] = f]
      BY <2>2 DEF RowsWith
    <3>2. f \in [Ordinals -> DeliveryRow]
      BY <2>2, <1>4
    <3> HIDE DEF f
    <3>3. RowsWith(m) \in [Tasks -> [RunNumbers -> [Ordinals -> DeliveryRow]]]
      BY <2>2, <3>1, <3>2, <1>1, <1>3
    <3>4. \A u \in Tasks : \A p \in RunNumbers : \A k \in Ordinals :
            RowsWith(m)[u][p][k] = IF u = m /\ p = c THEN f[k] ELSE rows[u][p][k]
      BY <2>2, <3>1, <3>2, <1>1, <1>3
    <3> QED
      BY <2>2, <3>3, <3>4 DEF f
  <2> QED
    BY <2>1, <2>2
<1>7. /\ z \in DeliveryRow /\ z.status = "sending" /\ z.lease = "held"
      /\ z.recipient = RowsWith(m)[t][n][i].recipient
      /\ z.account = RowsWith(m)[t][n][i].account
      /\ z.random = RowsWith(m)[t][n][i].random
  <2>1. RowsWith(m)[t][n][i] \in DeliveryRow
    BY <1>6
  <2> QED
    BY <2>1 DEF DeliveryRow
<1> HIDE DEF z
<1>8. /\ rows' \in [Tasks -> [RunNumbers -> [Ordinals -> DeliveryRow]]]
      /\ \A u \in Tasks : \A p \in RunNumbers : \A k \in Ordinals :
           rows'[u][p][k] = IF u = t /\ p = n /\ k = i THEN z
                            ELSE RowsWith(m)[u][p][k]
  BY <1>2, <1>6, <1>7
<1>9. \A u \in Tasks : \A p \in RunNumbers : \A k \in Ordinals :
        /\ rows'[u][p][k].recipient = RowsWith(m)[u][p][k].recipient
        /\ rows'[u][p][k].account = RowsWith(m)[u][p][k].account
        /\ rows'[u][p][k].random = RowsWith(m)[u][p][k].random
        /\ OpenRow(rows'[u][p][k]) <=> OpenRow(RowsWith(m)[u][p][k])
        /\ rows'[u][p][k].status = "absent"
             <=> RowsWith(m)[u][p][k].status = "absent"
  BY <1>2, <1>7, <1>8 DEF OpenRow
<1>10. \A u \in Tasks : \A p \in RunNumbers : ~new(u, p) =>
         \A k \in Ordinals :
           /\ rows'[u][p][k].recipient = rows[u][p][k].recipient
           /\ rows'[u][p][k].account = rows[u][p][k].account
           /\ rows'[u][p][k].random = rows[u][p][k].random
           /\ OpenRow(rows'[u][p][k]) <=> OpenRow(rows[u][p][k])
           /\ rows'[u][p][k].status = "absent" <=> rows[u][p][k].status = "absent"
  BY <1>6, <1>9
<1>11. ASSUME m # NoTask, NEW k \in Ordinals
       PROVE  /\ rows'[m][c][k].recipient = NewRows(task[m])[k].recipient
              /\ rows'[m][c][k].account = NewRows(task[m])[k].account
              /\ OpenRow(rows'[m][c][k]) <=> OpenRow(NewRows(task[m])[k])
              /\ rows'[m][c][k].status = "absent"
                   <=> NewRows(task[m])[k].status = "absent"
  BY <1>3, <1>6, <1>9, <1>11
<1>12. m \notin Tasks => m = NoTask
  OBVIOUS
<1>13. TypeOK'
  <2>1. runner' \in RunnerRow
    BY <1>2, ScheduledDMAssumption DEF RunnerRow, Phases, RunNumbers, Ordinals
  <2>2. drawn' \in Nat
    BY <1>1, <1>2, ScheduledDMAssumption DEF TypeOK
  <2> QED
    BY <1>1, <1>2, <1>5, <1>8, <2>1, <2>2 DEF TypeOK
<1>14. SavedOK'
  <2>1. ASSUME NEW u \in Tasks, NEW p \in RunNumbers, task[u].saves = 0
        PROVE  ~runs'[u][p].made
    <3>1. ~runs[u][p].made
      BY <2>1 DEF ScheduledDMInv, SavedOK
    <3>2. ~new(u, p)
      BY <2>1, <1>3
    <3> QED
      BY <3>1, <3>2, <1>5
  <2> QED
    BY <1>2, <2>1 DEF ScheduledDMInv, SavedOK
<1>15. CallOK' /\ NextOK' /\ OpenMeansSent'
  BY <1>2 DEF ScheduledDMInv, CallOK, NextOK, OpenMeansSent
<1>16. \A u \in Tasks : \A p \in RunNumbers : runs[u][p].made => ~new(u, p)
  BY <1>3
<1>17. RunOrder'
  <2>1. ASSUME NEW u \in Tasks, task[u].completed > 0
        PROVE  runs'[u][task[u].completed].completed
    <3>1. task[u].completed \in RunNumbers
      BY <2>1, <1>1, ScheduledDMAssumption DEF TaskRow, RunNumbers
    <3>2. runs[u][task[u].completed].completed
      BY <2>1 DEF ScheduledDMInv, RunOrder
    <3>3. runs[u][task[u].completed].made
      BY <3>1, <3>2 DEF ScheduledDMInv, RunOrder
    <3> QED
      BY <3>1, <3>2, <3>3, <1>5, <1>16
  <2>2. ASSUME NEW u \in Tasks, NEW p \in RunNumbers, runs'[u][p].completed
        PROVE  runs'[u][p].made
    BY <2>2, <1>5 DEF ScheduledDMInv, RunOrder
  <2>3. ASSUME NEW u \in Tasks, NEW p \in RunNumbers, ~runs'[u][p].made,
               NEW k \in Ordinals
        PROVE  rows'[u][p][k].status = "absent"
    <3>1. ~new(u, p)
      BY <2>3, <1>5
    <3>2. rows[u][p][k].status = "absent"
      BY <2>3, <3>1, <1>5 DEF ScheduledDMInv, RunOrder
    <3> QED
      BY <3>1, <3>2, <1>10
  <2>4. ASSUME NEW u \in Tasks, NEW p \in RunNumbers, NEW k \in RunNumbers,
               p < k, runs'[u][k].made
        PROVE  runs'[u][p].made /\ runs'[u][p].completed
    <3>1. runs[u][p].made /\ runs[u][p].completed
      <4>1. CASE ~new(u, k)
        BY <2>4, <4>1, <1>5 DEF ScheduledDMInv, RunOrder
      <4>2. CASE new(u, k)
        <5>0. u = m /\ m \in Tasks /\ k = task[m].completed + 1
              /\ task[m].completed \in 0..MaxRuns
          BY <4>2, <1>1, <1>3 DEF TaskRow
        <5>1. task[m].completed \in RunNumbers /\ p <= task[m].completed
              /\ task[m].completed > 0 /\ u = m
          BY <2>4, <5>0, ScheduledDMAssumption DEF RunNumbers
        <5>2. runs[m][task[m].completed].completed
          BY <5>1 DEF ScheduledDMInv, RunOrder
        <5>3. runs[m][task[m].completed].made
          BY <5>1, <5>2 DEF ScheduledDMInv, RunOrder
        <5>4. p = task[m].completed \/ p < task[m].completed
          BY <5>1 DEF RunNumbers
        <5>5. CASE p = task[m].completed
          BY <5>1, <5>2, <5>3, <5>5
        <5>6. CASE p < task[m].completed
          BY <5>1, <5>3, <5>6 DEF ScheduledDMInv, RunOrder
        <5> QED
          BY <5>4, <5>5, <5>6
      <4> QED
        BY <4>1, <4>2
    <3> QED
      BY <3>1, <1>5, <1>16
  <2> QED
    BY <1>2, <2>1, <2>2, <2>3, <2>4 DEF RunOrder
<1>18. RunCompletedExactly'
  <2> SUFFICES ASSUME NEW u \in Tasks, NEW p \in RunNumbers, runs'[u][p].made
               PROVE  runs'[u][p].completed <=>
                        \A k \in Ordinals : ~OpenRow(rows'[u][p][k])
    BY DEF RunCompletedExactly, OpenRow
  <2>1. CASE new(u, p)
    <3>1. 1 \in Ordinals /\ OpenRow(NewRows(task[m])[1])
      BY <2>1, <1>4 DEF OpenRow
    <3> QED
      BY <2>1, <3>1, <1>5, <1>11
  <2>2. CASE ~new(u, p)
    BY <2>2, <1>5, <1>10 DEF ScheduledDMInv, RunCompletedExactly
  <2> QED
    BY <2>1, <2>2
<1>19. RowsOK'
  <2> SUFFICES ASSUME NEW u \in Tasks, NEW p \in RunNumbers, NEW k \in Ordinals,
                      rows'[u][p][k].status # "absent"
               PROVE  /\ rows'[u][p][k].recipient \in Recipients
                      /\ rows'[u][p][k].account \in Accounts
                      /\ \A l \in Ordinals :
                           (rows'[u][p][l].status # "absent"
                            /\ rows'[u][p][l].recipient = rows'[u][p][k].recipient)
                           => l = k
    BY DEF RowsOK
  <2>1. CASE new(u, p)
    BY <2>1, <1>4, <1>11
  <2>2. CASE ~new(u, p)
    BY <2>2, <1>10 DEF ScheduledDMInv, RowsOK
  <2> QED
    BY <2>1, <2>2
<1>20. SentOK'
  <2> SUFFICES ASSUME NEW x \in sent
               PROVE  \E k \in Ordinals :
                        /\ rows'[x.task][x.run][k].status # "absent"
                        /\ x = MessageOf(x.task, x.run, rows'[x.task][x.run][k])
    BY <1>2 DEF SentOK, MessageOf
  <2>1. PICK k \in Ordinals :
          /\ rows[x.task][x.run][k].status # "absent"
          /\ x = MessageOf(x.task, x.run, rows[x.task][x.run][k])
    BY DEF ScheduledDMInv, SentOK
  <2>2. x.task \in Tasks /\ x.run \in RunNumbers
    BY <1>1 DEF TypeOK, Message
  <2>3. runs[x.task][x.run].made
    BY <2>1, <2>2 DEF ScheduledDMInv, RunOrder
  <2>4. ~new(x.task, x.run)
    BY <2>2, <2>3, <1>16
  <2>5. /\ rows'[x.task][x.run][k].status # "absent"
        /\ MessageOf(x.task, x.run, rows'[x.task][x.run][k])
             = MessageOf(x.task, x.run, rows[x.task][x.run][k])
    BY <2>1, <2>2, <2>4, <1>10 DEF MessageOf
  <2> QED
    BY <2>1, <2>5
<1>21. RunnerOK'
  BY <1>2, <1>7, <1>8 DEF RunnerOK, Current
<1>22. ScheduleKept'
  <2> SUFFICES ASSUME NEW u \in Tasks, task[u].saves = 1,
                      NEW p \in RunNumbers, runs'[u][p].made
               PROVE  runs'[u][p].scheduled
                        = task[u].start + (p - 1) * task[u].interval
    BY <1>2 DEF ScheduleKept
  <2>1. CASE new(u, p)
    <3>1. task[u].next = task[u].start + task[u].completed * task[u].interval
      BY <2>1, <1>3 DEF ScheduledDMInv, NextOK
    <3>2. task[u].completed \in Int /\ p = task[u].completed + 1
      BY <2>1, <1>1 DEF TaskRow
    <3>3. p - 1 = task[u].completed
      BY <3>2
    <3> QED
      BY <2>1, <3>1, <3>3, <1>5
  <2>2. CASE ~new(u, p)
    BY <2>2, <1>5 DEF ScheduledDMInv, ScheduleKept
  <2> QED
    BY <2>1, <2>2
<1>23. CompletedMeansDone'
  <2> SUFFICES ASSUME NEW u \in Tasks, task[u].saves = 1,
                      task[u].status = "completed", NEW p \in 1..task[u].max
               PROVE  runs'[u][p].made /\ runs'[u][p].completed
    BY <1>2 DEF CompletedMeansDone
  <2>1. p \in RunNumbers
    BY <1>1, ScheduledDMAssumption DEF TaskRow, RunNumbers
  <2>2. runs[u][p].made /\ runs[u][p].completed
    BY DEF ScheduledDMInv, CompletedMeansDone
  <2> QED
    BY <2>1, <2>2, <1>5, <1>16
<1> QED
  BY <1>13, <1>14, <1>15, <1>17, <1>18, <1>19, <1>20, <1>21, <1>22, <1>23
  DEF ScheduledDMInv

-----------------------------------------------------------------------------
(* The theorems.                                                           *)

\* Nothing changes.
LEMMA StutterInv ==
    ASSUME ScheduledDMInv, UNCHANGED vars
    PROVE  ScheduledDMInv'
<1>. USE DEF vars
<1>1. TypeOK' /\ SavedOK' /\ CallOK'
  BY DEF ScheduledDMInv, TypeOK, SavedOK, CallOK
<1>2. RunOrder' /\ RunCompletedExactly' /\ RowsOK'
  BY DEF ScheduledDMInv, RunOrder, RunCompletedExactly, RowsOK
<1>3. SentOK' /\ RunnerOK' /\ OpenMeansSent'
  BY DEF ScheduledDMInv, SentOK, RunnerOK, OpenMeansSent, Current
<1>4. NextOK' /\ ScheduleKept' /\ CompletedMeansDone'
  BY DEF ScheduledDMInv, NextOK, ScheduleKept, CompletedMeansDone
<1>. QED
  BY <1>1, <1>2, <1>3, <1>4 DEF ScheduledDMInv

\* Every step of the specification.
LEMMA NextInv ==
    ASSUME ScheduledDMInv, Next
    PROVE  ScheduledDMInv'
<1>1. CASE RunnerStep
  BY <1>1, ClaimInv, RunnerPhases, DelayInv, CompleteInv, EndSteps
  DEF RunnerStep
<1>2. CASE \E c \in Callers : CallStep(c)
  BY <1>2, CallMoves, StatusSteps, EndSteps DEF CallStep
<1>3. CASE \E t \in Tasks : Cancel(t) \/ \E d \in Drafts : Save(t, d)
  BY <1>3, StatusSteps, SaveInv
<1>4. CASE RunnerFails \/ Restart
  BY <1>4, EndSteps
<1> QED
  BY <1>1, <1>2, <1>3, <1>4 DEF Next

\* The inductive invariant holds in every reachable state of the store, the
\* runner and the handlers, for any tasks, drafts and bounds.
THEOREM ScheduledDMInvariant == Spec => []ScheduledDMInv
<1>1. Init => ScheduledDMInv
  BY InitInv
<1>2. ScheduledDMInv /\ [Next]_vars => ScheduledDMInv'
  BY NextInv, StutterInv
<1> QED
  BY <1>1, <1>2, PTL DEF Spec

\* A recipient gets at most one message in a run (scheduled_dm_store.go's
\* fixed account and random identifier per delivery), whatever is retried,
\* restarted or saved again.
THEOREM OneMessage == Spec => []OneMessagePerRun
<1>1. ScheduledDMInv => OneMessagePerRun
  <2> SUFFICES ASSUME ScheduledDMInv, NEW x \in sent, NEW y \in sent,
                      x.task = y.task, x.run = y.run, x.recipient = y.recipient
               PROVE  x = y
    BY DEF OneMessagePerRun
  <2> DEFINE t == x.task
             n == x.run
  <2>1. t \in Tasks /\ n \in RunNumbers
    BY DEF ScheduledDMInv, TypeOK, Message
  <2>2. PICK i \in Ordinals :
          rows[t][n][i].status # "absent" /\ x = MessageOf(t, n, rows[t][n][i])
    BY DEF ScheduledDMInv, SentOK
  <2>3. PICK k \in Ordinals :
          rows[t][n][k].status # "absent" /\ y = MessageOf(t, n, rows[t][n][k])
    BY DEF ScheduledDMInv, SentOK
  <2>4. rows[t][n][i].recipient = rows[t][n][k].recipient
    BY <2>2, <2>3 DEF MessageOf
  <2>5. i = k
    BY <2>1, <2>2, <2>3, <2>4 DEF ScheduledDMInv, RowsOK
  <2> QED
    BY <2>2, <2>3, <2>5
<1> QED
  BY <1>1, ScheduledDMInvariant, PTL

\* A task has at most one open run, and a run is complete exactly when none
\* of its deliveries is open (ClaimDueDelivery, CompleteDelivery).
THEOREM RunsInOrder == Spec => [](OneOpenRun /\ RunCompletedExactly)
<1>1. ScheduledDMInv => OneOpenRun /\ RunCompletedExactly
  BY DEF ScheduledDMInv, OneOpenRun, RunOrder, RunCompletedExactly
<1> QED
  BY <1>1, ScheduledDMInvariant, PTL

\* Runs are planned at start + (n-1) * interval, and "completed" means every
\* run was made and finished (completeRun), for a task saved once.
THEOREM SchedulePreserved == Spec => [](ScheduleKept /\ CompletedMeansDone)
<1>1. ScheduledDMInv => ScheduleKept /\ CompletedMeansDone
  BY DEF ScheduledDMInv
<1> QED
  BY <1>1, ScheduledDMInvariant, PTL
=============================================================================
