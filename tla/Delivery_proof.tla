--------------------------- MODULE Delivery_proof ---------------------------
(***************************************************************************)
(* Theorems about the delivery core for any number of jobs, accounts,      *)
(* channels, attempts and interruptions.  DeliveryInv is the inductive     *)
(* invariant; RestOffReleasesEveryone is inductive together with it.       *)
(* ReplyInv extends it with what was enqueued, what the history says and   *)
(* what the RunOnce in progress knows.                                     *)
(***************************************************************************)
EXTENDS Delivery, TLAPS

\* The row types and the status sets, kept folded elsewhere.
Rows == [Jobs -> JobRow]

\* A new row of a known shape is a row.
LEMMA NewRowType ==
    ASSUME NEW s \in Shape, NEW st \in {"absent", "queued"}
    PROVE  NewRow(s, st) \in JobRow
BY DeliveryAssumption DEF NewRow, JobRow, Shape

\* A row whose status, due time and error change stays a row.
LEMMA DelayedRow ==
    ASSUME NEW row \in JobRow, NEW st \in {"queued", "delayed"},
           NEW due \in BOOLEAN,
           NEW reason \in {"", "account_group_rest", "private_message_closed"}
    PROVE  [row EXCEPT !.status = st, !.due = due, !.error = reason] \in JobRow
<1>1. row.attempts \in 0..MaxAttempts
  BY DEF JobRow
<1>. QED
  BY <1>1 DEF JobRow

\* releaseGroupRestDelays keeps rows rows.
LEMMA ReleaseType ==
    ASSUME NEW rows \in Rows
    PROVE  ReleaseRestDelays(rows) \in Rows
<1>. SUFFICES ASSUME NEW j \in Jobs
              PROVE  [rows[j] EXCEPT !.status = "queued", !.due = TRUE,
                                     !.error = ""] \in JobRow
  BY DEF ReleaseRestDelays, Rows
<1>1. rows[j] \in JobRow
  BY DEF Rows
<1>. QED
  BY <1>1, DelayedRow

\* DelayTransientUntil keeps rows rows, and touches one row.
LEMMA DelayType ==
    ASSUME job \in Rows, NEW j \in Jobs,
           NEW reason \in {"account_group_rest", "private_message_closed"}
    PROVE  DelayTransient(j, reason) \in Rows
<1>0. job[j] \in JobRow
  BY DEF Rows
<1>1. [job[j] EXCEPT !.status = "delayed", !.due = FALSE, !.error = reason]
        \in JobRow
  BY <1>0, DelayedRow
<1>2. [job EXCEPT ![j].status = "delayed", ![j].due = FALSE,
                  ![j].error = reason] \in Rows
  BY <1>1 DEF Rows
<1>. QED
  BY <1>2 DEF DelayTransient

\* Attempts are counted in numbers.
LEMMA AttemptsNat ==
    ASSUME NEW row \in JobRow
    PROVE  row.attempts \in Nat
<1>1. row.attempts \in 0..MaxAttempts
  BY DEF JobRow
<1>2. MaxAttempts \in Nat
  BY DeliveryAssumption
<1>. QED
  BY <1>1, <1>2

\* One more counted attempt fits while an attempt is left.
LEMMA CountFailureType ==
    ASSUME NEW row \in JobRow, row.attempts < MaxAttempts
    PROVE  /\ CountFailure(row) \in JobRow
           /\ CountFailure(row).attempts = row.attempts + 1
           /\ CountFailure(row).account = row.account
           /\ CountFailure(row).status =
                IF row.attempts + 1 >= MaxAttempts THEN "done" ELSE "delayed"
           /\ CountFailure(row).error = "failed"
<1>1. row.attempts \in 0..MaxAttempts
  BY DEF JobRow
<1>2. MaxAttempts \in Nat
  BY DeliveryAssumption
<1>3. row.attempts + 1 \in 0..MaxAttempts
  BY <1>1, <1>2
<1>. QED
  BY <1>3 DEF CountFailure, JobRow

\* An empty queue satisfies the inductive invariant.
LEMMA InitInv == Init => DeliveryInv
<1>. SUFFICES ASSUME Init PROVE DeliveryInv
  OBVIOUS
<1>1. job \in Rows /\ \A j \in Jobs : job[j] = NewRow(AnyShape, "absent")
  <2>1. AnyShape \in Shape
    BY DEF AnyShape, Shape, JobTypes, Modes
  <2>. QED
    BY <2>1, NewRowType DEF Init, Rows
<1>2. TypeOK
  <2>1. clearing \in [calls : Nat, failed : BOOLEAN]
    BY DEF Init, NoClear
  <2>. QED
    BY <1>1, <2>1, DeliveryAssumption
    DEF Init, TypeOK, RunOK, Rows, HistoryRow, AccountRow, RunRow, Idle, Steps,
        Dispatching, Kinds
<1>3. AttemptsLeft /\ ClaimKept
  BY <1>1 DEF Init, AttemptsLeft, ClaimKept, Pending, NewRow, Idle
<1>. QED
  BY <1>2, <1>3 DEF DeliveryInv

(***************************************************************************)
(* What every step does to the queue, to the messages and to the RunOnce   *)
(* in progress.  The action properties follow from the first two.          *)
(***************************************************************************)
JobsAdvance ==
    \A j \in Jobs :
        /\ job[j].status = "done" => job'[j].status = "done"
        /\ job'[j].status = "absent" => job'[j] = job[j]
        /\ job[j].account # NoAccount => job'[j].account = job[j].account
        /\ job'[j].attempts >= job[j].attempts
        /\ Pending(j)' => job'[j].attempts < MaxAttempts

SendsByClaim ==
    \A j \in Jobs : \A m \in sent'[j] :
        \/ m \in sent[j]
        \/ run.step = "inflight" /\ j = run.job /\ m.account = run.account

RunSettles ==
    \/ run'.step \notin {"send", "inflight"}
    \/ run' = run /\ (run.step = "inflight" =>
          account'[run.account].role = account[run.account].role)
    \/ run' # run /\ UNCHANGED <<job, account>>
       /\ job[run'.job].account = run'.account
       /\ (run'.step = "inflight" => account[run'.account].role = "spammer")

StepOK == TypeOK' /\ JobsAdvance /\ SendsByClaim /\ RunSettles

\* Such a step keeps the strengthening.
LEMMA StepKeepsInv == DeliveryInv /\ StepOK => DeliveryInv'
<1>. SUFFICES ASSUME DeliveryInv, StepOK PROVE DeliveryInv'
  OBVIOUS
<1>1. /\ job \in Rows /\ job' \in Rows /\ sent \in [Jobs -> SUBSET Message]
      /\ RunOK
  BY DEF DeliveryInv, StepOK, TypeOK, Rows
<1>2. AttemptsLeft'
  BY DEF StepOK, JobsAdvance, AttemptsLeft
<1>3. \A j \in Jobs : job'[j].status = "absent" =>
                        job'[j].account = NoAccount /\ job'[j].attempts = 0
  BY DEF StepOK, JobsAdvance, DeliveryInv, ClaimKept
<1>4. \A j \in Jobs : \A m \in sent'[j] : m.account = job'[j].account
  <2>. SUFFICES ASSUME NEW j \in Jobs, NEW m \in sent'[j]
                PROVE  m.account = job'[j].account
    OBVIOUS
  <2>1. m.account = job[j].account /\ m.account \in Accounts
    <3>1. CASE m \in sent[j]
      BY <1>1, <3>1 DEF DeliveryInv, ClaimKept, Message
    <3>2. CASE run.step = "inflight" /\ j = run.job /\ m.account = run.account
      BY <1>1, <3>2 DEF DeliveryInv, ClaimKept, RunOK, Dispatching
    <3>. QED
      BY <3>1, <3>2 DEF StepOK, SendsByClaim
  <2>2. job[j].account # NoAccount
    BY <2>1, DeliveryAssumption
  <2>. QED
    BY <2>1, <2>2 DEF StepOK, JobsAdvance
<1>5. run'.step \in {"send", "inflight"} => job'[run'.job].account = run'.account
  <2>1. CASE run' = run
    <3>1. ASSUME run.step \in {"send", "inflight"}
          PROVE  /\ run.job \in Jobs /\ run.account \in Accounts
                 /\ job[run.job].account = run.account
      BY <1>1, <3>1 DEF RunOK, Dispatching, DeliveryInv, ClaimKept
    <3>. QED
      BY <2>1, <3>1, DeliveryAssumption DEF StepOK, JobsAdvance
  <2>. QED
    BY <2>1 DEF StepOK, RunSettles
<1>6. run'.step = "inflight" => account'[run'.account].role = "spammer"
  BY DEF StepOK, RunSettles, DeliveryInv, ClaimKept
<1>. QED
  BY <1>2, <1>3, <1>4, <1>5, <1>6 DEF DeliveryInv, ClaimKept, StepOK

\* A step that leaves queue and messages alone advances them trivially.
LEMMA QuietStep ==
    ASSUME DeliveryInv, UNCHANGED <<job, sent>>
    PROVE  JobsAdvance /\ SendsByClaim
<1>1. \A j \in Jobs : job[j].attempts \in Nat
  BY AttemptsNat DEF DeliveryInv, TypeOK
<1>2. \A j \in Jobs : Pending(j)' => job[j].attempts < MaxAttempts
  BY DEF DeliveryInv, AttemptsLeft, Pending
<1>. QED
  BY <1>1, <1>2 DEF JobsAdvance, SendsByClaim

\* What DeliveryInv says, in the form the steps below use it.
LEMMA InvFacts ==
    ASSUME DeliveryInv
    PROVE  /\ job \in Rows
           /\ history \in [Jobs -> HistoryRow]
           /\ account \in [Accounts -> AccountRow]
           /\ sent \in [Jobs -> SUBSET Message]
           /\ RunOK
BY DEF DeliveryInv, TypeOK, Rows

\* RunOnce changes "run" only.
RunOnlyStep ==
    \/ \E j \in Jobs : NextDue(j)
    \/ DecideTurn \/ RestCheckSwitch \/ RestRecheckSwitch \/ CanDispatch
    \/ BeginSend \/ SendFindsClosed

\* Steps of RunOnce that only move to the next step.
LEMMA RunOnlyOK == DeliveryInv /\ RunOnlyStep => StepOK
<1>. SUFFICES ASSUME DeliveryInv, RunOnlyStep PROVE StepOK
  OBVIOUS
<1>0. RunOK /\ ClaimKept
  BY DEF DeliveryInv, TypeOK
<1>1. UNCHANGED <<job, history, account, resting, restOn, clearing, channel,
                  senders, sent, disturbances>>
  BY DEF RunOnlyStep, NextDue, DecideTurn, RestCheckSwitch, RestRecheckSwitch,
         CanDispatch, BeginSend, SendFindsClosed
<1>. DEFINE RunGood == /\ RunOK'
                       /\ run'.step \in {"send", "inflight"} =>
                            job[run'.job].account = run'.account
                       /\ run'.step = "inflight" =>
                            account[run'.account].role = "spammer"
<1>. USE DEF RunOK, RunRow, Steps, Dispatching, Kinds, Idle
<1>2. ASSUME NEW j \in Jobs, NextDue(j) PROVE RunGood
  BY <1>0, <1>2 DEF NextDue
<1>3. ASSUME DecideTurn PROVE RunGood
  <2>1. KindFor(run.job, account[run.account]) \in Kinds
    BY DEF KindFor
  <2>. QED
    BY <1>0, <1>3, <2>1 DEF DecideTurn
<1>4. ASSUME RestCheckSwitch PROVE RunGood
  BY <1>0, <1>4 DEF RestCheckSwitch
<1>5. ASSUME RestRecheckSwitch PROVE RunGood
  BY <1>0, <1>5 DEF RestRecheckSwitch
<1>6. ASSUME CanDispatch PROVE RunGood
  BY <1>0, <1>6 DEF CanDispatch
<1>7. ASSUME BeginSend PROVE RunGood
  BY <1>0, <1>7 DEF BeginSend, SendAuthorized, ClaimKept
<1>8. ASSUME SendFindsClosed PROVE RunGood
  BY <1>0, <1>8 DEF SendFindsClosed
<1>9. RunGood
  BY <1>2, <1>3, <1>4, <1>5, <1>6, <1>7, <1>8 DEF RunOnlyStep
<1>. QED
  BY <1>0, <1>1, <1>9, QuietStep DEF StepOK, RunSettles, DeliveryInv, TypeOK

\* SelectAccount recovers flood waits and picks an account.
LEMMA SelectOK == DeliveryInv /\ SelectAccount => StepOK
<1>. SUFFICES ASSUME DeliveryInv, SelectAccount PROVE StepOK
  OBVIOUS
<1>0. RunOK /\ account \in [Accounts -> AccountRow] /\ job \in Rows
  BY InvFacts
<1>1. UNCHANGED <<job, history, resting, restOn, clearing, channel, senders,
                  sent, disturbances>>
      /\ account' = RecoverExpired(account) /\ run.step = "loaded"
  BY DEF SelectAccount
<1>2. account' \in [Accounts -> AccountRow]
  <2>1. \A a \in Accounts :
          [account[a] EXCEPT !.status = "ready", !.flood = "none"] \in AccountRow
    BY <1>0 DEF AccountRow
  <2>. QED
    BY <1>0, <1>1, <2>1 DEF RecoverExpired
<1>2a. run.job \in Jobs /\ senders \subseteq Accounts
  BY <1>0, <1>1 DEF RunOK, DeliveryInv, TypeOK
<1>. DEFINE owner == job[run.job].account
<1>3. \/ owner \in Accounts
         /\ \E st \in {"claimed", "failed"} :
               run' = [run EXCEPT !.account = owner, !.step = st]
      \/ \E st \in {"rest", "failed"} : run' = [run EXCEPT !.step = st]
      \/ \E a \in Accounts : run' = [run EXCEPT !.step = "claim", !.account = a]
  <2>1. owner \in Accounts \cup {NoAccount}
    BY <1>0, <1>2a DEF Rows, JobRow
  <2>. QED
    BY <1>2a, <2>1, Zenon DEF SelectAccount
<1>4. RunOK' /\ run'.step \notin {"send", "inflight"}
  BY <1>0, <1>2a, <1>3 DEF RunOK, RunRow, Steps, Dispatching
<1>. QED
  BY <1>1, <1>2, <1>4, QuietStep DEF StepOK, RunSettles, DeliveryInv, TypeOK

\* One row moves forward, the others stay.
Forward(old, new) ==
    /\ new \in JobRow
    /\ old.status = "done" => new.status = "done"
    /\ new.status # "absent"
    /\ old.account # NoAccount => new.account = old.account
    /\ new.attempts >= old.attempts
    /\ new.status \in {"queued", "delayed"} => new.attempts < MaxAttempts

\* If every row advances, the queue does.
LEMMA RowsForward ==
    ASSUME DeliveryInv, job' \in [Jobs -> JobRow],
           \A j \in Jobs : job'[j] = job[j] \/ Forward(job[j], job'[j])
    PROVE  JobsAdvance
<1>. SUFFICES ASSUME NEW j \in Jobs
              PROVE  /\ job[j].status = "done" => job'[j].status = "done"
                     /\ job'[j].status = "absent" => job'[j] = job[j]
                     /\ job[j].account # NoAccount => job'[j].account = job[j].account
                     /\ job'[j].attempts >= job[j].attempts
                     /\ Pending(j)' => job'[j].attempts < MaxAttempts
  BY DEF JobsAdvance
<1>1. CASE job'[j] = job[j]
  <2>1. job[j].attempts \in Nat
    BY AttemptsNat DEF DeliveryInv, TypeOK
  <2>. QED
    BY <1>1, <2>1 DEF DeliveryInv, AttemptsLeft, Pending
<1>2. CASE Forward(job[j], job'[j])
  BY <1>2 DEF Forward, Pending
<1>. QED
  BY <1>1, <1>2

\* What the updates of the store do to a pending row.
LEMMA ReleaseForward ==
    ASSUME DeliveryInv, NEW j \in Jobs
    PROVE  \/ ReleaseRestDelays(job)[j] = job[j]
           \/ Forward(job[j], ReleaseRestDelays(job)[j])
<1>0. job \in Rows /\ job[j] \in JobRow /\ job[j].attempts \in Nat
  BY InvFacts, AttemptsNat DEF Rows
<1>1. CASE job[j].status = "delayed" /\ job[j].error = "account_group_rest"
  <2>1. job[j].attempts < MaxAttempts
    BY <1>1 DEF DeliveryInv, AttemptsLeft, Pending
  <2>. DEFINE new == [job[j] EXCEPT !.status = "queued", !.due = TRUE, !.error = ""]
  <2>2. ReleaseRestDelays(job)[j] = new
    BY <1>1 DEF ReleaseRestDelays
  <2>3. new \in JobRow /\ new.status = "queued" /\ new.account = job[j].account
        /\ new.attempts = job[j].attempts
    BY <1>0 DEF JobRow
  <2>. QED
    BY <1>0, <1>1, <2>1, <2>2, <2>3 DEF Forward
<1>2. CASE ~(job[j].status = "delayed" /\ job[j].error = "account_group_rest")
  BY <1>2 DEF ReleaseRestDelays
<1>. QED
  BY <1>1, <1>2

\* DelayTransientUntil advances every row.
LEMMA DelayForward ==
    ASSUME DeliveryInv, NEW i \in Jobs, NEW j \in Jobs,
           NEW reason \in {"account_group_rest", "private_message_closed"}
    PROVE  \/ DelayTransient(i, reason)[j] = job[j]
           \/ Forward(job[j], DelayTransient(i, reason)[j])
<1>0. job \in Rows /\ job[i] \in JobRow /\ job[i].attempts \in Nat
  BY InvFacts, AttemptsNat DEF Rows
<1>1. CASE Pending(i) /\ (reason # "account_group_rest" \/ restOn)
  <2>1. job[i].attempts < MaxAttempts /\ job[i].status # "done"
    BY <1>1 DEF DeliveryInv, AttemptsLeft, Pending
  <2>. DEFINE new == [job[i] EXCEPT !.status = "delayed", !.due = FALSE,
                                    !.error = reason]
  <2>2. DelayTransient(i, reason)[j] = IF i = j THEN new ELSE job[j]
    BY <1>0, <1>1 DEF DelayTransient, Rows
  <2>3. new \in JobRow /\ new.status = "delayed" /\ new.account = job[i].account
        /\ new.attempts = job[i].attempts
    BY <1>0 DEF JobRow
  <2>. QED
    BY <1>0, <2>1, <2>2, <2>3 DEF Forward
<1>2. CASE ~(Pending(i) /\ (reason # "account_group_rest" \/ restOn))
  BY <1>2 DEF DelayTransient
<1>. QED
  BY <1>1, <1>2

\* The steps of RunOnce that write the queue and then forget or settle.
LEMMA ClaimOK == DeliveryInv /\ Claim => StepOK
<1>. SUFFICES ASSUME DeliveryInv, Claim PROVE StepOK
  OBVIOUS
<1>. DEFINE j == run.job
<1>0. RunOK /\ job \in Rows /\ run.step = "claim"
  BY InvFacts DEF Claim
<1>1. j \in Jobs /\ run.account \in Accounts /\ job[j] \in JobRow
      /\ job[j].attempts \in Nat
  BY <1>0, AttemptsNat DEF RunOK, Rows, Dispatching
<1>2. CASE Pending(j) /\ job[j].account = NoAccount
  <2>. DEFINE new == [job[j] EXCEPT !.account = run.account]
  <2>1. job' = [job EXCEPT ![j] = new] /\ run' = [run EXCEPT !.step = "claimed",
                                                  !.account = job'[j].account]
    BY <1>0, <1>2 DEF Claim
  <2>2. new \in JobRow /\ new.status = job[j].status
        /\ new.account = run.account /\ new.attempts = job[j].attempts
    BY <1>1 DEF JobRow
  <2>3. Forward(job[j], new)
    BY <1>1, <1>2, <2>2 DEF Forward, Pending, DeliveryInv, AttemptsLeft
  <2>4. job' \in Rows /\ JobsAdvance
    <3>1. job' \in Rows /\ \A i \in Jobs : job'[i] = job[i] \/ Forward(job[i], job'[i])
      BY <1>0, <1>1, <2>1, <2>2, <2>3 DEF Rows
    <3>. QED
      BY <3>1, RowsForward DEF Rows
  <2>5. RunOK' /\ run'.step \notin {"send", "inflight"}
    <3>1. job'[j].account = run.account
      BY <1>0, <1>1, <2>1, <2>2 DEF Rows
    <3>. QED
      BY <1>0, <1>1, <2>1, <3>1 DEF RunOK, RunRow, Steps, Dispatching
  <2>. QED
    BY <2>4, <2>5 DEF Claim, StepOK, RunSettles, SendsByClaim, DeliveryInv, TypeOK, Rows
<1>3. CASE ~(Pending(j) /\ job[j].account = NoAccount)
  <2>1. job' = job /\ sent' = sent
    BY <1>3 DEF Claim
  <2>2. RunOK' /\ run'.step \notin {"send", "inflight"}
    <3>1. CASE Pending(j)
      <4>1. job[j].account \in Accounts
        BY <1>1, <1>3, <3>1 DEF JobRow
      <4>2. run' = [run EXCEPT !.step = "claimed", !.account = job[j].account]
        BY <2>1, <3>1 DEF Claim
      <4>. QED
        BY <1>0, <1>1, <4>1, <4>2 DEF RunOK, RunRow, Steps, Dispatching
    <3>2. CASE ~Pending(j)
      BY <3>2 DEF Claim, Idle, RunOK, RunRow, Steps, Dispatching
    <3>. QED
      BY <3>1, <3>2
  <2>. QED
    BY <2>1, <2>2, QuietStep DEF Claim, StepOK, RunSettles, DeliveryInv, TypeOK
<1>. QED
  BY <1>2, <1>3

\* A RunOnce that is over, or was never begun, dispatches nothing.
LEMMA IdleRun == /\ run' = Idle => RunOK'
                 /\ run' = Idle => run'.step \notin {"send", "inflight"}
BY DEF Idle, RunOK, RunRow, Steps, Dispatching

\* The three uncounted delays and releases of RunOnce.
LEMMA DelaysOK ==
    DeliveryInv /\ (RestDelay \/ ReleaseGroupRestDelays \/ DelayAfterClosed)
        => StepOK
<1>. SUFFICES ASSUME DeliveryInv,
                     RestDelay \/ ReleaseGroupRestDelays \/ DelayAfterClosed
              PROVE  StepOK
  OBVIOUS
<1>0. RunOK /\ job \in Rows
  BY InvFacts
<1>1. run.job \in Jobs
  BY <1>0 DEF RestDelay, ReleaseGroupRestDelays, DelayAfterClosed, RunOK
<1>2. /\ UNCHANGED <<history, account, resting, restOn, clearing, channel,
                     senders, sent, disturbances>>
      /\ \/ job' = ReleaseRestDelays(job)
         \/ \E r \in {"account_group_rest", "private_message_closed"} :
               job' = DelayTransient(run.job, r)
  BY DEF RestDelay, ReleaseGroupRestDelays, DelayAfterClosed
<1>3. job' \in Rows
  BY <1>0, <1>1, <1>2, ReleaseType, DelayType
<1>4. JobsAdvance
  <2>1. \A j \in Jobs : job'[j] = job[j] \/ Forward(job[j], job'[j])
    BY <1>1, <1>2, ReleaseForward, DelayForward
  <2>. QED
    BY <1>3, <2>1, RowsForward DEF Rows
<1>5. RunOK' /\ run'.step \notin {"send", "inflight"}
  <2>1. CASE run' = Idle
    BY <2>1, IdleRun
  <2>2. CASE RestDelay /\ run' = [run EXCEPT !.step = "restRecheck"]
    BY <1>0, <2>2 DEF RestDelay, RunOK, RunRow, Steps, Dispatching
  <2>. QED
    BY <2>1, <2>2 DEF RestDelay, ReleaseGroupRestDelays, DelayAfterClosed
<1>. QED
  BY <1>2, <1>3, <1>4, <1>5
  DEF StepOK, RunSettles, SendsByClaim, DeliveryInv, TypeOK, Rows

\* A counted failure (DelayKeywordFailure, DelayUntil).
LEMMA FailureOK == DeliveryInv /\ RecordFailure => StepOK
<1>. SUFFICES ASSUME DeliveryInv, RecordFailure PROVE StepOK
  OBVIOUS
<1>. DEFINE j == run.job
<1>0. RunOK /\ job \in Rows /\ history \in [Jobs -> HistoryRow]
  BY InvFacts
<1>1. j \in Jobs /\ job[j] \in JobRow /\ job[j].attempts \in Nat
      /\ MaxAttempts \in Nat
  BY <1>0, AttemptsNat, DeliveryAssumption DEF RecordFailure, RunOK, Rows
<1>2. job' \in Rows /\ JobsAdvance
  <2>1. CASE Pending(j)
    <3>1. job[j].attempts < MaxAttempts /\ job[j].status # "done"
      BY <1>1, <2>1 DEF DeliveryInv, AttemptsLeft, Pending
    <3>2. job' = [job EXCEPT ![j] = CountFailure(job[j])]
      BY <1>0, <2>1 DEF RecordFailure
    <3>3. Forward(job[j], CountFailure(job[j]))
      BY <1>1, <3>1, CountFailureType DEF Forward
    <3>4. job' \in Rows /\ \A i \in Jobs : job'[i] = job[i] \/ Forward(job[i], job'[i])
      BY <1>0, <1>1, <3>2, <3>3 DEF Rows, Forward
    <3>. QED
      BY <3>4, RowsForward DEF Rows
  <2>2. CASE ~Pending(j)
    <3>1. job' = job
      BY <2>2 DEF RecordFailure
    <3>. QED
      BY <1>0, <3>1, RowsForward DEF Rows
  <2>. QED
    BY <2>1, <2>2
<1>3. history' \in [Jobs -> HistoryRow]
  <2>1. ASSUME NEW ended \in BOOLEAN
        PROVE  FailureHistory(history[j], run.kind, run.account, ended) \in HistoryRow
    <3>1. run.kind \in Kinds \cup {"unknown"} /\ run.account \in Accounts \cup {NoAccount}
          /\ history[j] \in HistoryRow
      BY <1>0, <1>1 DEF RunOK, RunRow
    <3>. QED
      BY <3>1 DEF FailureHistory, HistoryRow
  <2>. QED
    BY <1>0, <1>1, <2>1 DEF RecordFailure
<1>. QED
  BY <1>2, <1>3, IdleRun
  DEF RecordFailure, StepOK, RunSettles, SendsByClaim, DeliveryInv, TypeOK, Rows

\* RecordPrivateClosed ends a job or turns it public.
LEMMA PrivateClosedOK == DeliveryInv /\ RecordPrivateClosed => StepOK
<1>. SUFFICES ASSUME DeliveryInv, RecordPrivateClosed PROVE StepOK
  OBVIOUS
<1>. DEFINE j == run.job
            first == /\ ~job[j].closed /\ Pending(j)
                     /\ (job[j].allow \/ job[j].mode = "private")
            new == [job[j] EXCEPT !.allow = FALSE, !.fallback = FALSE,
                      !.mode = IF @ = "private" /\ job[j].fallback
                               THEN "comments" ELSE @,
                      !.status = IF TerminalClosed(j) THEN "done" ELSE @,
                      !.error = "private_message_closed", !.closed = TRUE]
<1>0. RunOK /\ job \in Rows /\ history \in [Jobs -> HistoryRow]
      /\ account \in [Accounts -> AccountRow]
  BY InvFacts
<1>1. j \in Jobs /\ run.account \in Accounts /\ job[j] \in JobRow
      /\ job[j].attempts \in Nat
  BY <1>0, AttemptsNat DEF RecordPrivateClosed, RunOK, Rows, Dispatching
<1>2. job' \in Rows /\ JobsAdvance
  <2>1. CASE first
    <3>1. job' = [job EXCEPT ![j] = new]
      BY <1>0, <1>1, <2>1 DEF RecordPrivateClosed, Rows
    <3>2. new \in JobRow /\ new.account = job[j].account
          /\ new.attempts = job[j].attempts
          /\ new.status \in {"done", job[j].status}
      BY <1>1 DEF JobRow, Modes
    <3>3. Forward(job[j], new)
      BY <1>1, <2>1, <3>2 DEF Forward, DeliveryInv, AttemptsLeft, Pending
    <3>4. job' \in Rows /\ \A i \in Jobs : job'[i] = job[i] \/ Forward(job[i], job'[i])
      BY <1>0, <1>1, <3>1, <3>2, <3>3 DEF Rows
    <3>. QED
      BY <3>4, RowsForward DEF Rows
  <2>2. CASE ~first
    <3>1. job' = job
      BY <2>2 DEF RecordPrivateClosed
    <3>. QED
      BY <1>0, <3>1, RowsForward DEF Rows
  <2>. QED
    BY <2>1, <2>2
<1>3. account' \in [Accounts -> AccountRow]
  <2>1. account' = account \/ account' = [account EXCEPT ![run.account].next = "public"]
    BY DEF RecordPrivateClosed
  <2>. QED
    BY <1>0, <1>1, <2>1 DEF AccountRow
<1>4. history' \in [Jobs -> HistoryRow]
  <2>1. \/ history' = history
        \/ history' = [history EXCEPT ![j] = [final |-> "not_delivered",
                        kind |-> "private_message", account |-> run.account]]
    BY DEF RecordPrivateClosed
  <2>. QED
    BY <1>0, <1>1, <2>1 DEF HistoryRow, Kinds
<1>5. RunOK' /\ run'.step \notin {"send", "inflight"}
  <2>1. run' = Idle \/ run' = [run EXCEPT !.step = "closedDelay"]
    BY DEF RecordPrivateClosed
  <2>2. CASE run' = [run EXCEPT !.step = "closedDelay"]
    BY <1>0, <2>2 DEF RecordPrivateClosed, RunOK, RunRow, Steps, Dispatching
  <2>. QED
    BY <2>1, <2>2, IdleRun
<1>6. UNCHANGED <<resting, restOn, clearing, channel, senders, sent, disturbances>>
  BY DEF RecordPrivateClosed
<1>. QED
  BY <1>2, <1>3, <1>4, <1>5, <1>6
  DEF StepOK, RunSettles, SendsByClaim, DeliveryInv, TypeOK, Rows

\* Complete and CompleteKeywordResponse end a claimed job.
LEMMA CompleteOK == DeliveryInv /\ Complete => StepOK
<1>. SUFFICES ASSUME DeliveryInv, Complete PROVE StepOK
  OBVIOUS
<1>. DEFINE j == run.job
            new == [job[j] EXCEPT !.status = "done", !.error = ""]
<1>0. RunOK /\ job \in Rows /\ history \in [Jobs -> HistoryRow]
      /\ account \in [Accounts -> AccountRow]
  BY InvFacts
<1>1. j \in Jobs /\ run.account \in Accounts /\ run.kind \in Kinds
      /\ job[j] \in JobRow /\ job[j].attempts \in Nat
  BY <1>0, AttemptsNat DEF Complete, RunOK, Rows, Dispatching
<1>2. job' \in Rows /\ JobsAdvance
  <2>1. job' = job \/ job' = [job EXCEPT ![j] = new]
    BY <1>0, <1>1 DEF Complete, Rows
  <2>2. new \in JobRow /\ new.status = "done" /\ new.account = job[j].account
        /\ new.attempts = job[j].attempts
    BY <1>1 DEF JobRow
  <2>3. Forward(job[j], new)
    BY <1>1, <2>2 DEF Forward
  <2>4. job' \in Rows /\ \A i \in Jobs : job'[i] = job[i] \/ Forward(job[i], job'[i])
    BY <1>0, <1>1, <2>1, <2>2, <2>3 DEF Rows
  <2>. QED
    BY <2>4, RowsForward DEF Rows
<1>3. account' \in [Accounts -> AccountRow]
  <2>1. CompletedAccount(account[run.account], j, run.kind) \in AccountRow
    <3>1. account[run.account] \in AccountRow
      BY <1>0, <1>1
    <3>. QED
      BY <3>1 DEF CompletedAccount, AccountRow
  <2>2. account' = account \/ account' = [account EXCEPT ![run.account] =
                                CompletedAccount(account[run.account], j, run.kind)]
    BY <1>0, <1>1 DEF Complete
  <2>. QED
    BY <1>0, <1>1, <2>1, <2>2
<1>4. history' \in [Jobs -> HistoryRow]
  <2>1. \/ history' = history
        \/ history' = [history EXCEPT ![j] = [final |-> "successful",
                        kind |-> run.kind, account |-> run.account]]
    BY DEF Complete
  <2>. QED
    BY <1>0, <1>1, <2>1 DEF HistoryRow
<1>5. run' = Idle
      /\ UNCHANGED <<resting, restOn, clearing, channel, senders, sent, disturbances>>
  BY DEF Complete
<1>. QED
  BY <1>2, <1>3, <1>4, <1>5, IdleRun
  DEF StepOK, RunSettles, SendsByClaim, DeliveryInv, TypeOK, Rows

\* A message is added only for the claimed job in flight.
LEMMA DeliverOK ==
    ASSUME DeliveryInv, run.step = "inflight",
           sent' = sent \/ Deliver(run.job, run.account, run.kind)
    PROVE  SendsByClaim /\ sent' \in [Jobs -> SUBSET Message]
<1>1. run.job \in Jobs /\ run.account \in Accounts /\ run.kind \in Kinds
      /\ sent \in [Jobs -> SUBSET Message]
  BY InvFacts DEF RunOK, Dispatching
<1>2. [account |-> run.account, kind |-> run.kind] \in Message
  BY <1>1 DEF Message
<1>. QED
  BY <1>1, <1>2 DEF Deliver, SendsByClaim

\* The answers of Telegram that may add a message.
LEMMA SendsOK == DeliveryInv /\ (SendSucceeds \/ SendFails \/ SendFloods) => StepOK
<1>. SUFFICES ASSUME DeliveryInv, SendSucceeds \/ SendFails \/ SendFloods
              PROVE  StepOK
  OBVIOUS
<1>0. RunOK /\ job \in Rows /\ account \in [Accounts -> AccountRow]
      /\ run.step = "inflight"
      /\ UNCHANGED <<job, history, resting, restOn, clearing, channel, senders,
                     disturbances>>
  BY InvFacts DEF SendSucceeds, SendFails, SendFloods
<1>1. SendsByClaim /\ sent' \in [Jobs -> SUBSET Message]
  <2>1. sent' = sent \/ Deliver(run.job, run.account, run.kind)
    BY DEF SendSucceeds, SendFails, SendFloods
  <2>. QED
    BY <1>0, <2>1, DeliverOK
<1>2. JobsAdvance
  BY <1>0, RowsForward DEF Rows
<1>3. account' \in [Accounts -> AccountRow]
  <2>1. account' = account \/
        account' = [account EXCEPT ![run.account] = FloodWait(account[run.account])]
    BY <1>0 DEF SendSucceeds, SendFails, SendFloods
  <2>2. \A a \in Accounts : FloodWait(account[a]) \in AccountRow
    BY <1>0 DEF FloodWait, AccountRow
  <2>3. run.account \in Accounts
    BY <1>0 DEF RunOK, Dispatching
  <2>. QED
    BY <1>0, <2>1, <2>2, <2>3
<1>4. RunOK' /\ run'.step \notin {"send", "inflight"}
  BY <1>0 DEF SendSucceeds, SendFails, SendFloods, RunOK, RunRow, Steps, Dispatching
<1>. QED
  BY <1>0, <1>1, <1>2, <1>3, <1>4
  DEF StepOK, RunSettles, DeliveryInv, TypeOK

\* STOP and a restart, with a request perhaps on the wire.
LEMMA InterruptOK == DeliveryInv /\ (StopDelivery \/ Restart) => StepOK
<1>. SUFFICES ASSUME DeliveryInv, StopDelivery \/ Restart PROVE StepOK
  OBVIOUS
<1>0. job \in Rows /\ sent \in [Jobs -> SUBSET Message] /\ run' = Idle
      /\ UNCHANGED <<history, account, restOn, channel>>
      /\ resting \subseteq Accounts /\ senders \subseteq Accounts
      /\ clearing \in [calls : Nat, failed : BOOLEAN]
      /\ disturbances \in 0..MaxDisturbances
  BY InvFacts DEF StopDelivery, Restart, DeliveryInv, TypeOK
<1>1. SendsByClaim /\ sent' \in [Jobs -> SUBSET Message]
  <2>1. CASE sent' = sent
    BY <1>0, <2>1 DEF SendsByClaim
  <2>2. CASE run.step = "inflight" /\ Deliver(run.job, run.account, run.kind)
    BY <2>2, DeliverOK
  <2>. QED
    BY <2>1, <2>2 DEF StopDelivery, Restart
<1>2. job' \in Rows /\ JobsAdvance
  <2>1. job' = job \/ job' = ReleaseRestDelays(job)
    BY DEF StopDelivery, Restart
  <2>2. job' \in Rows
    BY <1>0, <2>1, ReleaseType
  <2>3. \A j \in Jobs : job'[j] = job[j] \/ Forward(job[j], job'[j])
    BY <2>1, ReleaseForward
  <2>. QED
    BY <2>2, <2>3, RowsForward DEF Rows
<1>3. /\ resting' \subseteq Accounts /\ senders' \subseteq Accounts
      /\ clearing' \in [calls : Nat, failed : BOOLEAN]
  <2>1. NoClear \in [calls : Nat, failed : BOOLEAN]
    BY DEF NoClear
  <2>. QED
    BY <1>0, <2>1 DEF StopDelivery, Restart
<1>4. disturbances' \in 0..MaxDisturbances
  BY <1>0, DeliveryAssumption DEF StopDelivery, Restart, Interrupted
<1>. QED
  BY <1>0, <1>1, <1>2, <1>3, <1>4, IdleRun
  DEF StepOK, RunSettles, DeliveryInv, TypeOK, Rows

\* The handlers and clocks that touch neither queue nor messages nor run.
AsideStep ==
    \/ \E a \in Accounts : AccountStep(a)
    \/ \E on \in BOOLEAN : SaveGroupRestEnabled(on)
    \/ ClearFails
    \/ \E c \in Channels, st \in {"active", "paused"} : SetChannel(c, st)

\* Handlers that change accounts, rests, senders or the switch.
LEMMA AsideOK == DeliveryInv /\ AsideStep => StepOK
<1>. SUFFICES ASSUME DeliveryInv, AsideStep PROVE StepOK
  OBVIOUS
<1>0. /\ account \in [Accounts -> AccountRow] /\ disturbances \in 0..MaxDisturbances
      /\ senders \subseteq Accounts /\ resting \subseteq Accounts
      /\ restOn \in BOOLEAN /\ clearing \in [calls : Nat, failed : BOOLEAN]
      /\ channel \in [Channels -> {"active", "paused", "removed"}]
      /\ RunOK
  BY DEF DeliveryInv, TypeOK
<1>. DEFINE Rest == /\ senders' \subseteq Accounts /\ resting' \subseteq Accounts
                    /\ restOn' \in BOOLEAN
                    /\ clearing' \in [calls : Nat, failed : BOOLEAN]
                    /\ channel' \in [Channels -> {"active", "paused", "removed"}]
                    /\ disturbances' \in 0..MaxDisturbances
                    /\ account' \in [Accounts -> AccountRow]
                    /\ run.step = "inflight" =>
                         account'[run.account].role = account[run.account].role
                    /\ UNCHANGED <<job, history, run, sent>>
<1>1. Interrupted => disturbances' \in 0..MaxDisturbances
  BY <1>0, DeliveryAssumption DEF Interrupted
<1>2. run.step = "inflight" => run.account \in Accounts
  BY <1>0 DEF RunOK, Dispatching
<1>3. ASSUME NEW a \in Accounts, Register(a) \/ Unregister(a) PROVE Rest
  BY <1>0, <1>1, <1>3 DEF Register, Unregister
<1>4. ASSUME NEW a \in Accounts, StartGroupRest(a) \/ RestExpires(a) PROVE Rest
  BY <1>0, <1>1, <1>4 DEF StartGroupRest, RestExpires
<1>5. ASSUME NEW a \in Accounts, RecordFloodWait(a) PROVE Rest
  <2>1. FloodWait(account[a]) \in AccountRow
        /\ FloodWait(account[a]).role = account[a].role
    BY <1>0 DEF FloodWait, AccountRow
  <2>2. account' = [account EXCEPT ![a] = FloodWait(account[a])]
    BY <1>0, <1>5 DEF RecordFloodWait
  <2>. QED
    BY <1>0, <1>1, <1>2, <1>5, <2>1, <2>2 DEF RecordFloodWait
<1>6. ASSUME NEW a \in Accounts, FloodExpires(a) \/ MarkValidated(a) PROVE Rest
  BY <1>0, <1>1, <1>2, <1>6 DEF FloodExpires, MarkValidated, AccountRow
<1>7. ASSUME NEW a \in Accounts, NEW r \in {"spammer", "scout_analyst"},
             SetAccountRole(a, r)
      PROVE  Rest
  BY <1>0, <1>1, <1>2, <1>7 DEF SetAccountRole, AccountRow
<1>8. ASSUME NEW a \in Accounts, NEW st \in {"ready", "error"},
             NEW override \in BOOLEAN, RecordRuntimeStatus(a, st, override)
      PROVE  Rest
  <2>. DEFINE kept == ~override /\ account[a].status = "flood_wait"
                      /\ account[a].flood = "future"
              row == [account[a] EXCEPT
                        !.status = IF kept THEN account[a].status ELSE st,
                        !.flood = IF override THEN "none" ELSE account[a].flood]
  <2>1. row \in AccountRow /\ row.role = account[a].role
    BY <1>0 DEF AccountRow
  <2>2. account' = [account EXCEPT ![a] = row]
    BY <1>0, <1>8 DEF RecordRuntimeStatus, AccountRow
  <2>. QED
    BY <1>0, <1>1, <1>2, <1>8, <2>1, <2>2 DEF RecordRuntimeStatus
<1>9. ASSUME NEW on \in BOOLEAN, SaveGroupRestEnabled(on) PROVE Rest
  BY <1>0, <1>1, <1>9 DEF SaveGroupRestEnabled
<1>10. ASSUME NEW c \in Channels, NEW st \in {"active", "paused"}, SetChannel(c, st)
       PROVE  Rest
  BY <1>0, <1>1, <1>10 DEF SetChannel
<1>11. ASSUME ClearFails PROVE Rest
  BY <1>0, <1>1, <1>11 DEF ClearFails
<1>12. Rest
  BY <1>3, <1>4, <1>5, <1>6, <1>7, <1>8, <1>9, <1>10, <1>11 DEF AsideStep, AccountStep
<1>13. RunOK'
  BY <1>0, <1>12 DEF RunOK
<1>. QED
  BY <1>12, <1>13, QuietStep DEF StepOK, RunSettles, DeliveryInv, TypeOK

\* Handlers and clocks that change the queue.
LEMMA QueueHandlersOK ==
    DeliveryInv /\ (\/ ClearGroupRests
                    \/ \E j \in Jobs : JobFallsDue(j)
                    \/ \E j \in Jobs, sh \in Shapes : Enqueue(j, sh)
                    \/ \E c \in Channels : RequestCatalogRemoval(c)) => StepOK
<1>. SUFFICES ASSUME DeliveryInv,
                     \/ ClearGroupRests
                     \/ \E j \in Jobs : JobFallsDue(j)
                     \/ \E j \in Jobs, sh \in Shapes : Enqueue(j, sh)
                     \/ \E c \in Channels : RequestCatalogRemoval(c)
              PROVE  StepOK
  OBVIOUS
<1>0. job \in Rows /\ history \in [Jobs -> HistoryRow] /\ RunOK
  BY InvFacts
<1>1. \A j \in Jobs : job[j] \in JobRow /\ job[j].attempts \in Nat
  BY <1>0, AttemptsNat DEF Rows
<1>. DEFINE Good == /\ job' \in Rows
                    /\ \A i \in Jobs : job'[i] = job[i] \/ Forward(job[i], job'[i])
<1>2. CASE ClearGroupRests
  <2>1. Good
    BY <1>0, <1>2, ReleaseType, ReleaseForward DEF ClearGroupRests
  <2>2. clearing' \in [calls : Nat, failed : BOOLEAN]
    BY <1>2 DEF ClearGroupRests, DeliveryInv, TypeOK
  <2>. QED
    BY <1>0, <1>2, <2>1, <2>2, RowsForward
    DEF ClearGroupRests, StepOK, RunSettles, SendsByClaim, RunOK, DeliveryInv,
        TypeOK, Rows
<1>3. ASSUME NEW j \in Jobs, JobFallsDue(j) PROVE StepOK
  <2>. DEFINE new == [job[j] EXCEPT !.due = TRUE]
  <2>1. job' = [job EXCEPT ![j] = new] /\ Pending(j)
    BY <1>0, <1>3 DEF JobFallsDue, Rows
  <2>2. new \in JobRow /\ new.status = job[j].status
        /\ new.account = job[j].account /\ new.attempts = job[j].attempts
    BY <1>1 DEF JobRow
  <2>3. Forward(job[j], new)
    BY <1>1, <2>1, <2>2 DEF Forward, Pending, DeliveryInv, AttemptsLeft
  <2>4. Good
    BY <1>0, <2>1, <2>2, <2>3 DEF Rows
  <2>. QED
    BY <1>0, <1>3, <2>4, RowsForward
    DEF JobFallsDue, StepOK, RunSettles, SendsByClaim, RunOK, DeliveryInv, TypeOK, Rows
<1>4. ASSUME NEW j \in Jobs, NEW sh \in Shapes, Enqueue(j, sh) PROVE StepOK
  <2>. DEFINE new == NewRow(sh, "queued")
  <2>1. job' = [job EXCEPT ![j] = new] /\ job[j].status = "absent"
    BY <1>4 DEF Enqueue
  <2>2. new \in JobRow /\ new.status = "queued" /\ new.attempts = 0
    <3>1. sh \in Shape
      BY DeliveryAssumption
    <3>. QED
      BY <3>1, NewRowType DEF NewRow
  <2>3. job[j].account = NoAccount /\ job[j].attempts = 0
    BY <2>1 DEF DeliveryInv, ClaimKept
  <2>4. MaxAttempts \in Nat \ {0}
    BY DeliveryAssumption
  <2>5. Forward(job[j], new)
    BY <2>1, <2>2, <2>3, <2>4 DEF Forward
  <2>6. Good
    BY <1>0, <2>1, <2>2, <2>5 DEF Rows
  <2>7. history' \in [Jobs -> HistoryRow]
    BY <1>0, <1>4 DEF Enqueue, HistoryRow
  <2>. QED
    BY <1>0, <1>4, <2>6, <2>7, RowsForward
    DEF Enqueue, StepOK, RunSettles, SendsByClaim, RunOK, DeliveryInv, TypeOK, Rows
<1>5. ASSUME NEW c \in Channels, RequestCatalogRemoval(c) PROVE StepOK
  <2>1. ASSUME NEW i \in Jobs
        PROVE  /\ job'[i] \in JobRow
               /\ job'[i] = job[i] \/ Forward(job[i], job'[i])
    <3>. DEFINE new == [job[i] EXCEPT !.status = "done",
                                      !.error = "channel_removal_requested"]
    <3>1. job'[i] = IF ChannelOf[i] = c /\ Pending(i) THEN new ELSE job[i]
      BY <1>5 DEF RequestCatalogRemoval
    <3>2. new \in JobRow /\ new.status = "done" /\ new.account = job[i].account
          /\ new.attempts = job[i].attempts
      BY <1>1 DEF JobRow
    <3>. QED
      BY <1>1, <3>1, <3>2 DEF Forward
  <2>2. Good
    BY <1>5, <2>1 DEF RequestCatalogRemoval, Rows
  <2>3. disturbances' \in 0..MaxDisturbances
    <3>1. disturbances \in 0..MaxDisturbances /\ Interrupted
      BY <1>5 DEF RequestCatalogRemoval, DeliveryInv, TypeOK
    <3>. QED
      BY <3>1, DeliveryAssumption DEF Interrupted
  <2>4. channel' \in [Channels -> {"active", "paused", "removed"}]
    BY <1>5 DEF RequestCatalogRemoval, DeliveryInv, TypeOK
  <2>. QED
    BY <1>0, <1>5, <2>2, <2>3, <2>4, RowsForward
    DEF RequestCatalogRemoval, StepOK, RunSettles, SendsByClaim, RunOK,
        DeliveryInv, TypeOK, Rows
<1>. QED
  BY <1>2, <1>3, <1>4, <1>5

\* Every step of the specification.
LEMMA NextOK == DeliveryInv /\ Next => StepOK
BY RunOnlyOK, SelectOK, ClaimOK, DelaysOK, FailureOK, PrivateClosedOK,
   CompleteOK, SendsOK, InterruptOK, AsideOK, QueueHandlersOK
DEF Next, RunStep, RunOnlyStep, AsideStep

\* The invariant is inductive.
LEMMA StepInv == DeliveryInv /\ [Next]_vars => DeliveryInv'
<1>1. DeliveryInv /\ Next => DeliveryInv'
  BY NextOK, StepKeepsInv
<1>2. DeliveryInv /\ UNCHANGED vars => DeliveryInv'
  BY DEF vars, DeliveryInv, TypeOK, RunOK, AttemptsLeft, ClaimKept, Pending
<1>. QED
  BY <1>1, <1>2

\* The inductive invariant holds in every state of every run.
THEOREM DeliveryInvariant == Spec => []DeliveryInv
<1>. QED
  BY InitInv, StepInv, PTL DEF Spec

\* The rows of the store, the RunOnce in progress and the messages keep their
\* types; in particular no job is tried more than maxDeliveryAttempts times.
THEOREM TypeCorrect == Spec => []TypeOK
<1>1. DeliveryInv => TypeOK
  BY DEF DeliveryInv
<1>. QED
  BY <1>1, DeliveryInvariant, PTL

\* All the messages Telegram ever accepts for a job come from one account.
THEOREM OneAccount == Spec => []OneAccountPerJob
<1>1. DeliveryInv => OneAccountPerJob
  BY DEF DeliveryInv, ClaimKept, OneAccountPerJob
<1>. QED
  BY <1>1, DeliveryInvariant, PTL

\* A finished job stays finished, a claim is never given up and attempts are
\* never forgotten, by any handler.
THEOREM QueueAdvances == Spec => QueueOnlyAdvances
<1>. DEFINE A == \A j \in Jobs :
                   /\ job[j].status = "done" => job'[j].status = "done"
                   /\ job[j].account # NoAccount => job'[j].account = job[j].account
                   /\ job'[j].attempts >= job[j].attempts
<1>1. DeliveryInv /\ [Next]_vars => [A]_vars
  BY NextOK DEF StepOK, JobsAdvance
<1>2. Spec => [][A]_vars
  BY <1>1, DeliveryInvariant, PTL DEF Spec
<1>. QED
  BY <1>2 DEF QueueOnlyAdvances

\* No message leaves through an account that is a scout when it leaves.
THEOREM ScoutsSilent == Spec => NoScoutSends
<1>. DEFINE A == \A j \in Jobs : sent'[j] # sent[j] =>
                   /\ run.account \in Accounts
                   /\ account[run.account].role = "spammer"
<1>1. DeliveryInv /\ Next => A
  <2>. SUFFICES ASSUME DeliveryInv, Next, NEW j \in Jobs, sent'[j] # sent[j]
                PROVE  run.step = "inflight"
    BY InvFacts DEF DeliveryInv, ClaimKept, RunOK, Dispatching
  <2>. QED
    BY DEF Next, RunStep, AccountStep, Enqueue, NextDue, JobFallsDue,
           SelectAccount, Claim, DecideTurn, RestCheckSwitch, RestDelay,
           RestRecheckSwitch, ReleaseGroupRestDelays, CanDispatch, BeginSend,
           SendSucceeds, SendFails, SendFloods, SendFindsClosed, RecordFailure,
           RecordPrivateClosed, DelayAfterClosed, Complete, StopDelivery,
           Restart, Register, Unregister, SetAccountRole, RecordFloodWait,
           RecordRuntimeStatus, SaveGroupRestEnabled, ClearGroupRests,
           ClearFails, StartGroupRest, SetChannel, RequestCatalogRemoval, RestExpires,
           FloodExpires, MarkValidated
<1>2. DeliveryInv /\ [Next]_vars => [A]_vars
  BY <1>1
<1>3. Spec => [][A]_vars
  BY <1>2, DeliveryInvariant, PTL DEF Spec
<1>. QED
  BY <1>3 DEF NoScoutSends

\* Both at once: what no step may do to the queue.
THEOREM StepsKept == Spec => DeliverySteps
<1>. QED
  BY QueueAdvances, ScoutsSilent DEF DeliverySteps

(***************************************************************************)
(* The rest switch.  Waits(row) is a job held back by an account's rest.   *)
(***************************************************************************)
Waits(row) == row.status = "delayed" /\ row.error = "account_group_rest"

\* Rows changed by a step that finds the switch off do not start to wait.
NoNewWaits == \A j \in Jobs : Waits(job'[j]) => Waits(job[j]) \/ restOn

\* With the switch off no step makes a job wait for a rest.
LEMMA NextWaits == DeliveryInv /\ Next => NoNewWaits
<1>. SUFFICES ASSUME DeliveryInv, Next, NEW i \in Jobs, Waits(job'[i])
              PROVE  Waits(job[i]) \/ restOn
  BY DEF NoNewWaits
<1>0. job \in Rows /\ RunOK /\ \A j \in Jobs : job[j] \in JobRow
  BY InvFacts DEF Rows
<1>. DEFINE Goal == Waits(job[i]) \/ restOn
<1>1. CASE job' = job
  BY <1>1
<1>2. CASE job' = ReleaseRestDelays(job)
  BY <1>2 DEF ReleaseRestDelays, Waits
<1>3. CASE RestDelay \/ DelayAfterClosed
  <2>1. run.job \in Jobs
    BY <1>0, <1>3 DEF RestDelay, DelayAfterClosed, RunOK
  <2>2. CASE RestDelay
    BY <1>0, <2>1, <2>2 DEF RestDelay, DelayTransient, Rows
  <2>3. CASE DelayAfterClosed
    <3>. DEFINE new == [job[run.job] EXCEPT !.status = "delayed", !.due = FALSE,
                                            !.error = "private_message_closed"]
    <3>1. job'[i] = job[i] \/ job'[i] = new
      BY <1>0, <2>1, <2>3 DEF DelayAfterClosed, DelayTransient, Rows
    <3>2. job[run.job] \in JobRow
      BY <1>0, <2>1
    <3>3. new.error = "private_message_closed"
      BY <3>2 DEF JobRow
    <3>. QED
      BY <3>1, <3>3 DEF Waits
  <2>. QED
    BY <1>3, <2>2, <2>3
<1>4. CASE RecordFailure
  <2>1. run.job \in Jobs
    BY <1>0, <1>4 DEF RecordFailure, RunOK
  <2>2. Pending(run.job) => CountFailure(job[run.job]).error = "failed"
    BY <1>0, <2>1, CountFailureType DEF DeliveryInv, AttemptsLeft
  <2>3. job'[i] = job[i] \/ (Pending(run.job) /\ job'[i] = CountFailure(job[run.job]))
    BY <1>0, <1>4, <2>1 DEF RecordFailure, Rows
  <2>. QED
    BY <2>2, <2>3 DEF Waits
<1>5. CASE RecordPrivateClosed
  <2>1. run.job \in Jobs
    BY <1>0, <1>5 DEF RecordPrivateClosed, RunOK
  <2>2. job'[i] = job[i] \/ job'[i].error = "private_message_closed"
    <3>. DEFINE j == run.job
                new == [job[j] EXCEPT !.allow = FALSE, !.fallback = FALSE,
                          !.mode = IF @ = "private" /\ job[j].fallback
                                   THEN "comments" ELSE @,
                          !.status = IF TerminalClosed(j) THEN "done" ELSE @,
                          !.error = "private_message_closed", !.closed = TRUE]
    <3>1. job[j] \in JobRow
      BY <1>0, <2>1
    <3>2. job'[i] = job[i] \/ job'[i] = new
      BY <1>0, <1>5, <2>1 DEF RecordPrivateClosed, Rows
    <3>3. new.error = "private_message_closed"
      BY <3>1 DEF JobRow
    <3>. QED
      BY <3>2, <3>3
  <2>. QED
    BY <2>2 DEF Waits
<1>6. CASE Complete \/ \E c \in Channels : RequestCatalogRemoval(c)
  <2>1. Complete => run.job \in Jobs
    BY <1>0 DEF Complete, RunOK
  <2>2. job'[i] = job[i] \/ job'[i].status = "done"
    <3>2. CASE Complete
      <4>. DEFINE new == [job[run.job] EXCEPT !.status = "done", !.error = ""]
      <4>1. job' = job \/ job' = [job EXCEPT ![run.job] = new]
        BY <1>0, <2>1, <3>2 DEF Complete, Rows
      <4>2. job[run.job] \in JobRow
        BY <1>0, <2>1, <3>2
      <4>3. new.status = "done"
        BY <4>2 DEF JobRow
      <4>4. job'[i] = job[i] \/ job'[i] = new
        BY <1>0, <2>1, <3>2, <4>1 DEF Rows
      <4>. QED
        BY <4>3, <4>4
    <3>3. CASE \E c \in Channels : RequestCatalogRemoval(c)
      <4>. DEFINE new == [job[i] EXCEPT !.status = "done",
                                        !.error = "channel_removal_requested"]
      <4>1. job'[i] = job[i] \/ job'[i] = new
        BY <3>3 DEF RequestCatalogRemoval
      <4>2. job[i] \in JobRow
        BY <1>0
      <4>3. new.status = "done"
        BY <4>2 DEF JobRow
      <4>. QED
        BY <4>1, <4>3
    <3>. QED
      BY <1>6, <3>2, <3>3
  <2>. QED
    BY <2>2 DEF Waits
<1>7. CASE Claim
  <2>1. run.job \in Jobs
    BY <1>0, <1>7 DEF Claim, RunOK
  <2>2. job'[i].status = job[i].status /\ job'[i].error = job[i].error
    BY <1>0, <1>7, <2>1 DEF Claim, Rows, JobRow
  <2>. QED
    BY <2>2 DEF Waits
<1>8. ASSUME NEW j \in Jobs, JobFallsDue(j) PROVE Goal
  <2>2. job'[i].status = job[i].status /\ job'[i].error = job[i].error
    BY <1>0, <1>8 DEF JobFallsDue, Rows, JobRow
  <2>. QED
    BY <2>2 DEF Waits
<1>9. ASSUME NEW j \in Jobs, NEW sh \in Shapes, Enqueue(j, sh) PROVE Goal
  <2>1. job'[i] = job[i] \/ job'[i].status = "queued"
    BY <1>0, <1>9 DEF Enqueue, NewRow, Rows
  <2>. QED
    BY <2>1 DEF Waits
<1>10. \/ job' = job \/ job' = ReleaseRestDelays(job)
       \/ RestDelay \/ DelayAfterClosed \/ RecordFailure \/ RecordPrivateClosed
       \/ Complete \/ Claim
       \/ \E c \in Channels : RequestCatalogRemoval(c)
       \/ \E j \in Jobs : JobFallsDue(j) \/ \E sh \in Shapes : Enqueue(j, sh)
  BY DEF Next, RunStep, AccountStep, NextDue, SelectAccount, DecideTurn,
         RestCheckSwitch, RestRecheckSwitch, ReleaseGroupRestDelays,
         CanDispatch, BeginSend, SendSucceeds, SendFails, SendFloods,
         SendFindsClosed, StopDelivery, Restart, Register, Unregister,
         SetAccountRole, RecordFloodWait, RecordRuntimeStatus,
         SaveGroupRestEnabled, ClearGroupRests, ClearFails, StartGroupRest,
         SetChannel, RestExpires, FloodExpires, MarkValidated
<1>. QED
  BY <1>1, <1>2, <1>3, <1>4, <1>5, <1>6, <1>7, <1>8, <1>9, <1>10

\* Turning the rest switch off releases everyone, in whatever step RunOnce
\* is: DelayTransientUntil reads the switch in the statement that delays, and
\* every SaveAppSettings call that turned it off clears after it persisted.
THEOREM RestOff == Spec => []RestOffReleasesEveryone
<1>1. Init => RestOffReleasesEveryone
  BY DEF Init, RestOffReleasesEveryone
<1>2. DeliveryInv /\ RestOffReleasesEveryone /\ [Next]_vars
        => RestOffReleasesEveryone'
  <2>. SUFFICES ASSUME DeliveryInv, RestOffReleasesEveryone, [Next]_vars,
                       ~restOn', clearing' = NoClear
                PROVE  /\ resting' = {}
                       /\ \A j \in Jobs : ~Waits(job'[j])
    BY DEF RestOffReleasesEveryone, Waits
  <2>1. CASE UNCHANGED vars
    BY <2>1 DEF vars, RestOffReleasesEveryone, Waits
  <2>2. ASSUME Next, ~restOn, clearing = NoClear, resting' \subseteq resting PROVE
          resting' = {} /\ \A j \in Jobs : ~Waits(job'[j])
    BY <2>2, NextWaits DEF RestOffReleasesEveryone, NoNewWaits, Waits
  <2>3. CASE ClearGroupRests \/ (Restart /\ ~restOn)
    <3>1. resting' = {} /\ job' = ReleaseRestDelays(job)
      BY <2>3 DEF ClearGroupRests, Restart
    <3>2. \A j \in Jobs : ~Waits(ReleaseRestDelays(job)[j])
      <4>. SUFFICES ASSUME NEW j \in Jobs, Waits(job[j])
                    PROVE  ReleaseRestDelays(job)[j].status = "queued"
        BY DEF ReleaseRestDelays, Waits
      <4>1. job[j] \in JobRow
        BY InvFacts DEF Rows
      <4>. QED
        BY <4>1 DEF ReleaseRestDelays, Waits, JobRow
    <3>. QED
      BY <3>1, <3>2
  <2>4. ASSUME NEW on \in BOOLEAN, SaveGroupRestEnabled(on) PROVE FALSE
    BY <2>4 DEF SaveGroupRestEnabled, DeliveryInv, TypeOK, NoClear
  <2>5. ASSUME Next, ~ClearGroupRests, ~ClearFails, ~Restart,
               ~\E on \in BOOLEAN : SaveGroupRestEnabled(on)
        PROVE  /\ restOn' = restOn /\ clearing' = clearing
               /\ restOn \/ resting' \subseteq resting
    BY <2>5
    DEF Next, RunStep, AccountStep, Enqueue, NextDue, JobFallsDue,
        SelectAccount, Claim, DecideTurn, RestCheckSwitch, RestDelay,
        RestRecheckSwitch, ReleaseGroupRestDelays, CanDispatch, BeginSend,
        SendSucceeds, SendFails, SendFloods, SendFindsClosed, RecordFailure,
        RecordPrivateClosed, DelayAfterClosed, Complete, StopDelivery,
        Register, Unregister, SetAccountRole, RecordFloodWait,
        RecordRuntimeStatus, StartGroupRest, SetChannel,
        RequestCatalogRemoval, RestExpires, FloodExpires, MarkValidated
  <2>6. Restart => restOn' = restOn
    BY DEF Restart
  <2>7. ~ClearFails
    BY DEF ClearFails, NoClear
  <2>. QED
    BY <2>1, <2>2, <2>3, <2>4, <2>5, <2>6, <2>7
<1>. QED
  BY <1>1, <1>2, DeliveryInvariant, PTL DEF Spec


(***************************************************************************)
(* The live history and the mode of a reply.                               *)
(***************************************************************************)
\* An update of a row keeps what the job is, and changes its mode only from
\* private to comments once the private message was found closed.
RowKept(old, new) ==
    /\ new.type = old.type /\ new.shape = old.shape /\ new.target = old.target
    /\ new.fallback => old.fallback
    /\ old.closed => new.closed
    /\ \/ new.mode = old.mode
       \/ old.mode = "private" /\ old.fallback /\ new.mode = "comments" /\ new.closed

\* A row that is done stays as it is; one that is pending is updated; one that is
\* absent is enqueued.
RowMoves(old, new) ==
    \/ new = old
    \/ old.status \in {"queued", "delayed"} /\ RowKept(old, new) /\ new.status # "absent"
    \/ old.status = "absent" /\ \E s \in Shapes : new = NewRow(s, "queued")

\* The history goes on with the row: it is closed in the step that ends the job.
HistoryMoves(j) ==
    \/ job'[j] = job[j] /\ history'[j] = history[j]
    \/ /\ Pending(j) /\ history'[j] = history[j]
       /\ job'[j].status = "done" =>
             history[j].final # "open" \/ job'[j].error = "channel_removal_requested"
    \/ /\ job[j].status = "absent" /\ job'[j].status = "queued"
       /\ history'[j].final \in {"open", "none"}
    \/ Pending(j) /\ history'[j].final = "open" /\ job'[j].status # "done"
    \/ /\ Pending(j) /\ history'[j].final = "not_delivered"
       /\ job'[j].status = "done" /\ (job'[j].dead \/ job'[j].closed)
    \/ /\ Pending(j) /\ history'[j].final = "successful" /\ job'[j].status = "done"
       /\ [account |-> history'[j].account, kind |-> history'[j].kind] \in sent'[j]

\* Messages are only added, and only the one of the RunOnce in progress.
SentMoves(j) ==
    /\ sent[j] \subseteq sent'[j]
    /\ \A m \in sent'[j] : \/ m \in sent[j]
                           \/ /\ run.step = "inflight" /\ j = run.job
                              /\ m = [account |-> run.account, kind |-> run.kind]

\* What the RunOnce in progress has decided, and that Telegram accepted the
\* message of which the success is recorded.
RunMoves ==
    \/ run'.step = "idle"
    \/ run'.step = "loaded" /\ Pending(run'.job) /\ job' = job
    \/ /\ run.step # "idle" /\ run'.job = run.job
       /\ run'.step \in Dispatching =>
             \/ run.step \in Dispatching /\ run'.kind = run.kind
             \/ job' = job /\ run'.kind = KindFor(run.job, account[run.account])
       /\ run'.step = "sent" =>
             \/ run' = run
             \/ [account |-> run'.account, kind |-> run'.kind] \in sent'[run'.job]

Moves == RunMoves /\ \A j \in Jobs : RowMoves(job[j], job'[j]) /\ HistoryMoves(j) /\ SentMoves(j)

\* A step that changes no row.
LEMMA RowsRest ==
    ASSUME UNCHANGED <<job, history>>
    PROVE  \A j \in Jobs : RowMoves(job[j], job'[j]) /\ HistoryMoves(j)
BY DEF RowMoves, HistoryMoves

\* A step that sends nothing.
LEMMA NothingSent ==
    ASSUME UNCHANGED sent
    PROVE  \A j \in Jobs : SentMoves(j)
BY DEF SentMoves

\* A step of another than the runner.
LEMMA RunRests ==
    ASSUME UNCHANGED run
    PROVE  RunMoves
<1>1. run.step \in Dispatching => run.step # "idle"
  BY DEF Dispatching
<1>2. CASE run.step = "idle"
  BY <1>2 DEF RunMoves
<1>3. CASE run.step # "idle"
  BY <1>3 DEF RunMoves
<1> QED BY <1>2, <1>3

\* A step of the store that changes one row and its history.
LEMMA OneRowMoves ==
    ASSUME DeliveryInv, NEW i \in Jobs, NEW new, NEW h,
           job' = [job EXCEPT ![i] = new], history' = [history EXCEPT ![i] = h],
           RowMoves(job[i], new),
           (job'[i] = new /\ history'[i] = h) => HistoryMoves(i)
    PROVE  \A j \in Jobs : RowMoves(job[j], job'[j]) /\ HistoryMoves(j)
<1>1. job \in Rows /\ history \in [Jobs -> HistoryRow]
  BY InvFacts
<1>2. job'[i] = new /\ history'[i] = h
  BY <1>1 DEF Rows
<1>3. \A j \in Jobs : j # i => job'[j] = job[j] /\ history'[j] = history[j]
  BY <1>1 DEF Rows
<1>4. ASSUME NEW j \in Jobs PROVE RowMoves(job[j], job'[j]) /\ HistoryMoves(j)
  <2>1. CASE j = i
    BY <1>2, <2>1
  <2>2. CASE j # i
    <3>1. job'[j] = job[j] /\ history'[j] = history[j]
      BY <1>3, <2>2
    <3> QED BY <3>1 DEF RowMoves, HistoryMoves
  <2> QED BY <2>1, <2>2
<1> QED BY <1>4

\* The same for a step that leaves the history alone.
LEMMA OneRowAlone ==
    ASSUME DeliveryInv, NEW i \in Jobs, NEW new, Pending(i),
           job' = [job EXCEPT ![i] = new], UNCHANGED history,
           RowKept(job[i], new), new.status \in {"queued", "delayed"}
    PROVE  \A j \in Jobs : RowMoves(job[j], job'[j]) /\ HistoryMoves(j)
<1>1. job \in Rows /\ history \in [Jobs -> HistoryRow]
  BY InvFacts
<1>2. history' = [history EXCEPT ![i] = history[i]]
  BY <1>1
<1>3. RowMoves(job[i], new)
  BY DEF RowMoves, Pending
<1>4. (job'[i] = new /\ history'[i] = history[i]) => HistoryMoves(i)
  BY DEF HistoryMoves
<1> QED BY <1>2, <1>3, <1>4, OneRowMoves

\* releaseGroupRestDelays.
LEMMA ReleaseMoves ==
    ASSUME DeliveryInv, job' = ReleaseRestDelays(job), UNCHANGED history
    PROVE  \A j \in Jobs : RowMoves(job[j], job'[j]) /\ HistoryMoves(j)
<1>1. job \in Rows
  BY InvFacts
<1> SUFFICES ASSUME NEW j \in Jobs PROVE RowMoves(job[j], job'[j]) /\ HistoryMoves(j)
  OBVIOUS
<1>2. PICK r \in JobRow : r = job[j]
  BY <1>1 DEF Rows
<1>3. PICK new : new = [r EXCEPT !.status = "queued", !.due = TRUE, !.error = ""]
  OBVIOUS
<1>4. RowKept(r, new) /\ new.status = "queued"
  BY <1>3 DEF JobRow, RowKept
<1>5. job'[j] = IF r.status = "delayed" /\ r.error = "account_group_rest" THEN new ELSE r
  BY <1>2, <1>3 DEF ReleaseRestDelays
<1>6. RowMoves(r, job'[j])
  BY <1>4, <1>5 DEF RowMoves
<1>7. HistoryMoves(j)
  BY <1>2, <1>4, <1>5 DEF HistoryMoves, Pending
<1> QED BY <1>2, <1>6, <1>7

\* DelayTransientUntil.
LEMMA DelayMoves ==
    ASSUME DeliveryInv, NEW i \in Jobs,
           NEW reason \in {"account_group_rest", "private_message_closed"},
           job' = DelayTransient(i, reason), UNCHANGED history
    PROVE  \A j \in Jobs : RowMoves(job[j], job'[j]) /\ HistoryMoves(j)
<1>1. job \in Rows
  BY InvFacts
<1>2. PICK r \in JobRow : r = job[i]
  BY <1>1 DEF Rows
<1>3. PICK new : new = [r EXCEPT !.status = "delayed", !.due = FALSE, !.error = reason]
  OBVIOUS
<1>4. RowKept(r, new) /\ new.status = "delayed"
  BY <1>3 DEF JobRow, RowKept
<1>5. CASE Pending(i) /\ (reason # "account_group_rest" \/ restOn)
  <2>1. job' = [job EXCEPT ![i] = new]
    BY <1>1, <1>2, <1>3, <1>5 DEF DelayTransient, Rows
  <2> QED BY <1>2, <1>4, <1>5, <2>1, OneRowAlone
<1>6. CASE ~(Pending(i) /\ (reason # "account_group_rest" \/ restOn))
  <2>1. job' = job
    BY <1>6 DEF DelayTransient
  <2> QED BY <2>1, RowsRest
<1> QED BY <1>5, <1>6

\* Claim fills in the account.
LEMMA ClaimMoves ==
    ASSUME DeliveryInv, Claim
    PROVE  Moves
<1>1. RunOK /\ job \in Rows /\ run.step = "claim"
  BY InvFacts DEF Claim
<1>2. PICK i \in Jobs : i = run.job
  BY <1>1 DEF RunOK
<1>3. PICK r \in JobRow : r = job[i]
  BY <1>1 DEF Rows
<1>4. UNCHANGED <<history, sent>>
  BY DEF Claim
<1>5. \A j \in Jobs : RowMoves(job[j], job'[j]) /\ HistoryMoves(j)
  <2>1. CASE Pending(i) /\ job[i].account = NoAccount
    <3>1. PICK new : new = [r EXCEPT !.account = run.account]
      OBVIOUS
    <3>2. job' = [job EXCEPT ![i] = new]
      BY <1>1, <1>2, <1>3, <2>1, <3>1 DEF Claim, Rows
    <3>3. RowKept(r, new) /\ new.status \in {"queued", "delayed"}
      BY <1>3, <2>1, <3>1 DEF JobRow, RowKept, Pending
    <3> QED BY <1>3, <1>4, <2>1, <3>2, <3>3, OneRowAlone
  <2>2. CASE ~(Pending(i) /\ job[i].account = NoAccount)
    <3>1. job' = job
      BY <1>2, <2>2 DEF Claim
    <3> QED BY <1>4, <3>1, RowsRest
  <2> QED BY <2>1, <2>2
<1>6. RunMoves
  <2>0. PICK owner : owner = job'[run.job].account
    OBVIOUS
  <2>1. run' = Idle \/ run' = [run EXCEPT !.step = "claimed", !.account = owner]
    BY <2>0 DEF Claim
  <2>2. run \in RunRow
    BY <1>1 DEF RunOK
  <2>3. CASE run' = Idle
    BY <2>3 DEF Idle, RunMoves
  <2>4. CASE run' = [run EXCEPT !.step = "claimed", !.account = owner]
    <3>1. run'.step = "claimed" /\ run'.job = run.job
      BY <2>2, <2>4 DEF RunRow
    <3> QED BY <1>1, <3>1 DEF RunMoves, Dispatching
  <2> QED BY <2>1, <2>3, <2>4
<1> QED BY <1>4, <1>5, <1>6, NothingSent DEF Moves

\* The steps of RunOnce that release or delay jobs.
LEMMA DelayStepsMove ==
    ASSUME DeliveryInv, RestDelay \/ ReleaseGroupRestDelays \/ DelayAfterClosed
    PROVE  Moves
<1>1. RunOK /\ run.step # "idle" /\ UNCHANGED <<history, sent>>
  BY InvFacts DEF RestDelay, ReleaseGroupRestDelays, DelayAfterClosed
<1>2. PICK i \in Jobs : i = run.job
  BY <1>1 DEF RunOK
<1>3. \/ job' = ReleaseRestDelays(job)
      \/ \E reason \in {"account_group_rest", "private_message_closed"} :
            job' = DelayTransient(i, reason)
  BY <1>2 DEF RestDelay, ReleaseGroupRestDelays, DelayAfterClosed
<1>4. \A j \in Jobs : RowMoves(job[j], job'[j]) /\ HistoryMoves(j)
  BY <1>1, <1>3, ReleaseMoves, DelayMoves
<1>5. run' = Idle \/ run' = [run EXCEPT !.step = "restRecheck"]
  BY DEF RestDelay, ReleaseGroupRestDelays, DelayAfterClosed
<1>6. RunMoves
  <2>1. run'.step = "idle" \/ (run'.step = "restRecheck" /\ run'.job = run.job)
    BY <1>1, <1>5 DEF Idle, RunOK, RunRow
  <2> QED BY <1>1, <2>1 DEF RunMoves, Dispatching
<1> QED BY <1>1, <1>4, <1>6, NothingSent DEF Moves

\* A failure that ends the job closes its history as not delivered.
LEMMA FailureMoves ==
    ASSUME DeliveryInv, RecordFailure
    PROVE  Moves
<1>1. /\ RunOK /\ job \in Rows /\ history \in [Jobs -> HistoryRow]
      /\ run.step = "failed" /\ run' = Idle /\ UNCHANGED sent
  BY InvFacts DEF RecordFailure
<1>2. PICK i \in Jobs : i = run.job
  BY <1>1 DEF RunOK
<1>3. PICK r \in JobRow : r = job[i]
  BY <1>1 DEF Rows
<1>4. PICK h0 \in HistoryRow : h0 = history[i]
  BY <1>1
<1>5. \A j \in Jobs : RowMoves(job[j], job'[j]) /\ HistoryMoves(j)
  <2>1. CASE Pending(i)
    <3>1. PICK new : new = CountFailure(r)
      OBVIOUS
    <3>2. job' = [job EXCEPT ![i] = new]
      BY <1>1, <1>2, <1>3, <2>1, <3>1 DEF RecordFailure
    <3>3. /\ RowKept(r, new) /\ new.status \in {"delayed", "done"}
          /\ new.status = "done" => new.dead
      BY <1>3, <3>1 DEF CountFailure, JobRow, RowKept
    <3>4. job'[i] = new
      BY <1>1, <3>2 DEF Rows
    <3>5. CASE h0.final = "open"
      <4>1. PICK h : h = FailureHistory(h0, run.kind, run.account, new.status = "done")
        OBVIOUS
      <4>2. history' = [history EXCEPT ![i] = h]
        BY <1>1, <1>2, <1>4, <2>1, <3>4, <3>5, <4>1 DEF RecordFailure
      <4>3. h.final = IF new.status = "done" THEN "not_delivered" ELSE "open"
        BY <3>5, <4>1 DEF FailureHistory
      <4>4. RowMoves(r, new)
        BY <1>3, <2>1, <3>3 DEF RowMoves, Pending
      <4>5. (job'[i] = new /\ history'[i] = h) => HistoryMoves(i)
        BY <2>1, <3>3, <4>3 DEF HistoryMoves
      <4> QED BY <1>3, <3>2, <4>2, <4>4, <4>5, OneRowMoves
    <3>6. CASE h0.final # "open"
      <4>1. history' = history
        BY <1>2, <1>4, <3>6 DEF RecordFailure
      <4>2. history' = [history EXCEPT ![i] = h0]
        BY <1>1, <1>4, <4>1
      <4>3. RowMoves(r, new)
        BY <1>3, <2>1, <3>3 DEF RowMoves, Pending
      <4>4. (job'[i] = new /\ history'[i] = h0) => HistoryMoves(i)
        BY <1>4, <2>1, <3>6 DEF HistoryMoves
      <4> QED BY <1>3, <3>2, <4>2, <4>3, <4>4, OneRowMoves
    <3> QED BY <3>5, <3>6
  <2>2. CASE ~Pending(i)
    <3>1. job' = job /\ history' = history
      BY <1>2, <2>2 DEF RecordFailure
    <3> QED BY <3>1, RowsRest
  <2> QED BY <2>1, <2>2
<1>6. RunMoves
  BY <1>1 DEF Idle, RunMoves
<1> QED BY <1>1, <1>5, <1>6, NothingSent DEF Moves

\* A closed private message ends the job with its history, or turns it public.
LEMMA PrivateClosedMoves ==
    ASSUME DeliveryInv, RecordPrivateClosed
    PROVE  Moves
<1>1. /\ RunOK /\ job \in Rows /\ history \in [Jobs -> HistoryRow]
      /\ run.step = "closed" /\ UNCHANGED sent
  BY InvFacts DEF RecordPrivateClosed
<1>2. PICK i \in Jobs : i = run.job
  BY <1>1 DEF RunOK
<1>3. PICK r \in JobRow : r = job[i]
  BY <1>1 DEF Rows
<1>4. PICK h0 \in HistoryRow : h0 = history[i]
  BY <1>1
<1>5. PICK first : first = (~r.closed /\ Pending(i) /\ (r.allow \/ r.mode = "private"))
  OBVIOUS
<1>6. PICK ends \in BOOLEAN : ends = TerminalClosed(i)
  BY DEF TerminalClosed
<1>7. PICK new : new = [r EXCEPT !.allow = FALSE, !.fallback = FALSE,
                           !.mode = IF @ = "private" /\ r.fallback THEN "comments" ELSE @,
                           !.status = IF ends THEN "done" ELSE @,
                           !.error = "private_message_closed", !.closed = TRUE]
  OBVIOUS
<1>8. \A j \in Jobs : RowMoves(job[j], job'[j]) /\ HistoryMoves(j)
  <2>1. CASE first
    <3>1. job' = [job EXCEPT ![i] = new]
      BY <1>1, <1>2, <1>3, <1>5, <1>6, <1>7, <2>1 DEF RecordPrivateClosed, Rows
    <3>2. /\ RowKept(r, new) /\ new.status = IF ends THEN "done" ELSE r.status
          /\ new.closed
      BY <1>3, <1>7 DEF JobRow, RowKept
    <3>3. RowMoves(r, new)
      BY <1>3, <1>5, <2>1, <3>2 DEF RowMoves, Pending
    <3>4. CASE ends /\ h0.final = "open"
      <4>1. PICK h : h = [final |-> "not_delivered", kind |-> "private_message",
                          account |-> run.account]
        OBVIOUS
      <4>2. history' = [history EXCEPT ![i] = h]
        BY <1>1, <1>2, <1>3, <1>4, <1>5, <1>6, <2>1, <3>4, <4>1 DEF RecordPrivateClosed
      <4>3. Pending(i) /\ h.final = "not_delivered" /\ new.status = "done" /\ new.closed
        BY <1>5, <2>1, <3>2, <3>4, <4>1
      <4>4. (job'[i] = new /\ history'[i] = h) => HistoryMoves(i)
        BY <4>3 DEF HistoryMoves
      <4> QED BY <1>3, <3>1, <3>3, <4>2, <4>4, OneRowMoves
    <3>5. CASE ~(ends /\ h0.final = "open")
      <4>1. history' = history
        BY <1>2, <1>4, <1>6, <3>5 DEF RecordPrivateClosed
      <4>2. history' = [history EXCEPT ![i] = h0]
        BY <1>1, <1>4, <4>1
      <4>3. (job'[i] = new /\ history'[i] = h0) => HistoryMoves(i)
        BY <1>3, <1>4, <1>5, <2>1, <3>2, <3>5 DEF HistoryMoves, Pending
      <4> QED BY <1>3, <3>1, <3>3, <4>2, <4>3, OneRowMoves
    <3> QED BY <3>4, <3>5
  <2>2. CASE ~first
    <3>1. job' = job /\ history' = history
      BY <1>2, <1>3, <1>5, <2>2 DEF RecordPrivateClosed
    <3> QED BY <3>1, RowsRest
  <2> QED BY <1>5, <2>1, <2>2
<1>9. RunMoves
  <2>1. run' = Idle \/ run' = [run EXCEPT !.step = "closedDelay"]
    BY DEF RecordPrivateClosed
  <2>2. \/ run'.step = "idle"
        \/ run'.step = "closedDelay" /\ run'.job = run.job /\ run'.kind = run.kind
    BY <1>1, <2>1 DEF Idle, RunOK, RunRow
  <2> QED BY <1>1, <2>2 DEF RunMoves, Dispatching
<1> QED BY <1>1, <1>8, <1>9, NothingSent DEF Moves

\* A recorded success closes the history with the message Telegram accepted.
LEMMA CompleteMoves ==
    ASSUME DeliveryInv, Complete,
           [account |-> run.account, kind |-> run.kind] \in sent[run.job]
    PROVE  Moves
<1>1. /\ RunOK /\ job \in Rows /\ history \in [Jobs -> HistoryRow]
      /\ run.step = "sent" /\ run' = Idle /\ UNCHANGED sent
  BY InvFacts DEF Complete
<1>2. PICK i \in Jobs : i = run.job
  BY <1>1 DEF RunOK
<1>3. PICK r \in JobRow : r = job[i]
  BY <1>1 DEF Rows
<1>4. PICK h0 \in HistoryRow : h0 = history[i]
  BY <1>1
<1>5. PICK new : new = [r EXCEPT !.status = "done", !.error = ""]
  OBVIOUS
<1>6. RowKept(r, new) /\ new.status = "done"
  BY <1>3, <1>5 DEF JobRow, RowKept
<1>7. \A j \in Jobs : RowMoves(job[j], job'[j]) /\ HistoryMoves(j)
  <2>1. CASE Pending(i) /\ r.account = run.account
    <3>1. job' = [job EXCEPT ![i] = new]
      BY <1>1, <1>2, <1>3, <1>5, <2>1 DEF Complete, Rows
    <3>2. RowMoves(r, new)
      BY <1>3, <1>6, <2>1 DEF RowMoves, Pending
    <3>3. CASE h0.final = "open"
      <4>1. PICK h : h = [final |-> "successful", kind |-> run.kind, account |-> run.account]
        OBVIOUS
      <4>2. history' = [history EXCEPT ![i] = h]
        BY <1>1, <1>2, <1>3, <1>4, <2>1, <3>3, <4>1 DEF Complete
      <4>3. [account |-> h.account, kind |-> h.kind] \in sent'[i]
        BY <1>1, <1>2, <4>1
      <4>4. (job'[i] = new /\ history'[i] = h) => HistoryMoves(i)
        BY <1>6, <2>1, <4>1, <4>3 DEF HistoryMoves
      <4> QED BY <1>3, <3>1, <3>2, <4>2, <4>4, OneRowMoves
    <3>4. CASE h0.final # "open"
      <4>1. history' = history
        BY <1>2, <1>4, <3>4 DEF Complete
      <4>2. history' = [history EXCEPT ![i] = h0]
        BY <1>1, <1>4, <4>1
      <4>3. (job'[i] = new /\ history'[i] = h0) => HistoryMoves(i)
        BY <1>4, <2>1, <3>4 DEF HistoryMoves
      <4> QED BY <1>3, <3>1, <3>2, <4>2, <4>3, OneRowMoves
    <3> QED BY <3>3, <3>4
  <2>2. CASE ~(Pending(i) /\ r.account = run.account)
    <3>1. job' = job /\ history' = history
      BY <1>2, <1>3, <2>2 DEF Complete
    <3> QED BY <3>1, RowsRest
  <2> QED BY <2>1, <2>2
<1>8. RunMoves
  BY <1>1 DEF Idle, RunMoves
<1> QED BY <1>1, <1>7, <1>8, NothingSent DEF Moves

\* Steps of the queue's other users: an update arrives, time passes, a channel is
\* removed, the switch releases.
LEMMA QueueMoves ==
    ASSUME DeliveryInv, UNCHANGED <<run, sent>>,
           \/ \E j \in Jobs : JobFallsDue(j) \/ \E s \in Shapes : Enqueue(j, s)
           \/ ClearGroupRests \/ \E c \in Channels : RequestCatalogRemoval(c)
    PROVE  Moves
<1>1. job \in Rows /\ history \in [Jobs -> HistoryRow]
  BY InvFacts
<1>2. ASSUME NEW i \in Jobs, JobFallsDue(i)
      PROVE  \A j \in Jobs : RowMoves(job[j], job'[j]) /\ HistoryMoves(j)
  <2>1. PICK r \in JobRow : r = job[i]
    BY <1>1 DEF Rows
  <2>2. PICK new : new = [r EXCEPT !.due = TRUE]
    OBVIOUS
  <2>3. job' = [job EXCEPT ![i] = new] /\ Pending(i) /\ UNCHANGED history
    BY <1>1, <1>2, <2>1, <2>2 DEF JobFallsDue, Rows
  <2>4. RowKept(r, new) /\ new.status \in {"queued", "delayed"}
    BY <2>1, <2>2, <2>3 DEF JobRow, RowKept, Pending
  <2> QED BY <2>1, <2>3, <2>4, OneRowAlone
<1>3. ASSUME NEW i \in Jobs, NEW s \in Shapes, Enqueue(i, s)
      PROVE  \A j \in Jobs : RowMoves(job[j], job'[j]) /\ HistoryMoves(j)
  <2>1. PICK new : new = NewRow(s, "queued")
    OBVIOUS
  <2>2. PICK h0 \in HistoryRow : h0 = history[i]
    BY <1>1
  <2>3. PICK h : h = [h0 EXCEPT !.final = IF s.type = "keyword_response" THEN "open" ELSE "none"]
    OBVIOUS
  <2>4. /\ job' = [job EXCEPT ![i] = new] /\ job[i].status = "absent"
        /\ history' = [history EXCEPT ![i] = h]
    BY <1>1, <1>3, <2>1, <2>2, <2>3 DEF Enqueue
  <2>5. h.final \in {"open", "none"}
    BY <2>2, <2>3 DEF HistoryRow
  <2>6. new.status = "queued"
    BY <2>1 DEF NewRow
  <2>7. RowMoves(job[i], new)
    BY <2>1, <2>4 DEF RowMoves
  <2>8. (job'[i] = new /\ history'[i] = h) => HistoryMoves(i)
    BY <2>4, <2>5, <2>6 DEF HistoryMoves
  <2> QED BY <2>4, <2>7, <2>8, OneRowMoves
<1>4. ASSUME ClearGroupRests
      PROVE  \A j \in Jobs : RowMoves(job[j], job'[j]) /\ HistoryMoves(j)
  BY <1>4, ReleaseMoves DEF ClearGroupRests
<1>5. ASSUME NEW c \in Channels, RequestCatalogRemoval(c)
      PROVE  \A j \in Jobs : RowMoves(job[j], job'[j]) /\ HistoryMoves(j)
  <2> SUFFICES ASSUME NEW j \in Jobs PROVE RowMoves(job[j], job'[j]) /\ HistoryMoves(j)
    OBVIOUS
  <2>1. PICK r \in JobRow : r = job[j]
    BY <1>1 DEF Rows
  <2>2. PICK new : new = [r EXCEPT !.status = "done", !.error = "channel_removal_requested"]
    OBVIOUS
  <2>3. RowKept(r, new) /\ new.status = "done" /\ new.error = "channel_removal_requested"
    BY <2>2 DEF JobRow, RowKept
  <2>4. /\ job'[j] = IF ChannelOf[j] = c /\ Pending(j) THEN new ELSE r
        /\ history'[j] = history[j]
    BY <1>5, <2>1, <2>2 DEF RequestCatalogRemoval
  <2>5. RowMoves(r, job'[j])
    BY <2>1, <2>3, <2>4 DEF RowMoves, Pending
  <2>6. HistoryMoves(j)
    BY <2>1, <2>3, <2>4 DEF HistoryMoves
  <2> QED BY <2>1, <2>5, <2>6
<1>6. \A j \in Jobs : RowMoves(job[j], job'[j]) /\ HistoryMoves(j)
  BY <1>2, <1>3, <1>4, <1>5
<1> QED BY <1>6, NothingSent, RunRests DEF Moves

\* Telegram accepts, or not, what the RunOnce in progress sends.
LEMMA DeliverMoves ==
    ASSUME DeliveryInv,
           sent' = sent \/ (run.step = "inflight" /\ Deliver(run.job, run.account, run.kind))
    PROVE  /\ \A j \in Jobs : SentMoves(j)
           /\ sent' # sent => run.job \in Jobs
           /\ sent' = sent \/ [account |-> run.account, kind |-> run.kind] \in sent'[run.job]
<1>1. RunOK /\ sent \in [Jobs -> SUBSET Message]
  BY InvFacts
<1>2. CASE sent' = sent
  BY <1>2, NothingSent
<1>3. CASE run.step = "inflight" /\ Deliver(run.job, run.account, run.kind)
  <2>1. PICK i \in Jobs : i = run.job
    BY <1>1, <1>3 DEF RunOK
  <2>2. PICK m : m = [account |-> run.account, kind |-> run.kind]
    OBVIOUS
  <2>3. sent' = [sent EXCEPT ![i] = sent[i] \cup {m}]
    BY <1>1, <1>3, <2>1, <2>2 DEF Deliver
  <2>4. \A j \in Jobs : sent'[j] = IF j = i THEN sent[i] \cup {m} ELSE sent[j]
    BY <1>1, <2>3
  <2> QED BY <1>3, <2>1, <2>2, <2>4 DEF SentMoves
<1> QED BY <1>2, <1>3

\* The runner is stopped, or the program restarts.
LEMMA InterruptMoves ==
    ASSUME DeliveryInv, StopDelivery \/ Restart
    PROVE  Moves
<1>1. /\ sent' = sent \/ (run.step = "inflight" /\ Deliver(run.job, run.account, run.kind))
      /\ run' = Idle /\ UNCHANGED history
      /\ job' = job \/ job' = ReleaseRestDelays(job)
  BY DEF StopDelivery, Restart
<1>2. \A j \in Jobs : RowMoves(job[j], job'[j]) /\ HistoryMoves(j)
  BY <1>1, ReleaseMoves, RowsRest
<1>3. RunMoves
  BY <1>1 DEF RunMoves, Idle
<1> QED BY <1>1, <1>2, <1>3, DeliverMoves DEF Moves

\* The request is answered.
LEMMA AnswerMoves ==
    ASSUME DeliveryInv, SendSucceeds \/ SendFails \/ SendFloods \/ SendFindsClosed
    PROVE  Moves
<1>1. /\ sent' = sent \/ (run.step = "inflight" /\ Deliver(run.job, run.account, run.kind))
      /\ run.step = "inflight" /\ UNCHANGED <<job, history>>
  BY DEF SendSucceeds, SendFails, SendFloods, SendFindsClosed
<1>2. RunOK /\ run \in RunRow /\ run.job \in Jobs /\ sent \in [Jobs -> SUBSET Message]
  BY <1>1, InvFacts DEF RunOK
<1>3. PICK st \in {"sent", "failed", "closed"} : /\ run' = [run EXCEPT !.step = st]
                                                 /\ st = "sent" => SendSucceeds
  BY DEF SendSucceeds, SendFails, SendFloods, SendFindsClosed
<1>4. /\ run'.step = st /\ run'.job = run.job /\ run'.kind = run.kind
      /\ run'.account = run.account
  BY <1>2, <1>3 DEF RunRow
<1>5. st = "sent" => [account |-> run.account, kind |-> run.kind] \in sent'[run.job]
  BY <1>2, <1>3 DEF SendSucceeds, Deliver
<1>6. RunMoves
  BY <1>1, <1>4, <1>5 DEF RunMoves, Dispatching
<1> QED BY <1>1, <1>6, DeliverMoves, RowsRest DEF Moves

\* The steps of RunOnce that only look and decide.
LEMMA DecideMoves ==
    ASSUME DeliveryInv,
           \/ \E j \in Jobs : NextDue(j)
           \/ SelectAccount \/ DecideTurn \/ RestCheckSwitch \/ RestRecheckSwitch
           \/ CanDispatch \/ BeginSend
    PROVE  Moves
<1>1. UNCHANGED <<job, history, sent>>
  BY DEF NextDue, SelectAccount, DecideTurn, RestCheckSwitch, RestRecheckSwitch,
         CanDispatch, BeginSend
<1>2. run \in RunRow
  BY InvFacts DEF RunOK
<1>3. ASSUME NEW j \in Jobs, NextDue(j) PROVE RunMoves
  <2>1. run'.step = "loaded" /\ run'.job = j /\ Pending(j)
    BY <1>3 DEF NextDue, Idle
  <2> QED BY <1>1, <2>1 DEF RunMoves
<1>4. ASSUME SelectAccount PROVE RunMoves
  <2>1. /\ run.step = "loaded"
        /\ \E st \in {"claimed", "failed", "rest", "claim"} : \E a :
              \/ run' = [run EXCEPT !.account = a, !.step = st]
              \/ run' = [run EXCEPT !.step = st, !.account = a]
              \/ run' = [run EXCEPT !.step = st]
    BY <1>4, Zenon DEF SelectAccount
  <2>2. /\ run'.job = run.job
        /\ run'.step \in {"claimed", "failed", "rest", "claim"}
    BY <1>2, <2>1 DEF RunRow
  <2> QED BY <2>1, <2>2 DEF RunMoves, Dispatching
<1>5. ASSUME DecideTurn PROVE RunMoves
  <2>1. PICK k : k = KindFor(run.job, account[run.account])
    OBVIOUS
  <2>2. PICK st \in {"rest", "check"} : run' = [run EXCEPT !.kind = k, !.step = st]
    BY <1>5, <2>1 DEF DecideTurn
  <2>3. run'.step = st /\ run'.job = run.job /\ run'.kind = k /\ run.step = "claimed"
    BY <1>2, <1>5, <2>2 DEF RunRow, DecideTurn
  <2> QED BY <1>1, <2>1, <2>3 DEF RunMoves
<1>6. ASSUME RestCheckSwitch \/ RestRecheckSwitch PROVE RunMoves
  <2>1. /\ run.step # "idle"
        /\ run' = Idle \/ \E st \in {"restDelay", "restRelease"} : run' = [run EXCEPT !.step = st]
    BY <1>6 DEF RestCheckSwitch, RestRecheckSwitch
  <2>2. \/ run'.step = "idle"
        \/ run'.step \in {"restDelay", "restRelease"} /\ run'.job = run.job
    BY <1>2, <2>1 DEF Idle, RunRow
  <2> QED BY <2>1, <2>2 DEF RunMoves, Dispatching
<1>7. ASSUME CanDispatch \/ BeginSend PROVE RunMoves
  <2>1. /\ run.step \in {"check", "send"}
        /\ \/ run' = Idle
           \/ \E st \in {"send", "inflight", "failed"} : run' = [run EXCEPT !.step = st]
    BY <1>7 DEF CanDispatch, BeginSend
  <2>2. \/ run'.step = "idle"
        \/ /\ run'.step \in {"send", "inflight", "failed"}
           /\ run'.job = run.job /\ run'.kind = run.kind
    BY <1>2, <2>1 DEF Idle, RunRow
  <2> QED BY <2>1, <2>2 DEF RunMoves, Dispatching
<1> QED BY <1>1, <1>3, <1>4, <1>5, <1>6, <1>7, RowsRest, NothingSent DEF Moves

\* Every step moves rows, history, messages and the RunOnce in progress that way.
LEMMA NextMoves ==
    ASSUME DeliveryInv, Next,
           run.step = "sent" =>
               [account |-> run.account, kind |-> run.kind] \in sent[run.job]
    PROVE  Moves
<1>1. CASE Complete
  <2>1. run.step = "sent"
    BY <1>1 DEF Complete
  <2> QED BY <1>1, <2>1, CompleteMoves
<1>2. CASE \/ \E j \in Jobs : JobFallsDue(j) \/ \E s \in Shapes : Enqueue(j, s)
           \/ ClearGroupRests \/ \E c \in Channels : RequestCatalogRemoval(c)
  <2>1. UNCHANGED <<run, sent>>
    BY <1>2 DEF JobFallsDue, Enqueue, ClearGroupRests, RequestCatalogRemoval
  <2> QED BY <1>2, <2>1, QueueMoves
<1>3. ASSUME UNCHANGED <<job, history, run, sent>> PROVE Moves
  BY <1>3, RowsRest, NothingSent, RunRests DEF Moves
<1>4. ASSUME NEW a \in Accounts, AccountStep(a) PROVE Moves
  BY <1>3, <1>4 DEF AccountStep, Register, Unregister, RecordFloodWait, StartGroupRest,
     RestExpires, FloodExpires, MarkValidated, SetAccountRole, RecordRuntimeStatus
<1>5. CASE \/ \E on \in BOOLEAN : SaveGroupRestEnabled(on)
           \/ ClearFails
           \/ \E c \in Channels, s \in {"active", "paused"} : SetChannel(c, s)
  BY <1>3, <1>5 DEF SaveGroupRestEnabled, ClearFails, SetChannel
<1> QED
  BY <1>1, <1>2, <1>4, <1>5, ClaimMoves, DelayStepsMove, FailureMoves, PrivateClosedMoves,
     InterruptMoves, AnswerMoves, DecideMoves DEF Next, RunStep

\* What a message of kind k says of the row it was sent for; ModeRespected asks it
\* of every message.
KindOK(row, k) ==
    /\ (row.shape.type = "keyword_response" /\ row.shape.mode = "comments")
          => k = "public_reply"
    /\ (row.shape.type = "keyword_response" /\ row.shape.mode = "private"
          /\ k = "public_reply")
          => row.shape.fallback /\ row.closed

\* A row still is what was enqueued, but for a private reply that turned public.
RowOK(row) ==
    /\ row.type = row.shape.type
    /\ row.fallback => row.shape.fallback
    /\ row.shape.type = "keyword_response" =>
          /\ row.shape.mode = "comments" => row.mode = "comments"
          /\ row.shape.mode = "private" =>
                \/ row.mode = "private" /\ row.target
                \/ row.mode = "comments" /\ row.shape.fallback /\ row.closed

\* HistoryMatchesQueue, of one job.
HistoryOK(j) ==
    /\ history[j].final = "successful" =>
         /\ job[j].status = "done"
         /\ [account |-> history[j].account, kind |-> history[j].kind] \in sent[j]
    /\ history[j].final = "not_delivered" =>
         job[j].status = "done" /\ (job[j].dead \/ job[j].closed)
    /\ (job[j].status = "done" /\ IsKeyword(j) /\ history[j].final = "open") =>
         job[j].error = "channel_removal_requested"

\* What the RunOnce in progress has decided agrees with the row, and a success it
\* is about to record is a message Telegram has.
RunKnows ==
    /\ run.step # "idle" => job[run.job].status # "absent"
    /\ run.step \in Dispatching => KindOK(job[run.job], run.kind)
    /\ run.step = "sent" =>
          [account |-> run.account, kind |-> run.kind] \in sent[run.job]

\* The inductive invariant for the history and the modes.
ReplyInv ==
    /\ DeliveryInv
    /\ \A j \in Jobs : RowOK(job[j]) /\ HistoryOK(j)
    /\ \A j \in Jobs : \A m \in sent[j] : KindOK(job[j], m.kind)
    /\ RunKnows

\* Rows stay what was enqueued; this is where a private job needs its target.
LEMMA RowOKKept ==
    ASSUME NEW old, NEW new, RowOK(old), RowMoves(old, new)
    PROVE  RowOK(new)
<1>1. CASE new = old
  BY <1>1
<1>2. CASE RowKept(old, new)
  BY <1>2 DEF RowKept, RowOK
<1>3. CASE \E s \in Shapes : new = NewRow(s, "queued")
  <2>1. PICK s \in Shapes : new = NewRow(s, "queued")
    BY <1>3
  <2>2. /\ new.type = s.type /\ new.mode = s.mode /\ new.fallback = s.fallback
        /\ new.target = s.target /\ new.shape = s
    BY <2>1 DEF NewRow
  <2>3. s.type = "keyword_response" /\ s.mode = "private" => s.target
    BY DeliveryAssumption
  <2> QED BY <2>2, <2>3 DEF RowOK
<1> QED BY <1>1, <1>2, <1>3 DEF RowMoves

\* What was said of a message stays true of its row.
LEMMA KindOKKept ==
    ASSUME NEW old, NEW new, NEW k, RowMoves(old, new), old.status # "absent",
           KindOK(old, k)
    PROVE  KindOK(new, k) /\ new.status # "absent"
BY DEF RowMoves, RowKept, KindOK

\* The kind decided for a row is one it may be answered with.
LEMMA KindForOK ==
    ASSUME NEW j \in Jobs, NEW row, RowOK(job[j])
    PROVE  KindOK(job[j], KindFor(j, row))
<1>1. CASE job[j].shape.type # "keyword_response"
  BY <1>1 DEF KindOK
<1>2. CASE job[j].shape.type = "keyword_response" /\ job[j].mode = "comments"
  <2>1. job[j].type = "keyword_response"
    BY <1>2 DEF RowOK
  <2>2. KindFor(j, row) = "public_reply"
    BY <1>2, <2>1 DEF KindFor, KeywordPrivateTurn
  <2> QED BY <1>2, <2>2 DEF RowOK, KindOK
<1>3. CASE job[j].shape.type = "keyword_response" /\ job[j].mode = "private"
  <2>1. job[j].type = "keyword_response" /\ job[j].shape.mode # "comments"
    BY <1>3 DEF RowOK
  <2>2. CASE job[j].shape.mode = "private"
    <3>1. job[j].target
      BY <1>3, <2>2 DEF RowOK
    <3>2. KindFor(j, row) = "private_message"
      BY <1>3, <2>1, <3>1 DEF KindFor, KeywordPrivateTurn
    <3> QED BY <2>1, <3>2 DEF KindOK
  <2>3. CASE job[j].shape.mode # "private"
    BY <2>1, <2>3 DEF KindOK
  <2> QED BY <2>2, <2>3
<1>4. CASE /\ job[j].shape.type = "keyword_response"
           /\ job[j].mode # "comments" /\ job[j].mode # "private"
  BY <1>4 DEF RowOK, KindOK
<1> QED BY <1>1, <1>2, <1>3, <1>4

\* A job that is not enqueued has sent nothing.
LEMMA AbsentUnsent ==
    ASSUME DeliveryInv, NEW j \in Jobs, NEW m \in sent[j]
    PROVE  job[j].status # "absent"
<1>1. m.account \in Accounts
  BY InvFacts DEF Message
<1>2. m.account = job[j].account
  BY DEF DeliveryInv, ClaimKept
<1>3. job[j].account # NoAccount
  BY <1>1, <1>2, DeliveryAssumption
<1> QED BY <1>3 DEF DeliveryInv, ClaimKept

\* The history goes on matching its row.
LEMMA HistoryOKKept ==
    ASSUME NEW j \in Jobs, HistoryOK(j), HistoryMoves(j), SentMoves(j)
    PROVE  HistoryOK(j)'
<1>1. CASE job'[j] = job[j] /\ history'[j] = history[j]
  BY <1>1 DEF HistoryOK, SentMoves, IsKeyword
<1>2. CASE /\ Pending(j) /\ history'[j] = history[j]
           /\ job'[j].status = "done" =>
                 history[j].final # "open" \/ job'[j].error = "channel_removal_requested"
  BY <1>2 DEF HistoryOK, Pending
<1>3. CASE /\ job[j].status = "absent" /\ job'[j].status = "queued"
           /\ history'[j].final \in {"open", "none"}
  BY <1>3 DEF HistoryOK
<1>4. CASE Pending(j) /\ history'[j].final = "open" /\ job'[j].status # "done"
  BY <1>4 DEF HistoryOK
<1>5. CASE /\ Pending(j) /\ history'[j].final = "not_delivered"
           /\ job'[j].status = "done" /\ (job'[j].dead \/ job'[j].closed)
  BY <1>5 DEF HistoryOK
<1>6. CASE /\ Pending(j) /\ history'[j].final = "successful" /\ job'[j].status = "done"
           /\ [account |-> history'[j].account, kind |-> history'[j].kind] \in sent'[j]
  BY <1>6 DEF HistoryOK
<1> QED BY <1>1, <1>2, <1>3, <1>4, <1>5, <1>6 DEF HistoryMoves

\* An empty queue satisfies the invariant.
LEMMA InitReplyInv == Init => ReplyInv
<1> SUFFICES ASSUME Init PROVE ReplyInv
  OBVIOUS
<1>1. \A j \in Jobs : RowOK(job[j]) /\ HistoryOK(j) /\ sent[j] = {}
  BY DEF Init, RowOK, HistoryOK, NewRow, AnyShape, IsKeyword
<1>2. RunKnows
  BY DEF Init, RunKnows, Idle, Dispatching
<1> QED BY <1>1, <1>2, InitInv DEF ReplyInv

\* What the RunOnce knows stays true.
LEMMA RunKnowsKept ==
    ASSUME ReplyInv, Moves
    PROVE  RunKnows'
<1>1. RunOK /\ DeliveryInv
  BY InvFacts DEF ReplyInv
<1>2. CASE run'.step = "idle"
  BY <1>2 DEF RunKnows, Dispatching
<1>3. CASE run'.step = "loaded" /\ Pending(run'.job) /\ job' = job
  BY <1>3 DEF RunKnows, Dispatching, Pending
<1>4. CASE /\ run.step # "idle" /\ run'.job = run.job
           /\ run'.step \in Dispatching =>
                 \/ run.step \in Dispatching /\ run'.kind = run.kind
                 \/ job' = job /\ run'.kind = KindFor(run.job, account[run.account])
           /\ run'.step = "sent" =>
                 \/ run' = run
                 \/ [account |-> run'.account, kind |-> run'.kind] \in sent'[run'.job]
  <2>1. PICK i \in Jobs : i = run.job
    BY <1>1, <1>4 DEF RunOK
  <2>2. job[i].status # "absent" /\ RowOK(job[i]) /\ RowMoves(job[i], job'[i])
    BY <1>4, <2>1 DEF ReplyInv, RunKnows, Moves
  <2>3. job'[i].status # "absent"
    BY <2>2 DEF RowMoves, NewRow
  <2>4. ASSUME run'.step \in Dispatching PROVE KindOK(job'[i], run'.kind)
    <3>1. CASE run.step \in Dispatching /\ run'.kind = run.kind
      <4>1. KindOK(job[i], run.kind)
        BY <2>1, <3>1 DEF ReplyInv, RunKnows
      <4> QED BY <2>2, <3>1, <4>1, KindOKKept
    <3>2. CASE job' = job /\ run'.kind = KindFor(run.job, account[run.account])
      BY <2>1, <2>2, <3>2, KindForOK
    <3> QED BY <1>4, <2>4, <3>1, <3>2
  <2>5. ASSUME run'.step = "sent"
        PROVE  [account |-> run'.account, kind |-> run'.kind] \in sent'[i]
    <3>1. CASE run' = run
      BY <2>1, <2>5, <3>1 DEF ReplyInv, RunKnows, Moves, SentMoves
    <3>2. CASE [account |-> run'.account, kind |-> run'.kind] \in sent'[run'.job]
      BY <1>4, <2>1, <3>2
    <3> QED BY <1>4, <2>5, <3>1, <3>2
  <2> QED BY <1>4, <2>1, <2>3, <2>4, <2>5 DEF RunKnows
<1> QED BY <1>2, <1>3, <1>4 DEF Moves, RunMoves

\* Every step keeps it.
LEMMA NextReplyInv == ReplyInv /\ Next => ReplyInv'
<1> SUFFICES ASSUME ReplyInv, Next PROVE ReplyInv'
  OBVIOUS
<1>1. DeliveryInv /\ DeliveryInv'
  BY StepInv DEF ReplyInv
<1>2. Moves
  BY <1>1, NextMoves DEF ReplyInv, RunKnows
<1>3. ASSUME NEW j \in Jobs PROVE RowOK(job'[j]) /\ HistoryOK(j)'
  BY <1>2, RowOKKept, HistoryOKKept DEF ReplyInv, Moves
<1>4. ASSUME NEW j \in Jobs, NEW m \in sent'[j] PROVE KindOK(job'[j], m.kind)
  <2>1. RowMoves(job[j], job'[j])
    BY <1>2 DEF Moves
  <2>2. CASE m \in sent[j]
    BY <1>1, <2>1, <2>2, AbsentUnsent, KindOKKept DEF ReplyInv
  <2>3. CASE /\ run.step = "inflight" /\ j = run.job
             /\ m = [account |-> run.account, kind |-> run.kind]
    <3>1. KindOK(job[j], m.kind) /\ job[j].status # "absent"
      BY <2>3 DEF ReplyInv, RunKnows, Dispatching
    <3> QED BY <2>1, <3>1, KindOKKept
  <2> QED BY <1>2, <2>2, <2>3 DEF Moves, SentMoves
<1>5. RunKnows'
  BY <1>2, RunKnowsKept
<1> QED BY <1>1, <1>3, <1>4, <1>5 DEF ReplyInv

\* Rows, history, messages and the RunOnce in progress always agree that way.
THEOREM ReplyInvariant == Spec => []ReplyInv
<1>1. ReplyInv /\ [Next]_vars => ReplyInv'
  <2>1. ReplyInv /\ UNCHANGED vars => ReplyInv'
    BY StepInv DEF ReplyInv, vars, HistoryOK, IsKeyword, RunKnows
  <2> QED BY <2>1, NextReplyInv
<1> QED BY <1>1, InitReplyInv, PTL DEF Spec

\* A row marked successful names a message Telegram accepted, a keyword job that
\* ended has a final row, a row marked not delivered belongs to a job given up.
THEOREM HistoryMatches == Spec => []HistoryMatchesQueue
<1>1. ReplyInv => HistoryMatchesQueue
  BY DEF ReplyInv, HistoryOK, HistoryMatchesQueue
<1> QED BY <1>1, ReplyInvariant, PTL

\* One account per job, a history that matches the queue and Telegram, and no rest
\* without its switch.
THEOREM Safety == Spec => []DeliverySafety
<1>1. OneAccountPerJob /\ HistoryMatchesQueue /\ RestOffReleasesEveryone => DeliverySafety
  BY DEF DeliverySafety
<1> QED BY <1>1, OneAccount, HistoryMatches, RestOff, PTL

\* A comments job is never answered privately; a private one is answered in public
\* only with its fallback, after the private message was found closed.
THEOREM ModesKept == Spec => []ModeRespected
<1>1. ReplyInv => ModeRespected
  BY DEF ReplyInv, KindOK, ModeRespected
<1> QED BY <1>1, ReplyInvariant, PTL
=============================================================================
