------------------------------ MODULE Delivery ------------------------------
(***************************************************************************)
(* The outgoing delivery core: the delivery runner (usecase/scheduler.go)  *)
(* working through the durable job queue (repository/sqlite/job_store.go)  *)
(* and sending through the outbound policy boundary (gotd/outbound.go),    *)
(* while the manager, the scheduled-DM runner, the settings handler, the   *)
(* catalog handlers and a restart change the rows it has already read.     *)
(*                                                                         *)
(* One transaction or statement of the store is one step.  One RunOnce is  *)
(* the sequence of steps recorded in "run"; anything may happen between    *)
(* two of them.  Deadlines are abstracted to whether they have passed: a   *)
(* job is due or not, a rest is over or not, a flood wait is "future" or   *)
(* "past".  The order of next_attempt_at only shows as fairness.           *)
(***************************************************************************)
EXTENDS Naturals, FiniteSets

CONSTANTS
    Jobs,             \* identifiers of the outgoing jobs
    Accounts,         \* identifiers of the Telegram accounts
    Channels,         \* identifiers of the outbound channels
    ChannelOf,        \* the channel each job replies in
    Shapes,           \* the job shapes LiveSink and older rows enqueue
    MaxAttempts,      \* maxDeliveryAttempts (8 in the code)
    MaxDisturbances,  \* bound on interruptions by the environment
    NoAccount, NoJob  \* SQL NULL

JobTypes == {"keyword_response", "public_reply", "private_message"}
Modes    == {"legacy", "private", "comments"}
Kinds    == {"public_reply", "private_message"}

\* domain.OutgoingMessageJob as the sources of jobs fill it in.
Shape == [type : JobTypes, mode : Modes, allow : BOOLEAN,
          fallback : BOOLEAN, target : BOOLEAN]

ASSUME DeliveryAssumption ==
    /\ MaxAttempts \in Nat \ {0}
    /\ MaxDisturbances \in Nat
    /\ ChannelOf \in [Jobs -> Channels]
    /\ Shapes \subseteq Shape
    \* keywordDeliveryJobs makes no private job without a sender to answer.
    /\ \A s \in Shapes : s.type = "keyword_response" /\ s.mode = "private" => s.target
    /\ NoAccount \notin Accounts
    /\ NoJob \notin Jobs

VARIABLES
    job,      \* outgoing_message_jobs
    history,  \* live_delivery_history, and the job's success event
    account,  \* accounts
    resting,  \* accounts with a membership whose rest_until is in the future
    restOn,   \* app_settings.groupRestEnabled
    clearing, \* SaveAppSettings calls yet to run ClearGroupRests; the last one failed
    channel,  \* outbound_channels
    senders,  \* ClientSenderRegistry.senders
    run,      \* the RunOnce in progress
    sent,     \* messages Telegram accepted: for each job, who sent what
    disturbances

vars == <<job, history, account, resting, restOn, clearing, channel, senders,
          run, sent, disturbances>>

-----------------------------------------------------------------------------
JobRow ==
    [status   : {"absent", "queued", "delayed", "done"},
     type     : JobTypes, mode : Modes, allow : BOOLEAN, fallback : BOOLEAN,
     target   : BOOLEAN,
     account  : Accounts \cup {NoAccount},
     attempts : 0..MaxAttempts,
     due      : BOOLEAN,             \* next_attempt_at has passed
     error    : {"", "failed", "account_group_rest", "private_message_closed",
                 "channel_removal_requested"},
     dead     : BOOLEAN,             \* dead_lettered_at is set
     closed   : BOOLEAN,             \* the event "<id>:private_closed" exists
     shape    : Shape]               \* as enqueued, for the properties

HistoryRow ==
    [final   : {"none", "open", "successful", "not_delivered"},
     kind    : Kinds \cup {"unknown"},
     account : Accounts \cup {NoAccount}]

AccountRow ==
    [role   : {"spammer", "scout_analyst"},
     status : {"ready", "error", "flood_wait"},
     flood  : {"none", "future", "past"},    \* flood_wait_until
     next   : {"private", "public"}]         \* EffectiveNextDelivery

Steps == {"idle", "loaded", "claim", "claimed", "rest", "restDelay",
          "restRecheck", "restRelease", "check", "send", "inflight",
          "sent", "failed", "closed", "closedDelay"}

RunRow == [step : Steps, job : Jobs \cup {NoJob},
           account : Accounts \cup {NoAccount}, kind : Kinds \cup {"unknown"}]

Message == [account : Accounts, kind : Kinds]

Idle == [step |-> "idle", job |-> NoJob, account |-> NoAccount,
         kind |-> "unknown"]

NoClear == [calls |-> 0, failed |-> FALSE]

AnyShape == [type |-> "keyword_response", mode |-> "comments",
             allow |-> FALSE, fallback |-> FALSE, target |-> FALSE]

\* A row of the queue; "absent" stands for a job not yet enqueued.
NewRow(s, status) ==
    [status |-> status, type |-> s.type, mode |-> s.mode, allow |-> s.allow,
     fallback |-> s.fallback, target |-> s.target, account |-> NoAccount,
     attempts |-> 0, due |-> (status = "queued"), error |-> "",
     dead |-> FALSE, closed |-> FALSE, shape |-> s]

Init ==
    /\ job = [j \in Jobs |-> NewRow(AnyShape, "absent")]
    /\ history = [j \in Jobs |->
                    [final |-> "none", kind |-> "unknown", account |-> NoAccount]]
    /\ account = [a \in Accounts |->
                    [role |-> "spammer", status |-> "ready", flood |-> "none",
                     next |-> "private"]]
    /\ resting = {}
    /\ restOn = TRUE
    /\ clearing = NoClear
    /\ channel = [c \in Channels |-> "active"]
    /\ senders = Accounts
    /\ run = Idle
    /\ sent = [j \in Jobs |-> {}]
    /\ disturbances = 0

-----------------------------------------------------------------------------
(* Predicates of the SQL statements and of the domain types.               *)

\* status IN ('queued','delayed')
Pending(j) == job[j].status \in {"queued", "delayed"}

\* The channel clause NextDue and CanDispatch share.
ChannelOpen(j) ==
    job[j].type = "private_message" \/ channel[ChannelOf[j]] = "active"

\* Account.Eligible: "ready" stands for every status that may send (ready,
\* active, joining, partial, stopped), "error" for those that may not.
Eligible(row) == row.status = "ready"

IsKeyword(j) == job[j].type = "keyword_response"

\* Mutant: the alternation cursor also decides explicit private jobs.
PrivateTurnByCursor(j, row) ==
    job[j].mode # "comments" /\ job[j].target /\ row.next = "private"

KeywordPrivateTurn(j, row) ==
    CASE job[j].mode = "private"  -> job[j].target
      [] job[j].mode = "comments" -> FALSE
      [] OTHER -> job[j].allow /\ job[j].target /\ row.next = "private"

\* The kind of message this account would send for this job.
KindFor(j, row) ==
    CASE job[j].type = "public_reply"    -> "public_reply"
      [] job[j].type = "private_message" -> "private_message"
      [] OTHER -> IF KeywordPrivateTurn(j, row) THEN "private_message"
                                                ELSE "public_reply"

\* The UPDATE at the head of listActiveAccounts.
RecoverExpired(rows) ==
    [a \in Accounts |->
        IF rows[a].status = "flood_wait" /\ rows[a].flood = "past"
        THEN [rows[a] EXCEPT !.status = "ready", !.flood = "none"]
        ELSE rows[a]]

\* releaseGroupRestDelays
ReleaseRestDelays(rows) ==
    [j \in Jobs |->
        IF rows[j].status = "delayed" /\ rows[j].error = "account_group_rest"
        THEN [rows[j] EXCEPT !.status = "queued", !.due = TRUE, !.error = ""]
        ELSE rows[j]]

\* Mutant: the delay does not look at the status.
DelayTransientRevives(j, reason) ==
    [job EXCEPT ![j].status = "delayed", ![j].due = FALSE, ![j].error = reason]

\* DelayTransientUntil: the new rows when the job is pending; the reason
\* "account_group_rest" also needs the persisted switch to be on.
DelayTransient(j, reason) ==
    IF Pending(j) /\ (reason # "account_group_rest" \/ restOn)
    THEN [job EXCEPT ![j].status = "delayed", ![j].due = FALSE,
                     ![j].error = reason]
    ELSE job

\* Mutant: a failure also gives the claim up.
FailureReleasesClaim(row) ==
    [row EXCEPT !.status = IF row.attempts + 1 >= MaxAttempts THEN "done"
                                                              ELSE "delayed",
                !.attempts = @ + 1, !.due = FALSE, !.error = "failed",
                !.account = NoAccount]

\* Mutant: the attempt is not counted.
FailureUncounted(row) ==
    [row EXCEPT !.status = "delayed", !.due = FALSE, !.error = "failed"]

\* DelayKeywordFailure and DelayUntil: one more counted attempt.
CountFailure(row) ==
    LET last == row.attempts + 1 >= MaxAttempts
    IN  [row EXCEPT !.status = IF last THEN "done" ELSE "delayed",
                    !.attempts = @ + 1, !.due = FALSE, !.error = "failed",
                    !.dead = @ \/ last]

FloodWait(row) == [row EXCEPT !.status = "flood_wait", !.flood = "future"]

-----------------------------------------------------------------------------
(* RunOnce, step by step.                                                  *)

\* LiveSink.Trigger -> EnqueueKeywordResponse (or Enqueue for plain types):
\* a second delivery of the same update finds the row and changes nothing.  The
\* call looked the channel up first and found it active, as every channel was
\* once; the row goes in whatever became of the channel since.
Enqueue(j, s) ==
    /\ job[j].status = "absent"
    /\ job' = [job EXCEPT ![j] = NewRow(s, "queued")]
    /\ history' = [history EXCEPT ![j].final =
                     IF s.type = "keyword_response" THEN "open" ELSE "none"]
    /\ UNCHANGED <<account, resting, restOn, clearing, channel, senders, run,
                   sent, disturbances>>

NextDue(j) ==
    /\ run.step = "idle"
    /\ Pending(j) /\ job[j].due /\ ChannelOpen(j)
    /\ run' = [Idle EXCEPT !.step = "loaded", !.job = j]
    /\ UNCHANGED <<job, history, account, resting, restOn, clearing, channel,
                   senders, sent, disturbances>>

\* The candidates filterRestingPublicCandidates takes out.
RestingPublic(candidates, j, acc) ==
    {a \in candidates : restOn /\ a \in resting /\ KindFor(j, acc[a]) = "public_reply"}

\* ListActive (which first recovers expired flood waits), the availability
\* filter, findAccount for a claimed job, and for an unclaimed one
\* filterRestingPublicCandidates and the selector's pick.
SelectAccount ==
    /\ run.step = "loaded"
    /\ account' = RecoverExpired(account)
    /\ LET j          == run.job
           listed     == {a \in senders : Eligible(account'[a])}
           candidates == {a \in listed : account'[a].role = "spammer"}
           barred     == RestingPublic(candidates, j, account')
           owner      == job[j].account
       IN  \/ /\ owner # NoAccount
              /\ run' = [run EXCEPT !.account = owner,
                           !.step = IF owner \in listed THEN "claimed"
                                                        ELSE "failed"]
           \/ /\ owner = NoAccount
              /\ candidates \ barred = {}
              /\ run' = [run EXCEPT !.step = IF barred # {} THEN "rest"
                                                            ELSE "failed"]
           \/ /\ owner = NoAccount
              /\ \E a \in candidates \ barred :
                    run' = [run EXCEPT !.step = "claim", !.account = a]
    /\ UNCHANGED <<job, history, resting, restOn, clearing, channel, senders,
                   sent, disturbances>>

\* JobRepository.Claim: the first account to claim a job keeps it.
Claim ==
    /\ run.step = "claim"
    /\ LET j == run.job
       IN  /\ job' = IF Pending(j) /\ job[j].account = NoAccount
                     THEN [job EXCEPT ![j].account = run.account] ELSE job
           /\ run' = IF Pending(j)
                     THEN [run EXCEPT !.step = "claimed",
                                      !.account = job'[j].account]
                     ELSE Idle
    /\ UNCHANGED <<history, account, resting, restOn, clearing, channel,
                   senders, sent, disturbances>>

\* The turn is decided, and a public one waits while its account rests
\* (delayClaimedPublicForRest).
DecideTurn ==
    /\ run.step = "claimed"
    /\ LET k == KindFor(run.job, account[run.account])
       IN  run' = [run EXCEPT !.kind = k,
                     !.step = IF k = "public_reply" /\ restOn
                                 /\ run.account \in resting
                              THEN "rest" ELSE "check"]
    /\ UNCHANGED <<job, history, account, resting, restOn, clearing, channel,
                   senders, sent, disturbances>>

\* delayForGroupRest reads the switch, delays, reads the switch again and
\* releases what it delayed if the switch went off meanwhile.
RestCheckSwitch ==
    /\ run.step = "rest"
    /\ run' = IF restOn THEN [run EXCEPT !.step = "restDelay"] ELSE Idle
    /\ UNCHANGED <<job, history, account, resting, restOn, clearing, channel,
                   senders, sent, disturbances>>

RestDelay ==
    /\ run.step = "restDelay"
    /\ job' = DelayTransient(run.job, "account_group_rest")
    /\ run' = IF Pending(run.job) \/ ~restOn
              THEN [run EXCEPT !.step = "restRecheck"] ELSE Idle
    /\ UNCHANGED <<history, account, resting, restOn, clearing, channel,
                   senders, sent, disturbances>>

RestRecheckSwitch ==
    /\ run.step = "restRecheck"
    /\ run' = IF restOn THEN Idle ELSE [run EXCEPT !.step = "restRelease"]
    /\ UNCHANGED <<job, history, account, resting, restOn, clearing, channel,
                   senders, sent, disturbances>>

ReleaseGroupRestDelays ==
    /\ run.step = "restRelease"
    /\ job' = ReleaseRestDelays(job)
    /\ run' = Idle
    /\ UNCHANGED <<history, account, resting, restOn, clearing, channel,
                   senders, sent, disturbances>>

\* JobRepository.CanDispatch, the last look at the row before the send.
CanDispatch ==
    /\ run.step = "check"
    /\ run' = IF /\ Pending(run.job) /\ ChannelOpen(run.job)
                 /\ job[run.job].account = run.account
              THEN [run EXCEPT !.step = "send"] ELSE Idle
    /\ UNCHANGED <<job, history, account, resting, restOn, clearing, channel,
                   senders, sent, disturbances>>

\* Outbound.sendWithLease up to the request: the account's mutex is taken
\* (it is held exactly while run.step = "inflight"), role and eligibility
\* are read again, and the rate reservation may refuse (see OutboundRate).

SendAuthorized(a) == account[a].role = "spammer" /\ Eligible(account[a])

BeginSend ==
    /\ run.step = "send"
    /\ \/ SendAuthorized(run.account) /\ run' = [run EXCEPT !.step = "inflight"]
       \/ run' = [run EXCEPT !.step = "failed"]
    /\ UNCHANGED <<job, history, account, resting, restOn, clearing, channel,
                   senders, sent, disturbances>>

\* Telegram accepted the message.  The random ID is derived from the job, so
\* a repeated request to the same peer is one message.
Deliver(j, a, k) == sent' = [sent EXCEPT ![j] = @ \cup {[account |-> a, kind |-> k]}]

\* The answer of Telegram: success, success whose answer was lost, an error,
\* a flood wait (recorded under the mutex), or a closed private message.
SendSucceeds ==
    /\ run.step = "inflight"
    /\ Deliver(run.job, run.account, run.kind)
    /\ run' = [run EXCEPT !.step = "sent"]
    /\ UNCHANGED <<job, history, account, resting, restOn, clearing, channel,
                   senders, disturbances>>

SendFails ==
    /\ run.step = "inflight"
    /\ sent' = sent \/ Deliver(run.job, run.account, run.kind)
    /\ run' = [run EXCEPT !.step = "failed"]
    /\ UNCHANGED <<job, history, account, resting, restOn, clearing, channel,
                   senders, disturbances>>

SendFloods ==
    /\ run.step = "inflight"
    /\ account' = [account EXCEPT ![run.account] = FloodWait(@)]
    /\ run' = [run EXCEPT !.step = "failed"]
    /\ UNCHANGED <<job, history, resting, restOn, clearing, channel, senders,
                   sent, disturbances>>

SendFindsClosed ==
    /\ run.step = "inflight"
    /\ run.kind = "private_message" /\ IsKeyword(run.job)
    /\ run' = [run EXCEPT !.step = "closed"]
    /\ UNCHANGED <<job, history, account, resting, restOn, clearing, channel,
                   senders, sent, disturbances>>

\* Mutant: the dead letter is not written to the history.
FailureHistoryOpen(row, kind, a, ended) ==
    IF kind = "unknown" THEN row ELSE [row EXCEPT !.kind = kind, !.account = a]

\* persistKeywordFailureMetadata and finalizeKeywordFailure.
FailureHistory(row, kind, a, ended) ==
    [final   |-> IF ended THEN "not_delivered" ELSE row.final,
     kind    |-> IF kind = "unknown" THEN row.kind ELSE kind,
     account |-> IF kind = "unknown" THEN row.account ELSE a]

\* DelayKeywordFailure, or DelayUntil for the plain types.
RecordFailure ==
    /\ run.step = "failed"
    /\ LET j == run.job
       IN  /\ job' = IF Pending(j) THEN [job EXCEPT ![j] = CountFailure(@)]
                                   ELSE job
           /\ history' =
                IF Pending(j) /\ history[j].final = "open"
                THEN [history EXCEPT ![j] =
                        FailureHistory(@, run.kind, run.account,
                                       job'[j].status = "done")]
                ELSE history
    /\ run' = Idle
    /\ UNCHANGED <<account, resting, restOn, clearing, channel, senders, sent,
                   disturbances>>

\* RecordPrivateClosed: once per job; the job ends here, or turns public.
TerminalClosed(j) == job[j].mode = "private" /\ ~job[j].fallback

RecordPrivateClosed ==
    /\ run.step = "closed"
    /\ LET j     == run.job
           first == /\ ~job[j].closed /\ Pending(j)
                    /\ (job[j].allow \/ job[j].mode = "private")
           ends  == TerminalClosed(j)
       IN  /\ job' = IF ~first THEN job ELSE
                [job EXCEPT ![j].allow = FALSE, ![j].fallback = FALSE,
                   ![j].mode = IF @ = "private" /\ job[j].fallback
                               THEN "comments" ELSE @,
                   ![j].status = IF ends THEN "done" ELSE @,
                   ![j].error = "private_message_closed",
                   ![j].closed = TRUE]
           /\ account' = IF ~first THEN account ELSE
                [account EXCEPT ![run.account].next = "public"]
           /\ history' = IF ~(first /\ ends /\ history[j].final = "open")
                         THEN history ELSE
                [history EXCEPT ![j] = [final |-> "not_delivered",
                   kind |-> "private_message", account |-> run.account]]
           /\ run' = IF ends \/ ~(first \/ job[j].closed) THEN Idle
                     ELSE [run EXCEPT !.step = "closedDelay"]
    /\ UNCHANGED <<resting, restOn, clearing, channel, senders, sent,
                   disturbances>>

DelayAfterClosed ==
    /\ run.step = "closedDelay"
    /\ job' = DelayTransient(run.job, "private_message_closed")
    /\ run' = Idle
    /\ UNCHANGED <<history, account, resting, restOn, clearing, channel,
                   senders, sent, disturbances>>

\* CompleteKeywordResponse and Complete.  recordSuccessfulDelivery clears
\* flood_wait_until whatever the status column says.
CompletedAccount(row, j, k) ==
    [row EXCEPT !.flood = "none",
        !.next = IF ~IsKeyword(j) \/ job[j].mode # "legacy" THEN @
                 ELSE IF k = "private_message" THEN "public"
                 ELSE IF job[j].allow THEN "private" ELSE @]

Complete ==
    /\ run.step = "sent"
    /\ LET j    == run.job
           mine == Pending(j) /\ job[j].account = run.account
       IN  /\ job' = IF ~mine THEN job ELSE
                [job EXCEPT ![j].status = "done", ![j].error = ""]
           /\ account' = IF ~mine THEN account ELSE
                [account EXCEPT ![run.account] = CompletedAccount(@, j, run.kind)]
           /\ history' = IF ~(mine /\ history[j].final = "open") THEN history
                         ELSE [history EXCEPT ![j] = [final |-> "successful",
                                kind |-> run.kind, account |-> run.account]]
    /\ run' = Idle
    /\ UNCHANGED <<resting, restOn, clearing, channel, senders, sent,
                   disturbances>>

-----------------------------------------------------------------------------
(* Everyone else.                                                          *)

\* STOP cancels the context: the RunOnce in progress fails at its next call,
\* a request already on the wire may still be accepted.
Interrupted == disturbances < MaxDisturbances /\ disturbances' = disturbances + 1

StopDelivery ==
    /\ run.step # "idle" /\ Interrupted
    /\ \/ sent' = sent
       \/ run.step = "inflight" /\ Deliver(run.job, run.account, run.kind)
    /\ run' = Idle
    /\ UNCHANGED <<job, history, account, resting, restOn, clearing, channel,
                   senders>>

\* The process dies and starts again: startup runs ClearGroupRests when the
\* switch is off, and the sender registry starts empty.
Restart ==
    /\ Interrupted
    /\ \/ sent' = sent
       \/ run.step = "inflight" /\ Deliver(run.job, run.account, run.kind)
    /\ run' = Idle
    /\ clearing' = NoClear
    /\ senders' = {}
    /\ resting' = IF restOn THEN resting ELSE {}
    /\ job' = IF restOn THEN job ELSE ReleaseRestDelays(job)
    /\ UNCHANGED <<history, account, restOn, channel>>

\* ProductionActivator.Apply registers or unregisters an account's sender.
Register(a) ==
    /\ a \notin senders /\ account[a].role = "spammer"
    /\ senders' = senders \cup {a}
    /\ UNCHANGED <<job, history, account, resting, restOn, clearing, channel,
                   run, sent, disturbances>>

Unregister(a) ==
    /\ a \in senders /\ Interrupted
    /\ senders' = senders \ {a}
    /\ UNCHANGED <<job, history, account, resting, restOn, clearing, channel,
                   run, sent>>

\* SetAccountRole takes the account's mutex, so not while a send is in flight.
SetAccountRole(a, r) ==
    /\ ~(run.step = "inflight" /\ run.account = a)
    /\ account[a].role # r /\ Interrupted
    /\ account' = [account EXCEPT ![a].role = r]
    /\ UNCHANGED <<job, history, resting, restOn, clearing, channel, senders,
                   run, sent>>

\* The manager's status callback (persistAndLogAccountStatus) and the
\* scheduled-DM runner meet a flood wait on the same account.
RecordFloodWait(a) ==
    /\ Interrupted
    /\ account' = [account EXCEPT ![a] = FloodWait(@)]
    /\ UNCHANGED <<job, history, resting, restOn, clearing, channel, senders,
                   run, sent>>

\* RecordRuntimeStatus keeps a flood wait that is still running, unless the
\* session is permanently invalid.
RecordRuntimeStatus(a, s, override) ==
    /\ Interrupted
    /\ account' = [account EXCEPT
         ![a].status = IF ~override /\ @ = "flood_wait"
                          /\ account[a].flood = "future"
                       THEN @ ELSE s,
         ![a].flood = IF override THEN "none" ELSE @]
    /\ UNCHANGED <<job, history, resting, restOn, clearing, channel, senders,
                   run, sent>>

\* A session that connects is validated and put back into rotation.
MarkValidated(a) ==
    /\ Interrupted
    /\ account' = [account EXCEPT ![a].status = "ready", ![a].flood = "none"]
    /\ UNCHANGED <<job, history, resting, restOn, clearing, channel, senders,
                   run, sent>>

\* SaveAppSettings persists the switch first and clears afterwards.
SaveGroupRestEnabled(on) ==
    /\ Interrupted
    /\ restOn' = on
    /\ clearing' = [clearing EXCEPT !.calls = IF on THEN @ ELSE @ + 1]
    /\ UNCHANGED <<job, history, account, resting, channel, senders, run, sent>>

ClearGroupRests ==
    /\ clearing.calls > 0
    /\ clearing' = [calls |-> clearing.calls - 1, failed |-> FALSE]
    /\ resting' = {}
    /\ job' = ReleaseRestDelays(job)
    /\ UNCHANGED <<history, account, restOn, channel, senders, run, sent,
                   disturbances>>

\* ClearJoinIntervals or ClearGroupRests fails after the switch was persisted:
\* the user is told, and the rests stay until the next save or start clears.
ClearFails ==
    /\ clearing.calls > 0 /\ Interrupted
    /\ clearing' = [calls |-> clearing.calls - 1, failed |-> TRUE]
    /\ UNCHANGED <<job, history, account, resting, restOn, channel, senders,
                   run, sent>>

\* saveCatalogMembership records a rest only while the switch is on.
StartGroupRest(a) ==
    /\ restOn /\ a \notin resting /\ Interrupted
    /\ resting' = resting \cup {a}
    /\ UNCHANGED <<job, history, account, restOn, clearing, channel, senders,
                   run, sent>>

\* RequestCatalogLeave pauses a channel, a catalog save activates it again,
\* RequestCatalogRemoval ends its pending jobs.
SetChannel(c, s) ==
    /\ channel[c] # "removed" /\ channel[c] # s /\ Interrupted
    /\ channel' = [channel EXCEPT ![c] = s]
    /\ UNCHANGED <<job, history, account, resting, restOn, clearing, senders,
                   run, sent>>

RequestCatalogRemoval(c) ==
    /\ channel[c] # "removed" /\ Interrupted
    /\ channel' = [channel EXCEPT ![c] = "removed"]
    /\ job' = [j \in Jobs |->
                 IF ChannelOf[j] = c /\ Pending(j)
                 THEN [job[j] EXCEPT !.status = "done",
                                     !.error = "channel_removal_requested"]
                 ELSE job[j]]
    /\ UNCHANGED <<history, account, resting, restOn, clearing, senders, run,
                   sent>>

\* Time passes: a delay, a rest or a flood wait runs out.
JobFallsDue(j) ==
    /\ Pending(j) /\ ~job[j].due
    /\ job' = [job EXCEPT ![j].due = TRUE]
    /\ UNCHANGED <<history, account, resting, restOn, clearing, channel,
                   senders, run, sent, disturbances>>

RestExpires(a) ==
    /\ a \in resting
    /\ resting' = resting \ {a}
    /\ UNCHANGED <<job, history, account, restOn, clearing, channel, senders,
                   run, sent, disturbances>>

FloodExpires(a) ==
    /\ account[a].flood = "future"
    /\ account' = [account EXCEPT ![a].flood = "past"]
    /\ UNCHANGED <<job, history, resting, restOn, clearing, channel, senders,
                   run, sent, disturbances>>

-----------------------------------------------------------------------------
RunStep ==
    \/ SelectAccount \/ Claim \/ DecideTurn \/ RestCheckSwitch \/ RestDelay
    \/ RestRecheckSwitch \/ ReleaseGroupRestDelays \/ CanDispatch
    \/ BeginSend \/ SendSucceeds \/ SendFails \/ SendFloods \/ SendFindsClosed \/ RecordFailure
    \/ RecordPrivateClosed \/ DelayAfterClosed \/ Complete

AccountStep(a) ==
    \/ Register(a) \/ Unregister(a) \/ RecordFloodWait(a) \/ StartGroupRest(a)
    \/ RestExpires(a) \/ FloodExpires(a) \/ MarkValidated(a)
    \/ \E r \in {"spammer", "scout_analyst"} : SetAccountRole(a, r)
    \/ RecordRuntimeStatus(a, "ready", FALSE)
    \/ \E override \in BOOLEAN : RecordRuntimeStatus(a, "error", override)

Next ==
    \/ \E j \in Jobs : NextDue(j) \/ JobFallsDue(j) \/ \E s \in Shapes : Enqueue(j, s)
    \/ RunStep
    \/ \E a \in Accounts : AccountStep(a)
    \/ StopDelivery \/ Restart \/ ClearGroupRests \/ ClearFails
    \/ \E on \in BOOLEAN : SaveGroupRestEnabled(on)
    \/ \E c \in Channels : RequestCatalogRemoval(c)
                           \/ \E s \in {"active", "paused"} : SetChannel(c, s)

Spec == Init /\ [][Next]_vars

(***************************************************************************)
(* The runner's goroutine keeps taking steps (its ticker never stops while *)
(* automation runs), clocks move, the settings handler finishes, and the   *)
(* ORDER BY next_attempt_at of NextDue lets no due job wait forever behind *)
(* jobs that are retried later and later.                                  *)
(***************************************************************************)
Fairness ==
    /\ WF_vars(RunStep) /\ WF_vars(ClearGroupRests \/ ClearFails)
    /\ \A j \in Jobs : SF_vars(NextDue(j)) /\ WF_vars(JobFallsDue(j))
    /\ \A a \in Accounts : WF_vars(RestExpires(a)) /\ WF_vars(FloodExpires(a))

FairSpec == Spec /\ Fairness
-----------------------------------------------------------------------------
(* Properties.                                                             *)

\* What the RunOnce in progress knows by the time it reaches each step.
Dispatching == {"check", "send", "inflight", "sent", "closed", "closedDelay"}

RunOK ==
    /\ run \in RunRow
    /\ run.step # "idle" => run.job \in Jobs
    /\ run.step \in Dispatching \cup {"claim", "claimed"} =>
          run.account \in Accounts
    /\ run.step \in Dispatching => run.kind \in Kinds

\* The rows are of the types the schema and the Go types give them; attempts
\* never passes maxDeliveryAttempts.
TypeOK ==
    /\ job \in [Jobs -> JobRow]
    /\ history \in [Jobs -> HistoryRow]
    /\ account \in [Accounts -> AccountRow]
    /\ resting \subseteq Accounts
    /\ restOn \in BOOLEAN
    /\ clearing \in [calls : Nat, failed : BOOLEAN]
    /\ channel \in [Channels -> {"active", "paused", "removed"}]
    /\ senders \subseteq Accounts
    /\ RunOK
    /\ sent \in [Jobs -> SUBSET Message]
    /\ disturbances \in 0..MaxDisturbances

\* The strengthening the proofs need: a job that can still be retried has an
\* attempt left; a job not yet enqueued is unclaimed; whatever was sent, and
\* whatever is about to be sent after CanDispatch, belongs to the claim; and
\* the account's mutex keeps its role while a request is in flight.
AttemptsLeft == \A j \in Jobs : Pending(j) => job[j].attempts < MaxAttempts

ClaimKept ==
    /\ \A j \in Jobs : job[j].status = "absent" =>
                         job[j].account = NoAccount /\ job[j].attempts = 0
    /\ \A j \in Jobs : \A m \in sent[j] : m.account = job[j].account
    /\ run.step \in {"send", "inflight"} =>
          job[run.job].account = run.account
    /\ run.step = "inflight" => account[run.account].role = "spammer"

\* The inductive invariant of the delivery core: every step of the runner and
\* of everyone else keeps the claim, the attempt bound and the sender's role.
DeliveryInv == TypeOK /\ AttemptsLeft /\ ClaimKept

\* However often a send is retried, interrupted or its answer lost, all the
\* messages of one job come from one account: a claim survives every failure.
OneAccountPerJob ==
    \A j \in Jobs : \A m, n \in sent[j] : m.account = n.account

\* A job enqueued for comments is never sent privately; one enqueued for a
\* private message is answered in public only if it allows the fallback and
\* the closed private message has been recorded (RecordPrivateClosed).
ModeRespected ==
    \A j \in Jobs : \A m \in sent[j] :
        LET s == job[j].shape
        IN  /\ (s.type = "keyword_response" /\ s.mode = "comments")
                  => m.kind = "public_reply"
            /\ (s.type = "keyword_response" /\ s.mode = "private"
                  /\ m.kind = "public_reply")
                  => s.fallback /\ job[j].closed

\* The live history agrees with the queue and with Telegram: a row marked
\* successful names a message Telegram accepted, a keyword job that ended has
\* a final row (unless its channel was removed under it), a row marked not
\* delivered belongs to a dead letter or a closed private message.
HistoryMatchesQueue ==
    \A j \in Jobs :
        LET h == history[j] IN
        /\ h.final = "successful" =>
             /\ job[j].status = "done"
             /\ [account |-> h.account, kind |-> h.kind] \in sent[j]
        /\ h.final = "not_delivered" =>
             job[j].status = "done" /\ (job[j].dead \/ job[j].closed)
        /\ (job[j].status = "done" /\ IsKeyword(j) /\ h.final = "open") =>
             job[j].error = "channel_removal_requested"

\* Once the rest switch is off and every SaveAppSettings call has finished,
\* no job waits for a rest and no account rests, whatever the runner was in
\* the middle of; only the call that cleared last may have failed, which its
\* user was told.
RestOffReleasesEveryone ==
    (~restOn /\ clearing = NoClear) =>
        /\ resting = {}
        /\ \A j \in Jobs : ~(job[j].status = "delayed"
                              /\ job[j].error = "account_group_rest")

\* What Telegram, the queue, the history and the rest switch agree on in every
\* state: one account per job, a history that matches, no rest without a switch.
DeliverySafety == OneAccountPerJob /\ HistoryMatchesQueue /\ RestOffReleasesEveryone

\* A job that ended stays ended, a claimed job keeps its account, and the
\* count of attempts never goes back: retries stay bounded.
QueueOnlyAdvances ==
    [][\A j \in Jobs :
        /\ job[j].status = "done" => job'[j].status = "done"
        /\ job[j].account # NoAccount => job'[j].account = job[j].account
        /\ job'[j].attempts >= job[j].attempts]_vars

\* No message leaves through an account that is a scout at that moment, even
\* if it was a spammer when the job was selected and claimed.
NoScoutSends ==
    [][\A j \in Jobs : sent'[j] # sent[j] =>
        /\ run.account \in Accounts
        /\ account[run.account].role = "spammer"]_vars

\* What no step of the runner or of anyone else does to the queue: bring back a
\* finished job, move a claim, take back an attempt, send through a scout.
DeliverySteps == QueueOnlyAdvances /\ NoScoutSends

\* Every pending job ends, or its channel is closed to it: the attempts run
\* out even when every send fails.
EveryJobEnds ==
    \A j \in Jobs : Pending(j) ~> (job[j].status = "done" \/ ~ChannelOpen(j))

\* An account in flood wait has a deadline, so that listActiveAccounts can
\* put it back into rotation when the deadline passes.
FloodWaitHasDeadline ==
    \A a \in Accounts : account[a].status = "flood_wait" => account[a].flood # "none"
=============================================================================
