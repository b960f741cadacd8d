-------------------------- MODULE Background_proof --------------------------
(***************************************************************************)
(* Proofs about the background work: the runtime of the accounts           *)
(* (Runtime), with the inductive invariant that relates who is registered  *)
(* to the worker that registered it, and the collection of statistics      *)
(* (Collection), whose invariant is inductive itself.                      *)
(***************************************************************************)
EXTENDS Runtime, Collection, TLAPS

-----------------------------------------------------------------------------
(* The runtime of the accounts *)

\* The types of the workers, of who waits for a disconnection, of the counts and
\* of the manager's run.
WorkerRows == [step : Steps, route : Routes \cup {"none"}, snap : RuntimeSnapshots,
               using : RuntimeSnapshots, applied : BOOLEAN, conn : 0 .. MaxConnects,
               cancelled : BOOLEAN, down : BOOLEAN]
WatchRows == [acc : Accounts, epoch : Nat, conn : 0 .. MaxConnects]
CountRows == [conn : [Accounts -> 0 .. MaxConnects], checks : [Accounts -> Nat], runs : Nat]
RunRows == [step : {"off", "loop", "visit", "await", "stopping"}, snap : RuntimeSnapshots,
            desired : SUBSET Accounts, todo : SUBSET Accounts]

\* The types that the proof relies on.
RuntimeTypes ==
    /\ latest \in RuntimeSnapshots /\ slot \in RuntimeSnapshots /\ run \in RunRows
    /\ cur \in [Accounts -> 0 .. 2] /\ worker \in [Places -> WorkerRows]
    /\ scouts \in [Accounts -> 0 .. MaxConnects] /\ senders \in [Accounts -> 0 .. MaxConnects]
    /\ epoch \in [Accounts -> Nat] /\ watchers \in SUBSET WatchRows
    /\ handler \in [Accounts -> {"off", "collect", "trigger"}]
    /\ counts \in CountRows

\* Whoever waits for the disconnection that ends the newest registration of a
\* scout waits for this connection.
Watched(a, c) == \A x \in watchers : x.acc = a /\ x.epoch = epoch[a] => x.conn = c

\* How the account is registered while a worker applies a snapshot and after it.
Serves(a, r) ==
    LET role == r.using.want[a].role
        paused == r.using.paused
    IN  /\ r.step \in {"connecting", "waiting"} => ~r.applied
        /\ r.step = "applying" /\ role = "scout" =>
              senders[a] = 0 /\ (~paused => Watched(a, r.conn))
        /\ r.step = "registering" =>
              ~paused /\ role = "spammer" /\ scouts[a] = 0 /\ handler[a] = "trigger"
        /\ r.step = "ready" /\ r.applied =>
              IF paused THEN scouts[a] = 0 /\ senders[a] = 0 /\ handler[a] = "off"
              ELSE IF role = "scout"
              THEN /\ senders[a] = 0 /\ handler[a] = "collect" /\ Watched(a, r.conn)
                   /\ scouts[a] = r.conn \/ r.cancelled \/ r.down
              ELSE senders[a] = r.conn /\ scouts[a] = 0 /\ handler[a] = "trigger"

\* What holds of one account: a worker that has not finished is the current one,
\* a sender has a worker that runs, no registration is newer than its epoch, and
\* what is registered serves what was applied.
AccountOK(a) ==
    /\ \A i \in 1 .. 2 : Finished(<<a, i>>) \/ cur[a] = i
    /\ senders[a] # 0 => \E i \in 1 .. 2 : Live(<<a, i>>) /\ worker[<<a, i>>].conn = senders[a]
    /\ \A x \in watchers : x.acc = a => x.epoch <= epoch[a]
    /\ \A i \in 1 .. 2 : Serves(a, worker[<<a, i>>])

\* The inductive invariant: who waits for a disconnection is not in RuntimeInv, but
\* takes away what a worker registered.
RuntimeInd == RuntimeTypes /\ \A a \in Accounts : AccountOK(a)

-----------------------------------------------------------------------------
\* A worker and a snapshot that are not there.
LEMMA UnsetOK ==
    /\ Unset \in RuntimeSnapshots
    /\ Idle \in WorkerRows /\ Idle.step = "free"
<1>1. MaxRevision \in Nat /\ MaxConnects \in Nat
  BY RuntimeAssumption
<1>2. Unset \in RuntimeSnapshots
  BY <1>1 DEF Unset, RuntimeSnapshots, Wants
<1> QED BY <1>1, <1>2 DEF Idle, WorkerRows, Steps

\* The places of the workers: two for each account, of which one is replaced.
LEMMA PlaceOf ==
    \A w \in Places : \E a \in Accounts, i \in 1 .. 2 : w = <<a, i>>
BY DEF Places

\* And the other way round.
LEMMA TwoPlaces ==
    \A a \in Accounts : \A i \in 1 .. 2 : <<a, i>> \in Places
BY DEF Places

\* What an account may rely on while a step leaves its registrations alone, and
\* of its workers only cancels one, drops its network or tells it a snapshot.
LEMMA AccountStays ==
    ASSUME NEW a \in Accounts, AccountOK(a),
           scouts'[a] = scouts[a], senders'[a] = senders[a], handler'[a] = handler[a],
           epoch'[a] = epoch[a], cur'[a] = cur[a],
           \A x \in watchers' : x.acc = a => x \in watchers,
           \A i \in 1 .. 2 :
              /\ worker'[<<a, i>>].step = worker[<<a, i>>].step
              /\ worker'[<<a, i>>].using = worker[<<a, i>>].using
              /\ worker'[<<a, i>>].applied = worker[<<a, i>>].applied
              /\ worker'[<<a, i>>].conn = worker[<<a, i>>].conn
              /\ worker[<<a, i>>].cancelled => worker'[<<a, i>>].cancelled
              /\ worker[<<a, i>>].down => worker'[<<a, i>>].down
    PROVE  AccountOK(a)'
<1>1. \A i \in 1 .. 2 : Finished(<<a, i>>)' \/ cur'[a] = i
  BY DEF AccountOK, Finished
<1>2. senders'[a] # 0 => \E i \in 1 .. 2 : Live(<<a, i>>)' /\ worker'[<<a, i>>].conn = senders'[a]
  BY DEF AccountOK, Live
<1>3. \A x \in watchers' : x.acc = a => x.epoch <= epoch'[a]
  BY DEF AccountOK
<1>4. \A c : Watched(a, c) => Watched(a, c)'
  BY DEF Watched
<1>5. ASSUME NEW i \in 1 .. 2 PROVE Serves(a, worker[<<a, i>>])'
  <2>1. PICK r, q : r = worker[<<a, i>>] /\ q = worker'[<<a, i>>]
    OBVIOUS
  <2>2. Serves(a, r)
    BY <2>1 DEF AccountOK
  <2>3. /\ q.step = r.step /\ q.using = r.using /\ q.applied = r.applied /\ q.conn = r.conn
        /\ r.cancelled => q.cancelled
        /\ r.down => q.down
    BY <2>1
  <2>4. Serves(a, q)'
    BY <1>4, <2>2, <2>3 DEF Serves
  <2> QED BY <2>1, <2>4 DEF Serves, Watched
<1> QED BY <1>1, <1>2, <1>3, <1>5 DEF AccountOK

\* A sender's worker is the one that has not finished.
LEMMA SenderIs ==
    ASSUME NEW a \in Accounts, AccountOK(a), NEW i \in 1 .. 2, ~Finished(<<a, i>>)
    PROVE  /\ cur[a] = i
           /\ \A k \in 1 .. 2 : k # i => Finished(<<a, k>>)
           /\ senders[a] # 0 => Live(<<a, i>>) /\ worker[<<a, i>>].conn = senders[a]
<1>1. cur[a] = i /\ \A k \in 1 .. 2 : k # i => Finished(<<a, k>>)
  BY DEF AccountOK
<1>2. \A k \in 1 .. 2 : Live(<<a, k>>) => ~Finished(<<a, k>>)
  BY DEF Live, Finished
<1> QED BY <1>1, <1>2 DEF AccountOK

\* A worker that is not there, or has finished, serves nothing.
LEMMA FinishedServes ==
    ASSUME NEW a, NEW r, r.step \in {"free", "finished"}
    PROVE  Serves(a, r)
BY DEF Serves

\* A step of one worker that has not finished.
LEMMA OwnWorker ==
    ASSUME RuntimeInd, NEW a \in Accounts, NEW i \in 1 .. 2, ~Finished(<<a, i>>),
           NEW row \in WorkerRows, worker' = [worker EXCEPT ![<<a, i>>] = row],
           UNCHANGED <<latest, slot, run, cur>>, counts' \in CountRows,
           NEW sc \in 0 .. MaxConnects, scouts' = [scouts EXCEPT ![a] = sc],
           NEW se \in 0 .. MaxConnects, senders' = [senders EXCEPT ![a] = se],
           NEW h \in {"off", "collect", "trigger"}, handler' = [handler EXCEPT ![a] = h],
           NEW e \in Nat, epoch' = [epoch EXCEPT ![a] = e],
           watchers' \in SUBSET WatchRows,
           \A x \in watchers' : x.acc # a => x \in watchers,
           \A x \in watchers' : x.acc = a => x.epoch <= e,
           se # 0 => row.step \in {"ready", "applying", "registering", "ended"} /\ row.conn = se,
           Serves(a, row)'
    PROVE  RuntimeInd'
<1>1. RuntimeTypes /\ \A b \in Accounts : AccountOK(b)
  BY DEF RuntimeInd
<1>2. <<a, i>> \in Places /\ \A b \in Accounts : \A k \in 1 .. 2 : <<b, k>> \in Places
  BY TwoPlaces
<1>3. RuntimeTypes'
  BY <1>1, <1>2 DEF RuntimeTypes
<1>4. /\ scouts'[a] = sc /\ senders'[a] = se /\ handler'[a] = h /\ epoch'[a] = e
      /\ worker'[<<a, i>>] = row
  BY <1>1, <1>2 DEF RuntimeTypes
<1>5. AccountOK(a)'
  <2>1. cur[a] = i /\ \A k \in 1 .. 2 : k # i => Finished(<<a, k>>)
    BY <1>1, SenderIs
  <2>2. \A k \in 1 .. 2 : k # i => worker'[<<a, k>>] = worker[<<a, k>>]
    BY <1>1, <1>2 DEF RuntimeTypes
  <2>3. \A k \in 1 .. 2 : Finished(<<a, k>>)' \/ cur'[a] = k
    BY <2>1, <2>2 DEF Finished
  <2>4. senders'[a] # 0 =>
           \E k \in 1 .. 2 : Live(<<a, k>>)' /\ worker'[<<a, k>>].conn = senders'[a]
    BY <1>4 DEF Live
  <2>5. \A x \in watchers' : x.acc = a => x.epoch <= epoch'[a]
    BY <1>4
  <2>6. ASSUME NEW k \in 1 .. 2 PROVE Serves(a, worker[<<a, k>>])'
    <3>1. CASE k = i
      BY <1>4, <3>1 DEF Serves, Watched
    <3>2. CASE k # i
      <4>1. worker'[<<a, k>>].step \in {"free", "finished"}
        BY <2>1, <2>2, <3>2 DEF Finished
      <4> QED BY <4>1 DEF Serves
    <3> QED BY <3>1, <3>2
  <2> QED BY <2>3, <2>4, <2>5, <2>6 DEF AccountOK
<1>6. ASSUME NEW b \in Accounts, b # a PROVE AccountOK(b)'
  <2>1. /\ scouts'[b] = scouts[b] /\ senders'[b] = senders[b] /\ handler'[b] = handler[b]
        /\ epoch'[b] = epoch[b] /\ cur'[b] = cur[b]
    BY <1>1, <1>6 DEF RuntimeTypes
  <2>2. \A k \in 1 .. 2 : worker'[<<b, k>>] = worker[<<b, k>>]
    BY <1>1, <1>2, <1>6 DEF RuntimeTypes
  <2>3. \A x \in watchers' : x.acc = b => x \in watchers
    BY <1>6
  <2> QED BY <1>1, <2>1, <2>2, <2>3, AccountStays
<1> QED BY <1>3, <1>5, <1>6 DEF RuntimeInd

\* A step of the manager, or of what the workers live on, that changes no
\* registration and ends no worker.
LEMMA WorkersStay ==
    ASSUME RuntimeInd, UNCHANGED <<cur, scouts, senders, handler, epoch>>,
           watchers' \in SUBSET watchers,
           latest' \in RuntimeSnapshots, slot' \in RuntimeSnapshots, run' \in RunRows,
           counts' \in CountRows, worker' \in [Places -> WorkerRows],
           \A w \in Places :
              /\ worker'[w].step = worker[w].step /\ worker'[w].using = worker[w].using
              /\ worker'[w].applied = worker[w].applied /\ worker'[w].conn = worker[w].conn
              /\ worker[w].cancelled => worker'[w].cancelled
              /\ worker[w].down => worker'[w].down
    PROVE  RuntimeInd'
<1>1. RuntimeTypes'
  BY DEF RuntimeInd, RuntimeTypes
<1>2. ASSUME NEW a \in Accounts PROVE AccountOK(a)'
  <2>1. AccountOK(a)
    BY DEF RuntimeInd
  <2>2. \A i \in 1 .. 2 : <<a, i>> \in Places
    BY TwoPlaces
  <2> QED BY <2>1, <2>2, AccountStays
<1> QED BY <1>1, <1>2 DEF RuntimeInd

-----------------------------------------------------------------------------
\* What a worker finds when it takes its next step.
WorkerView(a, i, r) ==
    /\ r = worker[<<a, i>>] /\ Serves(a, r)
    /\ scouts[a] \in 0 .. MaxConnects /\ senders[a] \in 0 .. MaxConnects
    /\ handler[a] \in {"off", "collect", "trigger"} /\ epoch[a] \in Nat
    /\ scouts = [scouts EXCEPT ![a] = scouts[a]]
    /\ senders = [senders EXCEPT ![a] = senders[a]]
    /\ handler = [handler EXCEPT ![a] = handler[a]]
    /\ epoch = [epoch EXCEPT ![a] = epoch[a]]
    /\ watchers \in SUBSET WatchRows /\ counts \in CountRows
    /\ \A x \in watchers : x.acc = a => x.epoch <= epoch[a]
    /\ r.step \notin {"free", "finished"} =>
          (senders[a] # 0 =>
              /\ r.step \in {"ready", "applying", "registering", "ended"}
              /\ r.conn = senders[a])

\* Every place has such a view.
LEMMA WorkerReads ==
    ASSUME RuntimeInd, NEW a \in Accounts, NEW i \in 1 .. 2
    PROVE  \E r \in WorkerRows : WorkerView(a, i, r)
<1>1. RuntimeTypes /\ AccountOK(a)
  BY DEF RuntimeInd
<1>2. <<a, i>> \in Places
  BY TwoPlaces
<1>3. PICK r \in WorkerRows : r = worker[<<a, i>>]
  BY <1>1, <1>2 DEF RuntimeTypes
<1>4. Serves(a, r) /\ \A x \in watchers : x.acc = a => x.epoch <= epoch[a]
  BY <1>1, <1>3 DEF AccountOK
<1>5. r.step \notin {"free", "finished"} =>
         (senders[a] # 0 => /\ r.step \in {"ready", "applying", "registering", "ended"}
                            /\ r.conn = senders[a])
  BY <1>1, <1>3, SenderIs DEF Finished, Live
<1> QED BY <1>1, <1>3, <1>4, <1>5 DEF RuntimeTypes, WorkerView

\* A worker whose context ends or whose connection fails applies nothing any more.
LEMMA EndedOK ==
    ASSUME NEW r \in WorkerRows
    PROVE  /\ Ended(r) \in WorkerRows /\ Ended(r).step \in {"finished", "waiting"}
           /\ ~Ended(r).applied
           /\ [Ended(r) EXCEPT !.step = "finished"] \in WorkerRows
           /\ [Ended(r) EXCEPT !.step = "finished"].step = "finished"
<1>1. Unset \in RuntimeSnapshots /\ 0 \in 0 .. MaxConnects
  BY UnsetOK, RuntimeAssumption
<1>2. Ended(r) \in WorkerRows /\ Ended(r).step \in {"finished", "waiting"} /\ ~Ended(r).applied
  BY <1>1 DEF Ended, WorkerRows, Steps
<1>3. PICK q \in WorkerRows : q = Ended(r)
  BY <1>2
<1> QED BY <1>2, <1>3 DEF WorkerRows, Steps

\* connect: a new connection, of which nothing is registered yet.
LEMMA ConnectKeeps ==
    ASSUME RuntimeInd, NEW a \in Accounts, NEW i \in 1 .. 2, NEW w, w = <<a, i>>, Connect(w)
    PROVE  RuntimeInd'
<1>1. PICK r \in WorkerRows : WorkerView(a, i, r)
  BY WorkerReads
<1>2. r.step = "connecting" /\ w[1] = a /\ counts.conn[a] < MaxConnects
  BY <1>1 DEF Connect, At, WorkerView
<1>3. PICK n \in 0 .. MaxConnects : n = counts.conn[a] + 1
  BY <1>1, <1>2, RuntimeAssumption DEF CountRows, WorkerView
<1>4. PICK row : row = [r EXCEPT !.step = "ready", !.conn = n]
  OBVIOUS
<1>5. /\ row \in WorkerRows /\ row.step = "ready" /\ ~row.applied
  BY <1>1, <1>2, <1>4 DEF WorkerRows, Steps, Serves, WorkerView
<1>6. worker' = [worker EXCEPT ![<<a, i>>] = row]
  BY <1>1, <1>2, <1>3, <1>4 DEF Connect, Put, WorkerView
<1>7. counts' = [counts EXCEPT !.conn[a] = n]
  <2>1. counts' = [counts EXCEPT !.conn[a] = @ + 1]
    BY <1>2 DEF Connect
  <2> QED BY <2>1, <1>1, <1>3 DEF CountRows, WorkerView
<1>8. counts' \in CountRows
  BY <1>1, <1>3, <1>7 DEF CountRows, WorkerView
<1>9. /\ UNCHANGED <<latest, slot, run, cur, scouts, epoch, watchers, senders>>
      /\ handler' = [handler EXCEPT ![a] = "off"]
  BY <1>2 DEF Connect, managerVars
<1>10. Serves(a, row)'
  BY <1>5 DEF Serves
<1>11. senders[a] = 0 /\ ~Finished(<<a, i>>)
  BY <1>1, <1>2 DEF Finished, WorkerView
<1>12. /\ scouts' = [scouts EXCEPT ![a] = scouts[a]]
       /\ senders' = [senders EXCEPT ![a] = senders[a]]
       /\ epoch' = [epoch EXCEPT ![a] = epoch[a]]
  BY <1>1, <1>9 DEF WorkerView
<1> QED BY <1>1, <1>5, <1>6, <1>8, <1>9, <1>10, <1>11, <1>12, OwnWorker DEF WorkerView

\* A step that gives the sender up, or leaves it, and counts nothing.
LEMMA WorkerGoes ==
    ASSUME RuntimeInd, NEW a \in Accounts, NEW i \in 1 .. 2, ~Finished(<<a, i>>),
           NEW r \in WorkerRows, WorkerView(a, i, r),
           NEW row \in WorkerRows, worker' = [worker EXCEPT ![<<a, i>>] = row],
           UNCHANGED <<latest, slot, run, cur, scouts, epoch, watchers, handler, counts>>,
           senders' = [senders EXCEPT ![a] = 0]
              \/ /\ UNCHANGED senders
                 /\ senders[a] # 0 => /\ row.step \in {"ready", "applying", "registering", "ended"}
                                      /\ row.conn = r.conn,
           Serves(a, row)'
    PROVE  RuntimeInd'
<1>1. 0 \in 0 .. MaxConnects
  BY RuntimeAssumption
<1>2. PICK se \in 0 .. MaxConnects :
         /\ senders' = [senders EXCEPT ![a] = se]
         /\ se # 0 => /\ row.step \in {"ready", "applying", "registering", "ended"}
                      /\ row.conn = se
  <2>1. CASE senders' = [senders EXCEPT ![a] = 0]
    BY <1>1, <2>1
  <2>2. CASE /\ UNCHANGED senders
             /\ senders[a] # 0 => /\ row.step \in {"ready", "applying", "registering", "ended"}
                                  /\ row.conn = r.conn
    <3>1. /\ senders' = [senders EXCEPT ![a] = senders[a]] /\ senders[a] \in 0 .. MaxConnects
          /\ senders[a] # 0 => r.conn = senders[a]
      BY <2>2 DEF WorkerView, Finished
    <3> QED BY <2>2, <3>1
  <2> QED BY <2>1, <2>2
<1>3. /\ scouts' = [scouts EXCEPT ![a] = scouts[a]] /\ scouts[a] \in 0 .. MaxConnects
      /\ handler' = [handler EXCEPT ![a] = handler[a]] /\ handler[a] \in {"off", "collect", "trigger"}
      /\ epoch' = [epoch EXCEPT ![a] = epoch[a]] /\ epoch[a] \in Nat
  BY DEF WorkerView
<1>4. /\ watchers' \in SUBSET WatchRows /\ counts' \in CountRows
      /\ \A x \in watchers' : x.acc = a => x.epoch <= epoch[a]
  BY DEF WorkerView
<1> QED BY <1>2, <1>3, <1>4, OwnWorker

\* A failed connection, its retry, a lost network, and the ways out of a worker's
\* run, which give the sender up first (runAccount's deferred calls).
LEMMA SmallSteps ==
    ASSUME RuntimeInd, NEW a \in Accounts, NEW i \in 1 .. 2, NEW w, w = <<a, i>>
    PROVE  /\ ConnectFails(w) => RuntimeInd'
           /\ RetryConnect(w) => RuntimeInd'
           /\ NetworkDrops(w) => RuntimeInd'
           /\ LeaveRun(w) => RuntimeInd'
           /\ Deactivate(w) => RuntimeInd'
           /\ ApplyFails(w) => RuntimeInd'
<1>1. PICK r \in WorkerRows : WorkerView(a, i, r)
  BY WorkerReads
<1>2. r = worker[<<a, i>>] /\ w[1] = a /\ r = worker[w] /\ Serves(a, r)
  BY <1>1 DEF WorkerView
<1>3. \A x : Put(w, x) => worker' = [worker EXCEPT ![<<a, i>>] = x]
  BY DEF Put
<1>4. /\ Ended(r) \in WorkerRows /\ Ended(r).step \in {"finished", "waiting"}
      /\ ~Ended(r).applied
      /\ [Ended(r) EXCEPT !.step = "finished"] \in WorkerRows
      /\ [Ended(r) EXCEPT !.step = "finished"].step = "finished"
  BY EndedOK
<1>5. Serves(a, Ended(r))' /\ Serves(a, [Ended(r) EXCEPT !.step = "finished"])'
  BY <1>4 DEF Serves
<1>6. ASSUME r.step \notin {"free", "finished"}, NEW x, x \in {Ended(r), [Ended(r) EXCEPT !.step = "finished"]},
             Put(w, x), senders' = [senders EXCEPT ![a] = 0],
             UNCHANGED <<latest, slot, run, cur, scouts, epoch, watchers, handler, counts>>
      PROVE  RuntimeInd'
  <2>1. ~Finished(<<a, i>>)
    BY <1>2, <1>6 DEF Finished
  <2>2. x \in WorkerRows /\ worker' = [worker EXCEPT ![<<a, i>>] = x]
    BY <1>3, <1>4, <1>6
  <2>3. Serves(a, x)'
    BY <1>5, <1>6
  <2> QED BY <1>1, <1>6, <2>1, <2>2, <2>3, WorkerGoes
<1>7. ASSUME ConnectFails(w) PROVE RuntimeInd'
  <2>1. /\ r.step \notin {"free", "finished"}
        /\ Put(w, Ended(r)) \/ Put(w, [Ended(r) EXCEPT !.step = "finished"])
        /\ senders' = [senders EXCEPT ![a] = 0]
        /\ UNCHANGED <<latest, slot, run, cur, scouts, epoch, watchers, handler, counts>>
    BY <1>2, <1>7 DEF ConnectFails, At, managerVars
  <2> QED BY <1>6, <2>1
<1>8. ASSUME Deactivate(w) PROVE RuntimeInd'
  <2>1. /\ r.step \notin {"free", "finished"}
        /\ Put(w, Ended(r)) \/ Put(w, [Ended(r) EXCEPT !.step = "finished"])
        /\ senders' = [senders EXCEPT ![a] = 0]
        /\ UNCHANGED <<latest, slot, run, cur, scouts, epoch, watchers, handler, counts>>
    BY <1>2, <1>8 DEF Deactivate, At, managerVars
  <2> QED BY <1>6, <2>1
<1>9. ASSUME RetryConnect(w) PROVE RuntimeInd'
  <2>1. r.step = "waiting" /\ ~Finished(<<a, i>>)
    BY <1>2, <1>9 DEF RetryConnect, At, Finished
  <2>2. PICK step \in {"finished", "connecting"} :
           step = IF r.step = "waiting" /\ r.cancelled THEN "finished" ELSE "connecting"
    OBVIOUS
  <2>3. PICK row : row = [r EXCEPT !.step = step]
    OBVIOUS
  <2>4. row \in WorkerRows /\ row.step = step /\ ~row.applied
    BY <1>2, <2>1, <2>3 DEF WorkerRows, Steps, Serves
  <2>5. worker' = [worker EXCEPT ![<<a, i>>] = row]
    BY <1>2, <1>3, <1>9, <2>2, <2>3 DEF RetryConnect
  <2>6. UNCHANGED <<latest, slot, run, cur, scouts, epoch, watchers, handler, counts, senders>>
    BY <1>9 DEF RetryConnect, managerVars, activatorVars
  <2>7. senders[a] = 0
    BY <1>1, <2>1 DEF WorkerView
  <2>8. Serves(a, row)'
    BY <2>4 DEF Serves
  <2> QED BY <1>1, <2>1, <2>4, <2>5, <2>6, <2>7, <2>8, WorkerGoes
<1>10. ASSUME NetworkDrops(w) PROVE RuntimeInd'
  <2>1. r.step \in {"ready", "applying", "registering"} /\ ~Finished(<<a, i>>)
    BY <1>2, <1>10 DEF NetworkDrops, Finished
  <2>2. PICK row : row = [r EXCEPT !.down = TRUE]
    OBVIOUS
  <2>3. /\ row \in WorkerRows /\ row.step = r.step /\ row.applied = r.applied
        /\ row.conn = r.conn /\ row.using = r.using /\ row.down
    BY <2>2 DEF WorkerRows
  <2>4. worker' = [worker EXCEPT ![<<a, i>>] = row]
    BY <1>2, <1>3, <1>10, <2>2 DEF NetworkDrops
  <2>5. UNCHANGED <<latest, slot, run, cur, scouts, epoch, watchers, handler, counts, senders>>
    BY <1>10 DEF NetworkDrops, managerVars, activatorVars
  <2>6. \A c : Watched(a, c) => Watched(a, c)'
    BY <2>5 DEF Watched
  <2>7. Serves(a, row)'
    BY <1>2, <2>3, <2>5, <2>6 DEF Serves
  <2> QED BY <1>1, <2>1, <2>3, <2>4, <2>5, <2>7, WorkerGoes
<1>11. ASSUME LeaveRun(w) PROVE RuntimeInd'
  <2>1. r.step = "ready" /\ ~Finished(<<a, i>>)
    BY <1>2, <1>11 DEF LeaveRun, At, Finished
  <2>2. PICK row : row = [r EXCEPT !.step = "ended"]
    OBVIOUS
  <2>3. row \in WorkerRows /\ row.step = "ended" /\ row.conn = r.conn
    BY <2>2 DEF WorkerRows, Steps
  <2>4. worker' = [worker EXCEPT ![<<a, i>>] = row]
    BY <1>2, <1>3, <1>11, <2>2 DEF LeaveRun
  <2>5. UNCHANGED <<latest, slot, run, cur, scouts, epoch, watchers, handler, counts, senders>>
    BY <1>11 DEF LeaveRun, managerVars, activatorVars
  <2>6. Serves(a, row)'
    BY <2>3 DEF Serves
  <2> QED BY <1>1, <2>1, <2>3, <2>4, <2>5, <2>6, WorkerGoes
<1>12. ASSUME ApplyFails(w) PROVE RuntimeInd'
  <2>1. r.step \in {"applying", "registering"} /\ ~Finished(<<a, i>>)
    BY <1>2, <1>12 DEF ApplyFails, Finished
  <2>2. PICK row : row = [r EXCEPT !.step = "ended"]
    OBVIOUS
  <2>3. row \in WorkerRows /\ row.step = "ended" /\ row.conn = r.conn
    BY <2>2 DEF WorkerRows, Steps
  <2>4. worker' = [worker EXCEPT ![<<a, i>>] = row]
    BY <1>2, <1>3, <1>12, <2>2 DEF ApplyFails
  <2>5. /\ UNCHANGED <<latest, slot, run, cur, scouts, epoch, watchers, handler, counts>>
        /\ UNCHANGED senders \/ senders' = [senders EXCEPT ![a] = 0]
    BY <1>2, <1>12 DEF ApplyFails, managerVars
  <2>6. Serves(a, row)'
    BY <2>3 DEF Serves
  <2> QED BY <1>1, <2>1, <2>3, <2>4, <2>5, <2>6, WorkerGoes
<1> QED BY <1>7, <1>8, <1>9, <1>10, <1>11, <1>12

-----------------------------------------------------------------------------
\* The reconfiguration begins: the sender goes, and the scout is registered
\* under a new epoch (RegisterScout) or removed.
LEMMA BeginApplyKeeps ==
    ASSUME RuntimeInd, NEW a \in Accounts, NEW i \in 1 .. 2, NEW w, w = <<a, i>>, BeginApply(w)
    PROVE  RuntimeInd'
<1>1. PICK r \in WorkerRows : WorkerView(a, i, r)
  BY WorkerReads
<1>2. r = worker[<<a, i>>] /\ w[1] = a /\ r = worker[w] /\ Serves(a, r)
  BY <1>1 DEF WorkerView
<1>3. r.step = "ready" /\ ~Finished(<<a, i>>)
  BY <1>2 DEF BeginApply, At, Finished
<1>4. PICK s \in RuntimeSnapshots : s = r.snap
  BY DEF WorkerRows
<1>5. PICK row : row = [r EXCEPT !.step = "applying", !.using = s, !.applied = FALSE]
  OBVIOUS
<1>6. /\ row \in WorkerRows /\ row.step = "applying" /\ row.using = s /\ row.conn = r.conn
      /\ worker' = [worker EXCEPT ![<<a, i>>] = row]
  BY <1>2, <1>4, <1>5 DEF BeginApply, Put, WorkerRows, Steps
<1> DEFINE scouting == s.want[a].role = "scout"
           counted == scouting /\ ~s.paused
<1>7. /\ senders' = IF scouting THEN [senders EXCEPT ![a] = 0] ELSE senders
      /\ scouts' = IF counted THEN [scouts EXCEPT ![a] = r.conn] ELSE scouts
      /\ epoch' = IF counted THEN [epoch EXCEPT ![a] = @ + 1] ELSE epoch
      /\ watchers' = IF counted
                     THEN watchers \cup {[acc |-> a, epoch |-> epoch'[a], conn |-> r.conn]}
                     ELSE watchers
      /\ UNCHANGED <<latest, slot, run, cur, handler>>
      /\ counts' = counts \/ counts' = [counts EXCEPT !.checks[a] = @ + 1]
  BY <1>2, <1>4 DEF BeginApply, managerVars
<1>8. counts' \in CountRows
  BY <1>1, <1>7 DEF WorkerView, CountRows
<1>9. PICK se \in 0 .. MaxConnects : /\ senders' = [senders EXCEPT ![a] = se]
                                     /\ se # 0 => r.conn = se
                                     /\ scouting => se = 0
  <2>1. 0 \in 0 .. MaxConnects
    BY RuntimeAssumption
  <2>2. CASE scouting
    BY <1>7, <2>1, <2>2
  <2>3. CASE ~scouting
    BY <1>1, <1>3, <1>7, <2>3 DEF WorkerView
  <2> QED BY <2>2, <2>3
<1>10. PICK sc \in 0 .. MaxConnects : scouts' = [scouts EXCEPT ![a] = sc]
  <2>1. r.conn \in 0 .. MaxConnects
    BY DEF WorkerRows
  <2>2. CASE counted
    BY <1>7, <2>1, <2>2
  <2>3. CASE ~counted
    BY <1>1, <1>7, <2>3 DEF WorkerView
  <2> QED BY <2>2, <2>3
<1>11. PICK e \in Nat : /\ epoch' = [epoch EXCEPT ![a] = e]
                        /\ e = IF counted THEN epoch[a] + 1 ELSE epoch[a]
                        /\ epoch'[a] = e
  <2>1. epoch \in [Accounts -> Nat]
    BY DEF RuntimeInd, RuntimeTypes
  <2>2. CASE counted
    <3>1. PICK n \in Nat : n = epoch[a] + 1
      BY <2>1
    <3>2. epoch' = [epoch EXCEPT ![a] = @ + 1]
      BY <1>7, <2>2
    <3>3. epoch' = [epoch EXCEPT ![a] = n]
      BY <2>1, <3>1, <3>2
    <3>4. epoch'[a] = n
      BY <2>1, <3>3
    <3> HIDE DEF counted
    <3> QED BY <2>2, <3>1, <3>3, <3>4
  <2>3. CASE ~counted
    BY <1>1, <1>7, <2>1, <2>3 DEF WorkerView
  <2> QED BY <2>2, <2>3
<1>12. PICK new \in WatchRows : new = [acc |-> a, epoch |-> e, conn |-> r.conn]
  BY DEF WatchRows, WorkerRows
<1>13. watchers' = IF counted THEN watchers \cup {new} ELSE watchers
  BY <1>7, <1>11, <1>12
<1>14. /\ watchers' \in SUBSET WatchRows
       /\ \A x \in watchers' : x.acc # a => x \in watchers
       /\ \A x \in watchers' : x.acc = a => x.epoch <= e
  <2>1. watchers \in SUBSET WatchRows /\ epoch[a] \in Nat
        /\ \A x \in watchers : x.acc = a => x.epoch <= epoch[a]
    BY <1>1 DEF WorkerView
  <2>2. new.acc = a /\ new.epoch = e
    BY <1>12
  <2>3. \A x \in watchers : x.acc = a => x.epoch <= e
    BY <2>1, <1>11 DEF WatchRows
  <2> QED BY <1>13, <2>1, <2>2, <2>3
<1>15. counted => Watched(a, r.conn)'
  <2> SUFFICES ASSUME counted, NEW x \in watchers', x.acc = a, x.epoch = e PROVE x.conn = r.conn
    BY <1>11 DEF Watched
  <2>1. epoch[a] \in Nat /\ \A y \in watchers : y.acc = a => y.epoch <= epoch[a]
    BY <1>1 DEF WorkerView
  <2>2. x \notin watchers
    BY <2>1, <1>11
  <2> QED BY <2>2, <1>12, <1>13
<1>16. handler' = [handler EXCEPT ![a] = handler[a]] /\ handler[a] \in {"off", "collect", "trigger"}
  BY <1>1, <1>7 DEF WorkerView
<1>17. senders'[a] = se
  BY <1>9 DEF RuntimeInd, RuntimeTypes
<1>18. Serves(a, row)'
  BY <1>6, <1>9, <1>15, <1>17 DEF Serves
<1> QED BY <1>3, <1>6, <1>7, <1>8, <1>9, <1>10, <1>11, <1>14, <1>16, <1>18, OwnWorker

\* The reconfiguration ends, paused, as a scout or with a sender.
LEMMA FinishKeeps ==
    ASSUME RuntimeInd, NEW a \in Accounts, NEW i \in 1 .. 2, NEW w, w = <<a, i>>
    PROVE  /\ FinishPaused(w) => RuntimeInd'
           /\ FinishScout(w) => RuntimeInd'
           /\ FinishOutbound(w) => RuntimeInd'
           /\ RegisterSender(w) => RuntimeInd'
<1>1. PICK r \in WorkerRows : WorkerView(a, i, r)
  BY WorkerReads
<1>2. /\ r = worker[<<a, i>>] /\ w[1] = a /\ r = worker[w] /\ Serves(a, r)
      /\ r.conn \in 0 .. MaxConnects /\ 0 \in 0 .. MaxConnects
  BY <1>1, RuntimeAssumption DEF WorkerView, WorkerRows
<1>3. PICK row : row = Applied(r)
  OBVIOUS
<1>4. /\ row \in WorkerRows /\ row.step = "ready" /\ row.applied /\ row.using = r.using
      /\ row.conn = r.conn
  BY <1>3 DEF Applied, WorkerRows, Steps
<1>5. /\ watchers \in SUBSET WatchRows /\ counts \in CountRows
      /\ \A x \in watchers : x.acc = a => x.epoch <= epoch[a]
      /\ scouts[a] \in 0 .. MaxConnects /\ senders[a] \in 0 .. MaxConnects
      /\ handler[a] \in {"off", "collect", "trigger"} /\ epoch[a] \in Nat
      /\ scouts = [scouts EXCEPT ![a] = scouts[a]]
      /\ senders = [senders EXCEPT ![a] = senders[a]]
      /\ handler = [handler EXCEPT ![a] = handler[a]]
      /\ epoch = [epoch EXCEPT ![a] = epoch[a]]
  BY <1>1 DEF WorkerView
<1>6. /\ scouts \in [Accounts -> 0 .. MaxConnects] /\ senders \in [Accounts -> 0 .. MaxConnects]
      /\ epoch \in [Accounts -> Nat] /\ handler \in [Accounts -> {"off", "collect", "trigger"}]
  BY DEF RuntimeInd, RuntimeTypes
<1>7. ASSUME FinishPaused(w) PROVE RuntimeInd'
  <2>1. r.step = "applying" /\ ~Finished(<<a, i>>) /\ r.using.paused
    BY <1>2, <1>7 DEF FinishPaused, At, Finished
  <2>2. /\ worker' = [worker EXCEPT ![<<a, i>>] = row]
        /\ handler' = [handler EXCEPT ![a] = "off"] /\ scouts' = [scouts EXCEPT ![a] = 0]
        /\ senders' = [senders EXCEPT ![a] = 0]
        /\ UNCHANGED <<latest, slot, run, cur, epoch, watchers, counts>>
    BY <1>2, <1>3, <1>7 DEF FinishPaused, Put, managerVars
  <2>3. scouts'[a] = 0 /\ senders'[a] = 0 /\ handler'[a] = "off"
    BY <1>6, <2>2
  <2>4. Serves(a, row)'
    BY <1>4, <2>1, <2>3 DEF Serves
  <2> QED BY <1>2, <1>4, <1>5, <2>1, <2>2, <2>4, OwnWorker
<1>8. ASSUME FinishScout(w) PROVE RuntimeInd'
  <2>1. /\ r.step = "applying" /\ ~Finished(<<a, i>>) /\ ~r.using.paused
        /\ r.using.want[a].role = "scout"
    BY <1>2, <1>8 DEF FinishScout, At, Finished, Role
  <2>2. /\ worker' = [worker EXCEPT ![<<a, i>>] = row]
        /\ handler' = [handler EXCEPT ![a] = "collect"] /\ scouts' = [scouts EXCEPT ![a] = r.conn]
        /\ UNCHANGED <<latest, slot, run, cur, epoch, watchers, senders, counts>>
    BY <1>2, <1>3, <1>8 DEF FinishScout, Put, managerVars
  <2>3. scouts'[a] = r.conn /\ handler'[a] = "collect"
    BY <1>6, <2>2
  <2>4. senders[a] = 0 /\ Watched(a, r.conn)
    BY <1>2, <2>1 DEF Serves
  <2>5. Watched(a, r.conn)'
    BY <2>2, <2>4 DEF Watched
  <2>6. Serves(a, row)'
    BY <1>4, <2>1, <2>2, <2>3, <2>4, <2>5 DEF Serves
  <2>7. senders' = [senders EXCEPT ![a] = senders[a]] /\ epoch' = [epoch EXCEPT ![a] = epoch[a]]
    BY <1>5, <2>2
  <2> QED BY <1>2, <1>4, <1>5, <2>1, <2>2, <2>4, <2>6, <2>7, OwnWorker
<1>9. ASSUME FinishOutbound(w) PROVE RuntimeInd'
  <2>1. /\ r.step = "applying" /\ ~Finished(<<a, i>>) /\ ~r.using.paused
        /\ r.using.want[a].role = "spammer"
    BY <1>2, <1>9 DEF FinishOutbound, At, Finished, Role
  <2>2. PICK reg : reg = [r EXCEPT !.step = "registering"]
    OBVIOUS
  <2>3. /\ reg \in WorkerRows /\ reg.step = "registering" /\ reg.using = r.using
        /\ reg.conn = r.conn
    BY <2>2 DEF WorkerRows, Steps
  <2>4. PICK e \in Nat : e = epoch[a] + 1
    BY <1>5
  <2>5. /\ worker' = [worker EXCEPT ![<<a, i>>] = reg]
        /\ handler' = [handler EXCEPT ![a] = "trigger"] /\ scouts' = [scouts EXCEPT ![a] = 0]
        /\ epoch' = [epoch EXCEPT ![a] = e]
        /\ UNCHANGED <<latest, slot, run, cur, watchers, senders, counts>>
    <3>1. epoch' = [epoch EXCEPT ![a] = @ + 1]
      BY <1>2, <1>9 DEF FinishOutbound
    <3>2. epoch' = [epoch EXCEPT ![a] = e]
      BY <3>1, <1>6, <2>4
    <3> QED BY <1>2, <1>9, <2>2, <3>2 DEF FinishOutbound, Put, managerVars
  <2>6. scouts'[a] = 0 /\ handler'[a] = "trigger"
    BY <1>6, <2>5
  <2>7. Serves(a, reg)'
    BY <2>1, <2>3, <2>6 DEF Serves
  <2>8. senders' = [senders EXCEPT ![a] = senders[a]]
    BY <1>5, <2>5
  <2>9. \A x \in watchers' : x.acc = a => x.epoch <= e
    BY <1>5, <2>4, <2>5 DEF WatchRows
  <2>10. senders[a] # 0 => r.conn = senders[a]
    BY <1>1, <2>1 DEF WorkerView
  <2> QED BY <1>2, <1>5, <2>1, <2>3, <2>5, <2>7, <2>8, <2>9, <2>10, OwnWorker
<1>10. ASSUME RegisterSender(w) PROVE RuntimeInd'
  <2>1. r.step = "registering" /\ ~Finished(<<a, i>>)
    BY <1>2, <1>10 DEF RegisterSender, At, Finished
  <2>2. /\ worker' = [worker EXCEPT ![<<a, i>>] = row]
        /\ senders' = [senders EXCEPT ![a] = r.conn]
        /\ UNCHANGED <<latest, slot, run, cur, epoch, watchers, scouts, handler, counts>>
    BY <1>2, <1>3, <1>10 DEF RegisterSender, Put, managerVars
  <2>3. senders'[a] = r.conn
    BY <1>6, <2>2
  <2>4. /\ ~r.using.paused /\ r.using.want[a].role = "spammer" /\ scouts[a] = 0
        /\ handler[a] = "trigger"
    BY <1>2, <2>1 DEF Serves
  <2>5. Serves(a, row)'
    BY <1>4, <2>2, <2>3, <2>4 DEF Serves
  <2>6. /\ scouts' = [scouts EXCEPT ![a] = scouts[a]] /\ epoch' = [epoch EXCEPT ![a] = epoch[a]]
        /\ handler' = [handler EXCEPT ![a] = handler[a]]
    BY <1>5, <2>2
  <2> QED BY <1>2, <1>4, <1>5, <2>1, <2>2, <2>5, <2>6, OwnWorker
<1> QED BY <1>7, <1>8, <1>9, <1>10

-----------------------------------------------------------------------------
\* What the invariant says of one account.
LEMMA ViewOfRuntime ==
    ASSUME RuntimeInd
    PROVE  RuntimeTypes /\ \A a \in Accounts : AccountOK(a)
BY DEF RuntimeInd

\* Whoever waited for a disconnection removes the scout only if its epoch is the
\* latest (unregisterScoutOnDisconnect).
LEMMA UnregisterKeeps ==
    ASSUME RuntimeInd, NEW x \in watchers, unregisterScoutOnDisconnect(x)
    PROVE  RuntimeInd'
<1>1. RuntimeTypes /\ \A b \in Accounts : AccountOK(b)
  BY ViewOfRuntime
<1>2. PICK a \in Accounts : a = x.acc
  BY <1>1 DEF RuntimeTypes, WatchRows
<1>3. /\ UNCHANGED <<latest, slot, run, cur, worker, epoch, senders, handler, counts>>
      /\ watchers' \in SUBSET watchers /\ ~Connected(a, x.conn)
      /\ scouts' = IF epoch[a] = x.epoch THEN [scouts EXCEPT ![a] = 0] ELSE scouts
  BY <1>2 DEF unregisterScoutOnDisconnect, managerVars
<1>4. RuntimeTypes'
  <2>1. 0 \in 0 .. MaxConnects
    BY RuntimeAssumption
  <2>2. scouts' \in [Accounts -> 0 .. MaxConnects]
    BY <1>1, <1>3, <2>1 DEF RuntimeTypes
  <2> QED BY <1>1, <1>3, <2>2 DEF RuntimeTypes
<1>5. ASSUME NEW b \in Accounts, b # a \/ epoch[a] # x.epoch PROVE AccountOK(b)'
  <2>1. scouts'[b] = scouts[b]
    BY <1>1, <1>3, <1>5 DEF RuntimeTypes
  <2> QED BY <1>1, <1>3, <2>1, AccountStays
<1>6. ASSUME epoch[a] = x.epoch PROVE AccountOK(a)'
  <2>1. scouts'[a] = 0
    BY <1>1, <1>3, <1>6 DEF RuntimeTypes
  <2>2. \A i \in 1 .. 2 : Finished(<<a, i>>)' \/ cur'[a] = i
    BY <1>1, <1>3 DEF AccountOK, Finished
  <2>3. senders'[a] # 0 =>
           \E i \in 1 .. 2 : Live(<<a, i>>)' /\ worker'[<<a, i>>].conn = senders'[a]
    BY <1>1, <1>3 DEF AccountOK, Live
  <2>4. \A y \in watchers' : y.acc = a => y.epoch <= epoch'[a]
    BY <1>1, <1>3 DEF AccountOK
  <2>5. ASSUME NEW i \in 1 .. 2 PROVE Serves(a, worker[<<a, i>>])'
    <3>1. PICK r : r = worker[<<a, i>>]
      OBVIOUS
    <3>2. Serves(a, r)
      BY <1>1, <3>1 DEF AccountOK
    <3>3. \A c : Watched(a, c) => Watched(a, c)' /\ c = x.conn
      BY <1>2, <1>3, <1>6 DEF Watched
    <3>4. r.step = "ready" /\ r.conn = x.conn => r.cancelled \/ r.down
      <4>1. <<a, i>> \in Places /\ <<a, i>>[1] = a
        BY TwoPlaces
      <4> QED BY <1>3, <3>1, <4>1 DEF Connected, Live, ctxDone, At
    <3>5. Serves(a, r)'
      BY <1>3, <2>1, <3>2, <3>3, <3>4 DEF Serves
    <3> QED BY <1>3, <3>1, <3>5 DEF Serves, Watched
  <2> QED BY <2>2, <2>3, <2>4, <2>5 DEF AccountOK
<1> QED BY <1>4, <1>5, <1>6 DEF RuntimeInd

-----------------------------------------------------------------------------
\* The manager publishes, reads and takes a snapshot, and stops.
LEMMA ManagerSmall ==
    ASSUME RuntimeInd
    PROVE  /\ (\E want \in [Accounts -> Wants], paused \in BOOLEAN : ManagerApply(want, paused))
                 => RuntimeInd'
           /\ StartRun => RuntimeInd'
           /\ (\E active \in SUBSET Accounts : TakeSnapshot(active)) => RuntimeInd'
           /\ StopRun => RuntimeInd'
<1>1. RuntimeTypes
  BY ViewOfRuntime
<1>2. ASSUME NEW want \in [Accounts -> Wants], NEW paused \in BOOLEAN, ManagerApply(want, paused)
      PROVE  RuntimeInd'
  <2>1. PICK n \in 0 .. MaxRevision : n = latest.rev + 1
    BY <1>1, <1>2, RuntimeAssumption DEF ManagerApply, RuntimeTypes, RuntimeSnapshots
  <2>2. latest' \in RuntimeSnapshots
    BY <1>2, <2>1 DEF ManagerApply, RuntimeSnapshots
  <2>3. slot' \in RuntimeSnapshots
    BY <1>1, <1>2, <2>2 DEF ManagerApply, RuntimeTypes
  <2> QED BY <1>1, <1>2, <2>2, <2>3, WorkersStay DEF ManagerApply, RuntimeTypes, activatorVars
<1>3. ASSUME StartRun PROVE RuntimeInd'
  <2>1. run' = [run EXCEPT !.step = "loop"] /\ slot' \in RuntimeSnapshots
    BY <1>1, <1>3 DEF StartRun, RuntimeTypes
  <2>2. run' \in RunRows
    BY <1>1, <2>1 DEF RuntimeTypes, RunRows
  <2>3. counts' \in CountRows
    BY <1>1, <1>3 DEF StartRun, RuntimeTypes, CountRows
  <2> QED BY <1>1, <1>3, <2>1, <2>2, <2>3, WorkersStay DEF StartRun, RuntimeTypes, activatorVars
<1>4. ASSUME NEW active \in SUBSET Accounts, TakeSnapshot(active) PROVE RuntimeInd'
  <2>1. run' = [step |-> "visit", snap |-> slot, desired |-> desired(slot, active),
                todo |-> {a \in Accounts : cur[a] # 0}]
    BY <1>4 DEF TakeSnapshot
  <2>2. desired(slot, active) \in SUBSET Accounts
    BY DEF desired
  <2>3. run' \in RunRows
    BY <1>1, <2>1, <2>2 DEF RuntimeTypes, RunRows
  <2>4. slot' \in RuntimeSnapshots
    BY <1>4, UnsetOK DEF TakeSnapshot
  <2> QED BY <1>1, <1>4, <2>3, <2>4, WorkersStay DEF TakeSnapshot, RuntimeTypes, activatorVars
<1>5. ASSUME StopRun PROVE RuntimeInd'
  <2>1. run' \in RunRows
    BY <1>1, <1>5 DEF StopRun, RuntimeTypes, RunRows
  <2>2. worker' = [w \in Places |-> IF Finished(w) THEN worker[w]
                                    ELSE [worker[w] EXCEPT !.cancelled = TRUE]]
    BY <1>5 DEF StopRun, CancelAll
  <2>3. ASSUME NEW w \in Places
        PROVE  /\ worker'[w] \in WorkerRows
               /\ worker'[w].step = worker[w].step /\ worker'[w].using = worker[w].using
               /\ worker'[w].applied = worker[w].applied /\ worker'[w].conn = worker[w].conn
               /\ worker[w].cancelled => worker'[w].cancelled
               /\ worker[w].down => worker'[w].down
    <3>1. PICK r \in WorkerRows : r = worker[w]
      BY <1>1 DEF RuntimeTypes
    <3>2. worker'[w] = r \/ worker'[w] = [r EXCEPT !.cancelled = TRUE]
      BY <2>2, <3>1
    <3> QED BY <3>1, <3>2 DEF WorkerRows
  <2>4. worker' \in [Places -> WorkerRows]
    BY <2>2, <2>3
  <2> QED BY <1>1, <1>5, <2>1, <2>3, <2>4, WorkersStay DEF StopRun, RuntimeTypes, activatorVars
<1> QED BY <1>2, <1>3, <1>4, <1>5

\* The manager passes a worker its snapshot, or cancels it.
LEMMA VisitKeeps ==
    ASSUME RuntimeInd, NEW a \in Accounts
    PROVE  /\ KeepWorker(a) => RuntimeInd'
           /\ CancelWorker(a) => RuntimeInd'
<1>1. RuntimeTypes
  BY ViewOfRuntime
<1>2. PICK p : p = <<a, cur[a]>>
  OBVIOUS
<1>3. ASSUME NEW new, worker' = [worker EXCEPT ![p] = new],
             p \in Places => /\ new \in WorkerRows
                             /\ new.step = worker[p].step /\ new.using = worker[p].using
                             /\ new.applied = worker[p].applied /\ new.conn = worker[p].conn
                             /\ worker[p].cancelled => new.cancelled
                             /\ worker[p].down => new.down,
             UNCHANGED <<latest, slot, cur, scouts, epoch, watchers, senders, handler, counts>>,
             run' \in RunRows
      PROVE  RuntimeInd'
  <2>1. worker \in [Places -> WorkerRows]
    BY <1>1 DEF RuntimeTypes
  <2>2. worker' \in [Places -> WorkerRows]
    BY <1>3, <2>1
  <2>3. \A w \in Places : IF w = p THEN worker'[w] = new ELSE worker'[w] = worker[w]
    BY <1>3, <2>1
  <2>4. \A w \in Places :
              /\ worker'[w].step = worker[w].step /\ worker'[w].using = worker[w].using
              /\ worker'[w].applied = worker[w].applied /\ worker'[w].conn = worker[w].conn
              /\ worker[w].cancelled => worker'[w].cancelled
              /\ worker[w].down => worker'[w].down
    BY <1>3, <2>3
  <2>5. /\ latest' \in RuntimeSnapshots /\ slot' \in RuntimeSnapshots /\ counts' \in CountRows
        /\ watchers' \in SUBSET watchers
    BY <1>1, <1>3 DEF RuntimeTypes
  <2> QED BY <1>3, <2>2, <2>4, <2>5, WorkersStay
<1>4. ASSUME KeepWorker(a) PROVE RuntimeInd'
  <2>1. run' = [run EXCEPT !.todo = @ \ {a}]
    BY <1>4 DEF KeepWorker
  <2>2. run' \in RunRows /\ run.snap \in RuntimeSnapshots
    BY <1>1, <2>1 DEF RuntimeTypes, RunRows
  <2>3. PICK new : new = [worker[p] EXCEPT !.snap = IF Finished(p) THEN @ ELSE run.snap]
    OBVIOUS
  <2>4. worker' = [worker EXCEPT ![p] = new]
    BY <1>2, <1>4, <2>3 DEF KeepWorker
  <2>5. ASSUME p \in Places
        PROVE  /\ new \in WorkerRows
               /\ new.step = worker[p].step /\ new.using = worker[p].using
               /\ new.applied = worker[p].applied /\ new.conn = worker[p].conn
               /\ worker[p].cancelled => new.cancelled
               /\ worker[p].down => new.down
    <3>1. PICK r \in WorkerRows : r = worker[p]
      BY <1>1, <2>5 DEF RuntimeTypes
    <3>2. PICK s \in RuntimeSnapshots : s = IF Finished(p) THEN r.snap ELSE run.snap
      BY <2>2, <3>1 DEF WorkerRows
    <3>3. new = [r EXCEPT !.snap = s]
      BY <2>3, <3>1, <3>2
    <3> QED BY <3>1, <3>3 DEF WorkerRows
  <2> QED BY <1>3, <1>4, <2>2, <2>4, <2>5 DEF KeepWorker, activatorVars
<1>5. ASSUME CancelWorker(a) PROVE RuntimeInd'
  <2>1. run' = [run EXCEPT !.step = "await"]
    BY <1>5 DEF CancelWorker
  <2>2. run' \in RunRows
    BY <1>1, <2>1 DEF RuntimeTypes, RunRows
  <2>3. PICK new : new = [worker[p] EXCEPT !.cancelled = TRUE]
    OBVIOUS
  <2>4. worker' = [worker EXCEPT ![p] = new]
    BY <1>2, <1>5, <2>3 DEF CancelWorker
  <2>5. ASSUME p \in Places
        PROVE  /\ new \in WorkerRows
               /\ new.step = worker[p].step /\ new.using = worker[p].using
               /\ new.applied = worker[p].applied /\ new.conn = worker[p].conn
               /\ worker[p].cancelled => new.cancelled
               /\ worker[p].down => new.down
    <3>1. PICK r \in WorkerRows : r = worker[p]
      BY <1>1, <2>5 DEF RuntimeTypes
    <3> QED BY <2>3, <3>1 DEF WorkerRows
  <2> QED BY <1>3, <1>5, <2>2, <2>4, <2>5 DEF CancelWorker, activatorVars
<1> QED BY <1>4, <1>5

-----------------------------------------------------------------------------
\* A step of the manager that replaces workers that have finished, or starts some
\* for accounts that had none.
LEMMA Replaced ==
    ASSUME RuntimeInd, UNCHANGED <<scouts, senders, handler, epoch, watchers>>,
           latest' \in RuntimeSnapshots, slot' \in RuntimeSnapshots, run' \in RunRows,
           counts' \in CountRows, worker' \in [Places -> WorkerRows],
           cur' \in [Accounts -> 0 .. 2],
           \A a \in Accounts : \A i \in 1 .. 2 :
              \/ /\ worker'[<<a, i>>] = worker[<<a, i>>]
                 /\ Finished(<<a, i>>) \/ cur'[a] = cur[a]
              \/ /\ Finished(<<a, i>>)
                 /\ \/ worker'[<<a, i>>].step = "free"
                    \/ worker'[<<a, i>>].step = "connecting" /\ ~worker'[<<a, i>>].applied
                       /\ cur'[a] = i
    PROVE  RuntimeInd'
<1>1. RuntimeTypes /\ \A a \in Accounts : AccountOK(a)
  BY ViewOfRuntime
<1>2. RuntimeTypes'
  BY <1>1 DEF RuntimeTypes
<1>3. ASSUME NEW a \in Accounts PROVE AccountOK(a)'
  <2>1. AccountOK(a)
    BY <1>1
  <2>2. \A i \in 1 .. 2 : Finished(<<a, i>>)' \/ cur'[a] = i
    BY <2>1 DEF AccountOK, Finished
  <2>3. \A i \in 1 .. 2 : Live(<<a, i>>) => worker'[<<a, i>>] = worker[<<a, i>>]
    BY DEF Live, Finished
  <2>4. senders'[a] # 0 =>
           \E i \in 1 .. 2 : Live(<<a, i>>)' /\ worker'[<<a, i>>].conn = senders'[a]
    BY <2>1, <2>3 DEF AccountOK, Live
  <2>5. \A x \in watchers' : x.acc = a => x.epoch <= epoch'[a]
    BY <2>1 DEF AccountOK
  <2>6. ASSUME NEW i \in 1 .. 2 PROVE Serves(a, worker[<<a, i>>])'
    <3>1. CASE worker'[<<a, i>>] = worker[<<a, i>>]
      BY <2>1, <3>1 DEF AccountOK, Serves, Watched
    <3>2. CASE worker'[<<a, i>>].step = "free"
      BY <3>2 DEF Serves
    <3>3. CASE worker'[<<a, i>>].step = "connecting" /\ ~worker'[<<a, i>>].applied
      BY <3>3 DEF Serves
    <3> QED BY <3>1, <3>2, <3>3
  <2> QED BY <2>2, <2>4, <2>5, <2>6 DEF AccountOK
<1> QED BY <1>2, <1>3 DEF RuntimeInd

\* A worker that has finished is removed, and only then.
LEMMA ForgetKeeps ==
    ASSUME RuntimeInd, NEW a \in Accounts, ForgetWorker(a)
    PROVE  RuntimeInd'
<1>1. RuntimeTypes /\ AccountOK(a)
  BY ViewOfRuntime
<1>2. PICK p : p = <<a, cur[a]>>
  OBVIOUS
<1>3. /\ Finished(p) /\ worker' = [worker EXCEPT ![p] = Idle]
      /\ cur' = [cur EXCEPT ![a] = 0]
      /\ run' = [run EXCEPT !.step = "visit", !.todo = @ \ {a}]
      /\ UNCHANGED <<latest, slot, scouts, epoch, watchers, senders, handler, counts>>
  BY <1>2 DEF ForgetWorker, activatorVars
<1>4. run' \in RunRows
  BY <1>1, <1>3 DEF RuntimeTypes, RunRows
<1>5. worker' \in [Places -> WorkerRows] /\ cur' \in [Accounts -> 0 .. 2]
  <2>1. worker \in [Places -> WorkerRows] /\ cur \in [Accounts -> 0 .. 2]
    BY <1>1 DEF RuntimeTypes
  <2>2. worker' \in [Places -> WorkerRows]
    BY <1>3, <2>1, UnsetOK
  <2>3. cur' \in [Accounts -> 0 .. 2]
    BY <1>3, <2>1
  <2> QED BY <2>2, <2>3
<1>6. ASSUME NEW b \in Accounts, NEW i \in 1 .. 2
      PROVE  \/ /\ worker'[<<b, i>>] = worker[<<b, i>>]
                /\ Finished(<<b, i>>) \/ cur'[b] = cur[b]
             \/ /\ Finished(<<b, i>>)
                /\ worker'[<<b, i>>].step = "free"
  <2>1. <<b, i>> \in Places
    BY TwoPlaces
  <2>2. CASE b # a
    BY <1>1, <1>2, <1>3, <2>1, <2>2 DEF RuntimeTypes
  <2>3. CASE b = a /\ cur[a] = i
    BY <1>1, <1>2, <1>3, <2>1, <2>3, UnsetOK DEF RuntimeTypes
  <2>4. CASE b = a /\ cur[a] # i
    <3>1. Finished(<<b, i>>)
      BY <1>1, <2>4 DEF AccountOK
    <3>2. worker'[<<b, i>>] = worker[<<b, i>>]
      BY <1>1, <1>2, <1>3, <2>1, <2>4 DEF RuntimeTypes
    <3> QED BY <3>1, <3>2
  <2> QED BY <2>2, <2>3, <2>4
<1>7. latest' \in RuntimeSnapshots /\ slot' \in RuntimeSnapshots /\ counts' \in CountRows
  BY <1>1, <1>3 DEF RuntimeTypes
<1> QED BY <1>3, <1>4, <1>5, <1>6, <1>7, Replaced

\* New workers are started for the accounts that have none.
LEMMA StartKeeps ==
    ASSUME RuntimeInd, StartWorkers
    PROVE  RuntimeInd'
<1>1. RuntimeTypes /\ \A a \in Accounts : AccountOK(a)
  BY ViewOfRuntime
<1> DEFINE new == {a \in run.desired : cur[a] = 0}
           place(a) == IF Finished(<<a, 1>>) THEN 1 ELSE 2
           started(a) == [Idle EXCEPT !.step = "connecting", !.snap = run.snap,
                                      !.route = run.snap.want[a].route]
<1>2. /\ cur' = [a \in Accounts |-> IF a \in new THEN place(a) ELSE cur[a]]
      /\ worker' = [w \in Places |-> IF w[1] \in new /\ w[2] = place(w[1])
                                     THEN started(w[1]) ELSE worker[w]]
      /\ run' = [run EXCEPT !.step = "loop", !.snap = Unset, !.desired = {}]
      /\ UNCHANGED <<latest, slot, scouts, epoch, watchers, senders, handler, counts>>
  BY DEF StartWorkers, activatorVars
<1>3. run' \in RunRows /\ run.snap \in RuntimeSnapshots /\ new \subseteq Accounts
  BY <1>1, <1>2, UnsetOK DEF RuntimeTypes, RunRows
<1>4. \A a \in Accounts : /\ started(a) \in WorkerRows
                          /\ started(a).step = "connecting" /\ ~started(a).applied
  <2> SUFFICES ASSUME NEW a \in Accounts
               PROVE  /\ started(a) \in WorkerRows
                      /\ started(a).step = "connecting" /\ ~started(a).applied
    OBVIOUS
  <2>1. PICK s \in RuntimeSnapshots : s = run.snap
    BY <1>3
  <2>2. PICK route \in Routes \cup {"none"} : route = s.want[a].route
    BY DEF RuntimeSnapshots, Wants
  <2>3. PICK idle \in WorkerRows : idle = Idle /\ ~idle.applied
    BY UnsetOK DEF Idle
  <2>4. started(a) = [idle EXCEPT !.step = "connecting", !.snap = s, !.route = route]
    BY <2>1, <2>2, <2>3
  <2> QED BY <2>3, <2>4 DEF WorkerRows, Steps
<1>5. \A a \in Accounts : place(a) \in 1 .. 2
  OBVIOUS
<1>6. cur' \in [Accounts -> 0 .. 2]
  <2>1. cur \in [Accounts -> 0 .. 2]
    BY <1>1 DEF RuntimeTypes
  <2>2. \A a \in Accounts : place(a) \in 0 .. 2
    OBVIOUS
  <2>3. cur' = [a \in Accounts |-> IF a \in new THEN place(a) ELSE cur[a]]
    BY <1>2
  <2> HIDE DEF new, place
  <2>4. \A a \in Accounts : (IF a \in new THEN place(a) ELSE cur[a]) \in 0 .. 2
    BY <2>1, <2>2
  <2> QED BY <2>3, <2>4
<1>7. worker' \in [Places -> WorkerRows]
  <2>1. worker \in [Places -> WorkerRows] /\ \A w \in Places : w[1] \in Accounts
    BY <1>1 DEF RuntimeTypes, Places
  <2> HIDE DEF new, place, started
  <2> QED BY <1>2, <1>4, <2>1
<1>8. ASSUME NEW b \in Accounts, NEW i \in 1 .. 2
      PROVE  \/ /\ worker'[<<b, i>>] = worker[<<b, i>>]
                /\ Finished(<<b, i>>) \/ cur'[b] = cur[b]
             \/ /\ Finished(<<b, i>>)
                /\ worker'[<<b, i>>].step = "connecting" /\ ~worker'[<<b, i>>].applied
                /\ cur'[b] = i
  <2>1. <<b, i>> \in Places /\ <<b, i>>[1] = b /\ <<b, i>>[2] = i
    BY TwoPlaces
  <2>2. b \in new => \A k \in 1 .. 2 : Finished(<<b, k>>)
    <3>1. b \in new => cur[b] = 0
      OBVIOUS
    <3>2. \A k \in 1 .. 2 : Finished(<<b, k>>) \/ cur[b] = k
      BY <1>1 DEF AccountOK
    <3> HIDE DEF new
    <3> QED BY <3>1, <3>2
  <2>3. /\ worker'[<<b, i>>] = IF b \in new /\ i = place(b) THEN started(b) ELSE worker[<<b, i>>]
        /\ cur'[b] = IF b \in new THEN place(b) ELSE cur[b]
    BY <1>2, <2>1
  <2> HIDE DEF new, place, started
  <2>4. CASE b \notin new
    BY <2>3, <2>4
  <2>5. CASE b \in new /\ i = place(b)
    BY <1>4, <2>2, <2>3, <2>5
  <2>6. CASE b \in new /\ i # place(b)
    BY <2>2, <2>3, <2>6
  <2> QED BY <2>4, <2>5, <2>6
<1>9. latest' \in RuntimeSnapshots /\ slot' \in RuntimeSnapshots /\ counts' \in CountRows
  BY <1>1, <1>2 DEF RuntimeTypes
<1>10. UNCHANGED <<scouts, senders, handler, epoch, watchers>>
  BY <1>2
<1> QED BY <1>3, <1>6, <1>7, <1>8, <1>9, <1>10, Replaced

\* The run ends when every worker has (ResetExplicitLifecycle).
LEMMA EndKeeps ==
    ASSUME RuntimeInd, EndRun
    PROVE  RuntimeInd'
<1>1. RuntimeTypes /\ \A a \in Accounts : AccountOK(a)
  BY ViewOfRuntime
<1>2. /\ run' = [run EXCEPT !.step = "off", !.snap = Unset]
      /\ cur' = [a \in Accounts |-> 0] /\ worker' = [w \in Places |-> Idle]
      /\ scouts' = [a \in Accounts |-> 0] /\ senders' = [a \in Accounts |-> 0]
      /\ handler' = [a \in Accounts |-> "off"]
      /\ UNCHANGED <<latest, slot, counts, epoch, watchers>>
  BY DEF EndRun, ResetExplicitLifecycle
<1>3. run' \in RunRows
  BY <1>1, <1>2, UnsetOK DEF RuntimeTypes, RunRows
<1>4. /\ worker' \in [Places -> WorkerRows] /\ cur' \in [Accounts -> 0 .. 2]
      /\ scouts' \in [Accounts -> 0 .. MaxConnects] /\ senders' \in [Accounts -> 0 .. MaxConnects]
      /\ handler' \in [Accounts -> {"off", "collect", "trigger"}]
  <2>1. 0 \in 0 .. MaxConnects
    BY RuntimeAssumption
  <2> QED BY <1>2, <2>1, UnsetOK
<1>5. RuntimeTypes'
  BY <1>1, <1>2, <1>3, <1>4 DEF RuntimeTypes
<1>6. ASSUME NEW a \in Accounts PROVE AccountOK(a)'
  <2>1. \A i \in 1 .. 2 : worker'[<<a, i>>].step = "free"
    BY <1>2, TwoPlaces, UnsetOK
  <2>2. senders'[a] = 0 /\ \A x \in watchers' : x.acc = a => x.epoch <= epoch'[a]
    BY <1>1, <1>2 DEF AccountOK
  <2>3. \A i \in 1 .. 2 : Serves(a, worker[<<a, i>>])'
    BY <2>1 DEF Serves
  <2> QED BY <2>1, <2>2, <2>3 DEF AccountOK, Finished
<1> QED BY <1>5, <1>6 DEF RuntimeInd

\* Nothing runs at first.
LEMMA StartsOK == RuntimeInit => RuntimeInd
<1> SUFFICES ASSUME RuntimeInit PROVE RuntimeInd
  OBVIOUS
<1>1. 0 \in 0 .. MaxConnects /\ MaxConnects \in Nat
  BY RuntimeAssumption
<1>2. /\ latest = Unset /\ slot = Unset
      /\ run = [step |-> "off", snap |-> Unset, desired |-> {}, todo |-> {}]
      /\ cur = [a \in Accounts |-> 0] /\ worker = [w \in Places |-> Idle]
      /\ scouts = [a \in Accounts |-> 0] /\ epoch = [a \in Accounts |-> 0] /\ watchers = {}
      /\ senders = [a \in Accounts |-> 0] /\ handler = [a \in Accounts |-> "off"]
      /\ counts = [conn |-> [a \in Accounts |-> 0], checks |-> [a \in Accounts |-> 0], runs |-> 0]
  BY DEF RuntimeInit
<1>3. run \in RunRows /\ counts \in CountRows
  BY <1>1, <1>2, UnsetOK DEF RunRows, CountRows
<1>4. RuntimeTypes
  BY <1>1, <1>2, <1>3, UnsetOK DEF RuntimeTypes
<1>5. ASSUME NEW a \in Accounts PROVE AccountOK(a)
  <2>1. \A i \in 1 .. 2 : worker[<<a, i>>].step = "free"
    BY <1>2, TwoPlaces, UnsetOK
  <2>2. \A i \in 1 .. 2 : Serves(a, worker[<<a, i>>])
    BY <2>1 DEF Serves
  <2> QED BY <1>2, <2>1, <2>2 DEF AccountOK, Finished
<1> QED BY <1>4, <1>5 DEF RuntimeInd

\* Every action of the manager, its workers and the network keeps the invariant.
LEMMA RuntimeIndIsInductive == RuntimeInd /\ [RuntimeNext]_runtimeVars => RuntimeInd'
<1> SUFFICES ASSUME RuntimeInd, [RuntimeNext]_runtimeVars PROVE RuntimeInd'
  OBVIOUS
<1>1. CASE UNCHANGED runtimeVars
  BY <1>1 DEF runtimeVars, RuntimeInd, RuntimeTypes, AccountOK, Serves, Watched, Live, Finished
<1>2. CASE \E want \in [Accounts -> Wants], paused \in BOOLEAN : ManagerApply(want, paused)
  BY <1>2, ManagerSmall
<1>3. CASE StartRun \/ StopRun
  BY <1>3, ManagerSmall
<1>4. CASE ManagerStep
  BY <1>4, ManagerSmall, VisitKeeps, ForgetKeeps, StartKeeps, EndKeeps DEF ManagerStep
<1>5. CASE \E w \in Places : WorkerStep(w) \/ NetworkDrops(w)
  <2>1. PICK w \in Places : WorkerStep(w) \/ NetworkDrops(w)
    BY <1>5
  <2>2. PICK a \in Accounts, i \in 1 .. 2 : w = <<a, i>>
    BY PlaceOf
  <2> QED BY <2>1, <2>2, ConnectKeeps, SmallSteps, BeginApplyKeeps, FinishKeeps DEF WorkerStep
<1>6. CASE \E x \in watchers : unregisterScoutOnDisconnect(x)
  BY <1>6, UnregisterKeeps
<1> QED BY <1>1, <1>2, <1>3, <1>4, <1>5, <1>6 DEF RuntimeNext

\* It says what the runs check.
LEMMA RuntimeIndImplies == RuntimeInd => RuntimeInv
<1> SUFFICES ASSUME RuntimeInd PROVE RuntimeInv
  OBVIOUS
<1>1. RuntimeTypes /\ \A a \in Accounts : AccountOK(a)
  BY ViewOfRuntime
<1>2. RuntimeTypeOK
  BY <1>1 DEF RuntimeTypes, RuntimeTypeOK, WorkerRows
<1>3. OneClient
  <2> SUFFICES ASSUME NEW w \in Places, NEW v \in Places, w # v, w[1] = v[1]
               PROVE  Finished(w) \/ Finished(v)
    BY DEF OneClient
  <2>1. PICK a \in Accounts, i \in 1 .. 2, k \in 1 .. 2 : w = <<a, i>> /\ v = <<a, k>> /\ i # k
    BY DEF Places
  <2> QED BY <1>1, <2>1 DEF AccountOK
<1>4. SenderHasItsClient
  <2> SUFFICES ASSUME NEW a \in Accounts, senders[a] # 0
               PROVE  \E w \in Places : w[1] = a /\ Live(w) /\ worker[w].conn = senders[a]
    BY DEF SenderHasItsClient
  <2>1. PICK i \in 1 .. 2 : Live(<<a, i>>) /\ worker[<<a, i>>].conn = senders[a]
    BY <1>1 DEF AccountOK
  <2>2. <<a, i>> \in Places /\ <<a, i>>[1] = a
    BY TwoPlaces
  <2> QED BY <2>1, <2>2
<1>5. ServesWhatItApplied
  <2> SUFFICES ASSUME NEW w \in Places, NEW a, a = w[1], At(w, "ready"), worker[w].applied,
                      ~ctxDone(w)
               PROVE  IF worker[w].using.paused
                      THEN scouts[a] = 0 /\ senders[a] = 0 /\ handler[a] = "off"
                      ELSE IF Role(w) = "scout"
                      THEN scouts[a] = worker[w].conn /\ senders[a] = 0 /\ handler[a] = "collect"
                      ELSE senders[a] = worker[w].conn /\ scouts[a] = 0 /\ handler[a] = "trigger"
    BY DEF ServesWhatItApplied
  <2>1. PICK b \in Accounts, i \in 1 .. 2 : w = <<b, i>> /\ b = a
    BY PlaceOf
  <2>2. Serves(a, worker[w])
    BY <1>1, <2>1 DEF AccountOK
  <2> QED BY <2>2 DEF Serves, At, ctxDone, Role
<1> QED BY <1>2, <1>3, <1>4, <1>5 DEF RuntimeInv

\* For any number of accounts, snapshots and connections: one client for an
\* account; a registered sender has the connection of a worker that runs; and an
\* account whose worker has applied a snapshot is registered as the snapshot says
\* (runAccount, applyAccount, unregisterScoutOnDisconnect).
THEOREM RuntimeInvariant == RuntimeSpec => []RuntimeInv
<1>1. RuntimeInit => RuntimeInd
  BY StartsOK
<1>2. RuntimeInd /\ [RuntimeNext]_runtimeVars => RuntimeInd'
  BY RuntimeIndIsInductive
<1>3. RuntimeInd => RuntimeInv
  BY RuntimeIndImplies
<1> QED BY <1>1, <1>2, <1>3, PTL DEF RuntimeSpec

-----------------------------------------------------------------------------
(* The collection of statistics *)

\* The rows of the loops.
LoopRows == [step : LoopSteps, cancelled : BOOLEAN]

\* startSchedule and stop cancel the current loop, and with it every one that
\* still runs.
LEMMA CancelledLoops ==
    ASSUME CollectionInv, NEW l \in Loops
    PROVE  /\ Cancelled(loops, current) \in [Loops -> LoopRows]
           /\ Cancelled(loops, current)[l].step = loops[l].step
           /\ LoopLive(l) => Cancelled(loops, current)[l].cancelled
<1>1. loops \in [Loops -> LoopRows] /\ current \in 0 .. MaxLoops
  BY DEF CollectionInv, CollectionTypeOK, LoopRows
<1>2. LoopLive(l) /\ ~loops[l].cancelled => current = l
  BY DEF CollectionInv, OneSchedule
<1>3. CASE current = 0
  <2>1. Cancelled(loops, current) = loops
    BY <1>3 DEF Cancelled
  <2>2. LoopLive(l) => loops[l].cancelled
    BY <1>2, <1>3, CollectionAssumption DEF Loops
  <2> QED BY <1>1, <2>1, <2>2
<1>4. CASE current # 0
  <2>1. current \in Loops
    BY <1>1, <1>4, CollectionAssumption DEF Loops
  <2>2. PICK r \in LoopRows : r = loops[current]
    BY <1>1, <2>1
  <2>3. PICK q : q = [r EXCEPT !.cancelled = TRUE]
    OBVIOUS
  <2>4. q \in LoopRows /\ q.step = r.step /\ q.cancelled
    BY <2>3 DEF LoopRows
  <2>5. Cancelled(loops, current) = [loops EXCEPT ![current] = q]
    BY <1>4, <2>2, <2>3 DEF Cancelled
  <2>6. Cancelled(loops, current) \in [Loops -> LoopRows]
    BY <1>1, <2>1, <2>4, <2>5
  <2>7. Cancelled(loops, current)[l] = IF l = current THEN q ELSE loops[l]
    BY <1>1, <2>5
  <2> QED BY <1>2, <2>2, <2>4, <2>6, <2>7
<1> QED BY <1>3, <1>4

\* A step of a loop: it goes on, or ends.
LEMMA LoopMovesOn ==
    ASSUME CollectionInv, NEW l \in Loops, LoopLive(l), NEW s \in LoopSteps, LoopStep(l, s),
           UNCHANGED <<saved, enabled, loopCount, current>>, next' \in BOOLEAN,
           cycle' \in 0 .. ByUser
    PROVE  CollectionInv'
<1>1. /\ {saved, enabled, next} \subseteq BOOLEAN /\ loops \in [Loops -> LoopRows]
      /\ {current, loopCount} \subseteq 0 .. MaxLoops
  BY DEF CollectionInv, CollectionTypeOK, LoopRows
<1>2. PICK r \in LoopRows : r = loops[l]
  BY <1>1
<1>3. PICK q : q = [r EXCEPT !.step = s]
  OBVIOUS
<1>4. q \in LoopRows /\ q.cancelled = r.cancelled
  BY <1>3 DEF LoopRows
<1>5. loops' = [loops EXCEPT ![l] = q]
  BY <1>2, <1>3 DEF LoopStep
<1>6. loops' \in [Loops -> LoopRows] /\ \A k \in Loops : loops'[k] = IF k = l THEN q ELSE loops[k]
  BY <1>1, <1>4, <1>5
<1>7. CollectionTypeOK'
  BY <1>1, <1>6 DEF CollectionTypeOK, LoopRows
<1>8. OneSchedule'
  BY <1>2, <1>4, <1>6 DEF CollectionInv, OneSchedule, LoopLive
<1> QED BY <1>7, <1>8 DEF CollectionInv

\* Every step of the loop is such a step.
LEMMA LoopsMoveOn ==
    ASSUME CollectionInv, NEW l \in Loops, LoopMoves(l)
    PROVE  CollectionInv'
<1>1. /\ next \in BOOLEAN /\ cycle \in 0 .. ByUser /\ 0 \in 0 .. ByUser /\ l \in 0 .. ByUser
  BY CollectionAssumption DEF CollectionInv, CollectionTypeOK, Loops, ByUser
<1>2. /\ LoopLive(l) /\ UNCHANGED <<saved, enabled, loopCount, current>>
      /\ next' \in BOOLEAN /\ cycle' \in 0 .. ByUser
      /\ \E s \in LoopSteps : LoopStep(l, s)
  <2>1. CASE LoopRuns(l)
    BY <1>1, <2>1 DEF LoopRuns, LoopLive, LoopSteps
  <2>2. CASE CycleEnds(l)
    BY <1>1, <2>2 DEF CycleEnds, LoopLive, LoopSteps
  <2>3. CASE LoopChecks(l)
    BY <1>1, <2>3 DEF LoopChecks, LoopLive, LoopSteps
  <2>4. CASE TimerFires(l)
    BY <1>1, <2>4 DEF TimerFires, LoopLive, LoopSteps
  <2>5. CASE LoopNotices(l)
    BY <1>1, <2>5 DEF LoopNotices, LoopLive, LoopSteps
  <2> QED BY <2>1, <2>2, <2>3, <2>4, <2>5 DEF LoopMoves
<1> QED BY <1>2, LoopMovesOn

\* startSchedule: the new loop is the only one that is not cancelled.
LEMMA ScheduleStarts ==
    ASSUME CollectionInv, startSchedule, UNCHANGED <<saved, cycle>>
    PROVE  CollectionInv'
<1>1. PICK l \in Loops : l = loopCount + 1
  BY CollectionAssumption DEF CollectionInv, CollectionTypeOK, startSchedule, Loops
<1>2. PICK fresh \in LoopRows : fresh = [step |-> "run", cancelled |-> FALSE]
  BY DEF LoopRows, LoopSteps
<1>3. /\ enabled' = TRUE /\ next' = TRUE /\ loopCount' = l /\ current' = l
      /\ loops' = [Cancelled(loops, current) EXCEPT ![l] = fresh]
  BY <1>1, <1>2 DEF startSchedule
<1>4. PICK ls \in [Loops -> LoopRows] : ls = Cancelled(loops, current)
  BY CancelledLoops
<1>5. loops' \in [Loops -> LoopRows] /\ \A k \in Loops : k # l => loops'[k] = ls[k]
  BY <1>3, <1>4
<1>6. \A k \in Loops : /\ ls[k].step = loops[k].step
                       /\ LoopLive(k) => ls[k].cancelled
  BY <1>4, CancelledLoops
<1>7. l \in 0 .. MaxLoops
  BY CollectionAssumption DEF Loops
<1>8. CollectionTypeOK'
  BY <1>3, <1>5, <1>7 DEF CollectionInv, CollectionTypeOK, LoopRows
<1>9. OneSchedule'
  BY <1>3, <1>5, <1>6 DEF OneSchedule, LoopLive
<1> QED BY <1>8, <1>9 DEF CollectionInv

\* Stop and Shutdown: no loop is left that is not cancelled.
LEMMA ScheduleStops ==
    ASSUME CollectionInv, loops' = Cancelled(loops, current), current' = 0, next' = FALSE,
           enabled' \in BOOLEAN, UNCHANGED <<saved, loopCount, cycle>>
    PROVE  CollectionInv'
<1>1. PICK ls \in [Loops -> LoopRows] : ls = Cancelled(loops, current)
  <2>1. CASE Loops = {}
    <3>1. MaxLoops = 0
      BY <2>1, CollectionAssumption DEF Loops
    <3>2. Cancelled(loops, current) = loops /\ loops \in [Loops -> LoopRows]
      BY <3>1 DEF CollectionInv, CollectionTypeOK, Cancelled, LoopRows
    <3> QED BY <3>2
  <2>2. CASE Loops # {}
    BY <2>2, CancelledLoops
  <2> QED BY <2>1, <2>2
<1>2. \A k \in Loops : /\ ls[k].step = loops[k].step
                       /\ LoopLive(k) => ls[k].cancelled
  BY <1>1, CancelledLoops
<1>3. 0 \in 0 .. MaxLoops
  BY CollectionAssumption
<1>4. CollectionTypeOK'
  BY <1>1, <1>3 DEF CollectionInv, CollectionTypeOK, LoopRows
<1>5. OneSchedule'
  BY <1>1, <1>2 DEF OneSchedule, LoopLive
<1> QED BY <1>4, <1>5 DEF CollectionInv

\* Restore after a restart: one loop if the saved settings say so.
LEMMA RestoreKeeps ==
    ASSUME CollectionInv, Restore
    PROVE  CollectionInv'
<1>1. PICK l \in Loops : l = loopCount + 1
  BY CollectionAssumption DEF CollectionInv, CollectionTypeOK, Restore, Loops
<1>2. PICK fresh \in LoopRows : fresh = [step |-> "run", cancelled |-> FALSE]
  BY DEF LoopRows, LoopSteps
<1>3. NoLoop \in LoopRows /\ NoLoop.step = "none"
  BY DEF NoLoop, LoopRows, LoopSteps
<1>4. /\ cycle' = 0 /\ saved' = saved /\ enabled' = saved /\ next' = saved
      /\ loopCount' = IF saved THEN l ELSE loopCount
      /\ current' = IF saved THEN l ELSE 0
      /\ loops' = [k \in Loops |-> IF saved /\ k = l THEN fresh ELSE NoLoop]
  BY <1>1, <1>2 DEF Restore
<1>5. /\ l \in 0 .. MaxLoops /\ 0 \in 0 .. MaxLoops /\ 0 \in 0 .. ByUser
      /\ saved \in BOOLEAN /\ loopCount \in 0 .. MaxLoops
  BY CollectionAssumption DEF Loops, ByUser, CollectionInv, CollectionTypeOK
<1>6. loops' \in [Loops -> LoopRows]
  BY <1>3, <1>4
<1>7. CollectionTypeOK'
  BY <1>4, <1>5, <1>6 DEF CollectionTypeOK, LoopRows
<1>8. OneSchedule'
  BY <1>3, <1>4 DEF OneSchedule, LoopLive
<1> QED BY <1>7, <1>8 DEF CollectionInv

\* For any number of users and loops: at most one loop collects without having
\* been cancelled, and it is the current one (startSchedule, Stop, Restore).
THEOREM CollectionInvariant == CollectionSpec => []CollectionInv
<1>1. CollectionInit => CollectionInv
  <2> SUFFICES ASSUME CollectionInit PROVE CollectionInv
    OBVIOUS
  <2>1. NoLoop \in LoopRows /\ NoLoop.step = "none"
    BY DEF NoLoop, LoopRows, LoopSteps
  <2>2. 0 \in 0 .. MaxLoops /\ 0 \in 0 .. ByUser
    BY CollectionAssumption DEF ByUser
  <2>3. CollectionTypeOK
    BY <2>1, <2>2 DEF CollectionInit, CollectionTypeOK, LoopRows
  <2>4. OneSchedule
    BY <2>1 DEF CollectionInit, OneSchedule, LoopLive
  <2> QED BY <2>3, <2>4 DEF CollectionInv
<1>2. CollectionInv /\ [CollectionNext]_collectionVars => CollectionInv'
  <2> SUFFICES ASSUME CollectionInv, [CollectionNext]_collectionVars PROVE CollectionInv'
    OBVIOUS
  <2>1. /\ {saved, enabled, next} \subseteq BOOLEAN /\ cycle \in 0 .. ByUser
        /\ 0 \in 0 .. ByUser /\ ByUser \in 0 .. ByUser
    BY CollectionAssumption DEF CollectionInv, CollectionTypeOK, ByUser
  <2>2. ASSUME UNCHANGED <<enabled, loops, loopCount, current, next>>, saved' \in BOOLEAN,
               cycle' \in 0 .. ByUser
        PROVE  CollectionInv'
    BY <2>2 DEF CollectionInv, CollectionTypeOK, OneSchedule, LoopLive
  <2>3. CASE UNCHANGED collectionVars
    BY <2>1, <2>2, <2>3 DEF collectionVars
  <2>4. ASSUME NEW u \in Users, CallOfUser(u) PROVE CollectionInv'
    <3>1. CASE \E on \in BOOLEAN : SaveAnalyticsSettings(u, on)
      BY <2>1, <2>2, <3>1 DEF SaveAnalyticsSettings
    <3>2. CASE StartCollection(u)
      BY <3>2, ScheduleStarts DEF StartCollection
    <3>3. CASE StopCollection(u)
      BY <3>3, ScheduleStops DEF StopCollection
    <3> QED BY <2>4, <3>1, <3>2, <3>3 DEF CallOfUser
  <2>5. CASE RunNow \/ UserCycleEnds \/ ShutdownReturns
    BY <2>1, <2>2, <2>5 DEF RunNow, UserCycleEnds, ShutdownReturns
  <2>6. CASE \E l \in Loops : LoopMoves(l)
    BY <2>6, LoopsMoveOn
  <2>7. CASE ShutdownCollection
    BY <2>1, <2>7, ScheduleStops DEF ShutdownCollection
  <2>8. CASE Restore
    BY <2>8, RestoreKeeps
  <2> QED BY <2>3, <2>4, <2>5, <2>6, <2>7, <2>8 DEF CollectionNext
<1> QED BY <1>1, <1>2, PTL DEF CollectionSpec

=============================================================================
