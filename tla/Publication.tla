---------------------------- MODULE Publication ----------------------------
(***************************************************************************)
(* The licence generator's side of revocation.  Generator processes keep   *)
(* their signing key and the record of every revocation in a file of their *)
(* machine, and publish one signed manifest in a remote file that only     *)
(* compare-and-swap protects.  One action is one remote call together with *)
(* what follows it up to the next one; the local file is read and replaced *)
(* under a system mutex, and a replacement is refused when the file is not *)
(* what this process read last.                                            *)
(***************************************************************************)
EXTENDS Naturals, Sequences, FiniteSets, SequencesExt

CONSTANTS Generators,      \* generator processes
          Machines,        \* the computers they run on
          RevHandles,      \* licences to revoke
          PublishAttempts, \* rounds of load and compare-and-swap
          MaxRemoteFaults  \* remote calls and local saves that fail

ASSUME PublicationAssumption ==
    /\ IsFiniteSet(Generators) /\ IsFiniteSet(Machines) /\ IsFiniteSet(RevHandles)
    /\ PublishAttempts \in Nat \ {0} /\ MaxRemoteFaults \in Nat
    /\ "none" \notin Generators \cup RevHandles

VARIABLES
    home,        \* the machine each generator runs on
    file,        \* every content the remote file had, oldest first
    disk,        \* per machine: key, confirmation and records on disk
    gen,         \* per generator: its memory and the publication it is in
    faults       \* calls that failed so far

pubVars == <<home, file, disk, gen, faults>>

-----------------------------------------------------------------------------
(* Records and what they may say *)

\* blob 0 is the empty blob identifier; blob i names the i-th remote content.
Record == [st : {"none", "pending", "failed", "published"}, seq : Nat, blob : Nat]
NoRecord == [st |-> "none", seq |-> 0, blob |-> 0]
Content == [key : Generators \cup {"none"}, ok : BOOLEAN, recs : [RevHandles -> Record]]
NoContent == [key |-> "none", ok |-> FALSE, recs |-> [h \in RevHandles |-> NoRecord]]

validRevocationPublicationRecord(r) ==
    CASE r.st = "pending" -> (r.seq = 0) <=> (r.blob = 0)
      [] r.st = "failed" -> r.seq = 0 /\ r.blob = 0
      [] r.st = "published" -> r.seq > 0 /\ r.blob > 0
      [] OTHER -> r = NoRecord

Known(c) == {h \in RevHandles : c.recs[h].st # "none"}
Published(c) == {h \in RevHandles : c.recs[h].st = "published"}
MinimumOfNext(c) == Cardinality(Known(c))
MinimumSequence(c) ==
    CHOOSE n \in {0} \cup {c.recs[h].seq : h \in Known(c)} :
        \A h \in Known(c) : c.recs[h].seq <= n

\* What Revoke accepts from Prepare before it goes to the network.
validPreparedRevocation(c, h) ==
    c.recs[h].st = "pending" /\ c.recs[h].seq > 0 =>
        c.recs[h].seq >= MinimumSequence(c)

acceptableHistory(m, minimum, history) ==
    m.seq >= minimum /\ history \subseteq m.entries

Pending(n, b) == [st |-> "pending", seq |-> n, blob |-> b]
Failed == [st |-> "failed", seq |-> 0, blob |-> 0]

GenSteps == {"off", "idle", "restoring", "load", "init", "initread", "cas",
             "readback", "record", "answer"}
GenRows == [step : GenSteps, mem : Content, h : RevHandles \cup {"none"},
            tries : 0 .. PublishAttempts, got : Nat, min : Nat,
            hist : SUBSET RevHandles, result : Record]
NotStarted == [step |-> "off", mem |-> NoContent, h |-> "none", tries |-> 0,
               got |-> 0, min |-> 0, hist |-> {}, result |-> NoRecord]

PubInit ==
    /\ home \in [Generators -> Machines]
    /\ file = <<>>
    /\ disk = [m \in Machines |-> NoContent]
    /\ gen = [g \in Generators |-> NotStarted]
    /\ faults = 0

Remote == Len(file)
Disk(g) == disk[home[g]]
Go(g, row) == gen' = [gen EXCEPT ![g] = row]
At(g, step) == gen[g].step = step
\* The step ends with a result that RecordOutcome will try to write.
Result(g, r) == Go(g, [gen[g] EXCEPT !.step = "record", !.result = r])
Fault == faults < MaxRemoteFaults /\ faults' = faults + 1

\* The call is over: r is what the user is about to be told of h.
Tell(g, h, r, c) ==
    Go(g, [NotStarted EXCEPT !.step = "answer", !.mem = c, !.h = h, !.result = r])

\* Replacing the file is refused when it is not what this process knows.
SaveDisk(g, c) == Disk(g) = gen[g].mem /\ disk' = [disk EXCEPT ![home[g]] = c]

-----------------------------------------------------------------------------
(* Keys: opening, bootstrap, confirmation, restore *)

newGeneratorServiceWithRevocation(g) ==
    /\ At(g, "off")
    /\ Go(g, [gen[g] EXCEPT !.step = "idle", !.mem = Disk(g)])
    /\ UNCHANGED <<home, file, disk, faults>>

\* Anonymous reads come from a cache: any content the file ever had, or none.
Cached == 0 .. Remote
ProveRemoteAbsent == 0 \in Cached
InspectRemote(k) == {i \in Cached : i > 0 => file[i].key = k}

\* Without a state the key is new only if the public file was not found.
prepareRevocationPublisher(g) ==
    /\ At(g, "idle") /\ gen[g].mem.key = "none" /\ ProveRemoteAbsent
    /\ SaveDisk(g, [NoContent EXCEPT !.key = g])
    /\ Go(g, [gen[g] EXCEPT !.mem = [NoContent EXCEPT !.key = g]])
    /\ UNCHANGED <<home, file, faults>>

ConfirmBackup(g) ==
    /\ At(g, "idle") /\ gen[g].mem.key # "none" /\ Disk(g).key = gen[g].mem.key
    /\ disk' = [disk EXCEPT ![home[g]].ok = TRUE]
    /\ Go(g, [gen[g] EXCEPT !.mem = [Disk(g) EXCEPT !.ok = TRUE]])
    /\ UNCHANGED <<home, file, faults>>

\* The records a restored key gets: its own, corrected by the remote entries.
ReconcileByName(c, k, i) ==
    [key |-> k, ok |-> TRUE,
     recs |-> [h \in RevHandles |->
         IF i > 1 /\ c.recs[h].st # "none"
         THEN [st |-> "published", seq |-> file[i].seq, blob |-> i] ELSE c.recs[h]]]
reconcileRevocationRestoreState(c, k, i) ==
    LET entries == IF i = 0 THEN {} ELSE file[i].entries
    IN  [key |-> k, ok |-> TRUE,
         recs |-> [h \in RevHandles |->
             IF h \in entries THEN [st |-> "published", seq |-> file[i].seq, blob |-> i]
             ELSE c.recs[h]]]
ReconcileAccepts(c, i) ==
    \A h \in Published(c) :
        i > 0 /\ h \in file[i].entries /\ c.recs[h].seq <= file[i].seq

\* A backup exists of every key whose backup was confirmed.
BackedUp == {disk[m].key : m \in {n \in Machines : disk[n].ok}}

RestoreBackup(g, k) ==
    /\ At(g, "idle") /\ k \in BackedUp
    /\ gen[g].mem.key # "none" => Disk(g).key = gen[g].mem.key
    /\ gen[g].mem.key \in {"none", k}
    /\ Go(g, [gen[g] EXCEPT !.step = "restoring",
                            !.mem = IF @.key = "none" THEN @ ELSE Disk(g)])
    /\ UNCHANGED <<home, file, disk, faults>>

FinishRestore(g) ==
    /\ At(g, "restoring")
    /\ \E k \in BackedUp : \E i \in InspectRemote(k) :
        LET mem == gen[g].mem
            next == reconcileRevocationRestoreState(mem, k, i)
        IN  /\ mem.key \in {"none", k}
            /\ \/ /\ ReconcileAccepts(mem, i) /\ SaveDisk(g, next)
                  /\ Go(g, [gen[g] EXCEPT !.step = "idle", !.mem = next])
               \/ /\ ~ReconcileAccepts(mem, i) \/ Disk(g) # mem
                  /\ Go(g, [gen[g] EXCEPT !.step = "idle"])
                  /\ UNCHANGED disk
    /\ UNCHANGED <<home, file, faults>>

-----------------------------------------------------------------------------
(* Revocation of one licence *)

\* The pending record is on disk before anything goes to the network.
Prepare(c, h) == IF c.recs[h].st = "none"
                 THEN [c EXCEPT !.recs[h] = Pending(0, 0)] ELSE c

\* Prepare fails when the file cannot be read or replaced, or when another
\* process replaced it in between.  Like a record that is not a valid one to
\* prepare, that is told as a failure before anything is sent.
RevokeLicense(g, h) ==
    LET c == Prepare(Disk(g), h)
    IN  /\ At(g, "idle") /\ gen[g].mem.key # "none" /\ gen[g].mem.ok
        /\ \/ /\ Fault /\ UNCHANGED disk
              /\ \E known \in {gen[g].mem, Disk(g)} : Tell(g, h, Failed, known)
           \/ /\ Disk(g).key = gen[g].mem.key /\ UNCHANGED faults
              /\ disk' = [disk EXCEPT ![home[g]] = c]
              /\ IF c.recs[h].st = "published" THEN Tell(g, h, c.recs[h], c)
                 ELSE IF ~validPreparedRevocation(c, h) THEN Tell(g, h, Failed, c)
                 ELSE Go(g, [gen[g] EXCEPT !.step = "load", !.mem = c, !.h = h,
                                 !.tries = 0, !.min = MinimumSequence(c),
                                 !.hist = Published(c)])
        /\ UNCHANGED <<home, file>>

\* One more round, unless the rounds are used up.
Again(g) ==
    IF gen[g].tries + 1 = PublishAttempts
    THEN Result(g, Pending(gen[g].min, 0))
    ELSE Go(g, [gen[g] EXCEPT !.step = "load", !.tries = @ + 1])

LoadAuthenticated(g) ==
    /\ At(g, "load")
    /\ \/ /\ Fault /\ Result(g, Pending(gen[g].min, 0))
       \/ /\ UNCHANGED faults
          /\ IF Remote = 0 THEN Go(g, [gen[g] EXCEPT !.step = "init"])
             ELSE IF \/ file[Remote].key # gen[g].mem.key
                     \/ ~acceptableHistory(file[Remote], gen[g].min, gen[g].hist)
             THEN Result(g, Failed)
             ELSE Go(g, [gen[g] EXCEPT !.got = Remote, !.step =
                            IF gen[g].h \in file[Remote].entries THEN "readback" ELSE "cas"])
    /\ UNCHANGED <<home, file, disk>>

\* Creates the file where there is none; a conflict means somebody else did.
initializeLocked(g) ==
    /\ At(g, "init")
    /\ LET first == <<[key |-> gen[g].mem.key, seq |-> 0, entries |-> {}]>>
       IN  \/ /\ file' = (IF Remote = 0 THEN first ELSE file) /\ UNCHANGED faults
              /\ Go(g, [gen[g] EXCEPT !.step = "initread", !.got = Len(file')])
           \/ /\ Fault /\ file' \in {file, IF Remote = 0 THEN first ELSE file}
              /\ Result(g, Pending(0, 0))
    /\ UNCHANGED <<home, disk>>

\* buildNextAt and the compare-and-swap on the blob that was loaded.
NextManifest(g) == [key |-> gen[g].mem.key, seq |-> file[gen[g].got].seq + 1,
                    entries |-> file[gen[g].got].entries \cup {gen[g].h}]
SwappedBlindly(g) == Append(file, NextManifest(g))
Swapped(g) == IF gen[g].got = Remote THEN Append(file, NextManifest(g)) ELSE file

CompareAndSwap(g) ==
    /\ At(g, "cas")
    /\ \/ /\ Fault /\ file' \in {file, Swapped(g)}
          /\ Result(g, Pending(gen[g].min, 0))
       \/ /\ gen[g].got = Remote /\ file' = Swapped(g) /\ UNCHANGED faults
          /\ Go(g, [gen[g] EXCEPT !.step = "readback", !.got = Remote + 1])
       \/ /\ gen[g].got # Remote /\ UNCHANGED <<file, faults>> /\ Again(g)
    /\ UNCHANGED <<home, disk>>

\* The authenticated read must extend what was stored, the anonymous one must
\* return the same bytes: a stale cache leaves the publication pending.
verifyReadback(g) ==
    LET m == file[Remote]
        target == IF At(g, "readback") THEN {gen[g].h} \cup gen[g].hist ELSE {}
    IN  /\ At(g, "readback") \/ At(g, "initread")
        /\ \/ Fault /\ Result(g, Pending(file[gen[g].got].seq, gen[g].got))
           \/ /\ UNCHANGED faults
              /\ IF \/ m.key # gen[g].mem.key
                    \/ ~acceptableHistory(m, file[gen[g].got].seq, target)
                 THEN Result(g, Failed)
                 ELSE \/ Result(g, Pending(m.seq, Remote))
                      \/ IF At(g, "initread") THEN Again(g)
                         ELSE Result(g, [st |-> "published", seq |-> m.seq, blob |-> Remote])
        /\ UNCHANGED <<home, file, disk>>

\* What RecordOutcome writes over the current record, or nothing.
Recorded(r, outcome) ==
    IF \/ ~validRevocationPublicationRecord(outcome)
       \/ r.st = "published" \/ outcome.seq < r.seq
    THEN r ELSE outcome

\* An outcome that could not be recorded is told as pending, whatever it was.
RecordOutcome(g) ==
    /\ At(g, "record")
    /\ LET h == gen[g].h
           result == gen[g].result
           unsaved == Pending(result.seq, result.blob)
           next == Recorded(Disk(g).recs[h], result)
           c == [Disk(g) EXCEPT !.recs[h] = next]
       IN  \/ /\ Disk(g).key = gen[g].mem.key /\ disk' = [disk EXCEPT ![home[g]] = c]
              /\ UNCHANGED faults
              /\ Tell(g, h, IF next = result THEN result ELSE unsaved, c)
           \/ /\ Fault /\ UNCHANGED disk
              /\ Tell(g, h, unsaved, gen[g].mem)
    /\ UNCHANGED <<home, file>>

\* revokeLicense returns its row with ready, pending or failed.
ShowAnswer(g) ==
    /\ At(g, "answer")
    /\ Go(g, [NotStarted EXCEPT !.step = "idle", !.mem = gen[g].mem])
    /\ UNCHANGED <<home, file, disk, faults>>

\* A generator is closed, or dies with its publication on the way.
CloseGenerator(g) ==
    /\ ~At(g, "off") /\ Fault
    /\ Go(g, NotStarted)
    /\ UNCHANGED <<home, file, disk>>

PubNext ==
    \E g \in Generators :
        \/ newGeneratorServiceWithRevocation(g) \/ prepareRevocationPublisher(g)
        \/ ConfirmBackup(g) \/ (\E k \in Generators : RestoreBackup(g, k)) \/ FinishRestore(g)
        \/ (\E h \in RevHandles : RevokeLicense(g, h))
        \/ LoadAuthenticated(g) \/ initializeLocked(g) \/ CompareAndSwap(g)
        \/ verifyReadback(g) \/ RecordOutcome(g) \/ ShowAnswer(g) \/ CloseGenerator(g)

PubSpec == PubInit /\ [][PubNext]_pubVars

-----------------------------------------------------------------------------
(* Properties *)

PubTypeOK ==
    /\ home \in [Generators -> Machines]
    /\ \A i \in 1 .. Len(file) :
        file[i].key \in Generators /\ file[i].seq \in Nat /\ file[i].entries \subseteq RevHandles
    /\ disk \in [Machines -> Content] /\ gen \in [Generators -> GenRows]
    /\ faults \in 0 .. MaxRemoteFaults

\* The remote file, read without the keys, is a manifest log.
FileLog == [i \in 1 .. Len(file) |-> [seq |-> file[i].seq, entries |-> file[i].entries]]
History == INSTANCE ManifestLog WITH Handles <- RevHandles, log <- FileLog

\* Two generators, on one machine or on two, and every call that may be lost:
\* the manifests still form one history under one key.
OneHistory == History!LogSpec

OneKey == \A i \in 1 .. Len(file) : file[i].key = file[1].key

\* A record that says published is true: the licence is in the manifest of that
\* number and in every later one.  So the generator may stop retrying.
PublishedIsListed ==
    \A m \in Machines : \A h \in Published(disk[m]) :
        /\ disk[m].recs[h].blob \in 1 .. Len(file)
        /\ \A i \in disk[m].recs[h].blob .. Len(file) : h \in file[i].entries
        /\ file[disk[m].recs[h].blob].seq = disk[m].recs[h].seq

\* Everything about one state of a publication: types, one key, true records.
PubInv == PubTypeOK /\ OneKey /\ PublishedIsListed

\* What a generator shows as published is in the newest manifest and under the
\* key it holds; what a disk records as failed met a file under another key.
\* "Failed" is also told of what was refused before anything was sent
\* (RevokeLicense, PendingCanRetry): that is never recorded as a failure.
OutcomesAreTrue ==
    /\ \A g \in Generators : At(g, "answer") /\ gen[g].result.st = "published" =>
           gen[g].h \in file[Remote].entries /\ file[Remote].key = gen[g].mem.key
    /\ \A m \in Machines, h \in RevHandles :
           disk[m].recs[h].st = "failed" => Remote > 0 /\ file[Remote].key # disk[m].key

\* A publication that is pending can be tried again.
PendingCanRetry ==
    \A m \in Machines : \A h \in RevHandles :
        disk[m].recs[h].st = "pending" => validPreparedRevocation(disk[m], h)
============================================================================
