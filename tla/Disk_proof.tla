----------------------------- MODULE Disk_proof -----------------------------
(***************************************************************************)
(* Proofs about the parts of the program that the runs of MCDisk put side  *)
(* by side: the rate limit, for every number of callers, every setting,    *)
(* every window and every interval (OrderInv is inductive by itself,       *)
(* RateInv when the limit per minute does not change); the backups, for    *)
(* every number of accounts, of goroutines and of archives; and the first  *)
(* launch, for every number of processes and of secrets.                   *)
(***************************************************************************)
EXTENDS OutboundRate, Backup, Seed, FiniteSetTheorems, TLAPS

\* Sets of stamps are finite, so their sizes are numbers.
LEMMA StampsFinite ==
    ASSUME NEW S \in SUBSET (0..MaxClock)
    PROVE  IsFiniteSet(S) /\ Cardinality(S) \in Nat
<1>1. IsFiniteSet(0..MaxClock)
  BY FS_Interval, RateAssumption
<1>2. IsFiniteSet(S)
  BY <1>1, FS_Subset
<1>. QED
  BY <1>2, FS_CardinalityType

\* What reserve makes of saved settings: a positive limit within the cap, an
\* interval of at least two seconds.
LEMMA LimitsNormalised ==
    ASSUME NEW l \in Settings
    PROVE  /\ PerMinute(l) \in 1..MaxPerMinute
           /\ Interval(l) \in Int
           /\ Interval(l) >= MinInterval
<1>1. l.perMinute \in Int /\ l.interval \in Int
  BY RateAssumption DEF RateLimits
<1>. QED
  BY <1>1, RateAssumption DEF PerMinute, Interval

\* A fresh limiter satisfies the order invariant.
LEMMA OrderInit == Init => OrderInv
<1>. SUFFICES ASSUME Init PROVE OrderInv
  OBVIOUS
<1>1. TypeOK
  BY RateAssumption DEF Init, TypeOK, Waiting, Outside, Never
<1>. QED
  BY <1>1 DEF Init, OrderInv, GrantsInOrder, SpacingBound

\* A step grants at most one stamp, later than every earlier one.
LEMMA OrderNext == OrderInv /\ [Next]_vars => OrderInv'
<1>. SUFFICES ASSUME OrderInv, [Next]_vars PROVE OrderInv'
  OBVIOUS
<1>. USE DEF OrderInv
<1>1. ASSUME NEW c \in Callers, ReadClock(c) PROVE OrderInv'
  BY <1>1 DEF ReadClock, TypeOK, Waiting, GrantsInOrder, SpacingBound
<1>2. ASSUME NEW c \in Callers, Reserve(c) PROVE OrderInv'
  <2>. DEFINE read == caller[c].now
              l   == caller[c].limits
  <2>1. read \in 0..MaxClock /\ l \in Settings
    BY DEF TypeOK, Waiting
  <2>2. Interval(l) \in Int /\ Interval(l) >= MinInterval /\ MinInterval > 0
    BY <2>1, LimitsNormalised, RateAssumption
  <2>3. caller' \in [Callers -> Waiting]
    BY <1>2, RateAssumption DEF Reserve, TypeOK, Waiting, Outside
  <2>4. CASE TooSoon(read, l)
    BY <1>2, <2>3, <2>4 DEF Reserve, TypeOK, GrantsInOrder, SpacingBound
  <2>5. CASE ~TooSoon(read, l) /\ Full(read, l)
    BY <1>2, <2>3, <2>5 DEF Reserve, Kept, TypeOK, GrantsInOrder, SpacingBound
  <2>6. CASE ~TooSoon(read, l) /\ ~Full(read, l)
    <3>1. /\ history' = Kept(read) \cup {read} /\ last' = read
          /\ accepted' = accepted \cup {read}
          /\ UNCHANGED <<clock, settings>>
      BY <1>2, <2>6 DEF Reserve
    <3>2. TypeOK'
      BY <2>1, <2>3, <3>1 DEF TypeOK, Kept
    <3>3. \A s \in accepted : s \in Int /\ read - s >= MinInterval
      <4>1. CASE last = Never
        BY <4>1 DEF GrantsInOrder
      <4>2. CASE last # Never
        <5>1. read - last >= Interval(l) /\ last \in Int
          BY <4>2, <2>1, <2>2, <2>6 DEF TooSoon, TypeOK
        <5>. QED
          BY <4>2, <5>1, <2>1, <2>2, RateAssumption DEF GrantsInOrder, TypeOK
      <4>. QED
        BY <4>1, <4>2
    <3>4. read # Never
      BY <2>1 DEF Never
    <3>5. GrantsInOrder'
      BY <2>1, <2>2, <3>1, <3>3, <3>4, RateAssumption DEF GrantsInOrder, Kept
    <3>6. SpacingBound'
      BY <2>1, <2>2, <3>1, <3>3, RateAssumption DEF SpacingBound
    <3>. QED
      BY <3>2, <3>5, <3>6
  <2>. QED
    BY <2>4, <2>5, <2>6
<1>3. ASSUME NEW m \in Settings, Publish(m) PROVE OrderInv'
  BY <1>3 DEF Publish, TypeOK, GrantsInOrder, SpacingBound
<1>4. ASSUME NEW t \in 0..MaxClock, SetClock(t) PROVE OrderInv'
  BY <1>4 DEF SetClock, TypeOK, GrantsInOrder, SpacingBound
<1>5. CASE UNCHANGED vars
  BY <1>5 DEF vars, TypeOK, GrantsInOrder, SpacingBound
<1>. QED
  BY <1>1, <1>2, <1>3, <1>4, <1>5 DEF Next

\* The state of the limiter is well formed, grants come in the order of their
\* stamps and two grants are at least two seconds apart, in every run.
THEOREM RateOrder == Spec => []OrderInv
<1>. QED
  BY OrderInit, OrderNext, PTL DEF Spec

\* README: "at least two seconds between sends".
THEOREM RateSpacing == Spec => []SpacingBound
<1>1. OrderInv => SpacingBound
  BY DEF OrderInv
<1>. QED
  BY <1>1, RateOrder, PTL

\* A minute after its last grant Outbound.reserve grants again, whatever was
\* saved, refused or set back in between.
THEOREM RateNeverJams == Spec => []NeverJams
<1>1. OrderInv => NeverJams
  <2>. SUFFICES ASSUME OrderInv,
                       NEW read \in 0..MaxClock, NEW l \in Settings,
                       \/ last = Never
                       \/ read >= last + Window /\ read >= last + Interval(l)
                PROVE  ~TooSoon(read, l) /\ ~Full(read, l)
    BY DEF NeverJams
  <2>1. ~TooSoon(read, l)
    BY LimitsNormalised DEF TooSoon, OrderInv, TypeOK
  <2>2. Kept(read) = {}
    <3>1. CASE last = Never
      BY <3>1 DEF Kept, OrderInv, GrantsInOrder
    <3>2. CASE last # Never
      <4>1. last \in Int /\ Window \in Int /\ last <= read - Window
        BY <3>2, RateAssumption DEF OrderInv, TypeOK
      <4>2. \A s \in history : s \in Int /\ s <= last
        BY <3>2 DEF OrderInv, GrantsInOrder, TypeOK
      <4>. QED
        BY <4>1, <4>2 DEF Kept
    <3>. QED
      BY <3>1, <3>2
  <2>3. ~Full(read, l)
    BY <2>2, FS_EmptySet, LimitsNormalised DEF Full
  <2>. QED
    BY <2>1, <2>3
<1>. QED
  BY <1>1, RateOrder, PTL

\* A fresh limiter satisfies the rate invariant.
LEMMA RateInit == Init => RateInv
<1>. SUFFICES ASSUME Init PROVE RateInv
  OBVIOUS
<1>. QED
  BY OrderInit DEF Init, RateInv, HistoryCovers, MinuteBound

\* The step that matters is Reserve.  Pruning for a clock that is ahead keeps
\* history full for every earlier clock; a grant finds the whole minute in
\* history, so it is the 19th at most.
LEMMA RateNext == SameLimit /\ RateInv /\ [Next]_vars => RateInv'
<1>. SUFFICES ASSUME SameLimit, RateInv, [Next]_vars PROVE RateInv'
  OBVIOUS
<1>0. OrderInv' /\ OrderInv
  BY OrderNext DEF RateInv
<1>1. ASSUME UNCHANGED <<last, history, accepted>>
      PROVE  HistoryCovers' /\ MinuteBound'
  BY <1>1 DEF RateInv, HistoryCovers, MinuteBound, MinuteOf, Full, Kept
<1>2. ASSUME NEW c \in Callers, Reserve(c) PROVE HistoryCovers' /\ MinuteBound'
  <2>1. PICK read \in 0..MaxClock, l \in Settings :
            read = caller[c].now /\ l = caller[c].limits
    BY <1>0 DEF OrderInv, TypeOK, Waiting
  <2>2. CASE TooSoon(read, l)
    BY <1>1, <1>2, <2>1, <2>2 DEF Reserve
  <2>3. ASSUME ~TooSoon(read, l), Full(read, l)
        PROVE  HistoryCovers' /\ MinuteBound'
    <3>1. history' = Kept(read) /\ UNCHANGED <<last, accepted>>
      BY <1>2, <2>1, <2>3 DEF Reserve
    <3>2. MinuteBound'
      BY <3>1 DEF RateInv, MinuteBound, MinuteOf
    <3>3. ASSUME NEW t \in 0..MaxClock, NEW m \in Settings, t >= last
          PROVE  \/ Full(t, m)'
                 \/ \A s \in accepted : s > t - Window => s \in history'
      <4>1. history \subseteq 0..MaxClock /\ accepted \subseteq 0..MaxClock
            /\ Window \in Int
        BY <1>0, RateAssumption DEF OrderInv, TypeOK
      <4>2. CASE t < read
        <5>0. \A s \in history : s > read - Window => s > t - Window
          BY <4>1, <4>2, RateAssumption
        <5>1. {s \in history' : s > t - Window} = Kept(read)
          BY <3>1, <5>0 DEF Kept
        <5>2. Full(t, m)' = (Cardinality(Kept(read)) >= PerMinute(m))
          BY <5>1 DEF Full, Kept, PerMinute
        <5>. QED
          BY <2>1, <2>3, <5>2 DEF Full, SameLimit
      <4>3. CASE t >= read
        <5>0. \A s \in history : s > t - Window => s > read - Window
          BY <4>1, <4>3, RateAssumption
        <5>1. {s \in history' : s > t - Window} = Kept(t)
          BY <3>1, <5>0 DEF Kept
        <5>2. Full(t, m)' = Full(t, m)
          BY <5>1 DEF Full, Kept, PerMinute
        <5>3. Full(t, m) \/ \A s \in accepted : s > t - Window => s \in history
          BY <3>3 DEF RateInv, HistoryCovers
        <5>4. \A s \in accepted : s > t - Window => s > read - Window
          <6>1. read \in Int /\ t \in Int
            BY <2>1, RateAssumption
          <6>2. \A s \in 0..MaxClock : s > t - Window => s > read - Window
            BY <4>1, <4>3, <6>1, RateAssumption
          <6>. QED
            BY <4>1, <6>2
        <5>. QED
          BY <3>1, <5>2, <5>3, <5>4 DEF Kept
      <4>. QED
        BY <2>1, <4>2, <4>3
    <3>4. HistoryCovers'
      BY <3>1, <3>3 DEF HistoryCovers
    <3>. QED
      BY <3>2, <3>4
  <2>4. ASSUME ~TooSoon(read, l), ~Full(read, l)
        PROVE  HistoryCovers' /\ MinuteBound'
    <3>1. /\ history' = Kept(read) \cup {read} /\ last' = read
          /\ accepted' = accepted \cup {read}
      BY <1>2, <2>1, <2>4 DEF Reserve
    <3>2. /\ history \subseteq 0..MaxClock /\ accepted \subseteq 0..MaxClock
          /\ Window \in Nat /\ Window > 0 /\ MinInterval \in Nat /\ MinInterval > 0
      BY <1>0, RateAssumption DEF OrderInv, TypeOK
    <3>3. \A s \in accepted : s < read
      <4>1. CASE last = Never
        BY <4>1, <1>0 DEF OrderInv, GrantsInOrder
      <4>2. CASE last # Never
        <5>1. Interval(l) \in Int /\ Interval(l) >= MinInterval
          BY <2>1, LimitsNormalised
        <5>2. last \in Int /\ last < read
          BY <1>0, <2>1, <2>4, <3>2, <4>2, <5>1 DEF TooSoon, OrderInv, TypeOK
        <5>. QED
          BY <1>0, <2>1, <3>2, <4>2, <5>2 DEF OrderInv, GrantsInOrder
      <4>. QED
        BY <4>1, <4>2
    <3>4. read >= last
      BY <1>0, <2>1, <3>3 DEF OrderInv, GrantsInOrder, TypeOK, Never
    <3>5. \A s \in accepted : s > read - Window => s \in Kept(read)
      BY <2>1, <2>4, <3>4 DEF RateInv, HistoryCovers, Kept
    <3>6. HistoryCovers'
      <4>. SUFFICES ASSUME NEW t \in 0..MaxClock, t >= read, NEW s \in accepted',
                           s > t - Window
                    PROVE  s \in history'
        BY <3>1 DEF HistoryCovers
      <4>. QED
        BY <2>1, <3>1, <3>2, <3>5
    <3>7. MinuteOf(read)' \subseteq Kept(read) \cup {read}
      BY <3>1, <3>5 DEF MinuteOf
    <3>8. Cardinality(MinuteOf(read)') <= MaxPerMinute
      <4>0. read \notin accepted
        BY <3>3
      <4>1. Kept(read) \subseteq 0..MaxClock /\ read \notin Kept(read)
        BY <1>0, <3>2, <4>0 DEF Kept, OrderInv, GrantsInOrder
      <4>2. IsFiniteSet(Kept(read)) /\ Cardinality(Kept(read)) \in Nat
        BY <4>1, StampsFinite
      <4>3. /\ IsFiniteSet(Kept(read) \cup {read})
            /\ Cardinality(Kept(read) \cup {read}) = Cardinality(Kept(read)) + 1
        BY <4>1, <4>2, FS_AddElement
      <4>4. PerMinute(l) \in 1..MaxPerMinute
        BY <2>1, LimitsNormalised
      <4>5. Cardinality(Kept(read)) < PerMinute(l)
        BY <2>4, <4>2, <4>4 DEF Full
      <4>6. /\ Cardinality(MinuteOf(read)') <= Cardinality(Kept(read) \cup {read})
            /\ MinuteOf(read)' \subseteq 0..MaxClock
        BY <2>1, <3>7, <4>1, <4>3, FS_Subset
      <4>7. Cardinality(MinuteOf(read)') \in Nat
        BY <4>6, StampsFinite
      <4>. QED
        BY <4>2, <4>3, <4>4, <4>5, <4>6, <4>7, RateAssumption
    <3>9. \A t \in accepted : MinuteOf(t)' = MinuteOf(t)
      BY <2>1, <3>1, <3>2, <3>3 DEF MinuteOf
    <3>10. MinuteBound'
      <4>. SUFFICES ASSUME NEW t \in accepted'
                    PROVE  Cardinality(MinuteOf(t)') <= MaxPerMinute
        BY DEF MinuteBound
      <4>1. CASE t = read
        BY <4>1, <3>8
      <4>2. CASE t \in accepted
        BY <4>2, <3>9 DEF RateInv, MinuteBound
      <4>. QED
        BY <3>1, <4>1, <4>2
    <3>. QED
      BY <3>6, <3>10
  <2>. QED
    BY <2>2, <2>3, <2>4
<1>3. \/ \E c \in Callers : Reserve(c)
      \/ UNCHANGED <<last, history, accepted>>
  BY DEF Next, ReadClock, Publish, SetClock, vars
<1>. QED
  BY <1>0, <1>1, <1>2, <1>3 DEF RateInv

\* The grants come in order, two seconds apart, the stored history covers the
\* last minute, and no minute holds more grants than the limit, as long as
\* every published setting comes to the same limit per minute.
THEOREM RateInvariant == SameLimit => (Spec => []RateInv)
<1>. SUFFICES ASSUME SameLimit PROVE Spec => []RateInv
  OBVIOUS
<1>1. RateInv /\ [Next]_vars => RateInv'
  BY RateNext
<1>. QED
  BY <1>1, RateInit, PTL DEF Spec

\* README: "enforces at most 19 messages per minute".  It holds while every
\* published setting comes to the same limit per minute, however the interval
\* changes, whatever the callers read and wherever the clock is set.
THEOREM RateMinute == SameLimit => (Spec => []MinuteBound)
<1>. SUFFICES ASSUME SameLimit PROVE Spec => []MinuteBound
  OBVIOUS
<1>1. Spec => []RateInv
  BY RateInvariant
<1>2. RateInv => MinuteBound
  BY DEF RateInv
<1>. QED
  BY <1>1, <1>2, PTL

(***************************************************************************)
(* Backups.                                                                *)
(***************************************************************************)
\* A creation that has not published its archive yet.
MakingRow(d) == d.step \notin {"rest", "list", "sort", "rotate"}
Making(c) == MakingRow(creator[c])

\* The readable archives of its kind that are newer than i.
NewerGood(i) == {j \in OnDisk(archive[i].kind) : verifyArchive(j) /\ Newer(j, i)}
Spare(i) == Cardinality(NewerGood(i)) >= Retention(archive[i].kind)

\* What a creator may rely on at each of its steps.
CreatorOK(c) ==
    /\ creator[c].step = "rest" <=> creator[c].id = 0
    /\ Making(c) => archive[creator[c].id].state = "temp"
    /\ creator[c].step \in {"list", "sort", "rotate"} =>
          archive[creator[c].id].state \in {"disk", "gone"}
    /\ creator[c].step \in {"sort", "rotate"} =>
          /\ archive[creator[c].id].kind # "premigration"
          /\ \A i \in creator[c].view :
                /\ archive[i].state \in {"disk", "gone"}
                /\ archive[i].kind = archive[creator[c].id].kind
    /\ creator[c].step = "rotate" =>
          \A i \in creator[c].view : archive[i].state = "disk" => Spare(i)
    /\ creator[c].step = "publish" => archive[creator[c].id].health # "damaged"
    /\ creator[c].step \in {"database", "barrier"} => creator[c].copied = {}
    /\ creator[c].step = "sessions" =>
          gate = c /\ \A p \in creator[c].copied : p[2] = session[p[1]]

\* Every hidden archive has one creator, and a published one was verified.
WorkOK ==
    /\ \A c, k \in Creators : Making(c) /\ Making(k) /\ creator[c].id = creator[k].id => c = k
    /\ \A i \in Ids : archive[i].state = "temp" => \E c \in Creators : Making(c) /\ creator[c].id = i
    /\ \A i \in Ids : archive[i].state = "disk" => archive[i].health # "damaged"

\* The start of the program on its way to an upgrade.
StartupOK ==
    /\ program = "backing" <=> creator["startup"].step # "rest"
    /\ program \in {"backing", "backed", "upgrading"} => schema < MaxSchema
    /\ creator["startup"].step # "rest" => archive[creator["startup"].id].kind = "premigration"
    /\ creator["startup"].step \notin {"rest", "database"} =>
          archive[creator["startup"].id].schema = schema
    /\ creator["startup"].step = "list" => archive[creator["startup"].id].state = "disk"
    /\ program = "backed" =>
          schema = 0 \/ \E i \in OnDisk("premigration") : archive[i].schema = schema

\* The inductive invariant of the backups.
BackupInd ==
    /\ BackupTypeOK /\ WorkOK /\ StartupOK /\ UpgradeHasBackup
    /\ \A c \in Creators : CreatorOK(c)

-----------------------------------------------------------------------------
\* What the invariant says of the types.
LEMMA BackupFacts ==
    ASSUME BackupInd
    PROVE  /\ archive \in [Ids -> Archives] /\ creator \in [Creators -> CreatorRows]
           /\ schema \in 0 .. MaxSchema /\ session \in Versions /\ gate \in Creators \cup {"free"}
           /\ upgraded \subseteq 0 .. MaxSchema
           /\ now \in 0 .. MaxNow /\ trouble \in 0 .. MaxTroubles
           /\ program \in {"closed", "backing", "backed", "upgrading", "open"}
           /\ \A c \in Creators : CreatorOK(c) /\ creator[c].id \in Ids \cup {0}
           /\ 0 \notin Ids /\ Ids \subseteq Nat
<1>1. BackupTypeOK
  BY DEF BackupInd
<1>2. \A c \in Creators : creator[c].id \in Ids \cup {0}
  BY <1>1 DEF BackupTypeOK, CreatorRows
<1>3. 0 \notin Ids /\ Ids \subseteq Nat
  BY BackupAssumption
<1> QED BY <1>1, <1>2, <1>3 DEF BackupInd, BackupTypeOK

\* A creator that works has an archive.
LEMMA WorkerHasId ==
    ASSUME BackupInd, NEW c \in Creators, creator[c].step # "rest"
    PROVE  creator[c].id \in Ids
<1>1. CreatorOK(c) /\ creator[c].id \in Ids \cup {0}
  BY BackupFacts
<1> QED BY <1>1 DEF CreatorOK

\* A set of archives that grows keeps its size.
LEMMA MoreArchives ==
    ASSUME NEW S \in SUBSET Ids, NEW T \in SUBSET Ids, S \subseteq T, NEW n \in Nat, Cardinality(S) >= n
    PROVE  Cardinality(T) >= n
<1>1. IsFiniteSet(S) /\ IsFiniteSet(T)
  BY BackupAssumption, FS_Subset
<1>2. Cardinality(S) \in Nat /\ Cardinality(T) \in Nat /\ Cardinality(S) <= Cardinality(T)
  BY <1>1, FS_CardinalityType, FS_Subset
<1> QED BY <1>2

\* The numbers to keep are numbers.
LEMMA RetentionNat ==
    ASSUME NEW kind
    PROVE  Retention(kind) \in Nat
BY BackupAssumption DEF Retention

\* Archives of the disk are ordered by their time, then their identifier.
LEMMA NewerOrder ==
    ASSUME BackupInd, NEW i \in Ids, NEW j \in Ids, NEW k \in Ids
    PROVE  /\ ~Newer(i, i)
           /\ i # j => Newer(i, j) \/ Newer(j, i)
           /\ ~(Newer(i, j) /\ Newer(j, i))
           /\ Newer(i, j) /\ Newer(j, k) => Newer(i, k)
<1>1. \A x \in Ids : archive[x].at \in 0 .. MaxNow
  BY BackupFacts DEF Archives
<1>2. archive[i].at \in Nat /\ archive[j].at \in Nat /\ archive[k].at \in Nat
  BY <1>1, BackupAssumption
<1>3. i \in Nat /\ j \in Nat /\ k \in Nat
  BY BackupFacts
<1> QED BY <1>2, <1>3 DEF Newer

\* A rotation removes an archive that others can spare.
Removed(i) ==
    /\ archive[i].state = "disk" /\ archive'[i].state = "gone"
    /\ archive'[i].kind = archive[i].kind /\ archive[i].kind # "premigration" /\ Spare(i)

\* What a step does to the archives: the work on one that is not on the disk, or
\* the removal of one.
ArchivesMove ==
    /\ archive' \in [Ids -> Archives]
    /\ \A i \in Ids : \/ archive'[i] = archive[i]
                      \/ archive[i].state \in {"unused", "temp"}
                      \/ Removed(i)
    /\ \A i, j \in Ids : Removed(i) /\ Removed(j) => i = j

\* Such a step leaves an archive that has enough newer ones enough newer ones.
LEMMA SpareKept ==
    ASSUME BackupInd, ArchivesMove, NEW i \in Ids, archive[i].state = "disk",
           archive'[i].state = "disk", Spare(i)
    PROVE  Spare(i)'
<1>1. archive'[i] = archive[i]
  BY DEF ArchivesMove, Removed
<1>2. NewerGood(i) \in SUBSET Ids /\ NewerGood(i)' \in SUBSET Ids
  BY DEF NewerGood, OnDisk
<1>3. PICK n \in Nat : n = Retention(archive[i].kind)
  BY RetentionNat
<1>4. ASSUME NEW j \in Ids, archive[j].state = "disk", archive'[j] # archive[j] PROVE Removed(j)
  BY <1>4 DEF ArchivesMove
<1>5. ASSUME NEW j \in NewerGood(i), archive'[j] = archive[j] PROVE j \in NewerGood(i)'
  BY <1>1, <1>5 DEF NewerGood, OnDisk, verifyArchive, Newer
<1>6. CASE \A j \in NewerGood(i) : archive'[j] = archive[j]
  <2>1. NewerGood(i) \subseteq NewerGood(i)'
    BY <1>5, <1>6
  <2>2. Cardinality(NewerGood(i)) >= n
    BY <1>3 DEF Spare
  <2>3. Cardinality(NewerGood(i)') >= n
    BY <1>2, <2>1, <2>2, MoreArchives
  <2> QED BY <1>1, <1>3, <2>3 DEF Spare
<1>7. CASE \E r \in NewerGood(i) : archive'[r] # archive[r]
  <2>1. PICK r \in NewerGood(i) : archive'[r] # archive[r]
    BY <1>7
  <2>2. /\ r \in Ids /\ archive[r].state = "disk" /\ archive[r].kind = archive[i].kind
        /\ Newer(r, i) /\ Removed(r)
    BY <1>4, <2>1 DEF NewerGood, OnDisk
  <2>3. ASSUME NEW j \in NewerGood(r) PROVE j \in NewerGood(i)'
    <3>1. j \in Ids /\ archive[j].state = "disk" /\ Newer(j, r) /\ j # r
      BY <2>2, <2>3, NewerOrder DEF NewerGood, OnDisk
    <3>2. archive'[j] = archive[j]
      BY <1>4, <2>2, <3>1 DEF ArchivesMove
    <3>3. j \in NewerGood(i)
      BY <2>2, <2>3, <3>1, NewerOrder DEF NewerGood, OnDisk
    <3> QED BY <1>5, <3>2, <3>3
  <2>4. Cardinality(NewerGood(r)) >= n /\ NewerGood(r) \in SUBSET Ids
    BY <1>3, <2>2 DEF Removed, Spare, NewerGood, OnDisk
  <2>5. Cardinality(NewerGood(i)') >= n
    BY <1>2, <2>3, <2>4, MoreArchives
  <2> QED BY <1>1, <1>3, <2>5 DEF Spare
<1> QED BY <1>6, <1>7

\* A creator that a step leaves alone may rely on what it relied on.
LEMMA OtherCreatorKept ==
    ASSUME BackupInd, ArchivesMove, NEW k \in Creators, creator'[k] = creator[k],
           Making(k) => archive'[creator[k].id] = archive[creator[k].id],
           creator[k].step = "sessions" => gate' = gate /\ session' = session
    PROVE  CreatorOK(k)'
<1>1. PICK d \in CreatorRows : d = creator[k]
  BY BackupFacts
<1>2. CreatorOK(k) /\ d.view \subseteq Ids
  BY <1>1, BackupFacts DEF CreatorRows
<1>3. ASSUME NEW i \in Ids, archive[i].state \in {"disk", "gone"}
      PROVE  archive'[i].state \in {"disk", "gone"} /\ archive'[i].kind = archive[i].kind
  BY <1>3 DEF ArchivesMove, Removed
<1>4. ASSUME d.step \in {"list", "sort", "rotate"}
      PROVE  /\ archive'[d.id].state \in {"disk", "gone"}
             /\ archive'[d.id].kind = archive[d.id].kind
  <2>1. d.id \in Ids
    BY <1>1, <1>4, WorkerHasId
  <2> QED BY <1>1, <1>2, <1>3, <1>4, <2>1 DEF CreatorOK
<1>5. ASSUME d.step \in {"sort", "rotate"}, NEW i \in d.view
      PROVE  /\ archive'[i].state \in {"disk", "gone"}
             /\ archive'[i].kind = archive'[d.id].kind
  <2>1. /\ archive[i].state \in {"disk", "gone"} /\ archive[i].kind = archive[d.id].kind
    BY <1>1, <1>2, <1>5 DEF CreatorOK
  <2> QED BY <1>2, <1>3, <1>4, <1>5, <2>1
<1>6. ASSUME d.step = "rotate", NEW i \in d.view, archive'[i].state = "disk"
      PROVE  Spare(i)'
  <2>1. archive[i].state \in {"disk", "gone"}
    BY <1>1, <1>2, <1>6 DEF CreatorOK
  <2>2. archive[i].state = "disk"
    BY <1>2, <1>6, <2>1 DEF ArchivesMove, Removed
  <2>3. Spare(i)
    BY <1>1, <1>2, <1>6, <2>2 DEF CreatorOK
  <2> QED BY <1>2, <1>6, <2>2, <2>3, SpareKept
<1>7. Making(k) => archive'[d.id].state = "temp"
  BY <1>1, <1>2 DEF CreatorOK
<1>8. d.step = "publish" => archive'[d.id].health # "damaged"
  BY <1>1, <1>2 DEF CreatorOK, Making, MakingRow
<1>9. d.step = "sessions" => gate' = k /\ \A p \in d.copied : p[2] = session'[p[1]]
  BY <1>1, <1>2 DEF CreatorOK
<1>10. d.step \in {"sort", "rotate"} => archive'[d.id].kind # "premigration"
  BY <1>1, <1>2, <1>4 DEF CreatorOK
<1>11. /\ d.step = "rest" <=> d.id = 0
       /\ d.step \in {"database", "barrier"} => d.copied = {}
       /\ creator'[k] = d
  BY <1>1, <1>2 DEF CreatorOK
<1>12. Making(k) <=> MakingRow(d)
  BY <1>1 DEF Making
<1> QED BY <1>4, <1>5, <1>6, <1>7, <1>8, <1>9, <1>10, <1>11, <1>12 DEF CreatorOK, Making

\* A step of one creator.
LEMMA OneCreatorMoves ==
    ASSUME BackupInd, ArchivesMove, NEW c \in Creators, NEW d \in CreatorRows,
           creator' = [creator EXCEPT ![c] = d],
           \A i \in Ids : archive'[i] # archive[i] =>
              /\ archive[i].state = "temp" => Making(c) /\ i = creator[c].id
              /\ archive[i].state = "unused" => MakingRow(d) /\ i = d.id
              /\ archive'[i].state = "disk" => archive'[i].health # "damaged",
           \A k \in Creators \ {c} : creator[k].step = "sessions" => gate' = gate /\ session' = session,
           MakingRow(d) => \/ Making(c) /\ d.id = creator[c].id
                           \/ d.id \in Ids /\ archive[d.id].state = "unused",
           Making(c) => \/ MakingRow(d) /\ d.id = creator[c].id
                        \/ archive'[creator[c].id].state # "temp",
           CreatorOK(c)'
    PROVE  WorkOK' /\ \A k \in Creators : CreatorOK(k)'
<1>1. /\ creator \in [Creators -> CreatorRows] /\ archive \in [Ids -> Archives]
      /\ WorkOK /\ \A k \in Creators : CreatorOK(k)
  BY BackupFacts DEF BackupInd
<1>2. creator'[c] = d /\ \A k \in Creators \ {c} : creator'[k] = creator[k]
  BY <1>1
<1>3. \A k \in Creators \ {c} : Making(k)' <=> Making(k)
  BY <1>2 DEF Making
<1>4. Making(c)' <=> MakingRow(d)
  BY <1>2 DEF Making
<1>5. ASSUME NEW k \in Creators, Making(k) PROVE creator[k].id \in Ids /\ archive[creator[k].id].state = "temp"
  <2>1. creator[k].step # "rest" /\ CreatorOK(k)
    BY <1>1, <1>5 DEF Making, MakingRow
  <2> QED BY <1>5, <2>1, WorkerHasId DEF CreatorOK
<1>6. ASSUME NEW k \in Creators \ {c} PROVE CreatorOK(k)'
  <2>1. Making(k) => archive'[creator[k].id] = archive[creator[k].id]
    BY <1>1, <1>5, <1>6 DEF WorkOK
  <2> QED BY <1>2, <1>6, <2>1, OtherCreatorKept
<1>7. \A k, l \in Creators : Making(k)' /\ Making(l)' /\ creator'[k].id = creator'[l].id => k = l
  <2>1. ASSUME NEW k \in Creators \ {c}, MakingRow(d), Making(k), d.id = creator[k].id PROVE FALSE
    <3>1. CASE Making(c) /\ d.id = creator[c].id
      BY <1>1, <2>1, <3>1 DEF WorkOK
    <3>2. CASE archive[d.id].state = "unused"
      BY <1>5, <2>1, <3>2
    <3> QED BY <2>1, <3>1, <3>2
  <2> QED BY <1>1, <1>2, <1>3, <1>4, <2>1 DEF WorkOK
<1>8. ASSUME NEW i \in Ids, archive'[i].state = "temp"
      PROVE  \E k \in Creators : Making(k)' /\ creator'[k].id = i
  <2>1. CASE archive[i].state = "temp"
    <3>1. PICK k \in Creators : Making(k) /\ creator[k].id = i
      BY <1>1, <2>1 DEF WorkOK
    <3>2. CASE k = c
      BY <1>2, <1>4, <1>8, <3>1, <3>2
    <3>3. CASE k # c
      BY <1>2, <1>3, <3>1, <3>3
    <3> QED BY <3>2, <3>3
  <2>2. CASE archive[i].state # "temp"
    <3>1. archive'[i] # archive[i] /\ archive[i].state = "unused"
      BY <1>8, <2>2 DEF ArchivesMove, Removed
    <3> QED BY <1>2, <1>4, <3>1
  <2> QED BY <2>1, <2>2
<1>9. \A i \in Ids : archive'[i].state = "disk" => archive'[i].health # "damaged"
  BY <1>1 DEF WorkOK
<1>10. WorkOK'
  BY <1>7, <1>8, <1>9 DEF WorkOK
<1> QED BY <1>6, <1>10

\* The part of the invariant that only the start of the program makes true, when a
\* step has nothing to do with the start.
LEMMA StartupKept ==
    ASSUME BackupInd, ArchivesMove, UNCHANGED <<schema, program, upgraded>>,
           creator'["startup"] = creator["startup"],
           creator["startup"].step # "rest" =>
               archive'[creator["startup"].id] = archive[creator["startup"].id]
    PROVE  StartupOK' /\ UpgradeHasBackup'
<1>1. \A i \in OnDisk("premigration") : archive'[i] = archive[i] /\ i \in OnDisk("premigration")'
  BY DEF ArchivesMove, Removed, OnDisk
<1>2. ASSUME NEW v, \E i \in OnDisk("premigration") : archive[i].schema = v
      PROVE  \E i \in OnDisk("premigration")' : archive'[i].schema = v
  BY <1>1, <1>2
<1>3. UpgradeHasBackup'
  BY <1>2 DEF BackupInd, UpgradeHasBackup
<1>4. StartupOK /\ UNCHANGED <<schema, program>>
  BY DEF BackupInd
<1>5. program = "backed" => schema = 0 \/ \E i \in OnDisk("premigration")' : archive'[i].schema = schema
  BY <1>2, <1>4 DEF StartupOK
<1>6. StartupOK'
  BY <1>4, <1>5 DEF StartupOK
<1> QED BY <1>3, <1>6

\* The creator of the start is not among those that rotate, and its archive, once
\* on the disk, is one that no rotation removes.
LEMMA StartupArchive ==
    ASSUME BackupInd, ArchivesMove, creator["startup"].step # "rest",
           Making("startup") => archive'[creator["startup"].id] = archive[creator["startup"].id]
    PROVE  /\ archive'[creator["startup"].id] = archive[creator["startup"].id]
           /\ creator["startup"].step \notin {"sort", "rotate"}
<1>1. "startup" \in Creators
  BY DEF Creators
<1>2. PICK i \in Ids : i = creator["startup"].id
  BY <1>1, WorkerHasId
<1>3. archive[i].kind = "premigration" /\ CreatorOK("startup") /\ StartupOK
  BY <1>1, <1>2, BackupFacts DEF BackupInd, StartupOK
<1>4. creator["startup"].step \notin {"sort", "rotate"}
  BY <1>2, <1>3 DEF CreatorOK
<1>5. CASE Making("startup")
  BY <1>4, <1>5
<1>6. CASE creator["startup"].step = "list"
  <2>1. archive[i].state = "disk"
    BY <1>2, <1>3, <1>6 DEF StartupOK
  <2>2. archive'[i] = archive[i]
    BY <1>3, <2>1 DEF ArchivesMove, Removed
  <2> QED BY <1>2, <1>4, <2>2
<1> QED BY <1>4, <1>5, <1>6 DEF Making, MakingRow

\* The step of one creator, with the row it goes on with.
CreatorMoves(c, d) ==
    /\ ArchivesMove /\ creator' = [creator EXCEPT ![c] = d]
    /\ \A i \in Ids : archive'[i] # archive[i] =>
          /\ archive[i].state = "temp" => Making(c) /\ i = creator[c].id
          /\ archive[i].state = "unused" => MakingRow(d) /\ i = d.id
          /\ archive'[i].state = "disk" => archive'[i].health # "damaged"
    /\ \A k \in Creators \ {c} : creator[k].step = "sessions" => gate' = gate
    /\ MakingRow(d) => \/ Making(c) /\ d.id = creator[c].id
                       \/ d.id \in Ids /\ archive[d.id].state = "unused"
    /\ Making(c) => \/ MakingRow(d) /\ d.id = creator[c].id
                    \/ archive'[creator[c].id].state # "temp"
    /\ CreatorOK(c)'
    /\ UNCHANGED <<schema, session, upgraded, now>>
    /\ gate' \in Creators \cup {"free"} /\ trouble' \in 0 .. MaxTroubles

\* It keeps the invariant when it leaves the start of the program alone, or is the
\* start and keeps its part.
LEMMA CloseStep ==
    ASSUME BackupInd, NEW c \in Creators, NEW d \in CreatorRows, CreatorMoves(c, d),
           program' \in {"closed", "backing", "backed", "upgrading", "open"},
           IF c = "startup" THEN StartupOK' ELSE program' = program
    PROVE  BackupInd'
<1>1. WorkOK' /\ \A k \in Creators : CreatorOK(k)'
  BY OneCreatorMoves DEF CreatorMoves
<1>2. BackupTypeOK'
  BY BackupFacts DEF CreatorMoves, ArchivesMove, BackupTypeOK
<1>3. UpgradeHasBackup'
  <2>1. \A i \in OnDisk("premigration") : archive'[i] = archive[i] /\ i \in OnDisk("premigration")'
    BY DEF CreatorMoves, ArchivesMove, Removed, OnDisk
  <2> QED BY <2>1 DEF BackupInd, UpgradeHasBackup, CreatorMoves
<1>4. StartupOK'
  <2>1. CASE c = "startup"
    BY <2>1
  <2>2. CASE c # "startup"
    <3>1. /\ "startup" \in Creators /\ creator'["startup"] = creator["startup"]
          /\ ArchivesMove /\ UNCHANGED <<schema, program, upgraded>>
      BY <2>2, BackupFacts DEF CreatorMoves, Creators
    <3>2. Making("startup") => archive'[creator["startup"].id] = archive[creator["startup"].id]
      <4>1. ASSUME Making("startup") PROVE archive'[creator["startup"].id] = archive[creator["startup"].id]
        <5>1. PICK i \in Ids : i = creator["startup"].id
          BY <3>1, <4>1, WorkerHasId DEF Making, MakingRow
        <5>2. archive[i].state = "temp"
          BY <3>1, <4>1, <5>1, BackupFacts DEF CreatorOK
        <5>3. ~(Making(c) /\ i = creator[c].id)
          BY <2>2, <3>1, <4>1, <5>1 DEF BackupInd, WorkOK
        <5> QED BY <5>1, <5>2, <5>3 DEF CreatorMoves
      <4> QED BY <4>1
    <3>3. creator["startup"].step # "rest" =>
             archive'[creator["startup"].id] = archive[creator["startup"].id]
      BY <3>1, <3>2, StartupArchive
    <3> QED BY <3>1, <3>3, StartupKept
  <2> QED BY <2>1, <2>2
<1> QED BY <1>1, <1>2, <1>3, <1>4 DEF BackupInd

\* Work on the hidden archive of a creation.
LEMMA WorkStep ==
    ASSUME BackupInd, NEW c \in Creators, Making(c), NEW d \in CreatorRows, NEW new \in Archives,
           creator' = [creator EXCEPT ![c] = d],
           archive' = [archive EXCEPT ![creator[c].id] = new],
           MakingRow(d), d.id = creator[c].id, new.state = "temp",
           new.kind = archive[creator[c].id].kind,
           c = "startup" => new.schema = schema,
           d.step = "publish" => new.health # "damaged",
           d.step \in {"database", "barrier"} => d.copied = {},
           d.step = "sessions" => gate' = c /\ \A p \in d.copied : p[2] = session[p[1]],
           \A k \in Creators \ {c} : creator[k].step = "sessions" => gate' = gate,
           gate' \in Creators \cup {"free"}, trouble' \in 0 .. MaxTroubles,
           UNCHANGED <<schema, session, program, upgraded, now>>
    PROVE  BackupInd'
<1>1. PICK i \in Ids : i = creator[c].id
  BY WorkerHasId DEF Making, MakingRow
<1>2. archive \in [Ids -> Archives] /\ creator \in [Creators -> CreatorRows] /\ 0 \notin Ids
  BY BackupFacts
<1>3. archive[i].state = "temp"
  BY <1>1, BackupFacts DEF CreatorOK
<1>4. /\ archive'[i] = new /\ \A j \in Ids \ {i} : archive'[j] = archive[j]
      /\ archive' \in [Ids -> Archives] /\ creator'[c] = d
  BY <1>1, <1>2
<1>5. ArchivesMove
  BY <1>3, <1>4 DEF ArchivesMove, Removed
<1>6. CreatorOK(c)'
  BY <1>1, <1>2, <1>4 DEF CreatorOK, Making, MakingRow
<1>7. CreatorMoves(c, d)
  BY <1>1, <1>3, <1>4, <1>5, <1>6 DEF CreatorMoves
<1>8. program' \in {"closed", "backing", "backed", "upgrading", "open"}
  BY BackupFacts
<1>9. ASSUME c = "startup" PROVE StartupOK'
  <2>1. StartupOK /\ program = "backing"
    BY <1>9 DEF BackupInd, StartupOK, Making, MakingRow
  <2>2. /\ creator'["startup"] = d /\ d.step \notin {"rest", "list"}
        /\ archive'[d.id].kind = "premigration" /\ archive'[d.id].schema = schema
    BY <1>1, <1>4, <1>9, <2>1 DEF StartupOK, MakingRow, Making
  <2> QED BY <2>1, <2>2 DEF StartupOK
<1> QED BY <1>7, <1>8, <1>9, CloseStep

\* A creation that fails.
LEMMA FailStep ==
    ASSUME BackupInd, NEW c \in Creators, Making(c), FailCreate(c),
           trouble' \in 0 .. MaxTroubles, UNCHANGED <<schema, session, upgraded, now>>
    PROVE  BackupInd'
<1>1. PICK i \in Ids : i = creator[c].id
  BY WorkerHasId DEF Making, MakingRow
<1>2. /\ archive \in [Ids -> Archives] /\ creator \in [Creators -> CreatorRows] /\ 0 \notin Ids
      /\ gate \in Creators \cup {"free"}
      /\ program \in {"closed", "backing", "backed", "upgrading", "open"}
  BY BackupFacts
<1>3. archive[i].state = "temp"
  BY <1>1, BackupFacts DEF CreatorOK
<1>4. PICK new \in Archives : new = Gone
  <2>1. MaxNow \in Nat /\ MaxSchema \in Nat
    BY BackupAssumption
  <2>2. Gone = [state |-> "gone", kind |-> "daily", at |-> 0, schema |-> 0, health |-> "good"]
    BY DEF Gone, Unused
  <2> QED BY <2>1, <2>2 DEF Archives, Kinds
<1>5. PICK d \in CreatorRows : d = Resting
  BY DEF Resting, CreatorRows, CreateSteps
<1>6. new.state = "gone" /\ d.step = "rest" /\ d.id = 0
  BY <1>4, <1>5 DEF Gone, Unused, Resting
<1>7. /\ archive' = [archive EXCEPT ![i] = new] /\ creator' = [creator EXCEPT ![c] = d]
      /\ gate' = (IF gate = c THEN "free" ELSE gate)
      /\ program' = (IF c = "startup" THEN "closed" ELSE program)
  BY <1>1, <1>4, <1>5 DEF FailCreate
<1>8. /\ archive'[i] = new /\ \A j \in Ids \ {i} : archive'[j] = archive[j]
      /\ archive' \in [Ids -> Archives] /\ creator'[c] = d
  BY <1>2, <1>7
<1>9. ArchivesMove
  BY <1>3, <1>8 DEF ArchivesMove, Removed
<1>10. CreatorOK(c)'
  BY <1>6, <1>8 DEF CreatorOK, Making, MakingRow
<1>11. \A k \in Creators \ {c} : creator[k].step = "sessions" => gate' = gate
  BY <1>7, BackupFacts DEF CreatorOK
<1>12. CreatorMoves(c, d)
  BY <1>1, <1>2, <1>3, <1>6, <1>7, <1>8, <1>9, <1>10, <1>11 DEF CreatorMoves, MakingRow
<1>13. c = "startup" => StartupOK'
  BY <1>6, <1>7, <1>8 DEF StartupOK
<1> QED BY <1>2, <1>7, <1>12, <1>13, CloseStep

\* A creation that begins.
LEMMA BeginStep ==
    ASSUME BackupInd, NEW c \in Creators, NEW kind \in Kinds, BeginCreate(c, kind),
           UNCHANGED <<schema, session, gate, upgraded, now, trouble>>,
           IF c = "startup"
           THEN kind = "premigration" /\ program' = "backing" /\ schema # MaxSchema
           ELSE program' = program
    PROVE  BackupInd'
<1>1. /\ archive \in [Ids -> Archives] /\ creator \in [Creators -> CreatorRows] /\ 0 \notin Ids
      /\ gate \in Creators \cup {"free"} /\ now \in 0 .. MaxNow
      /\ trouble \in 0 .. MaxTroubles /\ schema \in 0 .. MaxSchema /\ MaxSchema \in Nat
      /\ program \in {"closed", "backing", "backed", "upgrading", "open"}
  BY BackupFacts, BackupAssumption
<1>2. PICK i \in Ids :
        /\ archive[i].state = "unused"
        /\ archive' = [archive EXCEPT ![i].state = "temp", ![i].kind = kind, ![i].at = now]
        /\ creator' = [creator EXCEPT ![c] = [Resting EXCEPT !.step = "database", !.id = i]]
  BY DEF BeginCreate
<1>3. PICK old \in Archives : old = archive[i]
  BY <1>1
<1>4. PICK new : new = [old EXCEPT !.state = "temp", !.kind = kind, !.at = now]
  OBVIOUS
<1>5. new \in Archives /\ new.state = "temp" /\ new.kind = kind
  BY <1>1, <1>4 DEF Archives
<1>6. PICK d : d = [Resting EXCEPT !.step = "database", !.id = i]
  OBVIOUS
<1>7. d \in CreatorRows /\ d.step = "database" /\ d.id = i /\ d.copied = {}
  BY <1>6 DEF Resting, CreatorRows, CreateSteps
<1>8. archive' = [archive EXCEPT ![i] = new] /\ creator' = [creator EXCEPT ![c] = d]
  BY <1>1, <1>2, <1>3, <1>4, <1>6
<1>9. /\ archive'[i] = new /\ \A j \in Ids \ {i} : archive'[j] = archive[j]
      /\ archive' \in [Ids -> Archives] /\ creator'[c] = d
  BY <1>1, <1>5, <1>8
<1>10. ArchivesMove
  BY <1>2, <1>5, <1>9 DEF ArchivesMove, Removed
<1>11. CreatorOK(c)'
  BY <1>1, <1>5, <1>7, <1>9 DEF CreatorOK, Making, MakingRow
<1>12. creator[c].step = "rest"
  BY DEF BeginCreate
<1>13. CreatorMoves(c, d)
  BY <1>1, <1>2, <1>5, <1>7, <1>8, <1>9, <1>10, <1>11, <1>12 DEF CreatorMoves, MakingRow, Making
<1>14. c = "startup" => StartupOK'
  BY <1>1, <1>5, <1>7, <1>9 DEF StartupOK
<1>15. program' \in {"closed", "backing", "backed", "upgrading", "open"}
  BY <1>1
<1>16. IF c = "startup" THEN StartupOK' ELSE program' = program
  BY <1>14
<1> QED BY <1>7, <1>13, <1>15, <1>16, CloseStep

\* The steps of a creation on its hidden archive.
LEMMA CopyStep ==
    ASSUME BackupInd, NEW c \in Creators,
           CopyDatabase(c) \/ TakeBarrier(c) \/ CopySession(c) \/ SealArchive(c)
    PROVE  BackupInd'
<1>1. Making(c) /\ CreatorOK(c) /\ UNCHANGED <<schema, session, program, upgraded, now>>
  BY BackupFacts DEF CopyDatabase, TakeBarrier, CopySession, SealArchive, Making, MakingRow
<1>2. PICK i \in Ids : i = creator[c].id
  BY <1>1, WorkerHasId DEF Making, MakingRow
<1>3. /\ archive \in [Ids -> Archives] /\ creator \in [Creators -> CreatorRows]
      /\ gate \in Creators \cup {"free"} /\ trouble \in 0 .. MaxTroubles
      /\ schema \in 0 .. MaxSchema /\ session \in Versions /\ "free" \notin Creators
      /\ MaxTroubles \in Nat
  BY BackupFacts, BackupAssumption DEF Creators
<1>4. PICK old \in CreatorRows : old = creator[c]
  BY <1>3
<1>5. PICK was \in Archives : was = archive[i]
  BY <1>3
<1>6. was.state = "temp"
  BY <1>1, <1>2, <1>5 DEF CreatorOK
<1>7. c = "startup" => was.kind = "premigration" /\ (old.step # "database" => was.schema = schema)
  BY <1>1, <1>2, <1>4, <1>5 DEF BackupInd, StartupOK, Making, MakingRow
<1>8. archive' = archive => archive' = [archive EXCEPT ![i] = was]
  BY <1>3, <1>5
<1>9. \A k \in Creators : creator[k].step = "sessions" => gate = k
  BY BackupFacts DEF CreatorOK
<1>10. ASSUME CopyDatabase(c) PROVE BackupInd'
  <2>1. PICK d : d = [old EXCEPT !.step = "barrier"]
    OBVIOUS
  <2>2. d \in CreatorRows /\ d.step = "barrier" /\ d.id = i /\ d.copied = old.copied
    BY <1>2, <1>4, <2>1 DEF CreatorRows, CreateSteps
  <2>3. PICK new : new = [was EXCEPT !.schema = schema]
    OBVIOUS
  <2>4. new \in Archives /\ new.state = "temp" /\ new.kind = was.kind /\ new.schema = schema
    BY <1>3, <1>6, <2>3 DEF Archives
  <2>5. /\ creator' = [creator EXCEPT ![c] = d] /\ archive' = [archive EXCEPT ![i] = new]
        /\ UNCHANGED <<gate, trouble>>
    BY <1>2, <1>3, <1>4, <1>5, <1>10, <2>1, <2>3 DEF CopyDatabase, Step
  <2>6. old.copied = {}
    BY <1>1, <1>4, <1>10 DEF CreatorOK, CopyDatabase
  <2> QED BY <1>1, <1>2, <1>3, <1>5, <2>2, <2>4, <2>5, <2>6, WorkStep DEF MakingRow
<1>11. ASSUME TakeBarrier(c) PROVE BackupInd'
  <2>1. PICK d : d = [old EXCEPT !.step = "sessions"]
    OBVIOUS
  <2>2. d \in CreatorRows /\ d.step = "sessions" /\ d.id = i /\ d.copied = old.copied
    BY <1>2, <1>4, <2>1 DEF CreatorRows, CreateSteps
  <2>3. /\ creator' = [creator EXCEPT ![c] = d] /\ archive' = [archive EXCEPT ![i] = was]
        /\ trouble' = trouble /\ gate' = c /\ gate = "free"
        /\ old.step = "barrier"
    BY <1>3, <1>4, <1>8, <1>11, <2>1 DEF TakeBarrier, Step
  <2>4. \A p \in d.copied : p[2] = session[p[1]]
    BY <1>1, <1>4, <2>2, <2>3 DEF CreatorOK
  <2>5. \A k \in Creators \ {c} : creator[k].step = "sessions" => gate' = gate
    BY <1>3, <1>9, <2>3
  <2>6. (c = "startup" => was.schema = schema) /\ gate' \in Creators \cup {"free"} /\ MakingRow(d)
    BY <1>7, <2>2, <2>3 DEF MakingRow
  <2> QED BY <1>1, <1>2, <1>3, <1>5, <1>6, <2>2, <2>3, <2>4, <2>5, <2>6, WorkStep
<1>12. ASSUME CopySession(c) PROVE BackupInd'
  <2>1. old.step = "sessions" /\ gate = c /\ \A p \in old.copied : p[2] = session[p[1]]
    BY <1>1, <1>4, <1>12 DEF CopySession, CreatorOK
  <2>2. archive' = [archive EXCEPT ![i] = was] /\ trouble' = trouble
    BY <1>8, <1>12 DEF CopySession
  <2>3. \A k \in Creators \ {c} : creator[k].step # "sessions"
    BY <1>9, <2>1
  <2>4. c = "startup" => was.schema = schema
    BY <1>7, <2>1
  <2>5. ASSUME NEW f \in SessionFiles, gate' = gate,
               creator' = [creator EXCEPT ![c].copied = @ \cup {<<f, session[f]>>}]
        PROVE  BackupInd'
    <3>1. PICK p : p = <<f, session[f]>>
      OBVIOUS
    <3>2. p \in SessionFiles \X (0 .. MaxWrites) /\ p[2] = session[p[1]]
      BY <1>3, <3>1 DEF Versions
    <3>3. PICK d : d = [old EXCEPT !.copied = @ \cup {p}]
      OBVIOUS
    <3>4. d \in CreatorRows /\ d.step = "sessions" /\ d.id = i /\ d.copied = old.copied \cup {p}
      BY <1>2, <1>4, <2>1, <3>2, <3>3 DEF CreatorRows
    <3>5. creator' = [creator EXCEPT ![c] = d]
      BY <1>3, <1>4, <2>5, <3>1, <3>3
    <3>6. \A q \in d.copied : q[2] = session[q[1]]
      BY <2>1, <3>2, <3>4
    <3>7. MakingRow(d) /\ gate' = c /\ gate' \in Creators \cup {"free"}
      BY <2>1, <2>5, <3>4 DEF MakingRow
    <3> QED BY <1>1, <1>2, <1>3, <1>5, <1>6, <2>2, <2>3, <2>4, <3>4, <3>5, <3>6, <3>7, WorkStep
  <2>6. ASSUME creator' = [creator EXCEPT ![c].step = "seal", ![c].copied = {}], gate' = "free"
        PROVE  BackupInd'
    <3>1. PICK d : d = [old EXCEPT !.step = "seal", !.copied = {}]
      OBVIOUS
    <3>2. d \in CreatorRows /\ d.step = "seal" /\ d.id = i
      BY <1>2, <1>4, <3>1 DEF CreatorRows, CreateSteps
    <3>3. creator' = [creator EXCEPT ![c] = d]
      BY <1>3, <1>4, <2>6, <3>1
    <3>4. MakingRow(d) /\ gate' \in Creators \cup {"free"}
      BY <2>6, <3>2 DEF MakingRow
    <3> QED BY <1>1, <1>2, <1>3, <1>5, <1>6, <2>2, <2>3, <2>4, <3>2, <3>3, <3>4, WorkStep
  <2> QED BY <1>12, <2>5, <2>6 DEF CopySession
<1>13. ASSUME SealArchive(c) PROVE BackupInd'
  <2>1. PICK d : d = [old EXCEPT !.step = "verify"]
    OBVIOUS
  <2>2. d \in CreatorRows /\ d.step = "verify" /\ d.id = i
    BY <1>2, <1>4, <2>1 DEF CreatorRows, CreateSteps
  <2>3. creator' = [creator EXCEPT ![c] = d] /\ gate' = gate /\ old.step = "seal"
    BY <1>3, <1>4, <1>13, <2>1 DEF SealArchive, Step
  <2>4. trouble' \in 0 .. MaxTroubles
    BY <1>3, <1>13 DEF SealArchive, Trouble
  <2>5. PICK new : new = [was EXCEPT !.health = "damaged"]
    OBVIOUS
  <2>6. new \in Archives /\ new.state = "temp" /\ new.kind = was.kind /\ new.schema = was.schema
    BY <1>6, <2>5 DEF Archives
  <2>7. archive' = [archive EXCEPT ![i] = was] \/ archive' = [archive EXCEPT ![i] = new]
    BY <1>2, <1>3, <1>5, <1>8, <1>13, <2>5 DEF SealArchive
  <2>8. PICK x \in {was, new} : archive' = [archive EXCEPT ![i] = x]
    BY <2>7
  <2>9. /\ x \in Archives /\ x.state = "temp" /\ x.kind = was.kind
        /\ c = "startup" => x.schema = schema
    BY <1>5, <1>6, <1>7, <2>3, <2>6
  <2> QED BY <1>1, <1>2, <1>3, <1>5, <2>2, <2>3, <2>4, <2>8, <2>9, WorkStep DEF MakingRow
<1> QED BY <1>10, <1>11, <1>12, <1>13

\* The archive is verified, and a creation may fail.
LEMMA VerifyStep ==
    ASSUME BackupInd, NEW c \in Creators, VerifyCreated(c) \/ CreateFails(c)
    PROVE  BackupInd'
<1>1. /\ Making(c) /\ UNCHANGED <<schema, session, upgraded, now>>
      /\ trouble' \in 0 .. MaxTroubles
  BY BackupFacts, BackupAssumption DEF VerifyCreated, CreateFails, Making, MakingRow, Trouble
<1>2. CASE FailCreate(c)
  BY <1>1, <1>2, FailStep
<1>3. CASE /\ VerifyCreated(c) /\ verifyArchive(creator[c].id) /\ Step(c, "publish")
           /\ UNCHANGED <<archive, gate, program>>
  <2>1. PICK i \in Ids : i = creator[c].id
    BY <1>1, WorkerHasId DEF Making, MakingRow
  <2>2. /\ archive \in [Ids -> Archives] /\ creator \in [Creators -> CreatorRows]
        /\ gate \in Creators \cup {"free"}
    BY BackupFacts
  <2>3. PICK old \in CreatorRows : old = creator[c]
    BY <2>2
  <2>4. PICK was \in Archives : was = archive[i]
    BY <2>2
  <2>5. was.state = "temp" /\ was.health = "good"
    BY <1>1, <1>3, <2>1, <2>4, BackupFacts DEF CreatorOK, verifyArchive
  <2>6. PICK d : d = [old EXCEPT !.step = "publish"]
    OBVIOUS
  <2>7. d \in CreatorRows /\ d.step = "publish" /\ d.id = i
    BY <2>1, <2>3, <2>6 DEF CreatorRows, CreateSteps
  <2>8. creator' = [creator EXCEPT ![c] = d] /\ archive' = [archive EXCEPT ![i] = was]
    BY <1>3, <2>2, <2>3, <2>4, <2>6 DEF Step
  <2>9. c = "startup" => was.schema = schema
    BY <1>3, <2>1, <2>4 DEF BackupInd, StartupOK, VerifyCreated
  <2> QED BY <1>1, <1>3, <2>1, <2>2, <2>4, <2>5, <2>7, <2>8, <2>9, WorkStep DEF MakingRow
<1> QED BY <1>2, <1>3 DEF VerifyCreated, CreateFails

\* The archive gets its name.
LEMMA PublishStep ==
    ASSUME BackupInd, NEW c \in Creators, PublishArchive(c)
    PROVE  BackupInd'
<1>1. /\ Making(c) /\ CreatorOK(c)
      /\ UNCHANGED <<schema, session, gate, program, upgraded, now, trouble>>
  BY BackupFacts DEF PublishArchive, Making, MakingRow
<1>2. PICK i \in Ids : i = creator[c].id
  BY <1>1, WorkerHasId DEF Making, MakingRow
<1>3. /\ archive \in [Ids -> Archives] /\ creator \in [Creators -> CreatorRows] /\ 0 \notin Ids
      /\ gate \in Creators \cup {"free"} /\ trouble \in 0 .. MaxTroubles
      /\ program \in {"closed", "backing", "backed", "upgrading", "open"}
  BY BackupFacts
<1>4. PICK old \in CreatorRows : old = creator[c]
  BY <1>3
<1>5. PICK was \in Archives : was = archive[i]
  BY <1>3
<1>6. was.state = "temp" /\ was.health # "damaged" /\ old.step = "publish"
  BY <1>1, <1>2, <1>4, <1>5 DEF CreatorOK, PublishArchive
<1>7. PICK d : d = [old EXCEPT !.step = "list"]
  OBVIOUS
<1>8. d \in CreatorRows /\ d.step = "list" /\ d.id = i
  BY <1>2, <1>4, <1>7 DEF CreatorRows, CreateSteps
<1>9. PICK new : new = [was EXCEPT !.state = "disk"]
  OBVIOUS
<1>10. /\ new \in Archives /\ new.state = "disk" /\ new.kind = was.kind
       /\ new.schema = was.schema /\ new.health = was.health
  BY <1>9 DEF Archives
<1>11. creator' = [creator EXCEPT ![c] = d] /\ archive' = [archive EXCEPT ![i] = new]
  BY <1>2, <1>3, <1>4, <1>5, <1>7, <1>9 DEF PublishArchive, Step
<1>12. /\ archive'[i] = new /\ \A j \in Ids \ {i} : archive'[j] = archive[j]
       /\ archive' \in [Ids -> Archives] /\ creator'[c] = d
  BY <1>3, <1>10, <1>11
<1>13. ArchivesMove
  BY <1>5, <1>6, <1>12 DEF ArchivesMove, Removed
<1>14. CreatorOK(c)'
  BY <1>3, <1>8, <1>10, <1>12 DEF CreatorOK, Making, MakingRow
<1>15. \A j \in Ids : archive'[j] # archive[j] =>
          /\ archive[j].state = "temp" => Making(c) /\ j = creator[c].id
          /\ archive[j].state = "unused" => MakingRow(d) /\ j = d.id
          /\ archive'[j].state = "disk" => archive'[j].health # "damaged"
  BY <1>1, <1>2, <1>5, <1>6, <1>10, <1>12
<1>16. ~MakingRow(d) /\ archive'[creator[c].id].state # "temp"
  BY <1>2, <1>8, <1>10, <1>12 DEF MakingRow
<1>17. CreatorMoves(c, d)
  BY <1>1, <1>3, <1>11, <1>13, <1>14, <1>15, <1>16 DEF CreatorMoves
<1>18. c = "startup" => StartupOK'
  <2>1. ASSUME c = "startup" PROVE StartupOK'
    <3>1. StartupOK /\ program = "backing" /\ was.kind = "premigration" /\ was.schema = schema
      BY <1>2, <1>4, <1>5, <1>6, <2>1 DEF BackupInd, StartupOK
    <3> QED BY <1>1, <1>8, <1>10, <1>12, <2>1, <3>1 DEF StartupOK
  <2> QED BY <2>1
<1> QED BY <1>1, <1>3, <1>8, <1>17, <1>18, CloseStep

\* A step of a creator whose archive is no longer hidden, one that leaves every
\* archive alone.
LEMMA ReadStep ==
    ASSUME BackupInd, NEW c \in Creators, ~Making(c), NEW d \in CreatorRows,
           creator' = [creator EXCEPT ![c] = d], ~MakingRow(d), CreatorOK(c)',
           UNCHANGED <<schema, session, gate, archive, upgraded, now, trouble>>,
           program' \in {"closed", "backing", "backed", "upgrading", "open"},
           IF c = "startup" THEN StartupOK' ELSE program' = program
    PROVE  BackupInd'
<1>1. archive \in [Ids -> Archives] /\ gate \in Creators \cup {"free"} /\ trouble \in 0 .. MaxTroubles
  BY BackupFacts
<1>2. ArchivesMove
  BY <1>1 DEF ArchivesMove, Removed
<1>3. CreatorMoves(c, d)
  BY <1>1, <1>2 DEF CreatorMoves
<1> QED BY <1>3, CloseStep

\* Create returns.
LEMMA CreatedStep ==
    ASSUME BackupInd, NEW c \in Creators, ~Making(c), creator[c].step # "rest", Created(c),
           UNCHANGED <<schema, session, gate, archive, upgraded, now, trouble>>
    PROVE  BackupInd'
<1>1. PICK i \in Ids : i = creator[c].id
  BY WorkerHasId
<1>2. /\ archive \in [Ids -> Archives] /\ creator \in [Creators -> CreatorRows] /\ 0 \notin Ids
      /\ program \in {"closed", "backing", "backed", "upgrading", "open"}
  BY BackupFacts
<1>3. PICK b \in BOOLEAN : b = (c = "runner" /\ archive[creator[c].id].kind = "daily")
  OBVIOUS
<1>4. PICK d : d = [Resting EXCEPT !.next = b]
  OBVIOUS
<1>5. d \in CreatorRows /\ d.step = "rest" /\ d.id = 0
  BY <1>4 DEF Resting, CreatorRows, CreateSteps
<1>6. creator' = [creator EXCEPT ![c] = d] /\ creator'[c] = d
  BY <1>2, <1>3, <1>4 DEF Created
<1>7. CreatorOK(c)' /\ ~MakingRow(d)
  BY <1>2, <1>5, <1>6 DEF CreatorOK, Making, MakingRow
<1>8. program' = IF c = "startup" THEN "backed" ELSE program
  BY DEF Created
<1>9. c = "startup" => StartupOK'
  <2>1. ASSUME c = "startup" PROVE StartupOK'
    <3>1. StartupOK /\ CreatorOK(c)
      BY BackupFacts DEF BackupInd
    <3>2. /\ program = "backing" /\ schema < MaxSchema /\ archive[i].kind = "premigration"
      BY <1>1, <2>1, <3>1 DEF StartupOK
    <3>3. creator[c].step = "list"
      BY <1>1, <3>1, <3>2 DEF CreatorOK, Making, MakingRow
    <3>4. archive[i].schema = schema /\ archive[i].state = "disk"
      BY <1>1, <2>1, <3>1, <3>3 DEF StartupOK
    <3>5. i \in OnDisk("premigration")' /\ archive'[i].schema = schema'
      BY <3>2, <3>4 DEF OnDisk
    <3>6. schema' < MaxSchema /\ creator'["startup"].step = "rest" /\ program' = "backed"
      BY <1>5, <1>6, <1>8, <2>1, <3>2
    <3> QED BY <3>5, <3>6 DEF StartupOK
  <2> QED BY <2>1
<1>10. program' \in {"closed", "backing", "backed", "upgrading", "open"}
  BY <1>2, <1>8
<1> QED BY <1>5, <1>6, <1>7, <1>8, <1>9, <1>10, ReadStep

\* The start does not rotate.
LEMMA RotatesNoStartup ==
    ASSUME BackupInd, NEW c \in Creators, creator[c].step # "rest",
           archive[creator[c].id].kind # "premigration"
    PROVE  c # "startup"
BY DEF BackupInd, StartupOK

\* The listing of the directory.
LEMMA ListStep ==
    ASSUME BackupInd, NEW c \in Creators, ListArchives(c)
    PROVE  BackupInd'
<1>1. /\ ~Making(c) /\ CreatorOK(c) /\ creator[c].step = "list"
      /\ UNCHANGED <<schema, session, gate, archive, upgraded, now, trouble>>
  BY BackupFacts DEF ListArchives, Making, MakingRow
<1>2. PICK i \in Ids : i = creator[c].id
  BY <1>1, WorkerHasId
<1>3. CASE archive[i].kind = "premigration"
  <2>1. Created(c)
    BY <1>2, <1>3 DEF ListArchives
  <2> QED BY <1>1, <2>1, CreatedStep
<1>4. CASE archive[i].kind # "premigration"
  <2>1. /\ creator \in [Creators -> CreatorRows] /\ 0 \notin Ids
        /\ program \in {"closed", "backing", "backed", "upgrading", "open"}
    BY BackupFacts
  <2>2. PICK kind : kind = archive[i].kind
    OBVIOUS
  <2>3. PICK old \in CreatorRows : old = creator[c]
    BY <2>1
  <2>4. PICK view \in SUBSET Ids : view = OnDisk(kind)
    BY DEF OnDisk
  <2>5. PICK d : d = [old EXCEPT !.step = "sort", !.view = view]
    OBVIOUS
  <2>6. d \in CreatorRows /\ d.step = "sort" /\ d.id = i /\ d.view = view
    BY <1>2, <2>3, <2>5 DEF CreatorRows, CreateSteps
  <2>7. creator' = [creator EXCEPT ![c] = d] /\ creator'[c] = d /\ program' = program
    BY <1>2, <1>4, <2>1, <2>2, <2>3, <2>4, <2>5 DEF ListArchives
  <2>8. archive[i].state \in {"disk", "gone"}
    BY <1>1, <1>2 DEF CreatorOK
  <2>9. \A j \in view : archive[j].state = "disk" /\ archive[j].kind = kind
    BY <2>4 DEF OnDisk
  <2>10. CreatorOK(c)' /\ ~MakingRow(d)
    BY <1>1, <1>4, <2>1, <2>2, <2>6, <2>7, <2>8, <2>9 DEF CreatorOK, Making, MakingRow
  <2>11. c # "startup"
    BY <1>1, <1>2, <1>4, RotatesNoStartup
  <2>12. IF c = "startup" THEN StartupOK' ELSE program' = program
    BY <2>7, <2>11
  <2> QED BY <1>1, <2>1, <2>6, <2>7, <2>10, <2>12, ReadStep
<1> QED BY <1>3, <1>4

\* What a rotation decides to remove has enough readable newer archives.
LEMMA ObsoleteIsSpare ==
    ASSUME BackupInd, NEW kind, NEW view \in SUBSET Ids,
           \A j \in view : archive[j].kind = kind,
           NEW i \in Obsolete(view, kind)
    PROVE  i \in view /\ Spare(i)
<1>1. PICK V \in SUBSET Ids : V = {j \in view : archive[j].state = "disk" /\ verifyArchive(j)}
  OBVIOUS
<1>2. i \in V /\ Cardinality({j \in V : Newer(j, i)}) >= Retention(kind)
  BY <1>1 DEF Obsolete
<1>3. PICK S \in SUBSET Ids : S = {j \in V : Newer(j, i)}
  OBVIOUS
<1>4. PICK n \in Nat : n = Retention(kind)
  BY RetentionNat
<1>5. PICK T \in SUBSET Ids : T = NewerGood(i)
  BY DEF NewerGood, OnDisk
<1>6. i \in view /\ archive[i].kind = kind
  BY <1>1, <1>2
<1>7. S \subseteq T
  BY <1>1, <1>3, <1>5, <1>6 DEF NewerGood, OnDisk
<1>8. Cardinality(S) >= n
  BY <1>2, <1>3, <1>4
<1>9. Cardinality(T) >= n
  BY <1>7, <1>8, MoreArchives
<1> QED BY <1>4, <1>5, <1>6, <1>9 DEF Spare

\* The decision of a rotation.
LEMMA SortStep ==
    ASSUME BackupInd, NEW c \in Creators, SortArchives(c)
    PROVE  BackupInd'
<1>1. /\ ~Making(c) /\ CreatorOK(c) /\ creator[c].step = "sort" /\ program' = program
      /\ UNCHANGED <<schema, session, gate, archive, upgraded, now, trouble>>
  BY BackupFacts DEF SortArchives, Making, MakingRow
<1>2. PICK i \in Ids : i = creator[c].id
  BY <1>1, WorkerHasId
<1>3. /\ creator \in [Creators -> CreatorRows] /\ 0 \notin Ids
      /\ program \in {"closed", "backing", "backed", "upgrading", "open"}
  BY BackupFacts
<1>4. PICK kind : kind = archive[i].kind
  OBVIOUS
<1>5. PICK old \in CreatorRows : old = creator[c]
  BY <1>3
<1>6. /\ old.view \in SUBSET Ids /\ kind # "premigration" /\ archive[i].state \in {"disk", "gone"}
      /\ \A j \in old.view : archive[j].state \in {"disk", "gone"} /\ archive[j].kind = kind
  BY <1>1, <1>2, <1>4, <1>5 DEF CreatorOK, CreatorRows
<1>7. PICK view : view = Obsolete(old.view, kind)
  OBVIOUS
<1>8. \A j \in view : j \in old.view /\ Spare(j)
  BY <1>6, <1>7, ObsoleteIsSpare
<1>9. view \in SUBSET Ids
  BY <1>6, <1>8
<1>10. PICK d : d = [old EXCEPT !.step = "rotate", !.view = view]
  OBVIOUS
<1>11. d \in CreatorRows /\ d.step = "rotate" /\ d.id = i /\ d.view = view
  BY <1>2, <1>5, <1>9, <1>10 DEF CreatorRows, CreateSteps
<1>12. creator' = [creator EXCEPT ![c] = d] /\ creator'[c] = d
  BY <1>2, <1>3, <1>4, <1>5, <1>7, <1>10 DEF SortArchives
<1>13. \A j \in view : Spare(j)'
  BY <1>1, <1>8 DEF Spare, NewerGood, OnDisk, verifyArchive, Newer
<1>14. CreatorOK(c)' /\ ~MakingRow(d)
  BY <1>1, <1>3, <1>4, <1>6, <1>8, <1>11, <1>12, <1>13 DEF CreatorOK, Making, MakingRow
<1>15. c # "startup"
  BY <1>1, <1>2, <1>4, <1>6, RotatesNoStartup
<1>16. IF c = "startup" THEN StartupOK' ELSE program' = program
  BY <1>1, <1>15
<1> QED BY <1>1, <1>3, <1>11, <1>12, <1>14, <1>16, ReadStep

\* The removal of one archive.
LEMMA RemoveStep ==
    ASSUME BackupInd, NEW c \in Creators, RemoveObsolete(c)
    PROVE  BackupInd'
<1>1. /\ ~Making(c) /\ CreatorOK(c) /\ creator[c].step = "rotate"
      /\ UNCHANGED <<schema, session, gate, upgraded, now, trouble>>
  BY BackupFacts DEF RemoveObsolete, Making, MakingRow
<1>2. PICK i \in Ids : i = creator[c].id
  BY <1>1, WorkerHasId
<1>3. /\ archive \in [Ids -> Archives] /\ creator \in [Creators -> CreatorRows] /\ 0 \notin Ids
      /\ program \in {"closed", "backing", "backed", "upgrading", "open"}
      /\ gate \in Creators \cup {"free"} /\ trouble \in 0 .. MaxTroubles
  BY BackupFacts
<1>4. PICK old \in CreatorRows : old = creator[c]
  BY <1>3
<1>5. PICK kind : kind = archive[i].kind
  OBVIOUS
<1>6. /\ old.view \in SUBSET Ids /\ kind # "premigration" /\ archive[i].state \in {"disk", "gone"}
      /\ \A j \in old.view : archive[j].state \in {"disk", "gone"} /\ archive[j].kind = kind
      /\ \A j \in old.view : archive[j].state = "disk" => Spare(j)
  BY <1>1, <1>2, <1>4, <1>5 DEF CreatorOK, CreatorRows
<1>7. c # "startup"
  BY <1>1, <1>2, <1>5, <1>6, RotatesNoStartup
<1>8. CASE Created(c) /\ UNCHANGED archive
  BY <1>1, <1>8, CreatedStep
<1>9. ASSUME NEW x \in creator[c].view, archive[x].state # "disk",
             creator' = [creator EXCEPT ![c] = Resting], UNCHANGED <<archive, program>>
      PROVE  BackupInd'
  <2>1. PICK d \in CreatorRows : d = Resting
    BY DEF Resting, CreatorRows, CreateSteps
  <2>2. d.step = "rest" /\ d.id = 0 /\ creator' = [creator EXCEPT ![c] = d] /\ creator'[c] = d
    BY <1>3, <1>9, <2>1 DEF Resting
  <2>3. CreatorOK(c)' /\ ~MakingRow(d)
    BY <1>3, <2>2 DEF CreatorOK, Making, MakingRow
  <2>4. IF c = "startup" THEN StartupOK' ELSE program' = program
    BY <1>7, <1>9
  <2> QED BY <1>1, <1>3, <1>9, <2>1, <2>2, <2>3, <2>4, ReadStep
<1>10. ASSUME NEW x \in creator[c].view, archive[x].state = "disk",
              archive' = [archive EXCEPT ![x] = [Gone EXCEPT !.kind = archive[x].kind]],
              creator' = [creator EXCEPT ![c].view = @ \ {x}], UNCHANGED program
       PROVE  BackupInd'
  <2>1. x \in Ids /\ x \in old.view /\ archive[x].kind = kind /\ Spare(x)
    BY <1>4, <1>6, <1>10
  <2>2. PICK new : new = [Gone EXCEPT !.kind = archive[x].kind]
    OBVIOUS
  <2>3. new \in Archives /\ new.state = "gone" /\ new.kind = kind
    <3>1. MaxNow \in Nat /\ MaxSchema \in Nat /\ kind \in Kinds
      BY <1>3, <2>1, BackupAssumption DEF Archives
    <3>2. new = [state |-> "gone", kind |-> kind, at |-> 0, schema |-> 0, health |-> "good"]
      BY <2>1, <2>2 DEF Gone, Unused
    <3> QED BY <3>1, <3>2 DEF Archives
  <2>4. /\ archive'[x] = new /\ \A j \in Ids \ {x} : archive'[j] = archive[j]
        /\ archive' \in [Ids -> Archives]
    BY <1>3, <1>10, <2>1, <2>2, <2>3
  <2>5. Removed(x)
    BY <1>6, <1>10, <2>1, <2>3, <2>4 DEF Removed
  <2>6. \A j \in Ids : Removed(j) => j = x
    <3>1. ASSUME NEW j \in Ids \ {x} PROVE ~Removed(j)
      BY <2>4, <3>1 DEF Removed
    <3> QED BY <3>1
  <2>7. ArchivesMove
    BY <2>4, <2>5, <2>6 DEF ArchivesMove
  <2>8. PICK d : d = [old EXCEPT !.view = @ \ {x}]
    OBVIOUS
  <2>9. d \in CreatorRows /\ d.step = "rotate" /\ d.id = i /\ d.view = old.view \ {x}
    BY <1>1, <1>2, <1>4, <2>8 DEF CreatorRows
  <2>10. creator' = [creator EXCEPT ![c] = d] /\ creator'[c] = d
    BY <1>3, <1>4, <1>10, <2>8
  <2>11. \A j \in Ids : archive[j].kind = kind /\ archive[j].state \in {"disk", "gone"} =>
            archive'[j].kind = kind /\ archive'[j].state \in {"disk", "gone"}
    BY <2>3, <2>4
  <2>12. ASSUME NEW j \in d.view, archive'[j].state = "disk" PROVE Spare(j)'
    <3>1. j \in Ids /\ archive[j].state = "disk" /\ Spare(j)
      BY <1>6, <2>4, <2>9, <2>12
    <3> QED BY <2>7, <2>12, <3>1, SpareKept
  <2>13. CreatorOK(c)'
    <3>1. /\ archive'[i].state \in {"disk", "gone"} /\ archive'[i].kind = kind
          /\ \A j \in d.view : archive'[j].state \in {"disk", "gone"} /\ archive'[j].kind = kind
      BY <1>5, <1>6, <2>9, <2>11
    <3> QED BY <1>3, <1>6, <2>9, <2>10, <2>12, <3>1 DEF CreatorOK, Making, MakingRow
  <2>14. CreatorMoves(c, d)
    <3>1. \A j \in Ids : archive'[j] # archive[j] =>
            /\ archive[j].state \notin {"temp", "unused"} /\ archive'[j].state # "disk"
      BY <1>10, <2>3, <2>4
    <3> QED BY <1>1, <1>3, <2>7, <2>9, <2>10, <2>13, <3>1 DEF CreatorMoves, MakingRow
  <2>15. IF c = "startup" THEN StartupOK' ELSE program' = program
    BY <1>7, <1>10
  <2> QED BY <1>3, <1>10, <2>9, <2>14, <2>15, CloseStep
<1> QED BY <1>8, <1>9, <1>10 DEF RemoveObsolete

-----------------------------------------------------------------------------
\* Those who create.
LEMMA UserStep ==
    ASSUME BackupInd, (\E c \in Askers : CreateBackup(c)) \/ RunScheduled
    PROVE  BackupInd'
<1>1. CASE \E c \in Askers : CreateBackup(c)
  <2>1. PICK c \in Askers : CreateBackup(c)
    BY <1>1
  <2>2. PICK kind \in Kinds : BeginCreate(c, kind)
    BY <2>1 DEF CreateBackup
  <2>3. c \in Creators /\ c # "startup"
    BY BackupAssumption DEF Creators
  <2>4. UNCHANGED <<schema, session, gate, program, upgraded, now, trouble>>
    BY <2>1 DEF CreateBackup
  <2> QED BY <2>2, <2>3, <2>4, BeginStep
<1>2. CASE RunScheduled
  <2>1. "runner" \in Creators /\ "runner" # "startup" /\ "daily" \in Kinds
    BY DEF Creators, Kinds
  <2>2. BeginCreate("runner", "daily") /\ UNCHANGED <<schema, session, gate, program, upgraded, now, trouble>>
    BY <1>2 DEF RunScheduled
  <2> QED BY <2>1, <2>2, BeginStep
<1> QED BY <1>1, <1>2

\* The monthly archive.
LEMMA MonthlyStep ==
    ASSUME BackupInd, RunMonthly
    PROVE  BackupInd'
<1>1. "runner" \in Creators /\ "runner" # "startup" /\ "monthly" \in Kinds
  BY DEF Creators, Kinds
<1>2. /\ creator["runner"].step = "rest" /\ CreatorOK("runner")
      /\ UNCHANGED <<schema, session, gate, program, upgraded, now, trouble>>
  BY <1>1, BackupFacts DEF RunMonthly
<1>3. CASE BeginCreate("runner", "monthly")
  BY <1>1, <1>2, <1>3, BeginStep
<1>4. CASE creator' = [creator EXCEPT !["runner"].next = FALSE] /\ UNCHANGED archive
  <2>1. /\ creator \in [Creators -> CreatorRows]
        /\ program \in {"closed", "backing", "backed", "upgrading", "open"}
    BY BackupFacts
  <2>2. PICK old \in CreatorRows : old = creator["runner"]
    BY <1>1, <2>1
  <2>3. PICK d : d = [old EXCEPT !.next = FALSE]
    OBVIOUS
  <2>4. d \in CreatorRows /\ d.step = "rest" /\ d.id = old.id
    BY <1>2, <2>2, <2>3 DEF CreatorRows
  <2>5. creator' = [creator EXCEPT !["runner"] = d] /\ creator'["runner"] = d
    BY <1>1, <1>4, <2>1, <2>2, <2>3
  <2>6. CreatorOK("runner")' /\ ~MakingRow(d) /\ ~Making("runner")
    BY <1>2, <2>2, <2>4, <2>5 DEF CreatorOK, Making, MakingRow
  <2>7. IF "runner" = "startup" THEN StartupOK' ELSE program' = program
    BY <1>1, <1>2
  <2> QED BY <1>1, <1>2, <1>4, <2>1, <2>4, <2>5, <2>6, <2>7, ReadStep
<1> QED BY <1>3, <1>4 DEF RunMonthly

\* The start of the program.
LEMMA OpenStep ==
    ASSUME BackupInd, OpenDatabase
    PROVE  BackupInd'
<1>1. "startup" \in Creators /\ "premigration" \in Kinds /\ program = "closed"
  BY DEF Creators, Kinds, OpenDatabase
<1>2. UNCHANGED <<schema, session, gate, upgraded, now, trouble>>
  BY DEF OpenDatabase
<1>3. CASE BeginCreate("startup", "premigration") /\ program' = "backing" /\ schema # MaxSchema
  BY <1>1, <1>2, <1>3, BeginStep
<1>4. CASE \/ program' = "open" /\ UNCHANGED <<archive, creator>>
           \/ schema = 0 /\ schema # MaxSchema /\ program' = "backed" /\ UNCHANGED <<archive, creator>>
  <2>1. UNCHANGED <<archive, creator>> /\ program' \in {"open", "backed"}
    BY <1>4
  <2>2. StartupOK /\ creator["startup"].step = "rest" /\ schema \in 0 .. MaxSchema /\ MaxSchema \in Nat
    BY <1>1, BackupFacts, BackupAssumption DEF BackupInd, StartupOK
  <2>3. StartupOK'
    BY <1>2, <1>4, <2>1, <2>2 DEF StartupOK
  <2>4. BackupTypeOK' /\ WorkOK' /\ UpgradeHasBackup'
    BY <1>2, <2>1 DEF BackupInd, BackupTypeOK, WorkOK, Making, MakingRow, UpgradeHasBackup, OnDisk
  <2>5. \A c \in Creators : CreatorOK(c)'
    BY <1>2, <2>1 DEF BackupInd, CreatorOK, Making, MakingRow, Spare, NewerGood, OnDisk,
                      verifyArchive, Newer
  <2> QED BY <2>3, <2>4, <2>5 DEF BackupInd
<1> QED BY <1>3, <1>4 DEF OpenDatabase

\* One migration.
LEMMA MigrationStep ==
    ASSUME BackupInd, ApplyMigration
    PROVE  BackupInd'
<1>1. /\ UNCHANGED <<session, gate, archive, creator, now, trouble>>
      /\ schema' = schema + 1 /\ program \in {"backed", "upgrading"}
      /\ program' \in {"open", "upgrading"} /\ (program' = "upgrading" => schema' # MaxSchema)
      /\ upgraded' = IF program = "backed" THEN upgraded \cup {schema} ELSE upgraded
  BY DEF ApplyMigration
<1>2. StartupOK /\ BackupTypeOK /\ WorkOK /\ UpgradeHasBackup /\ MaxSchema \in Nat
  BY BackupAssumption DEF BackupInd
<1>3. schema \in 0 .. MaxSchema /\ schema < MaxSchema /\ creator["startup"].step = "rest"
  BY <1>1, <1>2 DEF StartupOK, BackupTypeOK
<1>4. schema' \in 0 .. MaxSchema /\ (program' = "upgrading" => schema' < MaxSchema)
  BY <1>1, <1>2, <1>3
<1>5. StartupOK'
  BY <1>1, <1>3, <1>4 DEF StartupOK
<1>6. BackupTypeOK' /\ WorkOK'
  BY <1>1, <1>2, <1>3, <1>4 DEF BackupTypeOK, WorkOK, Making, MakingRow
<1>7. UpgradeHasBackup'
  <2>1. OnDisk("premigration")' = OnDisk("premigration")
    BY <1>1 DEF OnDisk
  <2>2. program = "backed" /\ schema # 0 => \E i \in OnDisk("premigration") : archive[i].schema = schema
    BY <1>2 DEF StartupOK
  <2>3. ASSUME NEW v \in upgraded' \ {0} PROVE \E i \in OnDisk("premigration")' : archive'[i].schema = v
    <3>1. v \in upgraded \/ (program = "backed" /\ v = schema)
      BY <1>1, <2>3
    <3> QED BY <1>1, <1>2, <2>1, <2>2, <2>3, <3>1 DEF UpgradeHasBackup
  <2> QED BY <2>3 DEF UpgradeHasBackup
<1>8. \A c \in Creators : CreatorOK(c)'
  BY <1>1 DEF BackupInd, CreatorOK, Making, MakingRow, Spare, NewerGood, OnDisk,
                    verifyArchive, Newer
<1> QED BY <1>5, <1>6, <1>7, <1>8 DEF BackupInd

\* A step that leaves the creators and the archives alone.
LEMMA BackupQuietStep ==
    ASSUME BackupInd,
           UNCHANGED <<schema, gate, archive, creator, program, upgraded, trouble>>,
           now' \in 0 .. MaxNow, session' \in Versions,
           gate = "free" \/ session' = session
    PROVE  BackupInd'
<1>1. BackupTypeOK' /\ WorkOK' /\ UpgradeHasBackup' /\ StartupOK'
  BY DEF BackupInd, BackupTypeOK, WorkOK, Making, MakingRow, UpgradeHasBackup, OnDisk, StartupOK
<1>2. ASSUME NEW c \in Creators PROVE CreatorOK(c)'
  <2>1. CreatorOK(c) /\ c # "free"
    BY BackupAssumption DEF BackupInd, Creators
  <2>2. creator[c].step = "sessions" => session' = session
    BY <2>1 DEF CreatorOK
  <2> QED BY <2>1, <2>2 DEF CreatorOK, Making, MakingRow, Spare, NewerGood, OnDisk,
                            verifyArchive, Newer
<1> QED BY <1>1, <1>2 DEF BackupInd

\* A session file is written, the clock moves, or nothing happens.
LEMMA OutsideStep ==
    ASSUME BackupInd, (\E f \in SessionFiles : StoreSession(f)) \/ MoveClock \/ UNCHANGED backupVars
    PROVE  BackupInd'
<1>1. session \in Versions /\ now \in 0 .. MaxNow /\ MaxWrites \in Nat
  BY BackupFacts, BackupAssumption
<1>2. CASE \E f \in SessionFiles : StoreSession(f)
  <2>1. PICK f \in SessionFiles : StoreSession(f)
    BY <1>2
  <2>2. session' \in Versions
    BY <1>1, <2>1 DEF StoreSession, Versions
  <2> QED BY <1>1, <2>1, <2>2, BackupQuietStep DEF StoreSession
<1>3. CASE MoveClock
  BY <1>1, <1>3, BackupQuietStep DEF MoveClock
<1>4. CASE UNCHANGED backupVars
  BY <1>1, <1>4, BackupQuietStep DEF backupVars
<1> QED BY <1>2, <1>3, <1>4

\* The process dies.
LEMMA KillStep ==
    ASSUME BackupInd, KillProgram
    PROVE  BackupInd'
<1>1. /\ archive \in [Ids -> Archives] /\ creator \in [Creators -> CreatorRows] /\ 0 \notin Ids
      /\ WorkOK /\ StartupOK /\ BackupTypeOK /\ UpgradeHasBackup /\ "startup" \in Creators
  BY BackupFacts DEF BackupInd, Creators
<1>2. PICK gone \in Archives : gone = Gone
  <2>1. MaxNow \in Nat /\ MaxSchema \in Nat
    BY BackupAssumption
  <2>2. Gone = [state |-> "gone", kind |-> "daily", at |-> 0, schema |-> 0, health |-> "good"]
    BY DEF Gone, Unused
  <2> QED BY <2>1, <2>2 DEF Archives, Kinds
<1>3. PICK d \in CreatorRows : d = Resting
  BY DEF Resting, CreatorRows, CreateSteps
<1>4. d.step = "rest" /\ d.id = 0 /\ gone.state = "gone"
  BY <1>2, <1>3 DEF Resting, Gone, Unused
<1>5. /\ program' = "closed" /\ gate' = "free" /\ creator' = [c \in Creators |-> d]
      /\ archive' = [i \in Ids |-> IF archive[i].state = "temp" THEN gone ELSE archive[i]]
      /\ UNCHANGED <<schema, session, upgraded, now>> /\ trouble' \in 0 .. MaxTroubles
  <2>1. trouble' \in 0 .. MaxTroubles
    BY <1>1, BackupAssumption DEF KillProgram, Trouble, BackupTypeOK
  <2> QED BY <1>2, <1>3, <2>1 DEF KillProgram
<1>6. /\ archive' \in [Ids -> Archives]
      /\ \A i \in Ids : archive[i].state # "temp" => archive'[i] = archive[i]
      /\ \A i \in Ids : archive[i].state = "temp" => archive'[i] = gone
  BY <1>1, <1>5
<1>7. \A c \in Creators : creator'[c] = d
  BY <1>5
<1>8. BackupTypeOK'
  BY <1>1, <1>5, <1>6 DEF BackupTypeOK
<1>9. WorkOK'
  BY <1>1, <1>4, <1>6, <1>7 DEF WorkOK, Making, MakingRow
<1>10. StartupOK'
  BY <1>1, <1>4, <1>5, <1>7 DEF StartupOK
<1>11. UpgradeHasBackup'
  <2>1. \A i \in OnDisk("premigration") : archive'[i] = archive[i] /\ i \in OnDisk("premigration")'
    BY <1>6 DEF OnDisk
  <2> QED BY <1>1, <1>5, <2>1 DEF UpgradeHasBackup
<1>12. \A c \in Creators : CreatorOK(c)'
  BY <1>4, <1>7 DEF CreatorOK, Making, MakingRow
<1> QED BY <1>8, <1>9, <1>10, <1>11, <1>12 DEF BackupInd

\* An archive goes bad.
LEMMA SpoilStep ==
    ASSUME BackupInd, SpoilArchive
    PROVE  BackupInd'
<1>1. /\ archive \in [Ids -> Archives] /\ WorkOK /\ StartupOK /\ BackupTypeOK /\ UpgradeHasBackup
      /\ \A c \in Creators : CreatorOK(c) /\ creator[c].step # "rotate"
  BY BackupFacts DEF BackupInd, SpoilArchive
<1>2. PICK x \in Ids : archive[x].state = "disk" /\ archive' = [archive EXCEPT ![x].health = "spoilt"]
  BY DEF SpoilArchive
<1>3. /\ UNCHANGED <<schema, session, gate, creator, program, upgraded, now>>
      /\ trouble' \in 0 .. MaxTroubles
  BY <1>1, BackupAssumption DEF SpoilArchive, Trouble, BackupTypeOK
<1>4. PICK was \in Archives : was = archive[x]
  BY <1>1
<1>5. PICK new : new = [was EXCEPT !.health = "spoilt"]
  OBVIOUS
<1>6. /\ new \in Archives /\ new.state = was.state /\ new.kind = was.kind
      /\ new.schema = was.schema /\ new.health = "spoilt"
  BY <1>5 DEF Archives
<1>7. archive'[x] = new /\ \A j \in Ids \ {x} : archive'[j] = archive[j]
  BY <1>1, <1>2, <1>4, <1>5
<1>8. archive' \in [Ids -> Archives]
  BY <1>1, <1>2, <1>4, <1>5, <1>6
<1>9. \A j \in Ids : /\ archive'[j].state = archive[j].state /\ archive'[j].kind = archive[j].kind
                     /\ archive'[j].schema = archive[j].schema
                     /\ archive'[j].health = archive[j].health \/ archive'[j].health = "spoilt"
                     /\ archive[j].state # "disk" => archive'[j] = archive[j]
  BY <1>2, <1>4, <1>6, <1>7
<1>10. BackupTypeOK'
  BY <1>1, <1>3, <1>8 DEF BackupTypeOK
<1>11. WorkOK'
  BY <1>1, <1>3, <1>9 DEF WorkOK, Making, MakingRow
<1>12. \A kind : OnDisk(kind)' = OnDisk(kind)
  BY <1>9 DEF OnDisk
<1>13. UpgradeHasBackup'
  BY <1>1, <1>3, <1>9, <1>12 DEF UpgradeHasBackup, OnDisk
<1>14. StartupOK'
  <2>1. creator["startup"].step # "rest" => creator["startup"].id \in Ids
    BY WorkerHasId DEF Creators
  <2>2. program = "backed" => schema = 0 \/ \E i \in OnDisk("premigration") : archive'[i].schema = schema
    BY <1>1, <1>9 DEF StartupOK, OnDisk
  <2>3. UNCHANGED <<schema, program>> /\ UNCHANGED creator /\ StartupOK
    BY <1>1, <1>3
  <2>4. creator["startup"].step # "rest" =>
          /\ archive'[creator["startup"].id].state = archive[creator["startup"].id].state
          /\ archive'[creator["startup"].id].kind = archive[creator["startup"].id].kind
          /\ archive'[creator["startup"].id].schema = archive[creator["startup"].id].schema
    BY <1>9, <2>1
  <2>5. OnDisk("premigration")' = OnDisk("premigration")
    BY <1>12
  <2> QED BY <2>2, <2>3, <2>4, <2>5 DEF StartupOK
<1>15. ASSUME NEW c \in Creators PROVE CreatorOK(c)'
  <2>1. PICK d \in CreatorRows : d = creator[c]
    BY BackupFacts
  <2>2. CreatorOK(c) /\ d.step # "rotate" /\ d.view \subseteq Ids /\ creator'[c] = d
    BY <1>1, <1>3, <2>1 DEF CreatorRows
  <2>3. d.step # "rest" => d.id \in Ids
    BY <2>1, WorkerHasId
  <2>4. d.step # "rest" => /\ archive'[d.id].state = archive[d.id].state
                           /\ archive'[d.id].kind = archive[d.id].kind
    BY <1>9, <2>3
  <2>5. d.step = "publish" => archive'[d.id].health # "damaged"
    BY <1>9, <2>1, <2>2, <2>3 DEF CreatorOK
  <2>6. d.step = "rest" <=> d.id = 0
    BY <2>1, <2>2 DEF CreatorOK
  <2>7. MakingRow(d) => archive'[d.id].state = "temp"
    BY <2>1, <2>2, <2>4 DEF CreatorOK, Making, MakingRow
  <2>8. d.step \in {"list", "sort"} => archive'[d.id].state \in {"disk", "gone"}
    BY <2>1, <2>2, <2>4 DEF CreatorOK
  <2>9. d.step = "sort" =>
          /\ archive'[d.id].kind # "premigration"
          /\ \A i \in d.view : /\ archive'[i].state \in {"disk", "gone"}
                               /\ archive'[i].kind = archive'[d.id].kind
    BY <1>9, <2>1, <2>2, <2>4 DEF CreatorOK
  <2>10. d.step \in {"database", "barrier"} => d.copied = {}
    BY <2>1, <2>2 DEF CreatorOK
  <2>11. d.step = "sessions" => gate' = c /\ \A p \in d.copied : p[2] = session'[p[1]]
    BY <1>3, <2>1, <2>2 DEF CreatorOK
  <2>12. Making(c)' <=> MakingRow(d)
    BY <2>2 DEF Making
  <2> QED BY <2>2, <2>5, <2>6, <2>7, <2>8, <2>9, <2>10, <2>11, <2>12 DEF CreatorOK
<1> QED BY <1>10, <1>11, <1>13, <1>14, <1>15 DEF BackupInd

-----------------------------------------------------------------------------
\* The program begins in the invariant.
LEMMA BackupBegins ==
    ASSUME BackupInit
    PROVE  BackupInd
<1>1. PICK a \in Archives : a = Unused
  <2>1. MaxNow \in Nat /\ MaxSchema \in Nat
    BY BackupAssumption
  <2>2. Unused = [state |-> "unused", kind |-> "daily", at |-> 0, schema |-> 0, health |-> "good"]
    BY DEF Unused
  <2> QED BY <2>1, <2>2 DEF Archives, Kinds
<1>2. PICK d \in CreatorRows : d = Resting
  BY DEF Resting, CreatorRows, CreateSteps
<1>3. a.state = "unused" /\ d.step = "rest" /\ d.id = 0
  BY <1>1, <1>2 DEF Unused, Resting
<1>4. /\ archive = [i \in Ids |-> a] /\ creator = [c \in Creators |-> d]
      /\ schema \in 0 .. MaxSchema /\ session \in Versions /\ gate = "free" /\ upgraded = {}
      /\ now \in 0 .. MaxNow /\ trouble \in 0 .. MaxTroubles /\ program = "closed"
  <2>1. MaxNow \in Nat /\ MaxTroubles \in Nat /\ MaxWrites \in Nat
    BY BackupAssumption
  <2> QED BY <1>1, <1>2, <2>1 DEF BackupInit, Versions
<1>5. BackupTypeOK /\ UpgradeHasBackup
  BY <1>4 DEF BackupTypeOK, UpgradeHasBackup
<1>6. WorkOK /\ \A c \in Creators : CreatorOK(c)
  BY <1>3, <1>4 DEF WorkOK, CreatorOK, Making, MakingRow
<1>7. StartupOK
  BY <1>3, <1>4 DEF StartupOK, Creators
<1> QED BY <1>5, <1>6, <1>7 DEF BackupInd

\* A rotation that fails leaves what it has not removed.
LEMMA RotationFailsStep ==
    ASSUME BackupInd, NEW c \in Creators, RotationFails(c)
    PROVE  BackupInd'
<1>1. /\ ~Making(c) /\ creator[c].step # "rest"
      /\ UNCHANGED <<schema, session, gate, archive, program, upgraded, now>>
      /\ trouble' = trouble + 1 /\ trouble < MaxTroubles
  BY DEF RotationFails, Making, MakingRow, Trouble
<1>2. /\ archive \in [Ids -> Archives] /\ creator \in [Creators -> CreatorRows] /\ 0 \notin Ids
      /\ program \in {"closed", "backing", "backed", "upgrading", "open"}
      /\ gate \in Creators \cup {"free"} /\ trouble \in 0 .. MaxTroubles /\ MaxTroubles \in Nat
  BY BackupFacts, BackupAssumption
<1>3. c # "startup"
  BY <1>1, RotatesNoStartup DEF RotationFails
<1>4. PICK d \in CreatorRows : d = Resting
  BY DEF Resting, CreatorRows, CreateSteps
<1>5. d.step = "rest" /\ d.id = 0 /\ creator' = [creator EXCEPT ![c] = d] /\ creator'[c] = d
  BY <1>2, <1>4 DEF RotationFails, Resting
<1>6. CreatorOK(c)' /\ ~MakingRow(d)
  BY <1>2, <1>5 DEF CreatorOK, Making, MakingRow
<1>7. ArchivesMove
  BY <1>1, <1>2 DEF ArchivesMove, Removed
<1>8. trouble' \in 0 .. MaxTroubles
  BY <1>1, <1>2
<1>9. CreatorMoves(c, d)
  BY <1>1, <1>2, <1>5, <1>6, <1>7, <1>8 DEF CreatorMoves
<1> QED BY <1>1, <1>2, <1>3, <1>9, CloseStep

\* Every step keeps it.
LEMMA BackupStep ==
    ASSUME BackupInd, [BackupNext]_backupVars
    PROVE  BackupInd'
<1>1. CASE \E c \in Creators : CreateStep(c)
  <2>1. PICK c \in Creators : CreateStep(c)
    BY <1>1
  <2> QED BY <2>1, CopyStep, VerifyStep, PublishStep, ListStep, SortStep, RemoveStep,
           RotationFailsStep DEF CreateStep
<1>2. CASE (\E c \in Askers : CreateBackup(c)) \/ RunScheduled
  BY <1>2, UserStep
<1>3. CASE RunMonthly
  BY <1>3, MonthlyStep
<1>4. CASE OpenDatabase
  BY <1>4, OpenStep
<1>5. CASE ApplyMigration
  BY <1>5, MigrationStep
<1>6. CASE (\E f \in SessionFiles : StoreSession(f)) \/ MoveClock \/ UNCHANGED backupVars
  BY <1>6, OutsideStep
<1>7. CASE KillProgram
  BY <1>7, KillStep
<1>8. CASE SpoilArchive
  BY <1>8, SpoilStep
<1> QED BY <1>1, <1>2, <1>3, <1>4, <1>5, <1>6, <1>7, <1>8 DEF BackupNext

\* The inductive invariant contains what the runs check.
LEMMA BackupIndIsEnough ==
    ASSUME BackupInd
    PROVE  BackupInv
<1>1. BackupTypeOK /\ UpgradeHasBackup /\ WorkOK /\ \A c \in Creators : CreatorOK(c)
  BY DEF BackupInd
<1>2. SnapshotIsOneMoment
  BY <1>1 DEF SnapshotIsOneMoment, CreatorOK
<1>3. ASSUME NEW i \in Ids
      PROVE  archive[i].state = "temp" <=>
               \E c \in Creators : creator[c].id = i /\ creator[c].step \notin {"list", "sort", "rotate"}
  <2>1. ASSUME archive[i].state = "temp"
        PROVE  \E c \in Creators : creator[c].id = i /\ creator[c].step \notin {"list", "sort", "rotate"}
    BY <1>1, <2>1 DEF WorkOK, Making, MakingRow
  <2>2. ASSUME NEW c \in Creators, creator[c].id = i, creator[c].step \notin {"list", "sort", "rotate"}
        PROVE  archive[i].state = "temp"
    <3>1. creator[c].step # "rest"
      BY <1>1, <1>3, <2>2, BackupFacts DEF CreatorOK
    <3> QED BY <1>1, <2>2, <3>1 DEF CreatorOK, Making, MakingRow
  <2> QED BY <2>1, <2>2
<1> QED BY <1>1, <1>2, <1>3 DEF BackupInv, WorkOK

\* For any number of accounts, creators, archives and failures: a snapshot holds
\* session files of one moment, a hidden archive is someone's work, nothing
\* unverified is published, and every upgrade has its backup.
THEOREM BackupInvariant == BackupSpec => []BackupInv
<1>1. BackupInit => BackupInd
  BY BackupBegins
<1>2. BackupInd /\ [BackupNext]_backupVars => BackupInd'
  BY BackupStep
<1>3. BackupInd => BackupInv
  BY BackupIndIsEnough
<1> QED BY <1>1, <1>2, <1>3, PTL DEF BackupSpec

-----------------------------------------------------------------------------
\* Work on a hidden archive removes none that is published.
LEMMA WorkRemovesNone ==
    ASSUME BackupInd, NEW c \in Creators, Making(c), NEW new,
           archive' = [archive EXCEPT ![creator[c].id] = new],
           NEW i \in Ids, archive[i].state = "disk"
    PROVE  archive'[i] = archive[i]
<1>1. creator[c].id \in Ids /\ archive[creator[c].id].state = "temp" /\ archive \in [Ids -> Archives]
  BY WorkerHasId, BackupFacts DEF CreatorOK, Making, MakingRow
<1> QED BY <1>1

\* Only a rotation removes a published archive.
LEMMA OnlyRotationRemoves ==
    ASSUME BackupInd, [BackupNext]_backupVars, program' # "closed",
           NEW i \in Ids, archive[i].state = "disk", archive'[i].state = "gone"
    PROVE  \E c \in Creators : RemoveObsolete(c)
<1>1. archive \in [Ids -> Archives]
  BY BackupFacts
<1>2. PICK was \in Archives : was = archive[i]
  BY <1>1
<1>3. ASSUME NEW x, NEW kind, archive' = [archive EXCEPT ![x].state = "temp", ![x].kind = kind, ![x].at = now]
      PROVE  FALSE
  <2>1. CASE x = i
    <3>1. archive'[i] = [was EXCEPT !.state = "temp", !.kind = kind, !.at = now]
      BY <1>1, <1>2, <1>3, <2>1
    <3> QED BY <3>1 DEF Archives
  <2>2. CASE x # i
    BY <1>1, <1>3, <2>2
  <2> QED BY <2>1, <2>2
<1>4. ASSUME NEW c, NEW kind, BeginCreate(c, kind) PROVE FALSE
  BY <1>3, <1>4 DEF BeginCreate
<1>5. ASSUME NEW c \in Creators, CreateStep(c), ~RemoveObsolete(c) PROVE FALSE
  <2>1. archive' # archive
    BY <1>5
  <2>2. CASE CopyDatabase(c)
    <3>1. Making(c) /\ \E new : archive' = [archive EXCEPT ![creator[c].id] = new]
      BY <2>2 DEF CopyDatabase, Making, MakingRow
    <3> QED BY <3>1, WorkRemovesNone
  <2>3. CASE SealArchive(c)
    <3>1. Making(c) /\ \E new : archive' = [archive EXCEPT ![creator[c].id] = new]
      BY <2>1, <2>3 DEF SealArchive, Making, MakingRow
    <3> QED BY <3>1, WorkRemovesNone
  <2>4. CASE PublishArchive(c)
    <3>1. Making(c) /\ \E new : archive' = [archive EXCEPT ![creator[c].id] = new]
      BY <2>4 DEF PublishArchive, Making, MakingRow
    <3> QED BY <3>1, WorkRemovesNone
  <2>5. CASE VerifyCreated(c) \/ CreateFails(c)
    <3>1. Making(c) /\ FailCreate(c)
      BY <2>1, <2>5 DEF VerifyCreated, CreateFails, Making, MakingRow
    <3> QED BY <3>1, WorkRemovesNone DEF FailCreate
  <2>6. CASE \/ TakeBarrier(c) \/ CopySession(c) \/ ListArchives(c) \/ SortArchives(c)
             \/ RotationFails(c)
    BY <2>1, <2>6 DEF TakeBarrier, CopySession, ListArchives, SortArchives, RotationFails
  <2> QED BY <1>5, <2>2, <2>3, <2>4, <2>5, <2>6 DEF CreateStep
<1>6. ~(\E c \in Askers : CreateBackup(c)) /\ ~RunScheduled
  BY <1>4 DEF CreateBackup, RunScheduled
<1>7. ~RunMonthly /\ ~OpenDatabase
  BY <1>4 DEF RunMonthly, OpenDatabase
<1>8. ~SpoilArchive
  <2>1. ASSUME NEW x \in Ids, archive' = [archive EXCEPT ![x].health = "spoilt"] PROVE FALSE
    <3>1. CASE x = i
      <4>1. archive'[i] = [was EXCEPT !.health = "spoilt"]
        BY <1>1, <1>2, <2>1, <3>1
      <4> QED BY <1>2, <4>1 DEF Archives
    <3>2. CASE x # i
      BY <1>1, <2>1, <3>2
    <3> QED BY <3>1, <3>2
  <2> QED BY <2>1 DEF SpoilArchive
<1>9. ~ApplyMigration /\ ~(\E f \in SessionFiles : StoreSession(f)) /\ ~KillProgram /\ ~MoveClock
      /\ ~UNCHANGED backupVars
  BY DEF ApplyMigration, StoreSession, KillProgram, MoveClock, backupVars
<1> QED BY <1>5, <1>6, <1>7, <1>8, <1>9 DEF BackupNext

\* What remains of the newer archives when one is removed.
LEMMA RemovalLeavesNewer ==
    ASSUME BackupInd, NEW c \in Creators, RemoveObsolete(c),
           NEW i \in Ids, archive[i].state = "disk", archive'[i].state = "gone"
    PROVE  Cardinality({j \in OnDisk(archive[i].kind) :
                            verifyArchive(j) /\ Newer(j, i) /\ archive'[j].state = "disk"})
               >= Retention(archive[i].kind)
<1>1. PICK x \in creator[c].view :
         archive[x].state = "disk" /\ archive' = [archive EXCEPT ![x] = [Gone EXCEPT !.kind = archive[x].kind]]
  BY DEF RemoveObsolete
<1>2. archive \in [Ids -> Archives] /\ creator[c] \in CreatorRows /\ CreatorOK(c) /\ creator[c].step = "rotate"
  BY BackupFacts DEF RemoveObsolete
<1>3. x \in Ids /\ Spare(x) /\ \A j \in Ids \ {x} : archive'[j] = archive[j]
  BY <1>1, <1>2 DEF CreatorRows, CreatorOK
<1>4. x = i
  BY <1>3
<1>5. PICK T \in SUBSET Ids : T = {j \in OnDisk(archive[i].kind) :
                                       verifyArchive(j) /\ Newer(j, i) /\ archive'[j].state = "disk"}
  BY DEF OnDisk
<1>6. PICK S \in SUBSET Ids : S = NewerGood(i)
  BY DEF NewerGood, OnDisk
<1>7. PICK n \in Nat : n = Retention(archive[i].kind)
  BY RetentionNat
<1>8. ASSUME NEW j \in S PROVE j \in T
  <2>1. j # i /\ archive[j].state = "disk"
    BY <1>6, <1>8, NewerOrder DEF NewerGood, OnDisk
  <2>2. archive'[j].state = "disk"
    BY <1>3, <1>4, <1>8, <2>1
  <2> QED BY <1>5, <1>6, <1>8, <2>2 DEF NewerGood
<1>9. Cardinality(S) >= n
  BY <1>3, <1>4, <1>6, <1>7 DEF Spare
<1>10. Cardinality(T) >= n
  BY <1>8, <1>9, MoreArchives
<1> QED BY <1>5, <1>7, <1>10

\* Rotations that overlap, each from a listing of its own, never remove an archive
\* of which too few newer ones are on the disk and readable.
THEOREM RotationKeeps == BackupSpec => RotationKeepsNewest
<1>1. BackupInit => BackupInd
  BY BackupBegins
<1>2. BackupInd /\ [BackupNext]_backupVars => BackupInd'
  BY BackupStep
<1>3. ASSUME BackupInd, [BackupNext]_backupVars
      PROVE  \A c \in Creators, i \in Ids :
        (creator[c].step = "rotate" /\ creator[c] # creator'[c] /\
         archive[i].state = "disk" /\ archive'[i].state = "gone" /\ program' # "closed") =>
            Cardinality({j \in OnDisk(archive[i].kind) :
                             verifyArchive(j) /\ Newer(j, i) /\ archive'[j].state = "disk"})
                >= Retention(archive[i].kind)
  BY <1>3, OnlyRotationRemoves, RemovalLeavesNewer
<1> QED BY <1>1, <1>2, <1>3, PTL DEF BackupSpec, RotationKeepsNewest

(***************************************************************************)
(* The first launch.                                                       *)
(***************************************************************************)
Seeds == {SeedTree(l) : l \in Launches}
Counters == [writes : 0 .. MaxIntrusions, faults : 0 .. MaxFaults, kills : 0 .. MaxKills]

\* The disk: the seeds of this program count as used, what is the profile's data
\* was exposed, and what is deleted is a seed nobody could reach.
DiskOK ==
    /\ spent \in Counters
    /\ \A t \in Trees : tree[t].ver <= spent.writes
    /\ \A t \in Seeds : tree[t].used
    /\ target.data # NoTree => target.data \in exposed
    /\ exposed \cap deleted = {} /\ deleted \subseteq Seeds

\* Unless a rename or a secret could not be taken back, the profile with the data
\* of a seed has its secrets, and a profile with a marker has the data of a seed.
ProfileOK ==
    ~stuck => /\ target.data \in Seeds => \A n \in SecretNames : secret[n] = "seed"
              /\ target.marker = "good" => target.data \in Seeds

BeforeStage == {"out", "waiting", "scanning", "staging"}
Staged == {"secrets", "observe", "publish"}
Published == {"verify", "marker", "validate", "unmark", "restore"}

\* What launch l may rely on, with row d and staging directory s: before the
\* exchange its seed is hidden and the profile is no seed; after it the profile is
\* its seed with all its secrets, and the tree that was displaced is in its staging
\* directory; once the exchange is taken back nothing that was exposed goes with
\* the staging directory.
Hidden(l) == SeedTree(l) \notin exposed \cup deleted
LaunchOK(l, d, s) ==
    /\ d.step \in BeforeStage => Hidden(l) /\ s.data = NoTree
    /\ d.step \in Staged => Hidden(l) /\ s.data = SeedTree(l)
    /\ d.step \in Staged \cup {"scanning", "staging"} => target.data \notin Seeds
    /\ d.step = "secrets" => \A n \in SecretNames \ d.todo : secret[n] = "seed"
    /\ d.step \in Published \cup {"observe", "publish"} =>
          \A n \in SecretNames : secret[n] = "seed"
    /\ d.step \in Published =>
          /\ target.data = SeedTree(l) /\ s.data \notin Seeds
          /\ d.seen = <<>> => s.data = NoTree
          /\ d.seen # <<>> => s.data \in exposed
    /\ d.step \in {"verify", "marker", "restore"} /\ ~stuck => target.marker # "good"
    /\ d.step = "undo" =>
          /\ s.keep \/ (Hidden(l) /\ s.data = SeedTree(l))
          /\ ~stuck => /\ target.data \notin Seeds
                       /\ \A n \in SecretNames \ d.todo :
                             d.prior[n] # "none" => secret[n] = d.prior[n]

\* The inductive invariant of the first launch.
SeedInd ==
    /\ SeedTypeOK /\ DiskOK /\ ProfileOK
    /\ \A l \in Launches : LaunchOK(l, launch[l], staging[l])

-----------------------------------------------------------------------------
\* The names of the trees differ.
LEMMA TreeNames ==
    /\ NoTree \notin Trees /\ LateTree \in Trees /\ OldTree \in Trees /\ Seeds \subseteq Trees
    /\ NoTree \notin Seeds /\ LateTree \notin Seeds /\ OldTree \notin Seeds
    /\ \A l \in Launches : SeedTree(l) \in Seeds /\ SeedTree(l) # NoTree
    /\ \A k, l \in Launches : SeedTree(k) = SeedTree(l) => k = l
BY DEF Trees, Seeds, NoTree, LateTree, OldTree, SeedTree

\* What the invariant says of the types.
LEMMA SeedFacts ==
    ASSUME SeedInd
    PROVE  /\ tree \in [Trees -> Contents] /\ target \in Roots /\ staging \in [Launches -> Stages]
           /\ secret \in [SecretNames -> {"none", "app", "seed"}]
           /\ launch \in [Launches -> LaunchRows] /\ seedLock \in Launches \cup {"none"}
           /\ exposed \subseteq Trees /\ deleted \subseteq Trees /\ stuck \in BOOLEAN
           /\ spent \in Counters
           /\ \A l \in Launches : launch[l].step \in Installing <=> seedLock = l
           /\ \A l \in Launches : LaunchOK(l, launch[l], staging[l])
           /\ "none" \notin Launches
BY SeedAssumption DEF SeedInd, SeedTypeOK, DiskOK

\* A step of the launch that holds the lock, or takes it.
LEMMA InstallerStep ==
    ASSUME SeedInd, NEW l \in Launches, seedLock \in {l, "none"},
           NEW row \in LaunchRows, launch' = [launch EXCEPT ![l] = row],
           NEW stage \in Stages, staging' = [staging EXCEPT ![l] = stage],
           seedLock' \in {l, "none"}, row.step \in Installing <=> seedLock' = l,
           tree' \in [Trees -> Contents],
           \A t \in Trees : tree'[t].ver = tree[t].ver /\ tree'[t].used = tree[t].used,
           target' \in Roots, secret' \in [SecretNames -> {"none", "app", "seed"}],
           stuck' \in BOOLEAN, spent' \in Counters, spent'.writes = spent.writes,
           exposed \subseteq exposed', exposed' \subseteq exposed \cup {SeedTree(l)},
           deleted' \subseteq deleted \cup {SeedTree(l)},
           target'.data # NoTree => target'.data \in exposed',
           exposed' \cap deleted' = {},
           ProfileOK', LaunchOK(l, row, stage)'
    PROVE  SeedInd'
<1>1. /\ launch \in [Launches -> LaunchRows] /\ staging \in [Launches -> Stages]
      /\ exposed \subseteq Trees /\ deleted \subseteq Trees /\ "none" \notin Launches
      /\ \A k \in Launches : launch[k].step \in Installing <=> seedLock = k
  BY SeedFacts
<1>2. /\ launch'[l] = row /\ staging'[l] = stage
      /\ \A k \in Launches \ {l} : launch'[k] = launch[k] /\ staging'[k] = staging[k]
  BY <1>1
<1>3. \A k \in Launches : launch'[k].step \in Installing <=> seedLock' = k
  BY <1>1, <1>2
<1>4. SeedTypeOK'
  BY <1>1, <1>3, TreeNames DEF SeedTypeOK
<1>5. DiskOK'
  BY TreeNames DEF SeedInd, DiskOK
<1>6. ASSUME NEW k \in Launches \ {l} PROVE LaunchOK(k, launch[k], staging[k])'
  <2>1. PICK d \in LaunchRows : d = launch[k]
    BY <1>1
  <2>2. PICK s \in Stages : s = staging[k]
    BY <1>1
  <2>3. d.step \notin Installing
    BY <1>1, <2>1
  <2>4. d.step \in BeforeStage => Hidden(k) /\ s.data = NoTree
    BY <2>1, <2>2, SeedFacts DEF LaunchOK
  <2>5. Hidden(k) => Hidden(k)'
    BY TreeNames DEF Hidden
  <2>6. LaunchOK(k, d, s)'
    BY <2>3, <2>4, <2>5 DEF LaunchOK, BeforeStage, Installing, LaunchSteps, Staged, Published
  <2> QED BY <1>2, <2>1, <2>2, <2>6
<1>7. \A k \in Launches : LaunchOK(k, launch[k], staging[k])'
  BY <1>2, <1>6
<1> QED BY <1>4, <1>5, <1>7 DEF SeedInd

\* What somebody may do to the disk who does not hold the lock.
Gentle ==
    /\ exposed \subseteq exposed' /\ exposed' \subseteq exposed \cup {LateTree}
    /\ UNCHANGED <<deleted, stuck, seedLock>>
    /\ target' \in Roots
    /\ target'.data = target.data \/ (target.data = NoTree /\ target'.data = LateTree)
    /\ target'.data # NoTree => target'.data \in exposed'
    /\ target'.marker = target.marker \/ target'.marker = "bad"
    /\ secret' \in [SecretNames -> {"none", "app", "seed"}]
    /\ \A n \in SecretNames : secret[n] # "none" => secret'[n] = secret[n]
    /\ tree' \in [Trees -> Contents] /\ \A t \in Seeds : tree'[t].used
    /\ \A t \in Trees : tree'[t].ver <= spent'.writes
    /\ spent' \in Counters

\* A launch that does not hold the lock goes on without its staging directory.
Bystander(k) ==
    \/ launch'[k] = launch[k] /\ staging'[k] = staging[k]
    \/ /\ launch[k].step \notin Installing
       /\ \/ launch'[k].step \in {"workspace", "recovery", "ended"}
          \/ /\ launch[k].step = "out" /\ launch'[k].step = "waiting"
             /\ staging'[k] = staging[k]

\* Such a step leaves everybody what they rely on.
LEMMA GentleStep ==
    ASSUME SeedInd, Gentle,
           launch' \in [Launches -> LaunchRows], staging' \in [Launches -> Stages],
           \A k \in Launches : Bystander(k)
    PROVE  SeedInd'
<1>1. /\ launch \in [Launches -> LaunchRows] /\ staging \in [Launches -> Stages]
      /\ exposed \subseteq Trees /\ deleted \subseteq Trees /\ stuck \in BOOLEAN
      /\ seedLock \in Launches \cup {"none"}
      /\ \A k \in Launches : launch[k].step \in Installing <=> seedLock = k
  BY SeedFacts
<1>2. \A k \in Launches : launch'[k].step \in Installing <=> seedLock' = k
  BY <1>1 DEF Gentle, Bystander, Installing
<1>3. SeedTypeOK'
  BY <1>1, <1>2, TreeNames DEF SeedTypeOK, Gentle
<1>4. DiskOK'
  BY TreeNames DEF SeedInd, DiskOK, Gentle
<1>5. ProfileOK'
  BY TreeNames DEF SeedInd, ProfileOK, Gentle
<1>6. ASSUME NEW k \in Launches PROVE LaunchOK(k, launch[k], staging[k])'
  <2>1. PICK d \in LaunchRows : d = launch[k]
    BY <1>1
  <2>2. PICK s \in Stages : s = staging[k]
    BY <1>1
  <2>3. LaunchOK(k, d, s)
    BY <2>1, <2>2, SeedFacts
  <2>4. Hidden(k) => Hidden(k)'
    BY TreeNames DEF Hidden, Gentle
  <2>5. PICK e \in LaunchRows : e = launch'[k]
    OBVIOUS
  <2>6. PICK r \in Stages : r = staging'[k]
    OBVIOUS
  <2>7. CASE e = d /\ r = s
    <3>1. /\ target'.data \in Seeds => target'.data = target.data
          /\ target.data = SeedTree(k) => target'.data = SeedTree(k)
          /\ \A n \in SecretNames : secret[n] # "none" => secret'[n] = secret[n]
          /\ target'.marker = "good" => target.marker = "good"
          /\ UNCHANGED stuck /\ exposed \subseteq exposed'
      BY TreeNames DEF Gentle
    <3>2. LaunchOK(k, d, s)'
      BY <2>3, <2>4, <3>1 DEF LaunchOK
    <3> QED BY <2>5, <2>6, <2>7, <3>2
  <2>8. CASE e.step \in {"workspace", "recovery", "ended"}
    <3>1. LaunchOK(k, e, r)'
      BY <2>8 DEF LaunchOK, BeforeStage, Staged, Published
    <3> QED BY <2>5, <2>6, <3>1
  <2>9. CASE d.step = "out" /\ e.step = "waiting" /\ r = s
    <3>1. Hidden(k)' /\ s.data = NoTree
      BY <2>3, <2>4, <2>9 DEF LaunchOK, BeforeStage
    <3>2. LaunchOK(k, e, r)'
      BY <2>9, <3>1 DEF LaunchOK, BeforeStage, Staged, Published
    <3> QED BY <2>5, <2>6, <3>2
  <2> QED BY <2>1, <2>2, <2>5, <2>6, <2>7, <2>8, <2>9 DEF Bystander
<1>7. \A k \in Launches : LaunchOK(k, launch[k], staging[k])'
  BY <1>6
<1> QED BY <1>3, <1>4, <1>5, <1>7 DEF SeedInd

\* A row that ends a launch, and the parts of the rows.
LEMMA LaunchEnds ==
    ASSUME NEW step \in {"workspace", "recovery", "ended"}
    PROVE  /\ [NotLaunched EXCEPT !.step = step] \in LaunchRows
           /\ [NotLaunched EXCEPT !.step = step].step = step
BY DEF NotLaunched, LaunchRows, LaunchSteps

LEMMA StepRow ==
    ASSUME NEW d \in LaunchRows, NEW step \in LaunchSteps
    PROVE  /\ [d EXCEPT !.step = step] \in LaunchRows
           /\ [d EXCEPT !.step = step].step = step
           /\ [d EXCEPT !.step = step].todo = d.todo
           /\ [d EXCEPT !.step = step].prior = d.prior
           /\ [d EXCEPT !.step = step].seen = d.seen
BY DEF LaunchRows

\* The database of a tree opens or closes.
LEMMA TreeOpens ==
    ASSUME tree \in [Trees -> Contents], NEW t, NEW b \in BOOLEAN,
           tree' = [tree EXCEPT ![t].open = b]
    PROVE  /\ tree' \in [Trees -> Contents]
           /\ \A x \in Trees : tree'[x].ver = tree[x].ver /\ tree'[x].used = tree[x].used
<1>1. CASE t \in Trees
  <2>1. PICK r \in Contents : r = tree[t]
    BY <1>1
  <2>2. PICK q : q = [r EXCEPT !.open = b]
    OBVIOUS
  <2>3. q \in Contents /\ q.ver = r.ver /\ q.used = r.used
    BY <2>2 DEF Contents
  <2>4. tree' = [tree EXCEPT ![t] = q]
    BY <1>1, <2>1, <2>2
  <2> QED BY <1>1, <2>1, <2>3, <2>4
<1>2. CASE t \notin Trees
  <2>1. tree' = tree
    BY <1>2
  <2> QED BY <2>1
<1> QED BY <1>1, <1>2

\* A profile that may be installed over has no seed.
LEMMA RequiresNoSeed ==
    ASSUME SeedInd, NEW b \in BOOLEAN, inspectFirstLaunchTarget(b) = "requires"
    PROVE  target.data \notin Seeds
<1>1. target.data # NoTree => inspectFirstLaunchData(target.data) = "requires"
  BY DEF inspectFirstLaunchTarget
<1>2. inspectFirstLaunchData(target.data) = "requires" => ~tree[target.data].used
  BY DEF inspectFirstLaunchData
<1> QED BY <1>1, <1>2, TreeNames DEF SeedInd, DiskOK

-----------------------------------------------------------------------------
\* The start of a launch.
LEMMA ImportStep ==
    ASSUME SeedInd, NEW l \in Launches, NEW e \in BOOLEAN, importBundledDesktopState(l, e)
    PROVE  SeedInd'
<1>1. /\ launch[l].step = "out" /\ UNCHANGED <<seedLock, spent, staging, deleted, stuck>>
  BY DEF importBundledDesktopState, DiskUnchanged
<1>2. /\ tree \in [Trees -> Contents] /\ target \in Roots /\ spent \in Counters
      /\ secret \in [SecretNames -> {"none", "app", "seed"}] /\ exposed \subseteq Trees
      /\ launch \in [Launches -> LaunchRows] /\ staging \in [Launches -> Stages]
      /\ DiskOK
  BY SeedFacts DEF SeedInd
<1>3. PICK old \in LaunchRows : old = launch[l]
  BY <1>2
<1>4. ASSUME NEW step \in {"workspace", "recovery", "waiting"}, Reach(l, step), Gentle
      PROVE  SeedInd'
  <2>1. PICK d : d = [old EXCEPT !.step = step]
    OBVIOUS
  <2>2. d \in LaunchRows /\ d.step = step
    <3>1. step \in LaunchSteps
      BY <1>4 DEF LaunchSteps
    <3> QED BY <2>1, <3>1, StepRow
  <2>3. launch' = [launch EXCEPT ![l] = d]
    BY <1>2, <1>3, <1>4, <2>1 DEF Reach
  <2>4. launch'[l] = d /\ launch' \in [Launches -> LaunchRows] /\ \A k \in Launches \ {l} : launch'[k] = launch[k]
    BY <1>2, <2>2, <2>3
  <2>5. \A k \in Launches : Bystander(k)
    BY <1>1, <2>2, <2>4 DEF Bystander, Installing
  <2> QED BY <1>1, <1>2, <1>4, <2>4, <2>5, GentleStep
<1>5. CASE (Reach(l, "recovery") \/ Reach(l, "waiting")) /\ UNCHANGED secret /\ DiskUnchanged
  <2>1. Gentle
    BY <1>1, <1>2, <1>5 DEF Gentle, DiskUnchanged, DiskOK
  <2> QED BY <1>4, <1>5, <2>1
<1>6. ASSUME NEW t, t = (IF target.data = NoTree THEN LateTree ELSE target.data),
             Reach(l, "workspace"),
             secret' = [n \in SecretNames |-> IF secret[n] = "none" THEN "app" ELSE secret[n]],
             target' = [target EXCEPT !.data = t], tree' = [tree EXCEPT ![t].open = TRUE],
             exposed' = exposed \cup {t}
      PROVE  SeedInd'
  <2>1. /\ tree' \in [Trees -> Contents]
        /\ \A x \in Trees : tree'[x].ver = tree[x].ver /\ tree'[x].used = tree[x].used
    BY <1>2, <1>6, TreeOpens
  <2>2. t \in Trees /\ (t = target.data \/ (target.data = NoTree /\ t = LateTree))
    BY <1>2, <1>6, TreeNames DEF Roots
  <2>3. target' \in Roots /\ target'.data = t /\ target'.marker = target.marker
    BY <1>2, <1>6, <2>2 DEF Roots
  <2>4. /\ secret' \in [SecretNames -> {"none", "app", "seed"}]
        /\ \A n \in SecretNames : secret[n] # "none" => secret'[n] = secret[n]
    BY <1>2, <1>6
  <2>5. exposed \subseteq exposed' /\ exposed' \subseteq exposed \cup {LateTree} /\ t \in exposed'
    BY <1>2, <1>6, <2>2, TreeNames DEF DiskOK
  <2>6. Gentle
    BY <1>1, <1>2, <2>1, <2>2, <2>3, <2>4, <2>5, TreeNames DEF Gentle, DiskOK
  <2> QED BY <1>4, <1>6, <2>6
<1> QED BY <1>5, <1>6 DEF importBundledDesktopState

\* The window is closed.
LEMMA WindowClosesStep ==
    ASSUME SeedInd, NEW l \in Launches, CloseWorkspace(l)
    PROVE  SeedInd'
<1>1. /\ launch[l].step = "workspace" /\ Reach(l, "ended")
      /\ UNCHANGED <<target, staging, secret, seedLock, exposed, deleted, stuck, spent>>
      /\ tree' = [t \in Trees |-> IF t = target.data THEN [tree[t] EXCEPT !.open = FALSE] ELSE tree[t]]
  BY DEF CloseWorkspace
<1>2. /\ tree \in [Trees -> Contents] /\ target \in Roots /\ spent \in Counters
      /\ secret \in [SecretNames -> {"none", "app", "seed"}]
      /\ launch \in [Launches -> LaunchRows] /\ staging \in [Launches -> Stages] /\ DiskOK
  BY SeedFacts DEF SeedInd
<1>3. \A t \in Trees : /\ [tree[t] EXCEPT !.open = FALSE] \in Contents
                       /\ [tree[t] EXCEPT !.open = FALSE].ver = tree[t].ver
                       /\ [tree[t] EXCEPT !.open = FALSE].used = tree[t].used
  <2>1. ASSUME NEW r \in Contents
        PROVE  /\ [r EXCEPT !.open = FALSE] \in Contents
               /\ [r EXCEPT !.open = FALSE].ver = r.ver /\ [r EXCEPT !.open = FALSE].used = r.used
    BY DEF Contents
  <2> QED BY <1>2, <2>1
<1>4. /\ tree' \in [Trees -> Contents]
      /\ \A t \in Trees : tree'[t].ver = tree[t].ver /\ tree'[t].used = tree[t].used
  BY <1>1, <1>2, <1>3
<1>5. Gentle
  BY <1>1, <1>2, <1>4, TreeNames DEF Gentle, DiskOK
<1>6. PICK old \in LaunchRows : old = launch[l]
  BY <1>2
<1>7. PICK d : d = [old EXCEPT !.step = "ended"]
  OBVIOUS
<1>8. d \in LaunchRows /\ d.step = "ended"
  BY <1>7, StepRow DEF LaunchSteps
<1>9. launch' = [launch EXCEPT ![l] = d]
  BY <1>1, <1>2, <1>6, <1>7 DEF Reach
<1>10. launch'[l] = d /\ launch' \in [Launches -> LaunchRows] /\ \A k \in Launches \ {l} : launch'[k] = launch[k]
  BY <1>2, <1>8, <1>9
<1>11. \A k \in Launches : Bystander(k)
  BY <1>1, <1>8, <1>10 DEF Bystander, Installing
<1> QED BY <1>1, <1>2, <1>5, <1>10, <1>11, GentleStep

\* A process dies.
LEMMA KillLaunchStep ==
    ASSUME SeedInd, NEW l \in Launches, KillLaunch(l)
    PROVE  SeedInd'
<1>1. /\ spent.kills < MaxKills /\ spent' = [spent EXCEPT !.kills = @ + 1]
      /\ launch' = [launch EXCEPT ![l] = [NotLaunched EXCEPT !.step = "ended"]]
      /\ seedLock' = IF seedLock = l THEN "none" ELSE seedLock
      /\ staging' = [staging EXCEPT ![l].keep = TRUE]
      /\ UNCHANGED <<tree, target, secret, exposed, deleted, stuck>>
  BY DEF KillLaunch
<1>2. /\ tree \in [Trees -> Contents] /\ target \in Roots /\ spent \in Counters
      /\ secret \in [SecretNames -> {"none", "app", "seed"}] /\ stuck \in BOOLEAN
      /\ launch \in [Launches -> LaunchRows] /\ staging \in [Launches -> Stages]
      /\ seedLock \in Launches \cup {"none"} /\ "none" \notin Launches
      /\ DiskOK /\ ProfileOK /\ \A k \in Launches : launch[k].step \in Installing <=> seedLock = k
  BY SeedFacts DEF SeedInd
<1>3. spent' \in Counters /\ spent'.writes = spent.writes
  <2>1. MaxKills \in Nat
    BY SeedAssumption
  <2> QED BY <1>1, <1>2, <2>1 DEF Counters
<1>4. PICK d \in LaunchRows : d = [NotLaunched EXCEPT !.step = "ended"]
  BY LaunchEnds
<1>5. d.step = "ended" /\ launch' = [launch EXCEPT ![l] = d]
  BY <1>1, <1>4, LaunchEnds
<1>6. PICK s \in Stages : s = staging[l]
  BY <1>2
<1>7. PICK r : r = [s EXCEPT !.keep = TRUE]
  OBVIOUS
<1>8. r \in Stages
  BY <1>7 DEF Stages
<1>9. staging' = [staging EXCEPT ![l] = r]
  BY <1>1, <1>2, <1>6, <1>7
<1>10. LaunchOK(l, d, r)'
  BY <1>5 DEF LaunchOK, BeforeStage, Staged, Published
<1>11. CASE seedLock = l
  <2>1. ProfileOK' /\ seedLock' = "none" /\ d.step \notin Installing
    BY <1>1, <1>2, <1>5, <1>11 DEF ProfileOK, Installing
  <2>2. target'.data # NoTree => target'.data \in exposed'
    BY <1>1, <1>2 DEF DiskOK
  <2>3. exposed' \cap deleted' = {}
    BY <1>1, <1>2 DEF DiskOK
  <2> QED BY <1>1, <1>2, <1>3, <1>5, <1>8, <1>9, <1>10, <1>11, <2>1, <2>2, <2>3, InstallerStep
<1>12. CASE seedLock # l
  <2>1. Gentle
    BY <1>1, <1>2, <1>3, <1>12, TreeNames DEF Gentle, DiskOK
  <2>2. launch'[l] = d /\ launch' \in [Launches -> LaunchRows] /\ \A k \in Launches \ {l} : launch'[k] = launch[k]
    BY <1>2, <1>5
  <2>3. staging' \in [Launches -> Stages] /\ \A k \in Launches \ {l} : staging'[k] = staging[k]
    BY <1>2, <1>8, <1>9
  <2>4. \A k \in Launches : Bystander(k)
    BY <1>2, <1>5, <1>12, <2>2, <2>3 DEF Bystander
  <2> QED BY <2>1, <2>2, <2>3, <2>4, GentleStep
<1> QED BY <1>11, <1>12

\* A program that knows nothing of the lock.
LEMMA IntrudeStep ==
    ASSUME SeedInd, Intrude
    PROVE  SeedInd'
<1>1. /\ spent.writes < MaxIntrusions /\ spent' = [spent EXCEPT !.writes = @ + 1]
      /\ UNCHANGED <<staging, secret, launch, seedLock, deleted, stuck>>
  BY DEF Intrude
<1>2. /\ tree \in [Trees -> Contents] /\ target \in Roots /\ spent \in Counters
      /\ secret \in [SecretNames -> {"none", "app", "seed"}] /\ exposed \subseteq Trees
      /\ launch \in [Launches -> LaunchRows] /\ staging \in [Launches -> Stages] /\ DiskOK
      /\ MaxIntrusions \in Nat
  BY SeedFacts, SeedAssumption DEF SeedInd
<1>3. spent' \in Counters /\ spent'.writes = spent.writes + 1 /\ spent.writes \in Nat
  BY <1>1, <1>2 DEF Counters
<1>4. \A t \in Trees : tree[t].ver <= spent'.writes
  <2>1. \A t \in Trees : tree[t].ver \in Nat /\ tree[t].ver <= spent.writes
    BY <1>2 DEF DiskOK, Contents
  <2> QED BY <1>3, <2>1
<1>5. \A k \in Launches : Bystander(k)
  BY <1>1 DEF Bystander
<1>6. ASSUME Gentle PROVE SeedInd'
  BY <1>1, <1>2, <1>5, <1>6, GentleStep
<1>7. ASSUME NEW t \in exposed, tree' = [tree EXCEPT ![t].ver = @ + 1, ![t].used = TRUE],
             UNCHANGED <<target, exposed>>
      PROVE  SeedInd'
  <2>1. PICK r \in Contents : r = tree[t]
    BY <1>2, <1>7
  <2>2. PICK q : q = [r EXCEPT !.ver = @ + 1, !.used = TRUE]
    OBVIOUS
  <2>3. r.ver \in Nat /\ r.ver <= spent.writes
    BY <1>2, <1>7, <2>1 DEF DiskOK, Contents
  <2>4. r.ver + 1 <= spent'.writes /\ r.ver + 1 \in 0 .. MaxIntrusions
    BY <1>1, <1>2, <1>3, <2>3
  <2>5. q \in Contents /\ q.ver = r.ver + 1 /\ q.used
    BY <2>2, <2>4 DEF Contents
  <2>6. tree' = [tree EXCEPT ![t] = q]
    BY <1>2, <1>7, <2>1, <2>2
  <2>7. /\ tree' \in [Trees -> Contents] /\ tree'[t] = q
        /\ \A x \in Trees \ {t} : tree'[x] = tree[x]
    BY <1>2, <1>7, <2>5, <2>6
  <2>8. \A x \in Trees : tree'[x].ver <= spent'.writes
    BY <1>4, <2>4, <2>5, <2>7
  <2>9. \A x \in Seeds : tree'[x].used
    BY <1>2, <2>5, <2>7, TreeNames DEF DiskOK
  <2>10. Gentle
    BY <1>1, <1>2, <1>3, <1>7, <2>7, <2>8, <2>9 DEF Gentle, DiskOK
  <2> QED BY <1>6, <2>10
<1>8. ASSUME target.data = NoTree, target' = [target EXCEPT !.data = LateTree],
             tree' = [tree EXCEPT ![LateTree].used = TRUE], exposed' = exposed \cup {LateTree}
      PROVE  SeedInd'
  <2>1. PICK r \in Contents : r = tree[LateTree]
    BY <1>2, TreeNames
  <2>2. PICK q : q = [r EXCEPT !.used = TRUE]
    OBVIOUS
  <2>3. q \in Contents /\ q.ver = r.ver /\ q.used
    BY <2>2 DEF Contents
  <2>4. tree' = [tree EXCEPT ![LateTree] = q]
    BY <1>2, <1>8, <2>1, <2>2, TreeNames
  <2>5. /\ tree' \in [Trees -> Contents] /\ tree'[LateTree] = q
        /\ \A x \in Trees \ {LateTree} : tree'[x] = tree[x]
    BY <1>2, <2>3, <2>4, TreeNames
  <2>6. \A x \in Trees : tree'[x].ver <= spent'.writes
    BY <1>4, <2>1, <2>3, <2>5
  <2>7. \A x \in Seeds : tree'[x].used
    BY <1>2, <2>5, TreeNames DEF DiskOK
  <2>8. target' \in Roots /\ target'.data = LateTree /\ target'.marker = target.marker
    BY <1>2, <1>8, TreeNames DEF Roots
  <2>9. Gentle
    BY <1>1, <1>2, <1>3, <1>8, <2>5, <2>6, <2>7, <2>8 DEF Gentle
  <2> QED BY <1>6, <2>9
<1>9. CASE /\ (\E x \in Extras : target' = [target EXCEPT !.extra = x])
              \/ target' = [target EXCEPT !.marker = "bad"]
           /\ UNCHANGED <<tree, exposed>>
  <2>1. /\ target' \in Roots /\ target'.data = target.data
        /\ target'.marker = target.marker \/ target'.marker = "bad"
    BY <1>2, <1>9 DEF Roots, Extras
  <2>2. Gentle
    BY <1>1, <1>2, <1>3, <1>4, <1>9, <2>1 DEF Gentle, DiskOK
  <2> QED BY <1>6, <2>2
<1> QED BY <1>7, <1>8, <1>9 DEF Intrude

\* A failure is counted, the writes of others are not touched.
LEMMA FaultCounted ==
    ASSUME spent \in Counters, (MayFail /\ CountFault) \/ UNCHANGED spent
    PROVE  spent' \in Counters /\ spent'.writes = spent.writes
<1>1. MaxFaults \in Nat
  BY SeedAssumption
<1> QED BY <1>1 DEF MayFail, CountFault, Counters

\* A step of the installing launch that leaves the disk alone.
LEMMA QuietInstall ==
    ASSUME SeedInd, NEW l \in Launches, seedLock = l,
           NEW row \in LaunchRows, row.step \in Installing, launch' = [launch EXCEPT ![l] = row],
           UNCHANGED <<tree, target, staging, exposed, deleted, seedLock>>,
           secret' \in [SecretNames -> {"none", "app", "seed"}],
           stuck' \in BOOLEAN, spent' \in Counters, spent'.writes = spent.writes,
           ProfileOK', LaunchOK(l, row, staging[l])'
    PROVE  SeedInd'
<1>1. /\ tree \in [Trees -> Contents] /\ target \in Roots /\ staging \in [Launches -> Stages] /\ DiskOK
  BY SeedFacts DEF SeedInd
<1>2. PICK s \in Stages : s = staging[l]
  BY <1>1
<1>3. staging' = [staging EXCEPT ![l] = s] /\ staging'[l] = s
  BY <1>1, <1>2
<1>4. LaunchOK(l, row, s)'
  BY <1>3 DEF LaunchOK
<1>5. /\ target'.data # NoTree => target'.data \in exposed'
      /\ exposed' \cap deleted' = {}
  BY <1>1 DEF DiskOK
<1>6. row.step \in Installing <=> seedLock' = l
  OBVIOUS
<1> QED BY <1>1, <1>3, <1>4, <1>5, <1>6, InstallerStep

\* The end of an installation that gave up, or has only looked.
LEMMA LeaveStep ==
    ASSUME SeedInd, NEW l \in Launches, launch[l].step \in {"scanning", "staging", "undo"},
           Leave(l, "recovery"), UNCHANGED <<tree, target, secret, exposed, stuck>>,
           spent' \in Counters, spent'.writes = spent.writes
    PROVE  SeedInd'
<1>1. /\ tree \in [Trees -> Contents] /\ target \in Roots /\ staging \in [Launches -> Stages] /\ DiskOK
      /\ secret \in [SecretNames -> {"none", "app", "seed"}] /\ stuck \in BOOLEAN /\ ProfileOK
      /\ launch \in [Launches -> LaunchRows] /\ deleted \subseteq Trees /\ seedLock = l
  BY SeedFacts DEF SeedInd, Installing, LaunchSteps
<1>2. PICK s \in Stages : s = staging[l]
  BY <1>1
<1>3. PICK old \in LaunchRows : old = launch[l]
  BY <1>1
<1>4. LaunchOK(l, old, s)
  BY <1>2, <1>3, SeedFacts
<1>5. s.keep \/ s.data = NoTree \/ (Hidden(l) /\ s.data = SeedTree(l))
  BY <1>3, <1>4 DEF LaunchOK, BeforeStage
<1>6. PICK d \in LaunchRows : d = [NotLaunched EXCEPT !.step = "recovery"]
  BY LaunchEnds
<1>7. d.step = "recovery" /\ launch' = [launch EXCEPT ![l] = d] /\ seedLock' = "none"
  BY <1>6, LaunchEnds DEF Leave
<1>8. PICK r : r = IF s.keep THEN s ELSE NoStage
  OBVIOUS
<1>9. r \in Stages
  BY <1>8 DEF Stages, NoStage
<1>10. staging' = [staging EXCEPT ![l] = r]
  BY <1>1, <1>2, <1>8 DEF Leave
<1>11. deleted' = deleted \cup (IF s.keep THEN {} ELSE {s.data} \ {NoTree})
  BY <1>2 DEF Leave
<1>12. deleted' \subseteq deleted \cup {SeedTree(l)} /\ exposed' \cap deleted' = {}
  BY <1>1, <1>5, <1>11 DEF DiskOK, Hidden
<1>13. LaunchOK(l, d, r)' /\ ProfileOK'
  BY <1>1, <1>7 DEF LaunchOK, BeforeStage, Staged, Published, ProfileOK
<1>14. target'.data # NoTree => target'.data \in exposed'
  BY <1>1 DEF DiskOK
<1>15. "none" \notin Launches /\ d.step \notin Installing
  BY <1>7, SeedAssumption DEF Installing
<1> QED BY <1>1, <1>7, <1>9, <1>10, <1>12, <1>13, <1>14, <1>15, InstallerStep

\* The lock is taken.
LEMMA LockStep ==
    ASSUME SeedInd, NEW l \in Launches, TakeSeedLock(l)
    PROVE  SeedInd'
<1>1. /\ launch[l].step = "waiting" /\ seedLock = "none"
      /\ UNCHANGED <<secret, spent, tree, target, staging, exposed, deleted, stuck>>
  BY DEF TakeSeedLock, DiskUnchanged
<1>2. /\ tree \in [Trees -> Contents] /\ target \in Roots /\ staging \in [Launches -> Stages] /\ DiskOK
      /\ secret \in [SecretNames -> {"none", "app", "seed"}] /\ stuck \in BOOLEAN /\ ProfileOK
      /\ launch \in [Launches -> LaunchRows] /\ spent \in Counters /\ "none" \notin Launches
  BY SeedFacts DEF SeedInd
<1>3. PICK s \in Stages : s = staging[l]
  BY <1>2
<1>4. PICK old \in LaunchRows : old = launch[l]
  BY <1>2
<1>5. Hidden(l) /\ s.data = NoTree
  BY <1>1, <1>3, <1>4, SeedFacts DEF LaunchOK, BeforeStage
<1>6. ASSUME NEW step \in {"scanning", "recovery"}, Reach(l, step), seedLock' \in {l, "none"},
             step = "scanning" => seedLock' = l /\ target.data \notin Seeds,
             step = "recovery" => seedLock' = "none"
      PROVE  SeedInd'
  <2>1. PICK d : d = [old EXCEPT !.step = step]
    OBVIOUS
  <2>2. d \in LaunchRows /\ d.step = step
    <3>1. step \in LaunchSteps
      BY <1>6 DEF LaunchSteps
    <3> QED BY <2>1, <3>1, StepRow
  <2>3. launch' = [launch EXCEPT ![l] = d]
    BY <1>2, <1>4, <1>6, <2>1 DEF Reach
  <2>4. LaunchOK(l, d, s)'
    BY <1>1, <1>5, <1>6, <2>2 DEF LaunchOK, BeforeStage, Staged, Published, Hidden
  <2>5. ProfileOK' /\ (target'.data # NoTree => target'.data \in exposed') /\ exposed' \cap deleted' = {}
    BY <1>1, <1>2 DEF ProfileOK, DiskOK
  <2>6. staging' = [staging EXCEPT ![l] = s]
    BY <1>1, <1>2, <1>3
  <2>7. d.step \in Installing <=> seedLock' = l
    BY <1>2, <1>6, <2>2 DEF Installing, LaunchSteps
  <2> QED BY <1>1, <1>2, <1>6, <2>2, <2>3, <2>4, <2>5, <2>6, <2>7, InstallerStep
<1>7. CASE inspectFirstLaunchTarget(FALSE) = "requires"
  <2>1. target.data \notin Seeds
    BY <1>7, RequiresNoSeed
  <2> QED BY <1>6, <1>7, <2>1 DEF TakeSeedLock
<1>8. CASE inspectFirstLaunchTarget(FALSE) # "requires"
  BY <1>1, <1>6, <1>8 DEF TakeSeedLock
<1> QED BY <1>7, <1>8

\* The bundle is scanned and staged.
LEMMA ScanStep ==
    ASSUME SeedInd, NEW l \in Launches, ScanBundle(l) \/ StageSeed(l)
    PROVE  SeedInd'
<1>1. /\ launch[l].step \in {"scanning", "staging"}
      /\ UNCHANGED <<tree, target, secret, exposed, stuck>>
  BY DEF ScanBundle, StageSeed
<1>2. /\ tree \in [Trees -> Contents] /\ target \in Roots /\ staging \in [Launches -> Stages] /\ DiskOK
      /\ secret \in [SecretNames -> {"none", "app", "seed"}] /\ stuck \in BOOLEAN /\ ProfileOK
      /\ launch \in [Launches -> LaunchRows] /\ spent \in Counters /\ seedLock = l
  BY <1>1, SeedFacts DEF SeedInd, Installing, LaunchSteps
<1>3. PICK s \in Stages : s = staging[l]
  BY <1>2
<1>4. PICK old \in LaunchRows : old = launch[l]
  BY <1>2
<1>5. Hidden(l) /\ s.data = NoTree /\ target.data \notin Seeds
  BY <1>1, <1>3, <1>4, SeedFacts DEF LaunchOK, BeforeStage
<1>6. ProfileOK' /\ (target'.data # NoTree => target'.data \in exposed')
  BY <1>1, <1>2 DEF ProfileOK, DiskOK
<1>7. spent' \in Counters /\ spent'.writes = spent.writes
  BY <1>2, FaultCounted DEF ScanBundle, StageSeed
<1>8. CASE Leave(l, "recovery")
  BY <1>1, <1>7, <1>8, LeaveStep
<1>9. CASE Reach(l, "staging") /\ UNCHANGED <<staging, seedLock, deleted>>
  <2>1. PICK d : d = [old EXCEPT !.step = "staging"]
    OBVIOUS
  <2>2. d \in LaunchRows /\ d.step = "staging"
    BY <2>1, StepRow DEF LaunchSteps
  <2>3. launch' = [launch EXCEPT ![l] = d]
    BY <1>2, <1>4, <1>9, <2>1 DEF Reach
  <2>4. LaunchOK(l, d, s)' /\ staging'[l] = s /\ d.step \in Installing
    BY <1>1, <1>3, <1>5, <1>9, <2>2 DEF LaunchOK, BeforeStage, Staged, Published, Hidden, Installing, LaunchSteps
  <2>5. LaunchOK(l, d, staging[l])'
    BY <2>4 DEF LaunchOK
  <2> QED BY <1>1, <1>2, <1>6, <1>7, <1>9, <2>2, <2>3, <2>4, <2>5, QuietInstall
<1>10. CASE /\ staging' = [staging EXCEPT ![l] = [data |-> SeedTree(l), marker |-> TRUE, keep |-> FALSE]]
            /\ launch' = [launch EXCEPT ![l].step = "secrets", ![l].prior = secret, ![l].todo = SecretNames]
            /\ UNCHANGED <<seedLock, deleted, spent>>
  <2>1. PICK r : r = [data |-> SeedTree(l), marker |-> TRUE, keep |-> FALSE]
    OBVIOUS
  <2>2. r \in Stages /\ r.data = SeedTree(l)
    BY <2>1, TreeNames DEF Stages
  <2>3. PICK d : d = [old EXCEPT !.step = "secrets", !.prior = secret, !.todo = SecretNames]
    OBVIOUS
  <2>4. d \in LaunchRows /\ d.step = "secrets" /\ d.todo = SecretNames
    BY <1>2, <2>3 DEF LaunchRows, LaunchSteps
  <2>5. launch' = [launch EXCEPT ![l] = d] /\ staging' = [staging EXCEPT ![l] = r]
    BY <1>2, <1>4, <1>10, <2>1, <2>3
  <2>6. LaunchOK(l, d, r)'
    BY <1>1, <1>5, <1>10, <2>2, <2>4 DEF LaunchOK, BeforeStage, Staged, Published, Hidden
  <2>7. d.step \in Installing <=> seedLock' = l
    BY <1>2, <1>10, <2>4 DEF Installing, LaunchSteps
  <2>8. exposed' \cap deleted' = {} /\ deleted' = deleted /\ exposed' = exposed /\ seedLock' \in {l, "none"}
    BY <1>1, <1>2, <1>10 DEF DiskOK
  <2> QED BY <1>1, <1>2, <1>6, <1>7, <2>2, <2>4, <2>5, <2>6, <2>7, <2>8, InstallerStep
<1> QED BY <1>8, <1>9, <1>10 DEF ScanBundle, StageSeed

\* Nothing was exchanged yet and the installation gives up.
LEMMA UndoBegins ==
    ASSUME SeedInd, NEW l \in Launches, launch[l].step \in Staged, StartUndo(l),
           UNCHANGED <<tree, target, staging, exposed, deleted, seedLock, secret, stuck>>,
           spent' \in Counters, spent'.writes = spent.writes
    PROVE  SeedInd'
<1>1. /\ staging \in [Launches -> Stages] /\ stuck \in BOOLEAN /\ ProfileOK
      /\ secret \in [SecretNames -> {"none", "app", "seed"}]
      /\ launch \in [Launches -> LaunchRows] /\ seedLock = l
  BY SeedFacts DEF SeedInd, Installing, LaunchSteps, Staged
<1>2. PICK s \in Stages : s = staging[l]
  BY <1>1
<1>3. PICK old \in LaunchRows : old = launch[l]
  BY <1>1
<1>4. Hidden(l) /\ s.data = SeedTree(l) /\ target.data \notin Seeds
  BY <1>2, <1>3, SeedFacts DEF LaunchOK
<1>5. PICK d : d = [old EXCEPT !.step = "undo", !.todo = SecretNames]
  OBVIOUS
<1>6. d \in LaunchRows /\ d.step = "undo" /\ d.todo = SecretNames
  BY <1>5 DEF LaunchRows, LaunchSteps
<1>7. launch' = [launch EXCEPT ![l] = d]
  BY <1>1, <1>3, <1>5 DEF StartUndo
<1>8. LaunchOK(l, d, s)'
  BY <1>4, <1>6 DEF LaunchOK, BeforeStage, Staged, Published, Hidden
<1>9. LaunchOK(l, d, staging[l])' /\ ProfileOK' /\ d.step \in Installing
  BY <1>1, <1>2, <1>6, <1>8 DEF LaunchOK, ProfileOK, Installing, LaunchSteps
<1> QED BY <1>1, <1>6, <1>7, <1>9, QuietInstall

\* One secret is written.
LEMMA SecretStep ==
    ASSUME SeedInd, NEW l \in Launches, SetSecret(l)
    PROVE  SeedInd'
<1>1. /\ launch[l].step = "secrets"
      /\ UNCHANGED <<tree, target, staging, exposed, deleted, stuck, seedLock>>
  BY DEF SetSecret, DiskUnchanged
<1>2. /\ staging \in [Launches -> Stages] /\ stuck \in BOOLEAN /\ ProfileOK
      /\ secret \in [SecretNames -> {"none", "app", "seed"}] /\ spent \in Counters
      /\ launch \in [Launches -> LaunchRows] /\ seedLock = l
  BY <1>1, SeedFacts DEF SeedInd, Installing, LaunchSteps
<1>3. PICK s \in Stages : s = staging[l]
  BY <1>2
<1>4. PICK old \in LaunchRows : old = launch[l]
  BY <1>2
<1>5. /\ Hidden(l) /\ s.data = SeedTree(l) /\ target.data \notin Seeds
      /\ \A n \in SecretNames \ old.todo : secret[n] = "seed"
  BY <1>1, <1>3, <1>4, SeedFacts DEF LaunchOK, Staged
<1>6. spent' \in Counters /\ spent'.writes = spent.writes
  BY <1>2, FaultCounted DEF SetSecret
<1>7. CASE launch[l].todo = {} /\ Reach(l, "observe") /\ UNCHANGED <<secret, spent>>
  <2>1. PICK d : d = [old EXCEPT !.step = "observe"]
    OBVIOUS
  <2>2. d \in LaunchRows /\ d.step = "observe"
    BY <2>1, StepRow DEF LaunchSteps
  <2>3. launch' = [launch EXCEPT ![l] = d]
    BY <1>2, <1>4, <1>7, <2>1 DEF Reach
  <2>4. \A n \in SecretNames : secret[n] = "seed"
    BY <1>4, <1>5, <1>7
  <2>5. LaunchOK(l, d, s)'
    BY <1>1, <1>5, <1>7, <2>2, <2>4 DEF LaunchOK, BeforeStage, Staged, Published, Hidden
  <2>6. LaunchOK(l, d, staging[l])' /\ ProfileOK' /\ d.step \in Installing
    BY <1>1, <1>2, <1>3, <1>7, <2>2, <2>5 DEF LaunchOK, ProfileOK, Installing, LaunchSteps
  <2> QED BY <1>1, <1>2, <1>6, <1>7, <2>2, <2>3, <2>6, QuietInstall
<1>8. ASSUME NEW n \in launch[l].todo, secret' = [secret EXCEPT ![n] = "seed"],
             launch' = [launch EXCEPT ![l].todo = @ \ {n}], UNCHANGED spent
      PROVE  SeedInd'
  <2>1. PICK d : d = [old EXCEPT !.todo = @ \ {n}]
    OBVIOUS
  <2>2. d \in LaunchRows /\ d.step = "secrets" /\ d.todo = old.todo \ {n} /\ n \in SecretNames
    BY <1>1, <1>4, <1>8, <2>1 DEF LaunchRows
  <2>3. launch' = [launch EXCEPT ![l] = d]
    BY <1>2, <1>4, <1>8, <2>1
  <2>4. /\ secret' \in [SecretNames -> {"none", "app", "seed"}]
        /\ \A m \in SecretNames \ d.todo : secret'[m] = "seed"
    BY <1>2, <1>5, <1>8, <2>2
  <2>5. LaunchOK(l, d, s)'
    BY <1>1, <1>5, <2>2, <2>4 DEF LaunchOK, BeforeStage, Staged, Published, Hidden
  <2>6. LaunchOK(l, d, staging[l])' /\ d.step \in Installing
    BY <1>1, <1>3, <2>2, <2>5 DEF LaunchOK, Installing, LaunchSteps
  <2>7. ProfileOK'
    BY <1>1, <1>2, <1>5 DEF ProfileOK
  <2> QED BY <1>1, <1>2, <1>6, <2>2, <2>3, <2>4, <2>6, <2>7, QuietInstall
<1>9. CASE UNCHANGED secret /\ StartUndo(l)
  BY <1>1, <1>6, <1>9, UndoBegins DEF Staged
<1> QED BY <1>7, <1>8, <1>9 DEF SetSecret, StartUndo

\* One secret gets its prior value back.
LEMMA UndoSecretStep ==
    ASSUME SeedInd, NEW l \in Launches, UndoSecret(l)
    PROVE  SeedInd'
<1>1. launch[l].step = "undo" /\ UNCHANGED <<tree, target, exposed>>
  BY DEF UndoSecret
<1>2. /\ staging \in [Launches -> Stages] /\ stuck \in BOOLEAN /\ ProfileOK
      /\ secret \in [SecretNames -> {"none", "app", "seed"}] /\ spent \in Counters
      /\ launch \in [Launches -> LaunchRows] /\ seedLock = l
  BY <1>1, SeedFacts DEF SeedInd, Installing, LaunchSteps
<1>3. PICK s \in Stages : s = staging[l]
  BY <1>2
<1>4. PICK old \in LaunchRows : old = launch[l]
  BY <1>2
<1>5. /\ s.keep \/ (Hidden(l) /\ s.data = SeedTree(l))
      /\ ~stuck => /\ target.data \notin Seeds
                   /\ \A n \in SecretNames \ old.todo : old.prior[n] # "none" => secret[n] = old.prior[n]
  BY <1>1, <1>3, <1>4, SeedFacts DEF LaunchOK
<1>6. spent' \in Counters /\ spent'.writes = spent.writes
  BY <1>2, FaultCounted DEF UndoSecret
<1>7. CASE Leave(l, "recovery") /\ UNCHANGED <<secret, stuck, spent>>
  BY <1>1, <1>6, <1>7, LeaveStep
<1>8. ASSUME NEW n \in launch[l].todo, launch' = [launch EXCEPT ![l].todo = @ \ {n}],
             \/ secret' = [secret EXCEPT ![n] = launch[l].prior[n]] /\ UNCHANGED stuck
             \/ stuck' = TRUE /\ UNCHANGED secret,
             UNCHANGED <<seedLock, staging, deleted>>
      PROVE  SeedInd'
  <2>1. PICK d : d = [old EXCEPT !.todo = @ \ {n}]
    OBVIOUS
  <2>2. /\ d \in LaunchRows /\ d.step = "undo" /\ d.todo = old.todo \ {n} /\ n \in SecretNames
        /\ d.prior = old.prior /\ old.prior \in [SecretNames -> {"none", "app", "seed"}]
    BY <1>1, <1>4, <1>8, <2>1 DEF LaunchRows
  <2>3. launch' = [launch EXCEPT ![l] = d]
    BY <1>2, <1>4, <1>8, <2>1
  <2>4. /\ secret' \in [SecretNames -> {"none", "app", "seed"}] /\ stuck' \in BOOLEAN
        /\ ~stuck' => ~stuck /\ secret' = [secret EXCEPT ![n] = old.prior[n]]
    BY <1>2, <1>4, <1>8, <2>2
  <2>5. ~stuck' => /\ target'.data \notin Seeds
                   /\ \A m \in SecretNames \ d.todo : d.prior[m] # "none" => secret'[m] = d.prior[m]
    BY <1>1, <1>2, <1>5, <2>2, <2>4
  <2>6. LaunchOK(l, d, s)'
    BY <1>1, <1>5, <1>8, <2>2, <2>5 DEF LaunchOK, BeforeStage, Staged, Published, Hidden
  <2>7. LaunchOK(l, d, staging[l])' /\ d.step \in Installing
    BY <1>3, <1>8, <2>2, <2>6 DEF LaunchOK, Installing, LaunchSteps
  <2>8. ProfileOK'
    BY <1>1, <1>2, <2>4, <2>5 DEF ProfileOK
  <2> QED BY <1>1, <1>2, <1>6, <1>8, <2>2, <2>3, <2>4, <2>7, <2>8, QuietInstall
<1> QED BY <1>7, <1>8 DEF UndoSecret

\* The first look of the commit.
LEMMA ObserveStep ==
    ASSUME SeedInd, NEW l \in Launches, observeFirstLaunchSeedTarget(l)
    PROVE  SeedInd'
<1>1. /\ launch[l].step = "observe"
      /\ UNCHANGED <<tree, target, staging, exposed, deleted, seedLock, secret, stuck, spent>>
  BY DEF observeFirstLaunchSeedTarget, DiskUnchanged
<1>2. /\ staging \in [Launches -> Stages] /\ stuck \in BOOLEAN /\ ProfileOK /\ target \in Roots
      /\ secret \in [SecretNames -> {"none", "app", "seed"}] /\ spent \in Counters
      /\ launch \in [Launches -> LaunchRows] /\ seedLock = l /\ tree \in [Trees -> Contents]
  BY <1>1, SeedFacts DEF SeedInd, Installing, LaunchSteps
<1>3. PICK s \in Stages : s = staging[l]
  BY <1>2
<1>4. PICK old \in LaunchRows : old = launch[l]
  BY <1>2
<1>5. CASE StartUndo(l)
  BY <1>1, <1>2, <1>5, UndoBegins DEF Staged
<1>6. ASSUME NEW seen, seen = (IF target.data = NoTree THEN <<>> ELSE Fingerprint(target.data)),
             launch' = [launch EXCEPT ![l].step = "publish", ![l].seen = seen]
      PROVE  SeedInd'
  <2>1. PICK d : d = [old EXCEPT !.step = "publish", !.seen = seen]
    OBVIOUS
  <2>2. seen \in (Trees \X (0 .. MaxIntrusions)) \cup {<<>>}
    <3>1. CASE target.data = NoTree
      BY <1>6, <3>1
    <3>2. CASE target.data # NoTree
      <4>1. target.data \in Trees /\ tree[target.data].ver \in 0 .. MaxIntrusions
        BY <1>2, <3>2 DEF Roots, Contents
      <4> QED BY <1>6, <3>2, <4>1 DEF Fingerprint
    <3> QED BY <3>1, <3>2
  <2>3. d \in LaunchRows /\ d.step = "publish"
    BY <2>1, <2>2 DEF LaunchRows, LaunchSteps
  <2>4. launch' = [launch EXCEPT ![l] = d]
    BY <1>2, <1>4, <1>6, <2>1
  <2>5. /\ Hidden(l) /\ s.data = SeedTree(l) /\ target.data \notin Seeds
        /\ \A n \in SecretNames : secret[n] = "seed"
    BY <1>1, <1>3, <1>4, SeedFacts DEF LaunchOK, Staged
  <2>6. LaunchOK(l, d, s)'
    BY <1>1, <2>3, <2>5 DEF LaunchOK, BeforeStage, Staged, Published, Hidden
  <2>7. LaunchOK(l, d, staging[l])' /\ ProfileOK' /\ d.step \in Installing
    BY <1>1, <1>2, <1>3, <2>3, <2>6 DEF LaunchOK, ProfileOK, Installing, LaunchSteps
  <2> QED BY <1>1, <1>2, <2>3, <2>4, <2>7, QuietInstall
<1> QED BY <1>5, <1>6 DEF observeFirstLaunchSeedTarget

\* What a launch that has the exchange before or behind it works with.
LEMMA InstallerFacts ==
    ASSUME SeedInd, NEW l \in Launches, launch[l].step \in Published \cup {"publish"}
    PROVE  /\ staging \in [Launches -> Stages] /\ stuck \in BOOLEAN /\ ProfileOK /\ target \in Roots
           /\ secret \in [SecretNames -> {"none", "app", "seed"}] /\ spent \in Counters
           /\ launch \in [Launches -> LaunchRows] /\ seedLock = l /\ tree \in [Trees -> Contents]
           /\ DiskOK /\ exposed \subseteq Trees /\ \A n \in SecretNames : secret[n] = "seed"
BY SeedFacts DEF SeedInd, Installing, LaunchSteps, Published, LaunchOK

\* The exchange.
LEMMA ExchangeStep ==
    ASSUME SeedInd, NEW l \in Launches, PublishData(l)
    PROVE  SeedInd'
<1>1. launch[l].step = "publish" /\ UNCHANGED <<tree, secret, seedLock, deleted, stuck>>
  BY DEF PublishData
<1>2. /\ staging \in [Launches -> Stages] /\ stuck \in BOOLEAN /\ ProfileOK /\ target \in Roots
      /\ secret \in [SecretNames -> {"none", "app", "seed"}] /\ spent \in Counters
      /\ launch \in [Launches -> LaunchRows] /\ seedLock = l /\ tree \in [Trees -> Contents]
      /\ DiskOK /\ exposed \subseteq Trees /\ \A n \in SecretNames : secret[n] = "seed"
  BY <1>1, InstallerFacts
<1>3. PICK s \in Stages : s = staging[l]
  BY <1>2
<1>4. PICK old \in LaunchRows : old = launch[l]
  BY <1>2
<1>5. Hidden(l) /\ s.data = SeedTree(l) /\ target.data \notin Seeds
  BY <1>1, <1>3, <1>4, SeedFacts DEF LaunchOK, Staged
<1>6. spent' \in Counters /\ spent'.writes = spent.writes
  BY <1>2, FaultCounted DEF PublishData
<1>7. CASE StartUndo(l) /\ UNCHANGED <<target, staging, exposed>>
  BY <1>1, <1>6, <1>7, UndoBegins DEF Staged
<1>8. ASSUME NEW step \in {"marker", "verify"}, Reach(l, step),
             CanSwap(l, launch[l].seen # <<>>), TreeSwapped(l)
      PROVE  SeedInd'
  <2>1. PICK d : d = [old EXCEPT !.step = step]
    OBVIOUS
  <2>2. d \in LaunchRows /\ d.step = step /\ d.seen = old.seen
    <3>1. step \in LaunchSteps
      BY <1>8 DEF LaunchSteps
    <3> QED BY <2>1, <3>1, StepRow
  <2>3. launch' = [launch EXCEPT ![l] = d]
    BY <1>2, <1>4, <1>8, <2>1 DEF Reach
  <2>4. PICK r : r = [s EXCEPT !.data = target.data]
    OBVIOUS
  <2>5. r \in Stages /\ r.data = target.data
    BY <1>2, <2>4 DEF Stages, Roots
  <2>6. staging' = [staging EXCEPT ![l] = r]
    BY <1>2, <1>3, <1>8, <2>4 DEF TreeSwapped
  <2>7. target' \in Roots /\ target'.data = SeedTree(l) /\ target'.marker = target.marker
    BY <1>2, <1>3, <1>5, <1>8, TreeNames DEF TreeSwapped, Roots
  <2>8. exposed' = exposed \cup {SeedTree(l)}
    BY <1>3, <1>5, <1>8, TreeNames DEF TreeSwapped
  <2>9. exposed' \cap deleted' = {}
    BY <1>1, <1>2, <1>5, <2>8 DEF DiskOK, Hidden
  <2>10. old.seen # <<>> <=> target.data # NoTree
    BY <1>3, <1>4, <1>5, <1>8, TreeNames DEF CanSwap
  <2>11. old.seen # <<>> => target.data \in exposed'
    BY <1>2, <2>8, <2>10 DEF DiskOK
  <2>12. ~stuck' => target'.marker # "good"
    BY <1>1, <1>2, <1>5, <2>7 DEF ProfileOK
  <2>13. LaunchOK(l, d, r)'
    BY <1>1, <1>2, <1>5, <1>8, <2>2, <2>5, <2>7, <2>10, <2>11, <2>12
       DEF LaunchOK, BeforeStage, Staged, Published
  <2>14. ProfileOK'
    BY <1>1, <1>2, <2>7, TreeNames DEF ProfileOK
  <2>15. d.step \in Installing <=> seedLock' = l
    BY <1>1, <1>2, <2>2 DEF Installing, LaunchSteps
  <2> QED BY <1>1, <1>2, <1>6, <2>2, <2>3, <2>5, <2>6, <2>7, <2>8, <2>9, <2>13, <2>14, <2>15,
             InstallerStep
<1> QED BY <1>7, <1>8 DEF PublishData

\* The exchange is taken back.
LEMMA TakeBackStep ==
    ASSUME SeedInd, NEW l \in Launches, launch[l].step \in {"verify", "restore"},
           NEW e \in BOOLEAN, TakeBack(l, e)
    PROVE  SeedInd'
<1>1. StartUndo(l) /\ UNCHANGED <<tree, secret, seedLock, deleted>>
  BY DEF TakeBack
<1>2. /\ staging \in [Launches -> Stages] /\ stuck \in BOOLEAN /\ ProfileOK /\ target \in Roots
      /\ secret \in [SecretNames -> {"none", "app", "seed"}] /\ spent \in Counters
      /\ launch \in [Launches -> LaunchRows] /\ seedLock = l /\ tree \in [Trees -> Contents]
      /\ DiskOK /\ exposed \subseteq Trees /\ \A n \in SecretNames : secret[n] = "seed"
  BY InstallerFacts DEF Published
<1>3. PICK s \in Stages : s = staging[l]
  BY <1>2
<1>4. PICK old \in LaunchRows : old = launch[l]
  BY <1>2
<1>5. /\ target.data = SeedTree(l) /\ s.data \notin Seeds
      /\ s.data = NoTree \/ s.data \in exposed
      /\ ~stuck => target.marker # "good"
  BY <1>3, <1>4, SeedFacts DEF LaunchOK, Published
<1>6. spent' \in Counters /\ spent'.writes = spent.writes
  BY <1>2, FaultCounted DEF TakeBack
<1>7. PICK d : d = [old EXCEPT !.step = "undo", !.todo = SecretNames]
  OBVIOUS
<1>8. d \in LaunchRows /\ d.step = "undo" /\ d.todo = SecretNames
  BY <1>7 DEF LaunchRows, LaunchSteps
<1>9. launch' = [launch EXCEPT ![l] = d]
  BY <1>1, <1>2, <1>4, <1>7 DEF StartUndo
<1>10. d.step \in Installing <=> seedLock' = l
  BY <1>1, <1>2, <1>8 DEF Installing, LaunchSteps
<1>11. ASSUME UNCHANGED stuck, target' = [target EXCEPT !.data = staging[l].data],
              staging' = [staging EXCEPT ![l].data = target.data, ![l].keep = TRUE],
              exposed' = exposed \cup ({staging[l].data} \ {NoTree})
       PROVE  SeedInd'
  <2>1. PICK r : r = [s EXCEPT !.data = target.data, !.keep = TRUE]
    OBVIOUS
  <2>2. r \in Stages /\ r.keep
    BY <1>2, <2>1 DEF Stages, Roots
  <2>3. staging' = [staging EXCEPT ![l] = r]
    BY <1>2, <1>3, <1>11, <2>1
  <2>4. target' \in Roots /\ target'.data = s.data /\ target'.marker = target.marker
    BY <1>2, <1>3, <1>11 DEF Roots, Stages
  <2>5. exposed' = exposed /\ (target'.data # NoTree => target'.data \in exposed')
    BY <1>3, <1>5, <1>11, <2>4
  <2>6. LaunchOK(l, d, r)'
    BY <1>5, <1>8, <2>2, <2>4 DEF LaunchOK, BeforeStage, Staged, Published
  <2>7. ProfileOK'
    BY <1>5, <1>11, <2>4 DEF ProfileOK
  <2>8. exposed' \cap deleted' = {} /\ deleted' = deleted
    BY <1>1, <1>2, <2>5 DEF DiskOK
  <2> QED BY <1>1, <1>2, <1>6, <1>8, <1>9, <1>10, <1>11, <2>2, <2>3, <2>4, <2>5, <2>6, <2>7, <2>8,
             InstallerStep
<1>12. ASSUME staging' = [staging EXCEPT ![l].keep = TRUE], stuck' = TRUE, UNCHANGED <<target, exposed>>
       PROVE  SeedInd'
  <2>1. PICK r : r = [s EXCEPT !.keep = TRUE]
    OBVIOUS
  <2>2. r \in Stages /\ r.keep
    BY <2>1 DEF Stages
  <2>3. staging' = [staging EXCEPT ![l] = r]
    BY <1>2, <1>3, <1>12, <2>1
  <2>4. LaunchOK(l, d, r)' /\ ProfileOK'
    BY <1>8, <1>12, <2>2 DEF LaunchOK, BeforeStage, Staged, Published, ProfileOK
  <2>5. exposed' \cap deleted' = {} /\ (target'.data # NoTree => target'.data \in exposed')
    BY <1>1, <1>2, <1>12 DEF DiskOK
  <2> QED BY <1>1, <1>2, <1>6, <1>8, <1>9, <1>10, <1>12, <2>2, <2>3, <2>4, <2>5, InstallerStep
<1> QED BY <1>11, <1>12 DEF TakeBack

\* The installation goes on to another step and changes nothing else.
LEMMA GoOn ==
    ASSUME SeedInd, NEW l \in Launches, launch[l].step \in Published,
           NEW step \in Published, Reach(l, step),
           UNCHANGED <<tree, target, staging, exposed, deleted, seedLock, secret, stuck, spent>>,
           step = "marker" => launch[l].step = "verify", step # "verify", step # "restore"
    PROVE  SeedInd'
<1>1. /\ staging \in [Launches -> Stages] /\ stuck \in BOOLEAN /\ ProfileOK
      /\ secret \in [SecretNames -> {"none", "app", "seed"}] /\ spent \in Counters
      /\ launch \in [Launches -> LaunchRows] /\ seedLock = l
      /\ \A n \in SecretNames : secret[n] = "seed"
  BY InstallerFacts
<1>2. PICK s \in Stages : s = staging[l]
  BY <1>1
<1>3. PICK old \in LaunchRows : old = launch[l]
  BY <1>1
<1>4. PICK d : d = [old EXCEPT !.step = step]
  OBVIOUS
<1>5. d \in LaunchRows /\ d.step = step /\ d.seen = old.seen
  <2>1. step \in LaunchSteps
    BY DEF LaunchSteps, Published
  <2> QED BY <1>4, <2>1, StepRow
<1>6. launch' = [launch EXCEPT ![l] = d]
  BY <1>1, <1>3, <1>4 DEF Reach
<1>7. LaunchOK(l, old, s) /\ old.step \in Published
  BY <1>2, <1>3, SeedFacts
<1>8. LaunchOK(l, d, s)'
  BY <1>1, <1>3, <1>5, <1>7 DEF LaunchOK, BeforeStage, Staged, Published
<1>9. LaunchOK(l, d, staging[l])' /\ ProfileOK' /\ d.step \in Installing
  BY <1>1, <1>2, <1>5, <1>8 DEF LaunchOK, ProfileOK, Installing, LaunchSteps, Published
<1> QED BY <1>1, <1>5, <1>6, <1>9, QuietInstall

\* The checks of what was displaced and of what is published.
LEMMA CheckStep ==
    ASSUME SeedInd, NEW l \in Launches, VerifyDisplaced(l) \/ RefusePublished(l) \/ RestoreData(l)
    PROVE  SeedInd'
<1>1. CASE VerifyDisplaced(l)
  <2>1. CASE TakeBack(l, TRUE)
    BY <1>1, <2>1, TakeBackStep DEF VerifyDisplaced
  <2>2. CASE Reach(l, "marker") /\ UNCHANGED <<tree, target, staging, secret, seedLock,
                                           exposed, deleted, stuck, spent>>
    BY <1>1, <2>2, GoOn DEF VerifyDisplaced, Published
  <2> QED BY <1>1, <2>1, <2>2 DEF VerifyDisplaced
<1>2. CASE RefusePublished(l)
  BY <1>2, GoOn DEF RefusePublished, DiskUnchanged, Published
<1>3. CASE RestoreData(l)
  BY <1>3, TakeBackStep DEF RestoreData
<1> QED BY <1>1, <1>2, <1>3

\* The marker is put there, or taken away.
LEMMA MarkerStep ==
    ASSUME SeedInd, NEW l \in Launches, PublishMarker(l) \/ TakeMarkerBack(l)
    PROVE  SeedInd'
<1>1. launch[l].step \in {"marker", "unmark"} /\ UNCHANGED <<tree, secret, seedLock, exposed, deleted>>
  BY DEF PublishMarker, TakeMarkerBack
<1>2. /\ staging \in [Launches -> Stages] /\ stuck \in BOOLEAN /\ ProfileOK /\ target \in Roots
      /\ secret \in [SecretNames -> {"none", "app", "seed"}] /\ spent \in Counters
      /\ launch \in [Launches -> LaunchRows] /\ seedLock = l /\ tree \in [Trees -> Contents]
      /\ DiskOK /\ exposed \subseteq Trees /\ \A n \in SecretNames : secret[n] = "seed"
  BY <1>1, InstallerFacts DEF Published
<1>3. PICK s \in Stages : s = staging[l]
  BY <1>2
<1>4. PICK old \in LaunchRows : old = launch[l]
  BY <1>2
<1>5. /\ target.data = SeedTree(l) /\ s.data \notin Seeds
      /\ old.seen = <<>> => s.data = NoTree
      /\ old.seen # <<>> => s.data \in exposed
      /\ old.step = "marker" /\ ~stuck => target.marker # "good"
  BY <1>1, <1>3, <1>4, SeedFacts DEF LaunchOK, Published
<1>6. spent' \in Counters /\ spent'.writes = spent.writes
  BY <1>2, FaultCounted DEF PublishMarker, TakeMarkerBack
<1>7. ASSUME NEW step \in {"validate", "restore"}, Reach(l, step), stuck' \in BOOLEAN,
             stuck => stuck', NEW r \in Stages, r.data = s.data, staging' = [staging EXCEPT ![l] = r],
             target' \in Roots, target'.data = target.data,
             step = "restore" /\ ~stuck' => target'.marker # "good"
      PROVE  SeedInd'
  <2>1. PICK d : d = [old EXCEPT !.step = step]
    OBVIOUS
  <2>2. d \in LaunchRows /\ d.step = step /\ d.seen = old.seen
    <3>1. step \in LaunchSteps
      BY <1>7 DEF LaunchSteps
    <3> QED BY <2>1, <3>1, StepRow
  <2>3. launch' = [launch EXCEPT ![l] = d]
    BY <1>2, <1>4, <1>7, <2>1 DEF Reach
  <2>4. LaunchOK(l, d, r)'
    BY <1>1, <1>2, <1>5, <1>7, <2>2 DEF LaunchOK, BeforeStage, Staged, Published
  <2>5. ProfileOK'
    BY <1>1, <1>2, <1>5, <1>7, TreeNames DEF ProfileOK
  <2>6. exposed' \cap deleted' = {} /\ (target'.data # NoTree => target'.data \in exposed')
    BY <1>1, <1>2, <1>7 DEF DiskOK
  <2>7. d.step \in Installing <=> seedLock' = l
    BY <1>1, <1>2, <1>7, <2>2 DEF Installing, LaunchSteps
  <2> QED BY <1>1, <1>2, <1>6, <1>7, <2>2, <2>3, <2>4, <2>5, <2>6, <2>7, InstallerStep
<1>8. ASSUME NEW b \in BOOLEAN, NEW m \in {"none", "good"},
             staging' = [staging EXCEPT ![l].marker = b], target' = [target EXCEPT !.marker = m]
      PROVE  \E r \in Stages : /\ r.data = s.data /\ staging' = [staging EXCEPT ![l] = r]
                               /\ target' \in Roots /\ target'.data = target.data /\ target'.marker = m
  <2>1. PICK r : r = [s EXCEPT !.marker = b]
    OBVIOUS
  <2>2. r \in Stages /\ r.data = s.data
    BY <2>1 DEF Stages
  <2>3. staging' = [staging EXCEPT ![l] = r]
    BY <1>2, <1>3, <1>8, <2>1
  <2>4. target' \in Roots /\ target'.data = target.data /\ target'.marker = m
    BY <1>2, <1>8 DEF Roots
  <2> QED BY <2>2, <2>3, <2>4
<1>9. ASSUME UNCHANGED <<target, staging>>
      PROVE  s \in Stages /\ staging' = [staging EXCEPT ![l] = s] /\ target' \in Roots
  BY <1>2, <1>3, <1>9
<1>10. CASE PublishMarker(l)
  <2>1. stuck' = stuck /\ old.step = "marker"
    BY <1>4, <1>10 DEF PublishMarker
  <2>2. CASE /\ target' = [target EXCEPT !.marker = "good"] /\ Reach(l, "validate")
             /\ staging' = [staging EXCEPT ![l].marker = FALSE]
    BY <1>2, <1>7, <1>8, <2>1, <2>2
  <2>3. CASE Reach(l, "restore") /\ UNCHANGED <<target, staging>>
    <3>1. ~stuck' => target'.marker # "good"
      BY <1>5, <2>1, <2>3
    <3> QED BY <1>2, <1>7, <1>9, <2>1, <2>3, <3>1
  <2> QED BY <1>10, <2>2, <2>3 DEF PublishMarker
<1>11. CASE TakeMarkerBack(l)
  <2>1. Reach(l, "restore")
    BY <1>11 DEF TakeMarkerBack
  <2>2. CASE /\ target' = [target EXCEPT !.marker = "none"] /\ UNCHANGED stuck
             /\ staging' = [staging EXCEPT ![l].marker = TRUE]
    <3>1. PICK r \in Stages : /\ r.data = s.data /\ staging' = [staging EXCEPT ![l] = r]
                              /\ target' \in Roots /\ target'.data = target.data /\ target'.marker = "none"
      BY <1>8, <2>2
    <3> QED BY <1>2, <1>7, <2>1, <2>2, <3>1
  <2>3. CASE stuck' = TRUE /\ UNCHANGED <<target, staging>>
    BY <1>7, <1>9, <2>1, <2>3
  <2> QED BY <1>11, <2>2, <2>3 DEF TakeMarkerBack
<1> QED BY <1>10, <1>11

\* The installation is complete.
LEMMA FinishStep ==
    ASSUME SeedInd, NEW l \in Launches, FinishSeed(l)
    PROVE  SeedInd'
<1>1. /\ launch[l].step = "validate" /\ seedLock' = "none"
      /\ UNCHANGED <<target, secret, exposed, stuck, spent>>
      /\ tree' = [tree EXCEPT ![target.data].open = TRUE]
  BY DEF FinishSeed
<1>2. /\ staging \in [Launches -> Stages] /\ stuck \in BOOLEAN /\ ProfileOK /\ target \in Roots
      /\ secret \in [SecretNames -> {"none", "app", "seed"}] /\ spent \in Counters
      /\ launch \in [Launches -> LaunchRows] /\ seedLock = l /\ tree \in [Trees -> Contents]
      /\ DiskOK /\ exposed \subseteq Trees
  BY <1>1, InstallerFacts DEF Published
<1>3. PICK s \in Stages : s = staging[l]
  BY <1>2
<1>4. PICK old \in LaunchRows : old = launch[l]
  BY <1>2
<1>5. old.seen = <<>> => s.data = NoTree
  BY <1>1, <1>3, <1>4, SeedFacts DEF LaunchOK, Published
<1>6. PICK d \in LaunchRows : d = [NotLaunched EXCEPT !.step = "workspace"]
  BY LaunchEnds
<1>7. d.step = "workspace" /\ launch' = [launch EXCEPT ![l] = d]
  BY <1>6, LaunchEnds DEF FinishSeed
<1>8. PICK r : r = IF old.seen = <<>> THEN NoStage ELSE [s EXCEPT !.keep = TRUE]
  OBVIOUS
<1>9. r \in Stages
  BY <1>8 DEF Stages, NoStage
<1>10. staging' = [staging EXCEPT ![l] = r]
  BY <1>2, <1>3, <1>4, <1>8 DEF FinishSeed
<1>11. deleted' = deleted
  BY <1>3, <1>4, <1>5 DEF FinishSeed
<1>12. /\ tree' \in [Trees -> Contents]
       /\ \A t \in Trees : tree'[t].ver = tree[t].ver /\ tree'[t].used = tree[t].used
  BY <1>1, <1>2, TreeOpens
<1>13. LaunchOK(l, d, r)' /\ ProfileOK'
  BY <1>1, <1>2, <1>7 DEF LaunchOK, BeforeStage, Staged, Published, ProfileOK
<1>14. exposed' \cap deleted' = {} /\ (target'.data # NoTree => target'.data \in exposed')
  BY <1>1, <1>2, <1>11 DEF DiskOK
<1>15. d.step \notin Installing /\ "none" \notin Launches
  BY <1>7, SeedAssumption DEF Installing
<1> QED BY <1>1, <1>2, <1>7, <1>9, <1>10, <1>11, <1>12, <1>13, <1>14, <1>15, InstallerStep

\* The first launch begins in the invariant.
LEMMA SeedBegins ==
    ASSUME SeedInit
    PROVE  SeedInd
<1>1. MaxIntrusions \in Nat /\ MaxFaults \in Nat /\ MaxKills \in Nat /\ "none" \notin Launches
  BY SeedAssumption
<1>2. spent \in Counters /\ spent.writes = 0
  BY <1>1 DEF SeedInit, Counters
<1>3. /\ tree \in [Trees -> Contents] /\ \A t \in Trees : tree[t].ver = 0
      /\ \A t \in Seeds : tree[t].used
  <2>1. tree = [t \in Trees |-> [ver |-> 0, used |-> t \notin {OldTree, LateTree}, open |-> FALSE]]
    BY DEF SeedInit
  <2>2. \A b \in BOOLEAN : [ver |-> 0, used |-> b, open |-> FALSE] \in Contents
    BY <1>1 DEF Contents
  <2>3. tree \in [Trees -> Contents] /\ \A t \in Trees : tree[t].ver = 0
    BY <2>1, <2>2
  <2>4. \A t \in Trees : tree[t].used = (t \notin {OldTree, LateTree})
    BY <2>1
  <2>5. \A t \in Seeds : t \in Trees /\ t \notin {OldTree, LateTree}
    BY TreeNames
  <2> QED BY <2>3, <2>4, <2>5
<1>4. target \in Roots /\ target.data \in {NoTree, OldTree} /\ target.marker = "none"
  BY TreeNames DEF SeedInit, Roots, Extras
<1>5. /\ exposed = {target.data} \ {NoTree} /\ deleted = {} /\ stuck = FALSE /\ seedLock = "none"
      /\ secret \in [SecretNames -> {"none", "app", "seed"}]
  BY DEF SeedInit
<1>6. PICK s \in Stages : s = NoStage
  BY DEF Stages, NoStage
<1>7. PICK d \in LaunchRows : d = NotLaunched
  BY DEF LaunchRows, NotLaunched, LaunchSteps
<1>8. s.data = NoTree /\ d.step = "out"
  BY <1>6, <1>7 DEF NoStage, NotLaunched
<1>9. staging = [l \in Launches |-> s] /\ launch = [l \in Launches |-> d]
  BY <1>6, <1>7 DEF SeedInit
<1>10. SeedTypeOK
  <2>1. \A l \in Launches : launch[l].step \in Installing <=> seedLock = l
    BY <1>1, <1>5, <1>8, <1>9 DEF Installing
  <2>2. exposed \subseteq Trees /\ deleted \subseteq Trees
    BY <1>4, <1>5, TreeNames
  <2> QED BY <1>3, <1>4, <1>5, <1>9, <2>1, <2>2 DEF SeedTypeOK
<1>11. DiskOK
  BY <1>2, <1>3, <1>4, <1>5 DEF DiskOK
<1>12. ProfileOK
  BY <1>4, TreeNames DEF ProfileOK
<1>13. ASSUME NEW l \in Launches PROVE LaunchOK(l, d, s)
  <2>1. Hidden(l)
    BY <1>4, <1>5, TreeNames DEF Hidden
  <2> QED BY <1>8, <2>1 DEF LaunchOK, BeforeStage, Staged, Published
<1>14. \A l \in Launches : LaunchOK(l, launch[l], staging[l])
  BY <1>9, <1>13
<1> QED BY <1>10, <1>11, <1>12, <1>14 DEF SeedInd

\* A step of nobody.
LEMMA SeedStutter ==
    ASSUME SeedInd, UNCHANGED seedVars
    PROVE  SeedInd'
<1>1. SeedTypeOK' /\ DiskOK' /\ ProfileOK'
  BY DEF SeedInd, seedVars, SeedTypeOK, DiskOK, ProfileOK
<1>2. \A l \in Launches : LaunchOK(l, launch[l], staging[l])'
  BY DEF SeedInd, seedVars, LaunchOK, Hidden
<1> QED BY <1>1, <1>2 DEF SeedInd

\* Every step keeps the invariant.
LEMMA SeedStep ==
    ASSUME SeedInd, [SeedNext]_seedVars
    PROVE  SeedInd'
<1>1. ASSUME NEW l \in Launches, LaunchStep(l) PROVE SeedInd'
  <2>1. CASE \E e \in BOOLEAN : importBundledDesktopState(l, e)
    BY <2>1, ImportStep
  <2>2. CASE TakeSeedLock(l)
    BY <2>2, LockStep
  <2>3. CASE ScanBundle(l) \/ StageSeed(l)
    BY <2>3, ScanStep
  <2>4. CASE SetSecret(l)
    BY <2>4, SecretStep
  <2>5. CASE UndoSecret(l)
    BY <2>5, UndoSecretStep
  <2>6. CASE observeFirstLaunchSeedTarget(l)
    BY <2>6, ObserveStep
  <2>7. CASE PublishData(l)
    BY <2>7, ExchangeStep
  <2>8. CASE VerifyDisplaced(l) \/ RefusePublished(l) \/ RestoreData(l)
    BY <2>8, CheckStep
  <2>9. CASE PublishMarker(l) \/ TakeMarkerBack(l)
    BY <2>9, MarkerStep
  <2>10. CASE FinishSeed(l)
    BY <2>10, FinishStep
  <2> QED BY <1>1, <2>1, <2>2, <2>3, <2>4, <2>5, <2>6, <2>7, <2>8, <2>9, <2>10 DEF LaunchStep
<1>2. CASE Intrude
  BY <1>2, IntrudeStep
<1>3. CASE UNCHANGED seedVars
  BY <1>3, SeedStutter
<1> QED BY <1>1, <1>2, <1>3, WindowClosesStep, KillLaunchStep DEF SeedNext

\* It contains what the runs check.
LEMMA SeedIndIsEnough ==
    ASSUME SeedInd
    PROVE  SeedInv
<1>1. SeedTypeOK /\ DiskOK /\ ProfileOK
  BY DEF SeedInd
<1>2. \A t \in Seeds : \E l \in Launches : t = SeedTree(l)
  BY DEF Seeds
<1>3. MarkerMeansSeed
  BY <1>1, <1>2 DEF ProfileOK, MarkerMeansSeed
<1>4. SeedHasItsSecrets
  BY <1>1, TreeNames DEF ProfileOK, SeedHasItsSecrets
<1>5. NoExposedTreeDeleted
  BY <1>1 DEF DiskOK, NoExposedTreeDeleted
<1> QED BY <1>1, <1>3, <1>4, <1>5 DEF SeedInv

\* Whatever is killed, fails or writes in between, and however many launches race:
\* a marker means its seed, a seed has its secrets, no tree that was ever reachable
\* is deleted.
THEOREM SeedInvariant == SeedSpec => []SeedInv
<1>1. SeedInit => SeedInd
  BY SeedBegins
<1>2. SeedInd /\ [SeedNext]_seedVars => SeedInd'
  BY SeedStep
<1>3. SeedInd => SeedInv
  BY SeedIndIsEnough
<1> QED BY <1>1, <1>2, <1>3, PTL DEF SeedSpec

-----------------------------------------------------------------------------
\* Only the end of an undo takes a launch from there into recovery.
LEMMA UndoEnds ==
    ASSUME SeedInd, [SeedNext]_seedVars, NEW l \in Launches,
           launch[l].step = "undo", launch'[l].step = "recovery"
    PROVE  UndoSecret(l) /\ launch[l].todo = {}
<1>1. launch \in [Launches -> LaunchRows] /\ \A k \in Launches : launch[k].step \in Installing <=> seedLock = k
  BY SeedFacts
<1>2. PICK old \in LaunchRows : old = launch[l]
  BY <1>1
<1>3. launch' # launch
  OBVIOUS
<1>4. ASSUME NEW k \in Launches, NEW row, launch' = [launch EXCEPT ![k] = row]
      PROVE  k = l /\ row.step = "recovery"
  <2>1. k = l
    BY <1>1, <1>4
  <2>2. launch'[l] = row
    BY <1>1, <1>4, <2>1
  <2> QED BY <2>1, <2>2
<1>5. ASSUME NEW k \in Launches, NEW step, Reach(k, step) PROVE k = l
  BY <1>4, <1>5 DEF Reach
<1>6. ~Intrude /\ ~UNCHANGED seedVars
  BY <1>3 DEF Intrude, seedVars
<1>7. ASSUME NEW k \in Launches, CloseWorkspace(k) \/ KillLaunch(k) PROVE FALSE
  <2>1. CASE CloseWorkspace(k)
    BY <1>5, <2>1 DEF CloseWorkspace
  <2>2. CASE KillLaunch(k)
    <3>1. launch' = [launch EXCEPT ![k] = [NotLaunched EXCEPT !.step = "ended"]]
      BY <2>2 DEF KillLaunch
    <3>2. [NotLaunched EXCEPT !.step = "ended"].step = "ended"
      BY LaunchEnds
    <3> QED BY <1>4, <3>1, <3>2
  <2> QED BY <1>7, <2>1, <2>2
<1>8. ASSUME NEW k \in Launches, LaunchStep(k) PROVE k = l
  <2>1. \E row : launch' = [launch EXCEPT ![k] = row]
    BY <1>8 DEF LaunchStep, importBundledDesktopState, TakeSeedLock, ScanBundle, StageSeed, SetSecret,
                UndoSecret, observeFirstLaunchSeedTarget, PublishData, VerifyDisplaced, PublishMarker,
                FinishSeed, RefusePublished, TakeMarkerBack, RestoreData, TakeBack, StartUndo, Leave, Reach
  <2> QED BY <1>4, <2>1
<1>9. LaunchStep(l)
  BY <1>6, <1>7, <1>8 DEF SeedNext
<1>10. UndoSecret(l)
  BY <1>9 DEF LaunchStep, importBundledDesktopState, TakeSeedLock, ScanBundle, StageSeed, SetSecret,
              observeFirstLaunchSeedTarget, PublishData, VerifyDisplaced, PublishMarker,
              FinishSeed, RefusePublished, TakeMarkerBack, RestoreData
<1>11. ASSUME NEW n, launch' = [launch EXCEPT ![l].todo = @ \ {n}] PROVE FALSE
  <2>1. PICK d : d = [old EXCEPT !.todo = @ \ {n}]
    OBVIOUS
  <2>2. launch'[l] = d
    BY <1>1, <1>2, <1>11, <2>1
  <2>3. d.step = old.step
    BY <2>1 DEF LaunchRows
  <2> QED BY <1>2, <2>2, <2>3
<1> QED BY <1>10, <1>11 DEF UndoSecret

\* An import that gives up leaves every secret there was as it was, unless one could
\* not be written back.
THEOREM UndoRestores == SeedSpec => UndoRestoresSecrets
<1>1. SeedInit => SeedInd
  BY SeedBegins
<1>2. SeedInd /\ [SeedNext]_seedVars => SeedInd'
  BY SeedStep
<1>3. ASSUME SeedInd, [SeedNext]_seedVars
      PROVE  \A l \in Launches :
               (launch[l].step = "undo" /\ launch'[l].step = "recovery" /\ ~stuck') =>
                 \A n \in SecretNames : launch[l].prior[n] # "none" => secret'[n] = launch[l].prior[n]
  <2>1. ASSUME NEW l \in Launches, launch[l].step = "undo", launch'[l].step = "recovery", ~stuck',
               NEW n \in SecretNames, launch[l].prior[n] # "none"
        PROVE  secret'[n] = launch[l].prior[n]
    <3>1. UndoSecret(l) /\ launch[l].todo = {}
      BY <1>3, <2>1, UndoEnds
    <3>2. UNCHANGED <<secret, stuck>>
      BY <3>1 DEF UndoSecret
    <3>3. LaunchOK(l, launch[l], staging[l])
      BY <1>3, SeedFacts
    <3>4. secret[n] = launch[l].prior[n]
      BY <2>1, <3>1, <3>2, <3>3 DEF LaunchOK
    <3> QED BY <3>2, <3>4
  <2> QED BY <2>1
<1> QED BY <1>1, <1>2, <1>3, PTL DEF SeedSpec, UndoRestoresSecrets

=============================================================================
