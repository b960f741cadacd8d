---------------------------- MODULE Records_proof ----------------------------
(***************************************************************************)
(* What the published revocations, the imported files and the collected    *)
(* messages guarantee for any number of generators, calls, scouts and      *)
(* steps.                                                                  *)
(*                                                                         *)
(* Publication: the remote file only grows, by one content that goes on    *)
(* from the last (Grows), so whatever a record on a disk or a publication  *)
(* under way says of the file stays so (SaidIsSo, RowStays), although each *)
(* of them read it some time ago.  From this invariant every step is a step*)
(* of ManifestLog.                                                         *)
(*                                                                         *)
(* Imports: from the comparison of the digests on a call holds exactly one *)
(* of the contents the file had, whatever is written meanwhile.            *)
(*                                                                         *)
(* History: what is due before a scan may save its cursor is collected, or *)
(* still to come on the page at hand or below it (ScanOK).                 *)
(***************************************************************************)
EXTENDS Publication, Imports, History,
        SequenceTheorems, FiniteSetTheorems, WellFoundedInduction, TLAPS

-----------------------------------------------------------------------------
(* Least and greatest members *)

\* A set of naturals that is not empty has a least member.
LEMMA LeastOfNaturals ==
    ASSUME NEW T, T \subseteq Nat, T # {}
    PROVE  \E n \in T : \A k \in T : n <= k
<1> DEFINE R == StrictSubsetOrdering(Nat)
           W == {0 .. x : x \in T}
<1>1. W \subseteq FiniteSubsetsOf(Nat) /\ W # {}
  <2>1. ASSUME NEW x \in T PROVE 0 .. x \in FiniteSubsetsOf(Nat)
    BY FS_Interval DEF FiniteSubsetsOf
  <2> QED BY <2>1
<1>2. IsWellFoundedOn(R, FiniteSubsetsOf(Nat))
  BY FS_StrictSubsetOrderingWellFounded
<1>3. PICK w \in W : \A v \in W : ~ (<<v, w>> \in R)
  <2> HIDE DEF R, W
  <2> QED BY <1>1, <1>2, WFMin
<1>4. PICK x \in T : w = 0 .. x
  BY <1>3
<1>5. ASSUME NEW y \in T, y < x PROVE FALSE
  <2>1. x \in Nat /\ y \in Nat
    OBVIOUS
  <2>2. 0 .. y \subseteq 0 .. x /\ x \in 0 .. x /\ x \notin 0 .. y
    BY <1>5, <2>1
  <2>3. 0 .. y \in SUBSET Nat /\ 0 .. x \in SUBSET Nat
    BY <2>1
  <2>4. <<0 .. y, 0 .. x>> \in R
    BY <2>2, <2>3 DEF StrictSubsetOrdering
  <2> QED
    BY <2>4, <1>3, <1>4
<1> QED
  BY <1>5

\* One that is bounded has a greatest: the sequence number that a publication must
\* not go below, and the newest message of a page, are such members.
LEMMA GreatestOfNaturals ==
    ASSUME NEW T, NEW b \in Nat, T \subseteq 0 .. b, T # {}
    PROVE  \E n \in T : \A k \in T : n >= k
<1> DEFINE U == {c \in Nat : \A k \in T : k <= c}
<1>1. U \subseteq Nat /\ b \in U
  OBVIOUS
<1>2. PICK c \in U : \A d \in U : c <= d
  BY <1>1, LeastOfNaturals
<1>3. c \in T
  <2> SUFFICES ASSUME c \notin T PROVE FALSE
    OBVIOUS
  <2>1. PICK k \in T : TRUE
    OBVIOUS
  <2>2. c \in Nat /\ c > 0
    BY <2>1
  <2>3. c - 1 \in U
    BY <2>2
  <2> QED
    BY <1>2, <2>2, <2>3
<1> QED
  BY <1>3

-----------------------------------------------------------------------------
(* The publication of revocations *)

\* One of the contents the remote file had.
Manifest == [key : Generators, seq : Nat, entries : SUBSET RevHandles]

\* What every reader of the file may rely on.
FileOK ==
    /\ file \in Seq(Manifest)
    /\ \A i \in 1 .. Len(file) : file[i].seq = i - 1
    /\ Len(file) > 0 => file[1].entries = {}
    /\ \A i \in 1 .. Len(file) : file[i].key = file[1].key
    /\ \A i, k \in 1 .. Len(file) : i <= k => file[i].entries \subseteq file[k].entries

\* What a record of a licence says was so.
Says(r, h) ==
    /\ r.seq < Len(file) \/ r.seq = 0
    /\ r.st = "published" => /\ r.blob \in 1 .. Len(file)
                             /\ h \in file[r.blob].entries
                             /\ r.seq = r.blob - 1
\* Whose file a record met: a published one its own key's, a failed one another's.
Fits(r, k) ==
    /\ r.st = "published" => Len(file) > 0 /\ file[1].key = k
    /\ r.st = "failed" => k \in Generators /\ Len(file) > 0 /\ file[1].key # k
\* A confirmed content has a key, and its records say what was so.
ContentOK(c) == /\ c.ok => c.key \in Generators
                /\ \A h \in RevHandles : Says(c.recs[h], h) /\ Fits(c.recs[h], c.key)

\* The steps of a publication.
Publishing == {"load", "init", "initread", "cas", "readback"}

\* What a publication that is under way remembers of the file.
RowOK(r) ==
    /\ ContentOK(r.mem)
    /\ r.step = "record" => /\ r.h \in RevHandles
                            /\ Says(r.result, r.h)
                            /\ Fits(r.result, r.mem.key)
    /\ r.step = "answer" => /\ r.h \in RevHandles
                            /\ r.result.st = "published" =>
                                   Says(r.result, r.h) /\ Fits(r.result, r.mem.key)
    /\ r.step \in Publishing =>
          /\ r.mem.key \in Generators /\ r.h \in RevHandles
          /\ r.tries < PublishAttempts
          /\ r.min < Len(file) \/ r.min = 0
          /\ r.hist = {} \/ \E i \in 1 .. Len(file) : r.hist \subseteq file[i].entries
    /\ r.step \in {"cas", "readback", "initread"} => r.got \in 1 .. Len(file)
    /\ r.step = "cas" => /\ r.h \notin file[r.got].entries
                         /\ file[r.got].key = r.mem.key
    /\ r.step = "readback" => {r.h} \cup r.hist \subseteq file[r.got].entries

\* The inductive invariant of the publication.
PubInd ==
    /\ home \in [Generators -> Machines] /\ disk \in [Machines -> Content]
    /\ gen \in [Generators -> GenRows] /\ faults \in 0 .. MaxRemoteFaults
    /\ FileOK
    /\ \A m \in Machines : ContentOK(disk[m])
    /\ \A g \in Generators : RowOK(gen[g])

\* How the file changes: not at all, or by one content that goes on from it.
Grows ==
    \/ file' = file
    \/ \E e \in Manifest :
          /\ file' = Append(file, e) /\ e.seq = Len(file)
          /\ Len(file) = 0 => e.entries = {}
          /\ Len(file) > 0 => /\ e.key = file[1].key
                              /\ file[Len(file)].entries \subseteq e.entries

\* The contents of the file are numbered from 1.
LEMMA FileHasLength ==
    PubInd => FileOK /\ Len(file) \in Nat
<1>1. PubInd => FileOK
  BY DEF PubInd
<1>2. FileOK => file \in Seq(Manifest)
  BY DEF FileOK
<1>3. file \in Seq(Manifest) => Len(file) \in Nat
  BY LenProperties
<1> QED BY <1>1, <1>2, <1>3

\* minimumSequence, the greatest sequence in the records of a disk, is one that
\* the file has had, or 0.
LEMMA MinimumIsOne ==
    ASSUME NEW c \in Content, FileOK, ContentOK(c)
    PROVE  /\ MinimumSequence(c) \in Nat
           /\ MinimumSequence(c) < Len(file) \/ MinimumSequence(c) = 0
<1> DEFINE T == {0} \cup {c.recs[h].seq : h \in Known(c)}
<1>1. Known(c) \subseteq RevHandles
  BY DEF Known
<1>2. Len(file) \in Nat
  BY DEF FileOK
<1>3. \A h \in RevHandles : /\ c.recs[h].seq \in Nat
                            /\ c.recs[h].seq < Len(file) \/ c.recs[h].seq = 0
  BY DEF Content, Record, ContentOK, Says
<1>4. T \subseteq 0 .. Len(file) /\ T # {}
  BY <1>1, <1>2, <1>3
<1>5. \E n \in T : \A h \in Known(c) : c.recs[h].seq <= n
  <2>1. PICK n \in T : \A k \in T : n >= k
    <3> HIDE DEF T
    <3> QED BY <1>2, <1>4, GreatestOfNaturals
  <2>2. \A h \in Known(c) : c.recs[h].seq \in T
    OBVIOUS
  <2>3. \A h \in Known(c) : c.recs[h].seq <= n
    BY <2>1, <2>2, <1>4, <1>2
  <2> QED BY <2>3
<1>6. MinimumSequence(c) \in T
  BY <1>5 DEF MinimumSequence
<1> QED BY <1>6, <1>1, <1>2, <1>3

\* A content that goes on from the last one leaves the older ones as they were,
\* and every reader may rely on the file as before.
LEMMA GrownFile ==
    ASSUME FileOK, Grows
    PROVE  /\ FileOK'
           /\ Len(file) \in Nat /\ Len(file') \in Nat
           /\ Len(file) <= Len(file')
           /\ \A i \in 1 .. Len(file) : i \in 1 .. Len(file') /\ file'[i] = file[i]
           /\ Len(file) > 0 => Len(file') > 0 /\ file'[1] = file[1]
<1>1. CASE file' = file
  BY <1>1 DEF FileOK
<1>2. CASE \E e \in Manifest :
          /\ file' = Append(file, e) /\ e.seq = Len(file)
          /\ Len(file) = 0 => e.entries = {}
          /\ Len(file) > 0 => /\ e.key = file[1].key
                              /\ file[Len(file)].entries \subseteq e.entries
  <2>1. PICK e \in Manifest :
          /\ file' = Append(file, e) /\ e.seq = Len(file)
          /\ Len(file) = 0 => e.entries = {}
          /\ Len(file) > 0 => /\ e.key = file[1].key
                              /\ file[Len(file)].entries \subseteq e.entries
    BY <1>2
  <2>2. file \in Seq(Manifest) /\ Len(file) \in Nat
    BY DEF FileOK
  <2>3. /\ file' \in Seq(Manifest) /\ Len(file') = Len(file) + 1
        /\ \A i \in 1 .. Len(file) : file'[i] = file[i]
        /\ file'[Len(file) + 1] = e
    BY <2>1, <2>2
  <2>4. \A i \in 1 .. Len(file') : i \in 1 .. Len(file) \/ i = Len(file) + 1
    BY <2>2, <2>3
  <2>5. \A i \in 1 .. Len(file') : file'[i].seq = i - 1
    BY <2>1, <2>2, <2>3, <2>4 DEF FileOK
  <2>6. file'[1].entries = {}
    BY <2>1, <2>2, <2>3 DEF FileOK
  <2>7. \A i \in 1 .. Len(file') : file'[i].key = file'[1].key
    BY <2>1, <2>2, <2>3, <2>4 DEF FileOK
  <2>8. \A i \in 1 .. Len(file) : file[i].entries \subseteq e.entries
    BY <2>1, <2>2 DEF FileOK
  <2>9. ASSUME NEW i \in 1 .. Len(file'), NEW k \in 1 .. Len(file'), i <= k
        PROVE  file'[i].entries \subseteq file'[k].entries
    <3>1. CASE k \in 1 .. Len(file)
      <4>1. i \in 1 .. Len(file)
        BY <3>1, <2>2, <2>3, <2>9
      <4> QED BY <4>1, <3>1, <2>3, <2>9 DEF FileOK
    <3>2. CASE k = Len(file) + 1
      BY <3>2, <2>2, <2>3, <2>4, <2>8
    <3> QED BY <3>1, <3>2, <2>4
  <2> QED BY <2>2, <2>3, <2>5, <2>6, <2>7, <2>9 DEF FileOK
<1> QED BY <1>1, <1>2 DEF Grows

\* What a record says stays so when the file grows.
LEMMA SaidIsSo ==
    ASSUME FileOK, Grows
    PROVE  /\ \A r \in Record, h \in RevHandles : Says(r, h) => Says(r, h)'
           /\ \A r, k : Fits(r, k) => Fits(r, k)'
<1>1. ASSUME NEW r \in Record, NEW h \in RevHandles, Says(r, h)
      PROVE  Says(r, h)'
  <2>1. r.seq \in Nat
    BY DEF Record
  <2> QED BY <1>1, <2>1, GrownFile DEF Says
<1>2. ASSUME NEW r, NEW k, Fits(r, k)
      PROVE  Fits(r, k)'
  BY <1>2, GrownFile DEF Fits
<1> QED BY <1>1, <1>2

\* So does what a disk holds.
LEMMA ContentStays ==
    ASSUME FileOK, Grows
    PROVE  \A c \in Content : ContentOK(c) => ContentOK(c)'
<1> SUFFICES ASSUME NEW c \in Content, ContentOK(c)
             PROVE  ContentOK(c)'
  OBVIOUS
<1>1. \A h \in RevHandles : c.recs[h] \in Record
  BY DEF Content
<1> QED BY <1>1, SaidIsSo DEF ContentOK

\* So does what a publication remembers: it re-reads the file only now and then.
LEMMA RowStays ==
    ASSUME FileOK, Grows
    PROVE  \A r \in GenRows : RowOK(r) => RowOK(r)'
<1> SUFFICES ASSUME NEW r \in GenRows, RowOK(r)
             PROVE  RowOK(r)'
  OBVIOUS
<1>1. /\ r.mem \in Content /\ r.result \in Record /\ r.min \in Nat
  BY DEF GenRows
<1>2. ContentOK(r.mem)'
  BY <1>1, ContentStays DEF RowOK
<1>3. /\ r.step = "record" => /\ r.h \in RevHandles
                              /\ Says(r.result, r.h)'
                              /\ Fits(r.result, r.mem.key)'
      /\ r.step = "answer" => /\ r.h \in RevHandles
                              /\ r.result.st = "published" =>
                                     Says(r.result, r.h)' /\ Fits(r.result, r.mem.key)'
  BY <1>1, SaidIsSo DEF RowOK
<1>4. r.step \in Publishing =>
          /\ r.mem.key \in Generators /\ r.h \in RevHandles
          /\ r.tries < PublishAttempts
          /\ r.min < Len(file') \/ r.min = 0
          /\ r.hist = {} \/ \E i \in 1 .. Len(file') : r.hist \subseteq file'[i].entries
  BY <1>1, GrownFile DEF RowOK
<1>5. r.step \in {"cas", "readback", "initread"} => r.got \in 1 .. Len(file')
  BY GrownFile DEF RowOK
<1>6. r.step = "cas" => /\ r.h \notin file'[r.got].entries
                        /\ file'[r.got].key = r.mem.key
  BY GrownFile DEF RowOK
<1>7. r.step = "readback" => {r.h} \cup r.hist \subseteq file'[r.got].entries
  BY GrownFile DEF RowOK
<1> QED BY <1>2, <1>3, <1>4, <1>5, <1>6, <1>7 DEF RowOK

\* A step of one generator.
LEMMA GeneratorStep ==
    ASSUME PubInd, NEW g \in Generators, NEW row, NEW c,
           Grows, UNCHANGED home, faults' \in 0 .. MaxRemoteFaults,
           gen' = [gen EXCEPT ![g] = row], row \in GenRows, RowOK(row)',
           UNCHANGED disk \/ (/\ c \in Content /\ ContentOK(c)'
                              /\ disk' = [disk EXCEPT ![home[g]] = c])
    PROVE  PubInd'
<1>1. home[g] \in Machines
  BY DEF PubInd
<1>2. home' \in [Generators -> Machines] /\ disk' \in [Machines -> Content]
      /\ gen' \in [Generators -> GenRows]
  BY <1>1 DEF PubInd
<1>3. FileOK'
  BY GrownFile DEF PubInd
<1>4. \A m \in Machines : ContentOK(disk[m])'
  <2> SUFFICES ASSUME NEW m \in Machines PROVE ContentOK(disk[m])'
    OBVIOUS
  <2>1. ContentOK(disk[m]) /\ disk[m] \in Content
    BY DEF PubInd
  <2>2. disk'[m] = disk[m] \/ (disk'[m] = c /\ ContentOK(c)')
    BY <1>1 DEF PubInd
  <2> QED BY <2>1, <2>2, ContentStays DEF PubInd, ContentOK
<1>5. \A q \in Generators : RowOK(gen[q])'
  <2> SUFFICES ASSUME NEW q \in Generators PROVE RowOK(gen[q])'
    OBVIOUS
  <2>1. RowOK(gen[q]) /\ gen[q] \in GenRows
    BY DEF PubInd
  <2>2. gen'[q] = IF q = g THEN row ELSE gen[q]
    BY DEF PubInd
  <2>3. CASE q = g
    BY <2>2, <2>3 DEF RowOK
  <2>4. CASE q # g
    BY <2>1, <2>2, <2>4, RowStays DEF RowOK, PubInd
  <2> QED BY <2>3, <2>4
<1> QED BY <1>2, <1>3, <1>4, <1>5 DEF PubInd

\* What a generator reads when it begins a step.
LEMMA Reading ==
    ASSUME PubInd, NEW g \in Generators
    PROVE  \E r \in GenRows, d \in Content :
              /\ r = gen[g] /\ d = Disk(g) /\ RowOK(r) /\ ContentOK(d)
              /\ r.mem \in Content /\ ContentOK(r.mem)
BY DEF PubInd, Disk, RowOK, GenRows

\* A generator that publishes nothing relies on its memory alone.
LEMMA Quiet ==
    ASSUME NEW r, r.step \in {"off", "idle", "restoring"}, ContentOK(r.mem)
    PROVE  RowOK(r)
BY DEF RowOK, Publishing

\* Contents without a record say nothing.
LEMMA NothingRecorded ==
    /\ NoRecord \in Record /\ \A h, k : Says(NoRecord, h) /\ Fits(NoRecord, k)
    /\ NoContent \in Content /\ ContentOK(NoContent)
    /\ \A g \in Generators : LET c == [NoContent EXCEPT !.key = g]
                             IN  c \in Content /\ ContentOK(c)
<1>1. NoRecord \in Record /\ \A h, k : Says(NoRecord, h) /\ Fits(NoRecord, k)
  BY DEF NoRecord, Record, Says, Fits
<1>2. NoContent \in Content /\ ContentOK(NoContent)
  BY <1>1 DEF NoContent, Content, ContentOK
<1>3. ASSUME NEW g \in Generators
      PROVE  LET c == [NoContent EXCEPT !.key = g]
             IN  c \in Content /\ ContentOK(c)
  BY <1>1 DEF NoContent, Content, ContentOK
<1> QED BY <1>1, <1>2, <1>3

\* A generator that has not started, or rests, with what it knows of the disk.
LEMMA PauseOK ==
    NotStarted \in GenRows /\ RowOK(NotStarted)
    /\ \A c \in Content : ContentOK(c) =>
          LET row == [NotStarted EXCEPT !.step = "idle", !.mem = c]
          IN  row \in GenRows /\ RowOK(row)
<1>1. NotStarted \in GenRows
  BY NothingRecorded, PublicationAssumption DEF NotStarted, GenRows, GenSteps
<1>2. RowOK(NotStarted)
  BY NothingRecorded, Quiet DEF NotStarted
<1>3. ASSUME NEW c \in Content, ContentOK(c)
      PROVE  LET row == [NotStarted EXCEPT !.step = "idle", !.mem = c]
             IN  row \in GenRows /\ RowOK(row)
  <2> DEFINE row == [NotStarted EXCEPT !.step = "idle", !.mem = c]
  <2>1. row \in GenRows
    BY <1>1 DEF GenRows, GenSteps
  <2>2. row.step = "idle" /\ row.mem = c
    BY <1>1 DEF GenRows
  <2> HIDE DEF row
  <2>3. RowOK(row)
    BY <1>3, <2>2, Quiet
  <2> QED BY <2>1, <2>3 DEF row
<1> QED BY <1>1, <1>2, <1>3

\* A step that leaves the file as it is.
LEMMA GeneratorQuiet ==
    ASSUME PubInd, NEW g \in Generators, NEW row \in GenRows, NEW c \in Content,
           RowOK(row), ContentOK(c),
           UNCHANGED <<home, file>>, faults' \in 0 .. MaxRemoteFaults,
           gen' = [gen EXCEPT ![g] = row],
           UNCHANGED disk \/ disk' = [disk EXCEPT ![home[g]] = c]
    PROVE  PubInd'
<1>1. Grows /\ FileOK
  BY DEF Grows, PubInd
<1>2. RowOK(row)' /\ ContentOK(c)'
  BY <1>1, RowStays, ContentStays
<1> QED BY <1>1, <1>2, GeneratorStep

\* A fault is counted, and there are not too many.
LEMMA FaultCounts ==
    ASSUME PubInd
    PROVE  /\ UNCHANGED faults => faults' \in 0 .. MaxRemoteFaults
           /\ Fault => faults' \in 0 .. MaxRemoteFaults
BY PublicationAssumption DEF PubInd, Fault

\* newGeneratorServiceWithRevocation reads the disk.
LEMMA OpeningKeeps ==
    ASSUME PubInd, NEW g \in Generators, newGeneratorServiceWithRevocation(g)
    PROVE  PubInd'
<1>1. PICK r \in GenRows, d \in Content :
         /\ r = gen[g] /\ d = Disk(g) /\ RowOK(r) /\ ContentOK(d)
         /\ r.mem \in Content /\ ContentOK(r.mem)
  BY Reading
<1>2. PICK row : row = [r EXCEPT !.step = "idle", !.mem = d]
  OBVIOUS
<1>3. /\ row \in GenRows /\ row.step = "idle" /\ row.mem = d
      /\ gen' = [gen EXCEPT ![g] = row]
      /\ UNCHANGED <<home, file, disk, faults>>
  BY <1>1, <1>2 DEF newGeneratorServiceWithRevocation, Go, GenRows, GenSteps
<1>4. RowOK(row)
  BY <1>1, <1>3, Quiet
<1> QED BY <1>1, <1>3, <1>4, GeneratorQuiet, FaultCounts

\* prepareRevocationPublisher saves a key that is not backed up, and no record.
LEMMA BootstrapKeeps ==
    ASSUME PubInd, NEW g \in Generators, prepareRevocationPublisher(g)
    PROVE  PubInd'
<1>1. PICK r \in GenRows, d \in Content :
         /\ r = gen[g] /\ d = Disk(g) /\ RowOK(r) /\ ContentOK(d)
         /\ r.mem \in Content /\ ContentOK(r.mem)
  BY Reading
<1>2. PICK c \in Content : c = [NoContent EXCEPT !.key = g] /\ ContentOK(c)
  BY NothingRecorded
<1>3. PICK row : row = [r EXCEPT !.mem = c]
  OBVIOUS
<1>4. /\ row \in GenRows /\ row.step = "idle" /\ row.mem = c
      /\ gen' = [gen EXCEPT ![g] = row]
      /\ disk' = [disk EXCEPT ![home[g]] = c]
      /\ UNCHANGED <<home, file, faults>>
  BY <1>1, <1>2, <1>3 DEF prepareRevocationPublisher, Go, At, SaveDisk, GenRows
<1>5. RowOK(row)
  BY <1>2, <1>4, Quiet
<1> QED BY <1>2, <1>4, <1>5, GeneratorQuiet, FaultCounts

\* ConfirmBackup confirms the key that the disk has.
LEMMA ConfirmKeeps ==
    ASSUME PubInd, NEW g \in Generators, ConfirmBackup(g)
    PROVE  PubInd'
<1>1. PICK r \in GenRows, d \in Content :
         /\ r = gen[g] /\ d = Disk(g) /\ RowOK(r) /\ ContentOK(d)
         /\ r.mem \in Content /\ ContentOK(r.mem)
  BY Reading
<1>2. PICK c : c = [d EXCEPT !.ok = TRUE]
  OBVIOUS
<1>3. c \in Content /\ ContentOK(c)
  <2>1. d.key # "none"
    BY <1>1 DEF ConfirmBackup
  <2> QED BY <1>1, <1>2, <2>1 DEF Content, ContentOK
<1>4. PICK row : row = [r EXCEPT !.mem = c]
  OBVIOUS
<1>5. disk' = [disk EXCEPT ![home[g]] = c]
  <2>1. disk' = [disk EXCEPT ![home[g]].ok = TRUE]
    BY DEF ConfirmBackup
  <2> QED BY <2>1, <1>1, <1>2 DEF Disk, PubInd, Content
<1>6. /\ row \in GenRows /\ row.step = "idle" /\ row.mem = c
      /\ gen' = [gen EXCEPT ![g] = row]
      /\ UNCHANGED <<home, file, faults>>
  BY <1>1, <1>2, <1>3, <1>4 DEF ConfirmBackup, Go, At, GenRows
<1>7. RowOK(row)
  BY <1>3, <1>6, Quiet
<1> QED BY <1>3, <1>5, <1>6, <1>7, GeneratorQuiet, FaultCounts

\* RestoreBackup begins with the memory or the disk.
LEMMA RestoreKeeps ==
    ASSUME PubInd, NEW g \in Generators, NEW k \in Generators, RestoreBackup(g, k)
    PROVE  PubInd'
<1>1. PICK r \in GenRows, d \in Content :
         /\ r = gen[g] /\ d = Disk(g) /\ RowOK(r) /\ ContentOK(d)
         /\ r.mem \in Content /\ ContentOK(r.mem)
  BY Reading
<1>2. PICK c \in Content : c = (IF r.mem.key = "none" THEN r.mem ELSE d) /\ ContentOK(c)
  BY <1>1
<1>3. PICK row : row = [r EXCEPT !.step = "restoring", !.mem = c]
  OBVIOUS
<1>4. /\ row \in GenRows /\ row.step = "restoring" /\ row.mem = c
      /\ gen' = [gen EXCEPT ![g] = row]
      /\ UNCHANGED <<home, file, disk, faults>>
  BY <1>1, <1>2, <1>3 DEF RestoreBackup, Go, GenRows, GenSteps
<1>5. RowOK(row)
  BY <1>2, <1>4, Quiet
<1> QED BY <1>2, <1>4, <1>5, GeneratorQuiet, FaultCounts

\* No generator is called "none", so nobody published under that key.
LEMMA KeysAreGenerators ==
    ASSUME FileOK
    PROVE  "none" \notin Generators /\ (Len(file) > 0 => file[1].key # "none")
<1>1. Len(file) > 0 => file[1] \in Manifest
  BY DEF FileOK
<1> QED BY <1>1, PublicationAssumption DEF Manifest

\* reconcileRevocationRestoreState takes from the remote manifest what it lists:
\* a record that is published now is in the file.
LEMMA ReconciledOK ==
    ASSUME FileOK, NEW c \in Content, ContentOK(c), NEW k \in Generators,
           NEW i \in 0 .. Len(file), i > 0 => file[i].key = k, c.key \in {"none", k}
    PROVE  LET next == reconcileRevocationRestoreState(c, k, i)
           IN  next \in Content /\ ContentOK(next)
<1> DEFINE entries == IF i = 0 THEN {} ELSE file[i].entries
           listed == [st |-> "published", seq |-> file[i].seq, blob |-> i]
           recs == [h \in RevHandles |-> IF h \in entries THEN listed ELSE c.recs[h]]
           next == reconcileRevocationRestoreState(c, k, i)
<1>1. next = [key |-> k, ok |-> TRUE, recs |-> recs]
  BY DEF reconcileRevocationRestoreState
<1>2. ASSUME NEW h \in entries
      PROVE  listed \in Record /\ Says(listed, h) /\ Fits(listed, k)
  <2>1. /\ Len(file) \in Nat /\ i \in 1 .. Len(file)
        /\ file[i].seq = i - 1 /\ h \in file[i].entries
    BY <1>2 DEF FileOK
  <2>2. Len(file) > 0 /\ file[1].key = k
    BY <2>1 DEF FileOK
  <2> QED BY <2>1, <2>2 DEF Record, Says, Fits
<1>3. ASSUME NEW h \in RevHandles
      PROVE  recs[h] \in Record /\ Says(recs[h], h) /\ Fits(recs[h], k)
  <2>1. c.recs[h] \in Record /\ Says(c.recs[h], h) /\ Fits(c.recs[h], k)
    <3>1. c.recs[h] \in Record /\ Says(c.recs[h], h) /\ Fits(c.recs[h], c.key)
      BY DEF Content, ContentOK
    <3>2. CASE c.key = k
      BY <3>1, <3>2
    <3>3. CASE c.key = "none"
      BY <3>1, <3>3, KeysAreGenerators DEF Fits
    <3> QED BY <3>1, <3>2, <3>3
  <2>2. recs[h] = IF h \in entries THEN listed ELSE c.recs[h]
    OBVIOUS
  <2> HIDE DEF entries, listed, recs
  <2> QED BY <2>1, <2>2, <1>2
<1>4. recs = [h \in RevHandles |-> recs[h]]
  OBVIOUS
<1> HIDE DEF recs, entries, listed
<1>5. next \in Content
  <2>1. recs \in [RevHandles -> Record]
    BY <1>3, <1>4
  <2> QED BY <2>1, <1>1 DEF Content
<1>6. ContentOK(next)
  BY <1>1, <1>3 DEF ContentOK
<1> QED BY <1>5, <1>6

\* The restore ends and saves the records reconciled with the file it read.
LEMMA FinishKeeps ==
    ASSUME PubInd, NEW g \in Generators, FinishRestore(g)
    PROVE  PubInd'
<1>1. PICK r \in GenRows, d \in Content :
         /\ r = gen[g] /\ d = Disk(g) /\ RowOK(r) /\ ContentOK(d)
         /\ r.mem \in Content /\ ContentOK(r.mem)
  BY Reading
<1>2. r.step = "restoring" /\ UNCHANGED <<home, file, faults>>
  BY <1>1 DEF FinishRestore, At
<1>3. PICK k \in BackedUp : \E i \in InspectRemote(k) :
         LET next == reconcileRevocationRestoreState(r.mem, k, i)
         IN  /\ r.mem.key \in {"none", k}
             /\ \/ SaveDisk(g, next) /\ Go(g, [r EXCEPT !.step = "idle", !.mem = next])
                \/ Go(g, [r EXCEPT !.step = "idle"]) /\ UNCHANGED disk
  BY <1>1 DEF FinishRestore
<1>4. PICK i \in InspectRemote(k) :
         LET next == reconcileRevocationRestoreState(r.mem, k, i)
         IN  /\ r.mem.key \in {"none", k}
             /\ \/ SaveDisk(g, next) /\ Go(g, [r EXCEPT !.step = "idle", !.mem = next])
                \/ Go(g, [r EXCEPT !.step = "idle"]) /\ UNCHANGED disk
  BY <1>3
<1>5. i \in 0 .. Len(file) /\ (i > 0 => file[i].key = k)
  BY DEF InspectRemote, Cached, Remote
<1>6. k \in Generators
  BY DEF BackedUp, PubInd, ContentOK
<1>7. PubInd'
  <2>1. PICK c : c = reconcileRevocationRestoreState(r.mem, k, i)
    OBVIOUS
  <2>2. c \in Content /\ ContentOK(c)
    <3>1. r.mem.key \in {"none", k}
      BY <1>4
    <3> QED BY <1>1, <1>5, <1>6, <2>1, <3>1, ReconciledOK DEF PubInd
  <2>3. CASE SaveDisk(g, c) /\ Go(g, [r EXCEPT !.step = "idle", !.mem = c])
    <3>1. PICK row : row = [r EXCEPT !.step = "idle", !.mem = c]
      OBVIOUS
    <3>2. /\ row \in GenRows /\ row.step = "idle" /\ row.mem = c
          /\ gen' = [gen EXCEPT ![g] = row]
          /\ disk' = [disk EXCEPT ![home[g]] = c]
      BY <1>1, <2>2, <2>3, <3>1 DEF Go, SaveDisk, GenRows, GenSteps
    <3>3. RowOK(row)
      BY <2>2, <3>2, Quiet
    <3> QED BY <1>2, <2>2, <3>2, <3>3, GeneratorQuiet, FaultCounts
  <2>4. CASE Go(g, [r EXCEPT !.step = "idle"]) /\ UNCHANGED disk
    <3>1. PICK row : row = [r EXCEPT !.step = "idle"]
      OBVIOUS
    <3>2. /\ row \in GenRows /\ row.step = "idle" /\ row.mem = r.mem
          /\ gen' = [gen EXCEPT ![g] = row]
      BY <1>1, <2>4, <3>1 DEF Go, GenRows, GenSteps
    <3>3. RowOK(row)
      BY <1>1, <3>2, Quiet
    <3> QED BY <1>1, <1>2, <2>4, <3>2, <3>3, GeneratorQuiet, FaultCounts
  <2> QED BY <1>4, <2>1, <2>3, <2>4
<1> QED BY <1>7

\* A publication fails for good only against the key of somebody else.
LEMMA FailedOK ==
    /\ Failed \in Record /\ \A h : Says(Failed, h)
    /\ \A k \in Generators : Len(file) > 0 /\ file[1].key # k => Fits(Failed, k)
BY DEF Failed, Record, Says, Fits

\* An answer that says published says what is so; any other promises nothing.
LEMMA TellKeeps ==
    ASSUME PubInd, NEW g \in Generators, NEW h \in RevHandles, NEW o \in Record,
           NEW c \in Content, ContentOK(c), Tell(g, h, o, c),
           o.st = "published" => Says(o, h) /\ Fits(o, c.key),
           UNCHANGED <<home, file>>, UNCHANGED faults \/ Fault,
           UNCHANGED disk \/ disk' = [disk EXCEPT ![home[g]] = c]
    PROVE  PubInd'
<1>1. PICK row : row = [NotStarted EXCEPT !.step = "answer", !.mem = c, !.h = h, !.result = o]
  OBVIOUS
<1>2. NotStarted \in GenRows
  BY PauseOK
<1>3. /\ row \in GenRows /\ row.step = "answer" /\ row.mem = c /\ row.h = h /\ row.result = o
      /\ gen' = [gen EXCEPT ![g] = row]
  BY <1>1, <1>2 DEF Tell, Go, GenRows, GenSteps
<1>4. RowOK(row)
  BY <1>3 DEF RowOK, Publishing
<1> QED BY <1>3, <1>4, GeneratorQuiet, FaultCounts

\* RevokeLicense begins a publication that demands what the disk has recorded.
LEMMA RevokeKeeps ==
    ASSUME PubInd, NEW g \in Generators, NEW h \in RevHandles, RevokeLicense(g, h)
    PROVE  PubInd'
<1>1. PICK r \in GenRows, d \in Content :
         /\ r = gen[g] /\ d = Disk(g) /\ RowOK(r) /\ ContentOK(d)
         /\ r.mem \in Content /\ ContentOK(r.mem)
  BY Reading
<1>2. PICK c : c = Prepare(d, h)
  OBVIOUS
<1>3. c \in Content /\ ContentOK(c) /\ c.key = d.key
  <2>1. Pending(0, 0) \in Record /\ \A q, k : Says(Pending(0, 0), q) /\ Fits(Pending(0, 0), k)
    BY DEF Pending, Record, Says, Fits
  <2>2. CASE d.recs[h].st = "none"
    <3>1. /\ c.key = d.key /\ c.ok = d.ok /\ c \in Content
          /\ \A q \in RevHandles : c.recs[q] = IF q = h THEN Pending(0, 0) ELSE d.recs[q]
      <4> HIDE DEF Pending
      <4> QED BY <1>1, <1>2, <2>1, <2>2 DEF Prepare, Content
    <3> QED BY <1>1, <2>1, <3>1 DEF ContentOK
  <2>3. CASE d.recs[h].st # "none"
    BY <1>1, <1>2, <2>3 DEF Prepare
  <2> QED BY <2>2, <2>3
<1>4. r.step = "idle" /\ r.mem.key # "none" /\ UNCHANGED <<home, file>>
  BY <1>1, <1>2 DEF RevokeLicense, At
<1>5. CASE /\ Fault /\ UNCHANGED disk
           /\ \E known \in {r.mem, d} : Tell(g, h, Failed, known)
  <2>1. PICK known \in {r.mem, d} : Tell(g, h, Failed, known)
    BY <1>5
  <2>2. known \in Content /\ ContentOK(known) /\ Failed \in Record /\ Failed.st # "published"
    BY <1>1, FailedOK DEF Failed
  <2> QED BY <1>1, <1>4, <1>5, <2>1, <2>2, TellKeeps
<1>6. CASE /\ d.key = r.mem.key /\ UNCHANGED faults
           /\ disk' = [disk EXCEPT ![home[g]] = c]
           /\ c.recs[h].st = "published" /\ Tell(g, h, c.recs[h], c)
  <2>1. c.recs[h] \in Record /\ Says(c.recs[h], h) /\ Fits(c.recs[h], c.key)
    BY <1>3 DEF Content, ContentOK
  <2> QED BY <1>3, <1>4, <1>6, <2>1, TellKeeps
<1>7. CASE /\ d.key = r.mem.key /\ UNCHANGED faults
           /\ disk' = [disk EXCEPT ![home[g]] = c]
           /\ Tell(g, h, Failed, c)
  <2>1. Failed \in Record /\ Failed.st # "published"
    BY FailedOK DEF Failed
  <2> QED BY <1>3, <1>4, <1>7, <2>1, TellKeeps
<1>8. CASE /\ d.key = r.mem.key /\ UNCHANGED faults
           /\ disk' = [disk EXCEPT ![home[g]] = c]
           /\ Go(g, [r EXCEPT !.step = "load", !.mem = c, !.h = h, !.tries = 0,
                              !.min = MinimumSequence(c), !.hist = Published(c)])
  <2>1. PICK n : n = MinimumSequence(c)
    OBVIOUS
  <2>2. n \in Nat /\ (n < Len(file) \/ n = 0)
    BY <1>3, <2>1, MinimumIsOne DEF PubInd
  <2>3. PICK row : row = [r EXCEPT !.step = "load", !.mem = c, !.h = h, !.tries = 0,
                                   !.min = n, !.hist = Published(c)]
    OBVIOUS
  <2>4. Published(c) \in SUBSET RevHandles
    BY DEF Published
  <2>5. /\ row \in GenRows /\ row.step = "load" /\ row.mem = c /\ row.h = h
        /\ row.tries = 0 /\ row.min = n /\ row.hist = Published(c)
        /\ gen' = [gen EXCEPT ![g] = row]
    <3>1. gen' = [gen EXCEPT ![g] = row]
      BY <1>8, <2>1, <2>3 DEF Go
    <3>2. 0 \in 0 .. PublishAttempts
      BY PublicationAssumption
    <3>3. PICK p \in SUBSET RevHandles : p = Published(c)
      BY <2>4
    <3>4. row = [r EXCEPT !.step = "load", !.mem = c, !.h = h, !.tries = 0, !.min = n, !.hist = p]
      BY <2>3, <3>3
    <3>5. /\ row \in GenRows /\ row.step = "load" /\ row.mem = c /\ row.h = h
          /\ row.tries = 0 /\ row.min = n /\ row.hist = p
      BY <1>3, <2>2, <3>2, <3>4 DEF GenRows, GenSteps
    <3> QED BY <3>1, <3>3, <3>5
  <2>6. Published(c) = {} \/ \E i \in 1 .. Len(file) : Published(c) \subseteq file[i].entries
    <3> SUFFICES ASSUME Published(c) # {}
                 PROVE  \E i \in 1 .. Len(file) : Published(c) \subseteq file[i].entries
      OBVIOUS
    <3>1. ASSUME NEW q \in Published(c)
          PROVE  /\ c.recs[q].blob \in 1 .. Len(file)
                 /\ q \in file[c.recs[q].blob].entries
      BY <1>3, <3>1 DEF Published, ContentOK, Says
    <3>2. FileOK /\ Len(file) \in Nat
      BY FileHasLength
    <3>3. Len(file) \in 1 .. Len(file)
      BY <3>1, <3>2
    <3>4. \A q \in Published(c) : q \in file[Len(file)].entries
      BY <3>1, <3>2, <3>3 DEF FileOK
    <3> QED BY <3>3, <3>4
  <2>7. c.key \in Generators
    BY <1>3, <1>4, <1>8 DEF Content
  <2>8. RowOK(row)
    BY <1>3, <2>2, <2>5, <2>6, <2>7, PublicationAssumption DEF RowOK, Publishing
  <2> QED BY <1>3, <1>4, <1>8, <2>5, <2>8, GeneratorQuiet, FaultCounts
<1> QED BY <1>1, <1>2, <1>5, <1>6, <1>7, <1>8 DEF RevokeLicense

\* A publication that gives up, for now or for good, with a result that is so.
LEMMA ResultOK ==
    ASSUME FileOK, NEW r \in GenRows, RowOK(r), r.step \in Publishing, NEW o \in Record,
           Says(o, r.h), Fits(o, r.mem.key)
    PROVE  LET row == [r EXCEPT !.step = "record", !.result = o]
           IN  row \in GenRows /\ RowOK(row)
<1> DEFINE row == [r EXCEPT !.step = "record", !.result = o]
<1>1. /\ row \in GenRows /\ row.step = "record" /\ row.result = o
      /\ row.mem = r.mem /\ row.h = r.h
  BY DEF GenRows, GenSteps
<1> HIDE DEF row
<1>2. ContentOK(row.mem) /\ row.h \in RevHandles
  BY <1>1 DEF RowOK
<1>3. RowOK(row)
  BY <1>1, <1>2 DEF RowOK, Publishing
<1> QED BY <1>1, <1>3 DEF row

\* A result that says nothing but that the licence is to be published.
LEMMA PendingOK ==
    ASSUME NEW n \in Nat, NEW b \in Nat, n < Len(file) \/ n = 0
    PROVE  /\ Pending(n, b) \in Record /\ Pending(n, b).st = "pending"
           /\ \A h, k : Says(Pending(n, b), h) /\ Fits(Pending(n, b), k)
BY DEF Pending, Record, Says, Fits

\* The next round of a publication.
LEMMA AgainOK ==
    ASSUME PubInd, NEW g \in Generators, gen[g].step \in Publishing, Again(g),
           UNCHANGED <<home, file, disk, faults>>
    PROVE  PubInd'
<1>1. PICK r \in GenRows, d \in Content :
         /\ r = gen[g] /\ d = Disk(g) /\ RowOK(r) /\ ContentOK(d)
         /\ r.mem \in Content /\ ContentOK(r.mem)
  BY Reading
<1>2. /\ r.tries \in 0 .. PublishAttempts /\ r.tries < PublishAttempts /\ r.min \in Nat
      /\ r.min < Len(file) \/ r.min = 0
  BY <1>1 DEF GenRows, RowOK
<1>3. CASE Go(g, [r EXCEPT !.step = "record", !.result = Pending(r.min, 0)])
  <2>1. PICK row : row = [r EXCEPT !.step = "record", !.result = Pending(r.min, 0)]
    OBVIOUS
  <2>2. row \in GenRows /\ RowOK(row)
    BY <1>1, <1>2, <2>1, PendingOK, ResultOK DEF PubInd
  <2>3. gen' = [gen EXCEPT ![g] = row]
    BY <1>3, <2>1 DEF Go
  <2> QED BY <1>1, <2>2, <2>3, GeneratorQuiet, FaultCounts
<1>4. CASE r.tries + 1 # PublishAttempts /\ Go(g, [r EXCEPT !.step = "load", !.tries = @ + 1])
  <2>1. PICK row : row = [r EXCEPT !.step = "load", !.tries = @ + 1]
    OBVIOUS
  <2>2. /\ row \in GenRows /\ row.step = "load" /\ row.tries = r.tries + 1
        /\ row.mem = r.mem /\ row.h = r.h /\ row.min = r.min /\ row.hist = r.hist
    <3>1. PICK t \in 0 .. PublishAttempts : t = r.tries + 1
      BY <1>2, <1>4, PublicationAssumption
    <3>2. row = [r EXCEPT !.step = "load", !.tries = t]
      BY <2>1, <3>1 DEF GenRows
    <3> QED BY <3>1, <3>2 DEF GenRows, GenSteps
  <2>3. RowOK(row)
    BY <1>1, <1>2, <1>4, <2>2, PublicationAssumption DEF RowOK, Publishing
  <2>4. gen' = [gen EXCEPT ![g] = row]
    BY <1>4, <2>1 DEF Go
  <2> QED BY <1>1, <2>2, <2>3, <2>4, GeneratorQuiet, FaultCounts
<1> QED BY <1>1, <1>3, <1>4 DEF Again, Result

\* A publication ends with a result, and the file is as it was.
LEMMA ResultKeeps ==
    ASSUME PubInd, NEW g \in Generators, gen[g].step \in Publishing,
           NEW o \in Record, Says(o, gen[g].h), Result(g, o),
           Fits(o, gen[g].mem.key),
           UNCHANGED <<home, file, disk>>, UNCHANGED faults \/ Fault
    PROVE  PubInd'
<1>1. PICK r \in GenRows, d \in Content :
         /\ r = gen[g] /\ d = Disk(g) /\ RowOK(r) /\ ContentOK(d)
         /\ r.mem \in Content /\ ContentOK(r.mem)
  BY Reading
<1>2. PICK row : row = [r EXCEPT !.step = "record", !.result = o]
  OBVIOUS
<1>3. row \in GenRows /\ RowOK(row)
  BY <1>1, <1>2, ResultOK DEF PubInd
<1>4. gen' = [gen EXCEPT ![g] = row]
  BY <1>1, <1>2 DEF Result, Go
<1> QED BY <1>1, <1>3, <1>4, GeneratorQuiet, FaultCounts

\* loadAuthenticated: what the publication goes on from is the content it read.
LEMMA LoadKeeps ==
    ASSUME PubInd, NEW g \in Generators, LoadAuthenticated(g)
    PROVE  PubInd'
<1>1. PICK r \in GenRows, d \in Content :
         /\ r = gen[g] /\ d = Disk(g) /\ RowOK(r) /\ ContentOK(d)
         /\ r.mem \in Content /\ ContentOK(r.mem)
  BY Reading
<1>2. r.step = "load" /\ UNCHANGED <<home, file, disk>>
  BY <1>1 DEF LoadAuthenticated, At
<1>3. /\ r.mem.key \in Generators /\ r.h \in RevHandles /\ r.tries < PublishAttempts
      /\ r.min \in Nat /\ (r.min < Len(file) \/ r.min = 0)
      /\ r.hist = {} \/ \E i \in 1 .. Len(file) : r.hist \subseteq file[i].entries
  BY <1>1, <1>2 DEF RowOK, Publishing, GenRows
<1>4. FileOK /\ Len(file) \in Nat
  BY FileHasLength
<1>5. CASE Fault /\ Result(g, Pending(r.min, 0))
  BY <1>1, <1>2, <1>3, <1>5, PendingOK, ResultKeeps DEF Publishing
<1>6. CASE UNCHANGED faults /\ Remote = 0 /\ Go(g, [r EXCEPT !.step = "init"])
  <2>1. PICK row : row = [r EXCEPT !.step = "init"]
    OBVIOUS
  <2>2. /\ row \in GenRows /\ row.step = "init" /\ row.mem = r.mem /\ row.h = r.h
        /\ row.tries = r.tries /\ row.min = r.min /\ row.hist = r.hist
        /\ gen' = [gen EXCEPT ![g] = row]
    BY <1>6, <2>1 DEF Go, GenRows, GenSteps
  <2>3. RowOK(row)
    BY <1>1, <1>3, <2>2 DEF RowOK, Publishing
  <2> QED BY <1>1, <1>2, <1>6, <2>2, <2>3, GeneratorQuiet, FaultCounts
<1>7. CASE /\ UNCHANGED faults /\ Remote # 0
           /\ \/ file[Remote].key # r.mem.key
              \/ ~acceptableHistory(file[Remote], r.min, r.hist)
           /\ Result(g, Failed)
  <2>1. Remote = Len(file) /\ Remote \in 1 .. Len(file)
    BY <1>4, <1>7 DEF Remote
  <2>2. file[Remote].seq >= r.min
    BY <1>3, <1>4, <2>1 DEF FileOK
  <2>3. r.hist \subseteq file[Remote].entries
    BY <1>3, <1>4, <2>1 DEF FileOK
  <2>4. file[1].key # r.mem.key
    BY <1>4, <1>7, <2>1, <2>2, <2>3 DEF FileOK, acceptableHistory
  <2>5. Len(file) > 0
    BY <1>4, <2>1
  <2> QED BY <1>1, <1>2, <1>3, <1>7, <2>4, <2>5, FailedOK, ResultKeeps DEF Publishing
<1>8. CASE /\ UNCHANGED faults /\ Remote # 0
           /\ file[Remote].key = r.mem.key
           /\ acceptableHistory(file[Remote], r.min, r.hist)
           /\ Go(g, [r EXCEPT !.got = Remote, !.step =
                        IF r.h \in file[Remote].entries THEN "readback" ELSE "cas"])
  <2>1. PICK n : n = Len(file)
    OBVIOUS
  <2>2. Remote = n /\ n \in 1 .. Len(file) /\ n \in Nat
    BY <1>4, <1>8, <2>1 DEF Remote
  <2>3. PICK step : step = IF r.h \in file[n].entries THEN "readback" ELSE "cas"
    OBVIOUS
  <2>4. PICK row : row = [r EXCEPT !.got = n, !.step = step]
    OBVIOUS
  <2>5. gen' = [gen EXCEPT ![g] = row]
    BY <1>8, <2>2, <2>3, <2>4 DEF Go
  <2>6. step \in {"readback", "cas"}
    BY <2>3
  <2>7. /\ row \in GenRows /\ row.step = step /\ row.mem = r.mem /\ row.h = r.h
        /\ row.tries = r.tries /\ row.min = r.min /\ row.hist = r.hist /\ row.got = n
    BY <2>2, <2>4, <2>6 DEF GenRows, GenSteps
  <2>8. RowOK(row)
    BY <1>1, <1>3, <1>8, <2>2, <2>3, <2>6, <2>7 DEF RowOK, Publishing, acceptableHistory
  <2> QED BY <1>1, <1>2, <1>8, <2>5, <2>7, <2>8, GeneratorQuiet, FaultCounts
<1> QED BY <1>1, <1>5, <1>6, <1>7, <1>8 DEF LoadAuthenticated

\* A queue of length 0 and what is appended to it.
LEMMA FirstElement ==
    ASSUME NEW S, NEW q \in Seq(S), Len(q) = 0, NEW x \in S
    PROVE  q = <<>> /\ Append(q, x) = <<x>>
OBVIOUS

\* The first content of the file, or the one that is there.
LEMMA InitialFile ==
    ASSUME PubInd, NEW k \in Generators,
           file' = (IF Remote = 0 THEN <<[key |-> k, seq |-> 0, entries |-> {}]>> ELSE file)
    PROVE  Grows /\ Len(file') > 0
<1>1. file \in Seq(Manifest) /\ Len(file) \in Nat
  BY DEF PubInd, FileOK
<1>2. CASE Remote = 0
  <2>1. PICK e : e = [key |-> k, seq |-> 0, entries |-> {}]
    OBVIOUS
  <2>2. e \in Manifest /\ e.seq = 0 /\ e.entries = {}
    BY <2>1 DEF Manifest
  <2>3. Len(file) = 0 /\ file' = <<e>>
    BY <1>2, <2>1 DEF Remote
  <2>4. file' = Append(file, e)
    <3>1. PICK q \in Seq(Manifest) : q = file
      BY <1>1
    <3>2. Len(q) = 0
      BY <2>3, <3>1
    <3>3. q = <<>> /\ Append(q, e) = <<e>>
      BY <2>2, <3>2, FirstElement
    <3>4. Append(file, e) = <<e>>
      BY <3>1, <3>3
    <3> QED BY <2>3, <3>4, Zenon
  <2>5. Len(file') > 0
    BY <2>3
  <2>6. /\ e.seq = Len(file)
        /\ Len(file) = 0 => e.entries = {}
        /\ Len(file) > 0 => /\ e.key = file[1].key
                            /\ file[Len(file)].entries \subseteq e.entries
    <3>1. ~ (Len(file) > 0) /\ e.seq = Len(file)
      BY <2>2, <2>3
    <3> QED BY <2>2, <3>1, Zenon
  <2> QED BY <2>2, <2>4, <2>5, <2>6, Zenon DEF Grows
<1>3. CASE Remote # 0
  BY <1>1, <1>3 DEF Remote, Grows
<1> QED BY <1>2, <1>3

\* The first manifest, or the one that another generator initialized meanwhile.
LEMMA InitializeKeeps ==
    ASSUME PubInd, NEW g \in Generators, initializeLocked(g)
    PROVE  PubInd' /\ Grows
<1>1. PICK r \in GenRows, d \in Content :
         /\ r = gen[g] /\ d = Disk(g) /\ RowOK(r) /\ ContentOK(d)
         /\ r.mem \in Content /\ ContentOK(r.mem)
  BY Reading
<1>2. r.step = "init" /\ UNCHANGED <<home, disk>>
  BY <1>1 DEF initializeLocked, At
<1>3. /\ r.mem.key \in Generators /\ r.h \in RevHandles /\ r.tries < PublishAttempts
      /\ r.min \in Nat /\ (r.min < Len(file) \/ r.min = 0)
      /\ r.hist = {} \/ \E i \in 1 .. Len(file) : r.hist \subseteq file[i].entries
  BY <1>1, <1>2 DEF RowOK, Publishing, GenRows
<1> DEFINE first == <<[key |-> r.mem.key, seq |-> 0, entries |-> {}]>>
<1>4. CASE /\ file' = (IF Remote = 0 THEN first ELSE file) /\ UNCHANGED faults
           /\ Go(g, [r EXCEPT !.step = "initread", !.got = Len(file')])
  <2>1. Grows /\ Len(file') > 0
    BY <1>3, <1>4, InitialFile
  <2>2. FileOK' /\ Len(file') \in Nat
    BY <2>1, GrownFile DEF PubInd
  <2>3. PICK n : n = Len(file')
    OBVIOUS
  <2>4. PICK row : row = [r EXCEPT !.step = "initread", !.got = n]
    OBVIOUS
  <2>5. /\ row \in GenRows /\ row.step = "initread" /\ row.mem = r.mem /\ row.h = r.h
        /\ row.tries = r.tries /\ row.min = r.min /\ row.hist = r.hist /\ row.got = n
    BY <2>2, <2>3, <2>4 DEF GenRows, GenSteps
  <2>6. gen' = [gen EXCEPT ![g] = row]
    BY <1>4, <2>3, <2>4 DEF Go
  <2>7. RowOK(r)'
    BY <1>1, <2>1, RowStays DEF PubInd
  <2>8. row.got \in 1 .. Len(file')
    BY <2>1, <2>2, <2>3, <2>5
  <2>9. RowOK(row)'
    BY <1>2, <2>5, <2>7, <2>8 DEF RowOK, Publishing
  <2> QED BY <1>2, <1>4, <2>1, <2>5, <2>6, <2>9, GeneratorStep, FaultCounts
<1>5. CASE /\ Fault /\ file' \in {file, IF Remote = 0 THEN first ELSE file}
           /\ Result(g, Pending(0, 0))
  <2>1. Grows
    BY <1>3, <1>5, InitialFile DEF Grows
  <2>2. PICK row : row = [r EXCEPT !.step = "record", !.result = Pending(0, 0)]
    OBVIOUS
  <2>3. gen' = [gen EXCEPT ![g] = row]
    BY <1>1, <1>5, <2>2 DEF Result, Go
  <2>4. row \in GenRows /\ RowOK(row)
    BY <1>1, <1>2, <2>2, PendingOK, ResultOK DEF PubInd, Publishing
  <2>5. RowOK(row)'
    BY <2>1, <2>4, RowStays DEF PubInd
  <2> QED BY <1>2, <1>5, <2>1, <2>3, <2>4, <2>5, GeneratorStep, FaultCounts
<1> QED BY <1>1, <1>4, <1>5 DEF initializeLocked

\* The manifest that a compare-and-swap installs goes on from the last one.
LEMMA SwappedGrows ==
    ASSUME PubInd, NEW g \in Generators, gen[g].step = "cas",
           file' \in {file, Swapped(g)}
    PROVE  Grows
<1>1. PICK r \in GenRows, d \in Content :
         /\ r = gen[g] /\ d = Disk(g) /\ RowOK(r) /\ ContentOK(d)
         /\ r.mem \in Content /\ ContentOK(r.mem)
  BY Reading
<1>2. /\ r.step = "cas" /\ r.mem.key \in Generators /\ r.h \in RevHandles
      /\ r.got \in 1 .. Len(file) /\ file[r.got].key = r.mem.key
  BY <1>1 DEF RowOK, Publishing
<1>3. FileOK /\ Len(file) \in Nat
  BY FileHasLength
<1>4. CASE file' = file
  BY <1>4 DEF Grows
<1>5. CASE r.got = Len(file) /\ file' = Append(file, NextManifest(g))
  <2>1. PICK e : e = NextManifest(g)
    OBVIOUS
  <2>2. /\ file[r.got].entries \in SUBSET RevHandles /\ file[r.got].seq = r.got - 1
        /\ file[r.got].key = file[1].key
    <3>1. file[r.got] \in Manifest
      BY <1>2, <1>3 DEF FileOK
    <3> QED BY <1>2, <1>3, <3>1 DEF FileOK, Manifest
  <2>3. /\ e \in Manifest /\ e.seq = r.got /\ e.key = file[1].key
        /\ file[r.got].entries \subseteq e.entries
    BY <1>1, <1>2, <1>3, <2>1, <2>2 DEF NextManifest, Manifest
  <2> QED BY <1>2, <1>3, <1>5, <2>1, <2>3 DEF Grows
<1> QED BY <1>1, <1>4, <1>5 DEF Swapped, Remote

\* compare-and-swap: installed, not installed, or installed without an answer.
LEMMA SwapKeeps ==
    ASSUME PubInd, NEW g \in Generators, CompareAndSwap(g)
    PROVE  PubInd'
<1>1. PICK r \in GenRows, d \in Content :
         /\ r = gen[g] /\ d = Disk(g) /\ RowOK(r) /\ ContentOK(d)
         /\ r.mem \in Content /\ ContentOK(r.mem)
  BY Reading
<1>2. r.step = "cas" /\ UNCHANGED <<home, disk>>
  BY <1>1 DEF CompareAndSwap, At
<1>3. /\ r.mem.key \in Generators /\ r.h \in RevHandles /\ r.tries < PublishAttempts
      /\ r.min \in Nat /\ (r.min < Len(file) \/ r.min = 0)
      /\ r.got \in 1 .. Len(file) /\ r.hist \in SUBSET RevHandles
      /\ r.hist = {} \/ \E i \in 1 .. Len(file) : r.hist \subseteq file[i].entries
  BY <1>1, <1>2 DEF RowOK, Publishing, GenRows
<1>4. FileOK /\ Len(file) \in Nat
  BY FileHasLength
<1>5. CASE /\ Fault /\ file' \in {file, Swapped(g)}
           /\ Result(g, Pending(r.min, 0))
  <2>1. Grows
    BY <1>1, <1>2, <1>5, SwappedGrows
  <2>2. PICK row : row = [r EXCEPT !.step = "record", !.result = Pending(r.min, 0)]
    OBVIOUS
  <2>3. gen' = [gen EXCEPT ![g] = row]
    BY <1>1, <1>5, <2>2 DEF Result, Go
  <2>4. row \in GenRows /\ RowOK(row)
    BY <1>1, <1>2, <1>3, <2>2, PendingOK, ResultOK DEF PubInd, Publishing
  <2>5. RowOK(row)'
    BY <2>1, <2>4, RowStays DEF PubInd
  <2> QED BY <1>2, <1>5, <2>1, <2>3, <2>4, <2>5, GeneratorStep, FaultCounts
<1>6. CASE /\ r.got = Remote /\ file' = Swapped(g) /\ UNCHANGED faults
           /\ Go(g, [r EXCEPT !.step = "readback", !.got = Remote + 1])
  <2>1. Grows
    BY <1>1, <1>2, <1>6, SwappedGrows
  <2>2. file' = Append(file, NextManifest(g))
    BY <1>1, <1>6 DEF Swapped
  <2>3. PICK n : n = Len(file) + 1
    OBVIOUS
  <2>4. PICK row : row = [r EXCEPT !.step = "readback", !.got = n]
    OBVIOUS
  <2>5. /\ row \in GenRows /\ row.step = "readback" /\ row.mem = r.mem /\ row.h = r.h
        /\ row.tries = r.tries /\ row.min = r.min /\ row.hist = r.hist /\ row.got = n
    <3>1. n \in Nat
      BY <1>4, <2>3
    <3> QED BY <2>4, <3>1 DEF GenRows, GenSteps
  <2>6. gen' = [gen EXCEPT ![g] = row]
    BY <1>6, <2>3, <2>4 DEF Go, Remote
  <2>7. RowOK(r)' /\ FileOK'
    BY <1>1, <1>4, <2>1, RowStays, GrownFile
  <2>8. file \in Seq(Manifest) /\ n \in 1 .. Len(file') /\ file'[n] = NextManifest(g)
    BY <1>4, <2>2, <2>3 DEF FileOK
  <2>9. \A i \in 1 .. Len(file) : file[i].entries \subseteq NextManifest(g).entries
    BY <1>1, <1>3, <1>4, <1>6 DEF NextManifest, Remote, FileOK
  <2>10. {r.h} \cup r.hist \subseteq file'[n].entries
    BY <1>1, <1>3, <2>8, <2>9 DEF NextManifest
  <2>11. RowOK(row)'
    BY <1>2, <2>5, <2>7, <2>8, <2>10 DEF RowOK, Publishing
  <2> QED BY <1>2, <1>6, <2>1, <2>5, <2>6, <2>11, GeneratorStep, FaultCounts
<1>7. CASE UNCHANGED <<file, faults>> /\ Again(g)
  BY <1>1, <1>2, <1>7, AgainOK DEF Publishing
<1> QED BY <1>1, <1>5, <1>6, <1>7 DEF CompareAndSwap

\* A readback that lists the licence is a content the file has had.
LEMMA ReadbackKeeps ==
    ASSUME PubInd, NEW g \in Generators, verifyReadback(g)
    PROVE  PubInd'
<1>1. PICK r \in GenRows, d \in Content :
         /\ r = gen[g] /\ d = Disk(g) /\ RowOK(r) /\ ContentOK(d)
         /\ r.mem \in Content /\ ContentOK(r.mem)
  BY Reading
<1>2. r.step \in {"readback", "initread"} /\ UNCHANGED <<home, file, disk>>
  BY <1>1 DEF verifyReadback, At
<1>3. /\ r.mem.key \in Generators /\ r.h \in RevHandles
      /\ r.got \in 1 .. Len(file) /\ r.hist \in SUBSET RevHandles
      /\ r.step = "readback" => {r.h} \cup r.hist \subseteq file[r.got].entries
  BY <1>1, <1>2 DEF RowOK, Publishing, GenRows
<1>4. FileOK /\ Len(file) \in Nat
  BY FileHasLength
<1>5. PICK n : n = Len(file)
  OBVIOUS
<1>6. /\ Remote = n /\ n \in 1 .. Len(file) /\ file[n].seq = n - 1 /\ n \in Nat
      /\ file[n].key = file[1].key
  BY <1>3, <1>4, <1>5 DEF Remote, FileOK
<1>7. file[r.got].seq = r.got - 1 /\ r.got \in Nat /\ r.got - 1 \in Nat /\ r.got <= n
  BY <1>3, <1>4, <1>5 DEF FileOK
<1> DEFINE target == IF r.step = "readback" THEN {r.h} \cup r.hist ELSE {}
           good == file[n].key = r.mem.key /\ acceptableHistory(file[n], file[r.got].seq, target)
<1>8. CASE Fault /\ Result(g, Pending(file[r.got].seq, r.got))
  <2>1. Pending(file[r.got].seq, r.got) \in Record /\ Says(Pending(file[r.got].seq, r.got), r.h)
        /\ Fits(Pending(file[r.got].seq, r.got), r.mem.key)
    <3>1. PICK q : q = file[r.got].seq
      OBVIOUS
    <3>2. q \in Nat /\ q < Len(file)
      BY <1>3, <1>4, <1>7, <3>1
    <3> QED BY <1>7, <3>1, <3>2, PendingOK
  <2> QED BY <1>1, <1>2, <1>8, <2>1, ResultKeeps DEF Publishing
<1>9. CASE UNCHANGED faults /\ ~good /\ Result(g, Failed)
  <2>1. file[n].seq >= file[r.got].seq
    BY <1>6, <1>7
  <2>2. target \subseteq file[n].entries
    BY <1>3, <1>4, <1>6, <1>7 DEF FileOK
  <2>3. file[1].key # r.mem.key
    BY <1>6, <1>9, <2>1, <2>2 DEF acceptableHistory
  <2>4. Len(file) > 0
    BY <1>3
  <2> QED BY <1>1, <1>2, <1>3, <1>9, <2>3, <2>4, FailedOK, ResultKeeps DEF Publishing
<1>10. CASE UNCHANGED faults /\ Result(g, Pending(file[n].seq, n))
  <2>1. Pending(file[n].seq, n) \in Record /\ Says(Pending(file[n].seq, n), r.h)
        /\ Fits(Pending(file[n].seq, n), r.mem.key)
    <3>1. PICK q : q = file[n].seq
      OBVIOUS
    <3>2. q \in Nat /\ q < Len(file)
      BY <1>4, <1>5, <1>6, <3>1
    <3> QED BY <1>6, <3>1, <3>2, PendingOK
  <2> QED BY <1>1, <1>2, <1>10, <2>1, ResultKeeps DEF Publishing
<1>11. CASE UNCHANGED faults /\ Again(g)
  BY <1>1, <1>2, <1>11, AgainOK DEF Publishing
<1>12. CASE /\ UNCHANGED faults /\ good /\ r.step = "readback"
            /\ Result(g, [st |-> "published", seq |-> file[n].seq, blob |-> n])
  <2>1. PICK o : o = [st |-> "published", seq |-> file[n].seq, blob |-> n]
    OBVIOUS
  <2>2. r.h \in file[n].entries
    BY <1>12 DEF acceptableHistory
  <2>3. o \in Record /\ Says(o, r.h)
    BY <1>4, <1>5, <1>6, <2>1, <2>2 DEF Record, Says
  <2>4. Fits(o, r.mem.key)
    <3>1. Len(file) > 0 /\ file[1].key = r.mem.key
      BY <1>4, <1>6, <1>12
    <3> QED BY <2>1, <3>1 DEF Fits
  <2> QED BY <1>1, <1>2, <1>12, <2>1, <2>3, <2>4, ResultKeeps DEF Publishing
<1>13. \/ Fault /\ Result(g, Pending(file[r.got].seq, r.got))
       \/ /\ UNCHANGED faults
          /\ \/ ~good /\ Result(g, Failed)
             \/ Result(g, Pending(file[n].seq, n))
             \/ Again(g)
             \/ good /\ r.step = "readback"
                /\ Result(g, [st |-> "published", seq |-> file[n].seq, blob |-> n])
  BY <1>1, <1>2, <1>6 DEF verifyReadback, At
<1> QED BY <1>8, <1>9, <1>10, <1>11, <1>12, <1>13

\* RecordOutcome saves a result that is so beside records that are so, and tells
\* of no other than the saved one that it is published.
LEMMA RecordKeeps ==
    ASSUME PubInd, NEW g \in Generators, RecordOutcome(g)
    PROVE  PubInd'
<1>1. PICK r \in GenRows, d \in Content :
         /\ r = gen[g] /\ d = Disk(g) /\ RowOK(r) /\ ContentOK(d)
         /\ r.mem \in Content /\ ContentOK(r.mem)
  BY Reading
<1>2. r.step = "record" /\ UNCHANGED <<home, file>>
  BY <1>1 DEF RecordOutcome, At
<1>3. /\ r.h \in RevHandles /\ r.result \in Record /\ Says(r.result, r.h)
      /\ Fits(r.result, r.mem.key)
  BY <1>1, <1>2 DEF RowOK, GenRows
<1>4. PICK next : next = Recorded(d.recs[r.h], r.result)
  OBVIOUS
<1>5. PICK c : c = [d EXCEPT !.recs[r.h] = next]
  OBVIOUS
<1>6. PICK unsaved : unsaved = Pending(r.result.seq, r.result.blob)
  OBVIOUS
<1>7. unsaved \in Record /\ unsaved.st # "published"
  BY <1>3, <1>6 DEF Pending, Record
<1>8. \/ /\ d.key = r.mem.key /\ disk' = [disk EXCEPT ![home[g]] = c] /\ UNCHANGED faults
         /\ Tell(g, r.h, IF next = r.result THEN r.result ELSE unsaved, c)
      \/ Fault /\ UNCHANGED disk /\ Tell(g, r.h, unsaved, r.mem)
  BY <1>1, <1>4, <1>5, <1>6 DEF RecordOutcome
<1>9. CASE /\ d.key = r.mem.key /\ disk' = [disk EXCEPT ![home[g]] = c] /\ UNCHANGED faults
           /\ Tell(g, r.h, IF next = r.result THEN r.result ELSE unsaved, c)
  <2>1. d.recs[r.h] \in Record /\ Says(d.recs[r.h], r.h) /\ Fits(d.recs[r.h], d.key)
    BY <1>1, <1>3 DEF Content, ContentOK
  <2>2. next \in Record /\ Says(next, r.h) /\ Fits(next, d.key)
    BY <1>3, <1>4, <1>9, <2>1 DEF Recorded
  <2>3. /\ c \in Content /\ c.ok = d.ok /\ c.key = d.key
        /\ \A q \in RevHandles : c.recs[q] = IF q = r.h THEN next ELSE d.recs[q]
    BY <1>1, <1>3, <1>5, <2>2 DEF Content
  <2>4. ContentOK(c)
    BY <1>1, <2>2, <2>3 DEF ContentOK
  <2>5. PICK o \in Record : /\ o = (IF next = r.result THEN r.result ELSE unsaved)
                            /\ o.st = "published" => Says(o, r.h) /\ Fits(o, c.key)
    BY <1>3, <1>7, <1>9, <2>3
  <2> QED BY <1>2, <1>3, <1>9, <2>3, <2>4, <2>5, TellKeeps
<1>10. CASE Fault /\ UNCHANGED disk /\ Tell(g, r.h, unsaved, r.mem)
  BY <1>1, <1>2, <1>3, <1>7, <1>10, TellKeeps
<1> QED BY <1>8, <1>9, <1>10

\* Once the answer is shown the generator rests with what it knows.
LEMMA ShowKeeps ==
    ASSUME PubInd, NEW g \in Generators, ShowAnswer(g)
    PROVE  PubInd'
<1>1. PICK r \in GenRows, d \in Content :
         /\ r = gen[g] /\ d = Disk(g) /\ RowOK(r) /\ ContentOK(d)
         /\ r.mem \in Content /\ ContentOK(r.mem)
  BY Reading
<1>2. PICK row : row = [NotStarted EXCEPT !.step = "idle", !.mem = r.mem]
  OBVIOUS
<1>3. row \in GenRows /\ RowOK(row)
  BY <1>1, <1>2, PauseOK
<1>4. gen' = [gen EXCEPT ![g] = row] /\ UNCHANGED <<home, file, disk, faults>>
  BY <1>1, <1>2 DEF ShowAnswer, Go
<1> QED BY <1>1, <1>3, <1>4, GeneratorQuiet, FaultCounts

\* A generator that stops forgets what it was about to do.
LEMMA CloseKeeps ==
    ASSUME PubInd, NEW g \in Generators, CloseGenerator(g)
    PROVE  PubInd'
<1>1. PICK r \in GenRows, d \in Content :
         /\ r = gen[g] /\ d = Disk(g) /\ RowOK(r) /\ ContentOK(d)
         /\ r.mem \in Content /\ ContentOK(r.mem)
  BY Reading
<1>2. /\ gen' = [gen EXCEPT ![g] = NotStarted] /\ Fault
      /\ UNCHANGED <<home, file, disk>>
  BY DEF CloseGenerator, Go
<1> QED BY <1>1, <1>2, PauseOK, GeneratorQuiet, FaultCounts

\* An empty file and empty disks.
LEMMA PubIndInit == PubInit => PubInd
<1> SUFFICES ASSUME PubInit PROVE PubInd
  OBVIOUS
<1>1. /\ home \in [Generators -> Machines] /\ disk \in [Machines -> Content]
      /\ gen \in [Generators -> GenRows] /\ faults \in 0 .. MaxRemoteFaults
  <2>1. home \in [Generators -> Machines] /\ disk = [m \in Machines |-> NoContent]
        /\ gen = [g \in Generators |-> NotStarted] /\ faults = 0
    BY DEF PubInit
  <2>2. faults \in 0 .. MaxRemoteFaults
    BY <2>1, PublicationAssumption
  <2> QED BY <2>1, <2>2, NothingRecorded, PauseOK
<1>2. FileOK
  <2>1. file = <<>> /\ Len(file) = 0
    BY DEF PubInit
  <2> QED BY <2>1 DEF FileOK
<1>3. \A m \in Machines : ContentOK(disk[m])
  BY NothingRecorded DEF PubInit
<1>4. \A g \in Generators : RowOK(gen[g])
  BY PauseOK DEF PubInit
<1> QED BY <1>1, <1>2, <1>3, <1>4 DEF PubInd

\* Every action of the generators keeps it.
LEMMA PubIndStep == PubInd /\ [PubNext]_pubVars => PubInd'
<1> SUFFICES ASSUME PubInd, [PubNext]_pubVars PROVE PubInd'
  OBVIOUS
<1>1. CASE UNCHANGED pubVars
  BY <1>1 DEF pubVars, PubInd, FileOK, ContentOK, RowOK, Says, Fits
<1>2. ASSUME NEW g \in Generators,
             \/ newGeneratorServiceWithRevocation(g) \/ prepareRevocationPublisher(g)
             \/ ConfirmBackup(g) \/ (\E k \in Generators : RestoreBackup(g, k)) \/ FinishRestore(g)
             \/ (\E h \in RevHandles : RevokeLicense(g, h))
             \/ LoadAuthenticated(g) \/ initializeLocked(g) \/ CompareAndSwap(g)
             \/ verifyReadback(g) \/ RecordOutcome(g) \/ ShowAnswer(g) \/ CloseGenerator(g)
      PROVE  PubInd'
  BY <1>2, OpeningKeeps, BootstrapKeeps, ConfirmKeeps, RestoreKeeps, FinishKeeps, RevokeKeeps,
     LoadKeeps, InitializeKeeps, SwapKeeps, ReadbackKeeps, RecordKeeps, ShowKeeps, CloseKeeps
<1> QED BY <1>1, <1>2 DEF PubNext

\* It says what the runs check.
LEMMA PubIndMeans == PubInd => PubInv /\ OutcomesAreTrue
<1> SUFFICES ASSUME PubInd PROVE PubInv /\ OutcomesAreTrue
  OBVIOUS
<1>1. PubTypeOK
  <2>1. ASSUME NEW i \in 1 .. Len(file)
        PROVE  file[i].key \in Generators /\ file[i].seq \in Nat /\ file[i].entries \subseteq RevHandles
    <3>1. file[i] \in Manifest
      BY DEF PubInd, FileOK
    <3> QED BY <3>1 DEF Manifest
  <2> QED BY <2>1 DEF PubInd, PubTypeOK
<1>2. OneKey
  BY DEF PubInd, OneKey, FileOK
<1>3. PublishedIsListed
  <2> SUFFICES ASSUME NEW m \in Machines, NEW h \in Published(disk[m])
               PROVE  /\ disk[m].recs[h].blob \in 1 .. Len(file)
                      /\ \A i \in disk[m].recs[h].blob .. Len(file) : h \in file[i].entries
                      /\ file[disk[m].recs[h].blob].seq = disk[m].recs[h].seq
    BY DEF PublishedIsListed
  <2>1. h \in RevHandles /\ disk[m].recs[h].st = "published" /\ ContentOK(disk[m])
    BY DEF Published, PubInd
  <2>2. PICK b : b = disk[m].recs[h].blob
    OBVIOUS
  <2>3. /\ b \in 1 .. Len(file) /\ h \in file[b].entries /\ disk[m].recs[h].seq = b - 1
    BY <2>1, <2>2 DEF ContentOK, Says
  <2>4. FileOK /\ Len(file) \in Nat
    BY FileHasLength
  <2>5. ASSUME NEW i \in b .. Len(file) PROVE h \in file[i].entries
    <3>1. i \in 1 .. Len(file) /\ b <= i
      BY <2>3, <2>4, <2>5
    <3> QED BY <2>3, <2>4, <3>1 DEF FileOK
  <2> QED BY <2>2, <2>3, <2>4, <2>5 DEF FileOK
<1>4. OutcomesAreTrue
  <2>1. FileOK /\ Remote = Len(file) /\ Len(file) \in Nat
    BY FileHasLength DEF Remote
  <2>2. ASSUME NEW g \in Generators, At(g, "answer"), gen[g].result.st = "published"
        PROVE  gen[g].h \in file[Remote].entries /\ file[Remote].key = gen[g].mem.key
    <3>1. PICK r : r = gen[g]
      OBVIOUS
    <3>2. RowOK(r) /\ r.step = "answer" /\ r.result.st = "published"
      BY <2>2, <3>1 DEF PubInd, At
    <3>3. PICK b : b = r.result.blob
      OBVIOUS
    <3>4. b \in 1 .. Len(file) /\ r.h \in file[b].entries /\ file[1].key = r.mem.key
      BY <3>2, <3>3 DEF RowOK, Says, Fits
    <3> QED BY <2>1, <3>1, <3>4 DEF FileOK
  <2>3. ASSUME NEW m \in Machines, NEW h \in RevHandles, disk[m].recs[h].st = "failed"
        PROVE  Remote > 0 /\ file[Remote].key # disk[m].key
    <3>1. Fits(disk[m].recs[h], disk[m].key)
      BY DEF PubInd, ContentOK
    <3>2. Len(file) > 0 /\ file[1].key # disk[m].key
      BY <2>3, <3>1 DEF Fits
    <3> QED BY <2>1, <3>2 DEF FileOK
  <2> QED BY <2>2, <2>3 DEF OutcomesAreTrue
<1> QED BY <1>1, <1>2, <1>3, <1>4 DEF PubInv

\* The published history: one key, and what any disk calls published is in the
\* file from that content on, for any number of generators, machines, licences,
\* attempts and faults (RevokeLicense, compare-and-swap, readback, the restore).
THEOREM PubInvariant == PubSpec => []PubInv
<1>1. PubInit => PubInd
  BY PubIndInit
<1>2. PubInd /\ [PubNext]_pubVars => PubInd'
  BY PubIndStep
<1>3. PubInd => PubInv
  BY PubIndMeans
<1> QED BY <1>1, <1>2, <1>3, PTL DEF PubSpec

\* Whatever answers are lost: a generator that shows a revocation as published
\* (RevokeLicense, RecordOutcome, ShowAnswer) has it in the newest manifest under
\* its own key, and a disk records one as failed only against another's key.
THEOREM OutcomesStayTrue == PubSpec => []OutcomesAreTrue
<1>1. PubInit => PubInd
  BY PubIndInit
<1>2. PubInd /\ [PubNext]_pubVars => PubInd'
  BY PubIndStep
<1>3. PubInd => OutcomesAreTrue
  BY PubIndMeans
<1> QED BY <1>1, <1>2, <1>3, PTL DEF PubSpec

\* What a reader without keys sees of one content.
Seen(e) == [seq |-> e.seq, entries |-> e.entries]

\* The rows of the log.
SeenRows == [seq : Nat, entries : SUBSET RevHandles]

\* The log follows the file.
LogShape ==
    /\ FileLog \in Seq(SeenRows)
    /\ Len(FileLog) = Len(file) /\ Len(file) \in Nat
    /\ \A i \in 1 .. Len(file) : FileLog[i] = Seen(file[i])

\* Without its key a content is a row of the log.
LEMMA SeenIsRow == \A e \in Manifest : Seen(e) \in SeenRows
BY DEF Manifest, Seen, SeenRows

\* The log has a row for each content.
LEMMA LogIs == FileOK => LogShape
<1> SUFFICES ASSUME FileOK PROVE LogShape
  OBVIOUS
<1>1. Len(file) \in Nat /\ \A i \in 1 .. Len(file) : file[i] \in Manifest
  BY DEF FileOK
<1>2. FileLog = [i \in 1 .. Len(file) |-> Seen(file[i])]
  BY DEF FileLog, Seen
<1>3. FileLog \in [1 .. Len(file) -> SeenRows]
  BY <1>1, <1>2, SeenIsRow
<1>4. FileLog \in Seq(SeenRows)
  BY <1>1, <1>3, SeqDef
<1>5. Len(FileLog) = Len(file)
  <2>1. DOMAIN FileLog = 1 .. Len(file) /\ DOMAIN FileLog = 1 .. Len(FileLog) /\ Len(FileLog) \in Nat
    BY <1>3, <1>4, LenProperties
  <2> QED BY <1>1, <2>1
<1> QED BY <1>1, <1>2, <1>4, <1>5 DEF LogShape

\* A content that is installed is the next row.
LEMMA LogAppends ==
    ASSUME FileOK, Grows, NEW e \in Manifest, file' = Append(file, e)
    PROVE  FileLog' = Append(FileLog, Seen(e))
<1>1. LogShape
  BY LogIs
<1>2. LogShape'
  <2>1. FileOK'
    BY GrownFile
  <2> QED BY <2>1, LogIs, PTL
<1>3. Seen(e) \in SeenRows
  BY SeenIsRow
<1>4. /\ Append(FileLog, Seen(e)) \in Seq(SeenRows)
      /\ Len(Append(FileLog, Seen(e))) = Len(file) + 1
      /\ \A i \in 1 .. Len(file) : Append(FileLog, Seen(e))[i] = FileLog[i]
      /\ Append(FileLog, Seen(e))[Len(file) + 1] = Seen(e)
  BY <1>1, <1>3, AppendProperties DEF LogShape
<1>5. /\ Len(file) \in Nat /\ Len(file') = Len(file) + 1
      /\ \A i \in 1 .. Len(file) : file'[i] = file[i]
      /\ file'[Len(file) + 1] = e
  BY DEF FileOK
<1>6. \A i \in 1 .. Len(file') : i \in 1 .. Len(file) \/ i = Len(file) + 1
  BY <1>5
<1>7. \A i \in 1 .. Len(file') : FileLog'[i] = Append(FileLog, Seen(e))[i]
  BY <1>1, <1>2, <1>4, <1>5, <1>6 DEF LogShape
<1> QED
  BY <1>2, <1>4, <1>5, <1>7, SeqEqual DEF LogShape

\* A step opens the file, adds one licence to it, or leaves it as it is.
LEMMA FileSteps ==
    ASSUME PubInd, NEW g \in Generators, initializeLocked(g) \/ CompareAndSwap(g)
    PROVE  \/ file' = file
           \/ /\ Len(file) = 0 /\ Grows
              /\ \E e \in Manifest : /\ file' = Append(file, e)
                                     /\ Seen(e) = [seq |-> 0, entries |-> {}]
           \/ /\ Len(file) > 0 /\ Grows
              /\ \E e \in Manifest, h \in RevHandles :
                    /\ file' = Append(file, e)
                    /\ h \notin file[Len(file)].entries
                    /\ Seen(e) = [seq |-> file[Len(file)].seq + 1,
                                  entries |-> file[Len(file)].entries \cup {h}]
<1>1. PICK r \in GenRows, d \in Content :
         /\ r = gen[g] /\ d = Disk(g) /\ RowOK(r) /\ ContentOK(d)
         /\ r.mem \in Content /\ ContentOK(r.mem)
  BY Reading
<1>2. FileOK /\ Len(file) \in Nat /\ file \in Seq(Manifest)
  BY DEF PubInd, FileOK
<1>3. CASE initializeLocked(g)
  <2> DEFINE first == <<[key |-> r.mem.key, seq |-> 0, entries |-> {}]>>
  <2>1. file' = file \/ (Remote = 0 /\ file' = first)
    BY <1>1, <1>3 DEF initializeLocked
  <2>2. CASE Remote = 0 /\ file' = first
    <3>1. r.mem.key \in Generators
      BY <1>1, <1>3 DEF initializeLocked, At, RowOK, Publishing
    <3>2. Len(file) = 0
      BY <2>2 DEF Remote
    <3>3. PICK e : e = [key |-> r.mem.key, seq |-> 0, entries |-> {}]
      OBVIOUS
    <3>4. e \in Manifest /\ Seen(e) = [seq |-> 0, entries |-> {}]
      BY <3>1, <3>3 DEF Manifest, Seen
    <3>5. Append(file, e) = <<e>>
      BY <1>2, <3>2, <3>4, FirstElement
    <3>6. file' = Append(file, e)
      BY <2>2, <3>3, <3>5
    <3>7. Grows
      BY <1>3, InitializeKeeps
    <3> QED BY <3>2, <3>4, <3>6, <3>7
  <2> QED BY <2>1, <2>2
<1>4. CASE CompareAndSwap(g)
  <2>1. r.step = "cas" /\ file' \in {file, Swapped(g)}
    BY <1>1, <1>4 DEF CompareAndSwap, At
  <2>2. Grows
    BY <1>1, <2>1, SwappedGrows
  <2>3. /\ r.got \in 1 .. Len(file) /\ r.h \in RevHandles /\ r.h \notin file[r.got].entries
        /\ r.mem.key \in Generators
    BY <1>1, <2>1 DEF RowOK, Publishing
  <2>4. CASE r.got = Len(file) /\ file' = Append(file, NextManifest(g))
    <3>1. PICK e : e = NextManifest(g)
      OBVIOUS
    <3>2. file[r.got] \in Manifest
      BY <1>2, <2>3
    <3>3. e \in Manifest
      BY <1>1, <2>3, <3>1, <3>2 DEF NextManifest, Manifest
    <3>4. Seen(e) = [seq |-> file[Len(file)].seq + 1,
                     entries |-> file[Len(file)].entries \cup {r.h}]
      BY <1>1, <2>4, <3>1 DEF NextManifest, Seen
    <3>5. Len(file) > 0
      BY <1>2, <2>3
    <3> QED BY <2>2, <2>3, <2>4, <3>1, <3>3, <3>4, <3>5
  <2> QED BY <1>1, <2>1, <2>4 DEF Swapped, Remote
<1> QED BY <1>3, <1>4

\* A log that has a last row is not empty.
LEMMA NotEmpty == \A S : \A q \in Seq(S) : Len(q) \in 1 .. Len(q) => q # <<>>
OBVIOUS

\* A step of the generators is a step of the log, or changes nothing in it.
LEMMA LogStep ==
    ASSUME PubInd, [PubNext]_pubVars
    PROVE  [History!LogNext]_FileLog
<1>1. CASE file' = file
  BY <1>1 DEF FileLog
<1>2. ASSUME NEW g \in Generators, initializeLocked(g) \/ CompareAndSwap(g)
      PROVE  [History!LogNext]_FileLog
  <2>1. FileOK
    BY DEF PubInd
  <2>2. CASE /\ Len(file) = 0 /\ Grows
             /\ \E e \in Manifest : /\ file' = Append(file, e)
                                    /\ Seen(e) = [seq |-> 0, entries |-> {}]
    <3>1. PICK e \in Manifest : /\ file' = Append(file, e)
                                /\ Seen(e) = [seq |-> 0, entries |-> {}]
      BY <2>2
    <3>2. FileLog' = Append(FileLog, Seen(e))
      BY <2>1, <2>2, <3>1, LogAppends
    <3>3. FileLog = <<>> /\ Append(FileLog, Seen(e)) = <<Seen(e)>>
      <4>1. FileLog \in Seq(SeenRows) /\ Len(FileLog) = 0 /\ Seen(e) \in SeenRows
        BY <2>1, <2>2, LogIs, SeenIsRow DEF LogShape
      <4> QED BY <4>1, FirstElement
    <3>4. History!Open
      BY <3>1, <3>2, <3>3 DEF History!Open
    <3> QED BY <3>4 DEF History!LogNext
  <2>3. CASE /\ Len(file) > 0 /\ Grows
             /\ \E e \in Manifest, h \in RevHandles :
                   /\ file' = Append(file, e)
                   /\ h \notin file[Len(file)].entries
                   /\ Seen(e) = [seq |-> file[Len(file)].seq + 1,
                                 entries |-> file[Len(file)].entries \cup {h}]
    <3>1. PICK e \in Manifest, h \in RevHandles :
             /\ file' = Append(file, e)
             /\ h \notin file[Len(file)].entries
             /\ Seen(e) = [seq |-> file[Len(file)].seq + 1,
                           entries |-> file[Len(file)].entries \cup {h}]
      BY <2>3
    <3>2. FileLog' = Append(FileLog, Seen(e))
      BY <2>1, <2>3, <3>1, LogAppends
    <3>3. LogShape /\ Len(file) \in 1 .. Len(file)
      BY <2>1, <2>3, LogIs DEF LogShape
    <3>4. /\ FileLog[Len(FileLog)].seq = file[Len(file)].seq
          /\ FileLog[Len(FileLog)].entries = file[Len(file)].entries
      <4>1. Len(FileLog) = Len(file) /\ FileLog[Len(file)] = Seen(file[Len(file)])
        BY <3>3 DEF LogShape
      <4>2. FileLog[Len(FileLog)] = Seen(file[Len(file)])
        BY <4>1
      <4> QED BY <4>2 DEF Seen
    <3>5. FileLog # <<>>
      BY <3>3, NotEmpty DEF LogShape
    <3>6. History!Extend(h)
      BY <3>1, <3>2, <3>4, <3>5 DEF History!Extend, History!Last
    <3> QED BY <3>6 DEF History!LogNext
  <2> QED BY <1>1, <1>2, <2>2, <2>3, FileSteps
<1>3. CASE UNCHANGED file
  BY <1>1, <1>3
<1>4. UNCHANGED file \/ \E g \in Generators : initializeLocked(g) \/ CompareAndSwap(g)
  BY DEF pubVars, PubNext, newGeneratorServiceWithRevocation, prepareRevocationPublisher,
         ConfirmBackup, RestoreBackup, FinishRestore, RevokeLicense, LoadAuthenticated,
         verifyReadback, RecordOutcome, ShowAnswer, CloseGenerator
<1> QED BY <1>2, <1>3, <1>4

\* The publication implements the log of manifests: however many generators
\* publish, crash and restore, the file has one history that opens once and goes
\* on by one licence at a time (initializeLocked, compareAndSwap).
THEOREM HistoryIsOne == PubSpec => OneHistory
<1>1. PubInit => History!LogInit
  <2> SUFFICES ASSUME PubInit PROVE FileLog = <<>>
    BY DEF History!LogInit
  <2>1. FileLog \in Seq(SeenRows) /\ Len(FileLog) = 0
    BY PubIndInit, LogIs DEF PubInd, PubInit, LogShape
  <2> QED BY <2>1
<1>2. PubInd /\ [PubNext]_pubVars => [History!LogNext]_FileLog
  BY LogStep
<1>3. PubSpec => []PubInd
  BY PubIndInit, PubIndStep, PTL DEF PubSpec
<1> QED BY <1>1, <1>2, <1>3, PTL DEF PubSpec, OneHistory, History!LogSpec

-----------------------------------------------------------------------------
(* The imports of files *)

\* A file, the rankings of contents, the calls and the rows of imports.
FileRows == [lines : Seq(Lines), time : Nat]
Rankings == {Frequency(body) : body \in Seq(Lines)}
ImportSteps == {"none", "open", "copy", "recheck", "repath", "find", "profile", "embed", "insert"}
JobRows == [step : ImportSteps, want : Seq(Lines), file : Nat, size : Nat, time : Nat,
            copied : Seq(Lines) \cup Rankings, left : Nat, model : Nat, used : SUBSET Nat]
ImportRows == [digest : Seq(Lines), records : Rankings, model : Nat, used : SUBSET Nat]

\* What a call knows of the content it imports, step by step.
JobOK(j) ==
    /\ j.step # "none" => j.want \in versions /\ j.file \in Files
    /\ j.step \in {"open", "copy"} => j.copied \in Seq(Lines)
    /\ j.step = "find" => j.copied = j.want
    /\ j.step \in {"profile", "embed", "insert"} => j.copied = Frequency(j.want)
    /\ j.step \in {"embed", "insert"} => j.used = {j.model}

ImportOK(r) == r.digest \in versions /\ r.records = Frequency(r.digest) /\ r.used = {r.model}

\* What is saved is whole and saved once.
ImportsOK ==
    /\ imports \in Seq(ImportRows)
    /\ \A i \in DOMAIN imports : ImportOK(imports[i])
    /\ OneImportPerDigest

\* The inductive invariant of the imports.
ImportInd ==
    /\ volume \in [Files -> FileRows] /\ path \in Files /\ engine \in 1 .. MaxModels
    /\ versions \subseteq Seq(Lines)
    /\ jobs \in [Importers -> JobRows] /\ temps \subseteq Importers
    /\ gateway \in {"open", "closing", "stopped"}
    /\ \A c \in Importers : JobOK(jobs[c])
    /\ \A c \in temps : jobs[c].step # "none"
    /\ ImportsOK
    /\ NothingAfterStop

\* A caller without a call.
LEMMA NoJobOK ==
    NoJob \in JobRows /\ NoJob.step = "none" /\ JobOK(NoJob)
<1>1. <<>> \in Seq(Lines)
  BY EmptySeq
<1> QED BY <1>1 DEF NoJob, JobRows, ImportSteps, JobOK

\* A file has finitely many records.
LEMMA ParsedIsFinite ==
    ASSUME NEW body \in Seq(Lines)
    PROVE  Cardinality(Parsed(body)) \in Nat
<1>1. /\ body \in [1 .. Len(body) -> Lines] /\ Len(body) \in Nat
      /\ DOMAIN body = 1 .. Len(body)
  BY LenProperties
<1>2. body \in Surjection(1 .. Len(body), ToSet(body))
  BY <1>1 DEF Surjection, ToSet
<1>3. IsFiniteSet(1 .. Len(body))
  BY <1>1, FS_Interval
<1>4. IsFiniteSet(ToSet(body))
  BY <1>2, <1>3, FS_Surjection
<1>5. Parsed(body) \in SUBSET ToSet(body)
  BY DEF Parsed
<1>6. IsFiniteSet(Parsed(body))
  BY <1>4, <1>5, FS_Subset
<1> QED BY <1>6, FS_CardinalityType

\* A batch is never longer than what is left.
LEMMA BatchFits ==
    ASSUME NEW n \in Nat
    PROVE  n - Min({n, BatchSize}) \in Nat
<1>1. BatchSize \in Nat
  BY ImportsAssumption
<1>2. \E m \in {n, BatchSize} : \A k \in {n, BatchSize} : m <= k
  BY <1>1
<1>3. Min({n, BatchSize}) \in {n, BatchSize} /\ Min({n, BatchSize}) <= n
  BY <1>2 DEF Min
<1> QED BY <1>1, <1>3

\* Imports that are not touched stay whole.
LEMMA ImportsStay ==
    ASSUME ImportInd, UNCHANGED <<imports, versions>>
    PROVE  ImportsOK'
BY DEF ImportInd, ImportsOK, ImportOK, OneImportPerDigest

\* A step of one call, which is under way or has just begun.
LEMMA JobStep ==
    ASSUME ImportInd, NEW c \in Importers, NEW row \in JobRows, JobOK(row),
           jobs' = [jobs EXCEPT ![c] = row],
           temps' \subseteq temps \cup {c}, c \in temps' => row.step # "none",
           jobs[c] # NoJob \/ GateOpen,
           UNCHANGED <<outside, gateway>>, ImportsOK'
    PROVE  ImportInd'
<1>1. jobs \in [Importers -> JobRows] /\ jobs' \in [Importers -> JobRows]
  BY DEF ImportInd
<1>2. \A d \in Importers : jobs'[d] = IF d = c THEN row ELSE jobs[d]
  BY <1>1
<1>3. UNCHANGED <<volume, path, versions, engine, gateway>>
  BY DEF outside
<1>4. \A d \in Importers : JobOK(jobs[d])'
  <2> SUFFICES ASSUME NEW d \in Importers PROVE JobOK(jobs[d])'
    OBVIOUS
  <2>1. JobOK(jobs[d])
    BY DEF ImportInd
  <2> QED BY <1>2, <1>3, <2>1 DEF JobOK
<1>5. \A d \in temps' : jobs'[d].step # "none"
  BY <1>2 DEF ImportInd
<1>6. gateway # "stopped"
  BY DEF ImportInd, NothingAfterStop, GateOpen
<1>7. NothingAfterStop'
  BY <1>3, <1>6 DEF NothingAfterStop
<1>8. temps' \subseteq Importers
  BY DEF ImportInd
<1> QED BY <1>1, <1>3, <1>4, <1>5, <1>7, <1>8 DEF ImportInd

\* A call that returns removes its snapshot.
LEMMA ReturnKeeps ==
    ASSUME ImportInd, NEW c \in Importers, jobs[c] # NoJob, GiveUp(c),
           UNCHANGED <<outside, gateway>>, ImportsOK'
    PROVE  ImportInd'
<1>1. PICK row \in JobRows : row = NoJob /\ JobOK(row)
  BY NoJobOK
<1>2. jobs' = [jobs EXCEPT ![c] = row] /\ temps' = temps \ {c}
  BY <1>1 DEF GiveUp, Become
<1> QED BY <1>1, <1>2, JobStep

\* What a call does next, with what it knows.
LEMMA CallGoesOn ==
    ASSUME ImportInd, NEW c \in Importers, NEW row \in JobRows, JobOK(row),
           jobs[c].step # "none", row.step # "none",
           Become(c, row), temps' \subseteq temps \cup {c},
           UNCHANGED <<outside, imports, gateway>>
    PROVE  ImportInd'
<1>1. jobs[c] # NoJob
  BY NoJobOK
<1>2. ImportsOK'
  BY ImportsStay DEF outside
<1> QED BY <1>1, <1>2, JobStep DEF Become

\* A call that gives up changes no import.
LEMMA CallReturns ==
    ASSUME ImportInd, NEW c \in Importers, jobs[c].step # "none", GiveUp(c),
           UNCHANGED <<outside, imports, gateway>>
    PROVE  ImportInd'
<1>1. jobs[c] # NoJob
  BY NoJobOK
<1>2. ImportsOK'
  BY ImportsStay DEF outside
<1> QED BY <1>1, <1>2, ReturnKeeps

\* Whoever works on the file only adds to the contents it had.
LEMMA FileStep ==
    ASSUME ImportInd, NEW body \in Seq(Lines),
           volume' \in [Files -> FileRows], path' \in Files,
           versions' = versions \cup {body},
           UNCHANGED <<engine, jobs, temps, imports, gateway>>
    PROVE  ImportInd'
<1>1. versions' \subseteq Seq(Lines)
  BY DEF ImportInd
<1>2. \A c \in Importers : JobOK(jobs[c])'
  <2> SUFFICES ASSUME NEW c \in Importers PROVE JobOK(jobs[c])'
    OBVIOUS
  <2>1. JobOK(jobs[c])
    BY DEF ImportInd
  <2> QED BY <2>1 DEF JobOK
<1>3. ImportsOK'
  BY DEF ImportInd, ImportsOK, ImportOK, OneImportPerDigest
<1>4. NothingAfterStop'
  BY DEF ImportInd, NothingAfterStop
<1> QED BY <1>1, <1>2, <1>3, <1>4 DEF ImportInd

\* The file is written in place: its time changes with it.
LEMMA EditInPlaceKeeps ==
    ASSUME ImportInd, NEW n \in 1 .. MaxFileLines + 1, NEW l \in Lines, EditInPlace(n, l)
    PROVE  ImportInd'
<1>1. PICK v \in FileRows : v = volume[path]
  BY DEF ImportInd
<1>2. v.lines \in Seq(Lines) /\ v.time \in Nat /\ n \in DOMAIN v.lines
  BY <1>1 DEF FileRows, EditInPlace
<1>3. PICK body : body = [v.lines EXCEPT ![n] = l]
  OBVIOUS
<1>4. body \in Seq(Lines)
  <2>1. n \in 1 .. Len(v.lines)
    BY <1>2, LenProperties
  <2> QED BY <1>2, <1>3, <2>1, ExceptSeq
<1>5. PICK row \in FileRows : row = [lines |-> body, time |-> v.time + 1]
  <2>1. PICK t \in Nat : t = v.time + 1
    BY <1>2
  <2>2. [lines |-> body, time |-> t] \in FileRows
    BY <1>4 DEF FileRows
  <2> QED BY <2>1, <2>2
<1>6. volume' = [volume EXCEPT ![path] = row] /\ versions' = versions \cup {body}
      /\ UNCHANGED <<path, engine, jobs, temps, imports, gateway>>
  BY <1>1, <1>3, <1>5 DEF EditInPlace, ImportInd
<1>7. volume' \in [Files -> FileRows] /\ path' \in Files
  BY <1>6 DEF ImportInd
<1> QED BY <1>4, <1>6, <1>7, FileStep

\* The path names another file now; the old one stays for who has it open.
LEMMA ReplaceFileKeeps ==
    ASSUME ImportInd, NEW body \in Bodies, ReplaceFile(body)
    PROVE  ImportInd'
<1>1. body \in Seq(Lines)
  BY ImportsAssumption
<1>2. PICK row \in FileRows : row = [lines |-> body, time |-> 0]
  BY <1>1 DEF FileRows
<1>3. path + 1 \in Files
  BY ImportsAssumption DEF ImportInd, ReplaceFile, Files
<1>4. volume' = [volume EXCEPT ![path + 1] = row] /\ path' = path + 1
      /\ versions' = versions \cup {body}
      /\ UNCHANGED <<engine, jobs, temps, imports, gateway>>
  BY <1>2 DEF ReplaceFile
<1>5. volume' \in [Files -> FileRows] /\ path' \in Files
  BY <1>3, <1>4 DEF ImportInd
<1> QED BY <1>1, <1>4, <1>5, FileStep

\* The provider serves another model.
LEMMA ServeModelKeeps ==
    ASSUME ImportInd, ServeModel
    PROVE  ImportInd'
<1>1. engine' \in 1 .. MaxModels /\ UNCHANGED <<volume, path, versions, jobs, temps, imports, gateway>>
  BY ImportsAssumption DEF ImportInd, ServeModel
<1>2. ImportsOK'
  BY <1>1, ImportsStay
<1>3. (\A c \in Importers : JobOK(jobs[c])') /\ NothingAfterStop'
  BY <1>1 DEF ImportInd, JobOK, NothingAfterStop
<1> QED BY <1>1, <1>2, <1>3 DEF ImportInd

\* beginOperation and StopOperations: it is stopped when no call is left.
LEMMA GatewayKeeps ==
    ASSUME ImportInd, StopOperations \/ OperationsStopped
    PROVE  ImportInd'
<1>1. UNCHANGED <<volume, path, versions, engine, jobs, temps, imports>>
      /\ gateway' \in {"closing", "stopped"}
  BY DEF StopOperations, OperationsStopped, outside
<1>2. ImportsOK'
  BY <1>1, ImportsStay
<1>3. \A c \in Importers : JobOK(jobs[c])'
  BY <1>1 DEF ImportInd, JobOK
<1>4. NothingAfterStop'
  <2> SUFFICES ASSUME gateway' = "stopped"
               PROVE  temps' = {} /\ \A c \in Importers : jobs'[c] = NoJob
    BY DEF NothingAfterStop
  <2>1. \A c \in Importers : jobs[c] = NoJob
    BY DEF StopOperations, OperationsStopped
  <2>2. temps = {}
    BY <2>1, NoJobOK DEF ImportInd
  <2> QED BY <1>1, <2>1, <2>2
<1> QED BY <1>1, <1>2, <1>3, <1>4 DEF ImportInd

\* A call begins only while the operations are not being stopped.
LEMMA BeginKeeps ==
    ASSUME ImportInd, NEW c \in Importers, NEW want \in versions, ImportAIFile(c, want)
    PROVE  ImportInd'
<1>1. PICK p \in Files : p = path
  BY DEF ImportInd
<1>2. PICK row : row = [NoJob EXCEPT !.step = "open", !.want = want, !.file = p]
  OBVIOUS
<1>3. want \in Seq(Lines) /\ p \in Nat
  BY ImportsAssumption DEF ImportInd, Files
<1>4. row \in JobRows /\ row.step = "open" /\ row.want = want /\ row.file = p /\ row.copied = <<>>
  BY <1>2, <1>3, NoJobOK DEF JobRows, ImportSteps, NoJob
<1>5. JobOK(row)
  BY <1>4, EmptySeq DEF JobOK
<1>6. /\ jobs' = [jobs EXCEPT ![c] = row] /\ GateOpen /\ temps' = temps
      /\ jobs[c] = NoJob
      /\ UNCHANGED <<outside, imports, gateway>>
  BY <1>1, <1>2 DEF ImportAIFile, Become
<1>7. ImportsOK'
  BY <1>6, ImportsStay DEF outside
<1> QED BY <1>4, <1>5, <1>6, <1>7, JobStep

\* A call that fails gives up.
LEMMA FailKeeps ==
    ASSUME ImportInd, NEW c \in Importers, ImportFails(c)
    PROVE  ImportInd'
<1>1. jobs[c] # NoJob /\ GiveUp(c) /\ UNCHANGED <<outside, imports, gateway>>
  BY DEF ImportFails
<1>2. ImportsOK'
  BY <1>1, ImportsStay DEF outside
<1> QED BY <1>1, <1>2, ReturnKeeps

\* What a call finds when it takes its next step.
LEMMA CallReads ==
    ASSUME ImportInd, NEW c \in Importers
    PROVE  \E j \in JobRows : j = jobs[c] /\ JobOK(j)
BY DEF ImportInd

\* The snapshot begins with the file that the path names.
LEMMA OpenKeeps ==
    ASSUME ImportInd, NEW c \in Importers, OpenSource(c)
    PROVE  ImportInd'
<1>1. PICK j \in JobRows : j = jobs[c] /\ JobOK(j)
  BY CallReads
<1>2. j.step = "open" /\ UNCHANGED <<outside, imports, gateway>>
  BY <1>1 DEF OpenSource
<1>3. CASE GiveUp(c)
  BY <1>1, <1>2, <1>3, CallReturns
<1>4. CASE /\ Become(c, [j EXCEPT !.step = "copy", !.size = Len(volume[path].lines),
                                  !.time = volume[path].time])
           /\ temps' = temps \cup {c}
  <2>1. PICK n \in Nat, t \in Nat : n = Len(volume[path].lines) /\ t = volume[path].time
    <3>1. volume[path] \in FileRows
      BY DEF ImportInd
    <3> QED BY <3>1 DEF FileRows
  <2>2. PICK row : row = [j EXCEPT !.step = "copy", !.size = n, !.time = t]
    OBVIOUS
  <2>3. /\ row \in JobRows /\ row.step = "copy" /\ row.want = j.want /\ row.file = j.file
        /\ row.copied = j.copied
    BY <2>2 DEF JobRows, ImportSteps
  <2>4. JobOK(row)
    BY <1>1, <1>2, <2>3 DEF JobOK
  <2> QED BY <1>1, <1>2, <1>4, <2>1, <2>2, <2>3, <2>4, CallGoesOn
<1> QED BY <1>1, <1>3, <1>4 DEF OpenSource

\* What is copied are lines, whatever is done to the file meanwhile.
LEMMA CopyKeeps ==
    ASSUME ImportInd, NEW c \in Importers, CopyChunk(c)
    PROVE  ImportInd'
<1>1. PICK j \in JobRows : j = jobs[c] /\ JobOK(j)
  BY CallReads
<1>2. j.step = "copy" /\ UNCHANGED <<outside, temps, imports, gateway>>
      /\ j.copied \in Seq(Lines) /\ j.file \in Files /\ j.want \in versions
  BY <1>1 DEF CopyChunk, JobOK
<1> DEFINE at == Len(j.copied) + 1
<1>3. CASE /\ at <= Len(volume[j.file].lines)
           /\ Become(c, [j EXCEPT !.copied = Append(@, volume[j.file].lines[at])])
  <2>1. volume[j.file].lines \in Seq(Lines)
    BY <1>2 DEF ImportInd, FileRows
  <2>2. PICK l \in Lines : l = volume[j.file].lines[at]
    <3>1. PICK s \in Seq(Lines) : s = volume[j.file].lines
      BY <2>1
    <3>2. at \in 1 .. Len(s)
      BY <1>2, <1>3, <3>1
    <3>3. s[at] \in Lines
      BY <3>2, ElementOfSeq
    <3> QED BY <3>1, <3>3
  <2>3. PICK body \in Seq(Lines) : body = Append(j.copied, l)
    BY <1>2, AppendProperties
  <2>4. PICK row : row = [j EXCEPT !.copied = body]
    OBVIOUS
  <2>5. /\ row \in JobRows /\ row.step = "copy" /\ row.want = j.want /\ row.file = j.file
        /\ row.copied = body
    BY <1>2, <2>4 DEF JobRows
  <2>6. JobOK(row)
    BY <1>2, <2>5 DEF JobOK
  <2>7. Become(c, row)
    BY <1>3, <2>2, <2>3, <2>4 DEF JobRows
  <2> QED BY <1>1, <1>2, <2>5, <2>6, <2>7, CallGoesOn
<1>4. CASE Proceed(c, "recheck")
  <2>1. PICK row : row = [j EXCEPT !.step = "recheck"]
    OBVIOUS
  <2>2. /\ row \in JobRows /\ row.step = "recheck" /\ row.want = j.want /\ row.file = j.file
    BY <2>1 DEF JobRows, ImportSteps
  <2>3. JobOK(row)
    BY <1>2, <2>2 DEF JobOK
  <2>4. Become(c, row)
    BY <1>1, <1>4, <2>1 DEF Proceed
  <2> QED BY <1>1, <1>2, <2>2, <2>3, <2>4, CallGoesOn
<1> QED BY <1>1, <1>3, <1>4 DEF CopyChunk

\* The length and the time are compared.
LEMMA RecheckKeeps ==
    ASSUME ImportInd, NEW c \in Importers, RecheckSource(c)
    PROVE  ImportInd'
<1>1. PICK j \in JobRows : j = jobs[c] /\ JobOK(j)
  BY CallReads
<1>2. j.step = "recheck" /\ UNCHANGED <<outside, imports, gateway>>
  BY <1>1 DEF RecheckSource
<1>3. CASE GiveUp(c)
  BY <1>1, <1>2, <1>3, CallReturns
<1>4. CASE Proceed(c, "repath") /\ UNCHANGED temps
  <2>1. PICK row : row = [j EXCEPT !.step = "repath"]
    OBVIOUS
  <2>2. /\ row \in JobRows /\ row.step = "repath" /\ row.want = j.want /\ row.file = j.file
    BY <2>1 DEF JobRows, ImportSteps
  <2>3. JobOK(row)
    BY <1>1, <1>2, <2>2 DEF JobOK
  <2>4. Become(c, row)
    BY <1>1, <1>4, <2>1 DEF Proceed
  <2> QED BY <1>1, <1>2, <1>4, <2>2, <2>3, <2>4, CallGoesOn
<1> QED BY <1>3, <1>4 DEF RecheckSource

\* Only a copy with the digest that was asked for goes on, so it is one of the
\* contents the file has had.
LEMMA RepathKeeps ==
    ASSUME ImportInd, NEW c \in Importers, RecheckPath(c)
    PROVE  ImportInd'
<1>1. PICK j \in JobRows : j = jobs[c] /\ JobOK(j)
  BY CallReads
<1>2. j.step = "repath" /\ UNCHANGED <<outside, imports, gateway>>
  BY <1>1 DEF RecheckPath
<1>3. CASE GiveUp(c)
  BY <1>1, <1>2, <1>3, CallReturns
<1>4. CASE j.copied = j.want /\ Proceed(c, "find") /\ UNCHANGED temps
  <2>1. PICK row : row = [j EXCEPT !.step = "find"]
    OBVIOUS
  <2>2. /\ row \in JobRows /\ row.step = "find" /\ row.want = j.want /\ row.file = j.file
        /\ row.copied = j.copied
    BY <2>1 DEF JobRows, ImportSteps
  <2>3. JobOK(row)
    BY <1>1, <1>2, <1>4, <2>2 DEF JobOK
  <2>4. Become(c, row)
    BY <1>1, <1>4, <2>1 DEF Proceed
  <2> QED BY <1>1, <1>2, <1>4, <2>2, <2>3, <2>4, CallGoesOn
<1> QED BY <1>1, <1>3, <1>4 DEF RecheckPath

\* The ranking is the one of the content that was asked for.
LEMMA FindKeeps ==
    ASSUME ImportInd, NEW c \in Importers, FindBySHA256(c)
    PROVE  ImportInd'
<1>1. PICK j \in JobRows : j = jobs[c] /\ JobOK(j)
  BY CallReads
<1>2. j.step = "find" /\ UNCHANGED <<outside, imports, gateway>>
      /\ j.want \in versions /\ j.copied = j.want /\ j.file \in Files
  BY <1>1 DEF FindBySHA256, JobOK
<1>3. CASE GiveUp(c)
  BY <1>1, <1>2, <1>3, CallReturns
<1>4. CASE /\ Become(c, [j EXCEPT !.step = "profile", !.left = Cardinality(Parsed(j.copied)),
                                  !.copied = Frequency(j.copied)])
           /\ UNCHANGED temps
  <2>1. j.want \in Seq(Lines)
    BY <1>2 DEF ImportInd
  <2>2. PICK n \in Nat : n = Cardinality(Parsed(j.copied))
    BY <1>2, <2>1, ParsedIsFinite
  <2>3. PICK f \in Rankings : f = Frequency(j.want)
    BY <2>1 DEF Rankings
  <2>4. PICK row : row = [j EXCEPT !.step = "profile", !.left = n, !.copied = f]
    OBVIOUS
  <2>5. /\ row \in JobRows /\ row.step = "profile" /\ row.want = j.want /\ row.file = j.file
        /\ row.copied = f
    BY <2>4 DEF JobRows, ImportSteps
  <2>6. JobOK(row)
    BY <1>2, <2>3, <2>5 DEF JobOK
  <2>7. Become(c, row)
    BY <1>2, <1>4, <2>2, <2>3, <2>4
  <2> QED BY <1>1, <1>2, <1>4, <2>5, <2>6, <2>7, CallGoesOn
<1> QED BY <1>1, <1>3, <1>4 DEF FindBySHA256, SourceOfRecords

\* The model of the examples is the first one used.
LEMMA ProfileKeeps ==
    ASSUME ImportInd, NEW c \in Importers, EmbedProfile(c)
    PROVE  ImportInd'
<1>1. PICK j \in JobRows : j = jobs[c] /\ JobOK(j)
  BY CallReads
<1>2. j.step = "profile" /\ UNCHANGED <<outside, temps, imports, gateway>>
  BY <1>1 DEF EmbedProfile
<1>3. PICK e \in Nat : e = engine
  BY ImportsAssumption DEF ImportInd
<1>4. PICK row : row = [j EXCEPT !.step = "embed", !.model = e, !.used = {e}]
  OBVIOUS
<1>5. /\ row \in JobRows /\ row.step = "embed" /\ row.want = j.want /\ row.file = j.file
      /\ row.copied = j.copied /\ row.model = e /\ row.used = {e}
  BY <1>4 DEF JobRows, ImportSteps
<1>6. JobOK(row)
  BY <1>1, <1>2, <1>5 DEF JobOK
<1>7. Become(c, row)
  BY <1>1, <1>3, <1>4 DEF EmbedProfile
<1> QED BY <1>1, <1>2, <1>5, <1>6, <1>7, CallGoesOn

\* A batch uses the same model, or the call gives up.
LEMMA EmbedKeeps ==
    ASSUME ImportInd, NEW c \in Importers, EmbedBatch(c)
    PROVE  ImportInd'
<1>1. PICK j \in JobRows : j = jobs[c] /\ JobOK(j)
  BY CallReads
<1>2. j.step = "embed" /\ UNCHANGED <<outside, imports, gateway>>
  BY <1>1 DEF EmbedBatch
<1>3. CASE GiveUp(c)
  BY <1>1, <1>2, <1>3, CallReturns
<1>4. CASE /\ SameModel(j) /\ UNCHANGED temps
           /\ Become(c, [j EXCEPT !.left = @ - Min({@, BatchSize}), !.used = @ \cup {engine}])
  <2>1. PICK n \in Nat : n = j.left - Min({j.left, BatchSize})
    BY BatchFits DEF JobRows
  <2>2. j.used = {j.model} /\ engine = j.model /\ j.model \in Nat
    BY <1>1, <1>2, <1>4 DEF JobOK, SameModel, JobRows
  <2>3. PICK u \in SUBSET Nat : u = j.used \cup {engine} /\ u = {j.model}
    BY <2>2
  <2>4. PICK row : row = [j EXCEPT !.left = n, !.used = u]
    OBVIOUS
  <2>5. /\ row \in JobRows /\ row.step = "embed" /\ row.want = j.want /\ row.file = j.file
        /\ row.copied = j.copied /\ row.model = j.model /\ row.used = u
    BY <1>2, <2>4 DEF JobRows, ImportSteps
  <2>6. JobOK(row)
    BY <1>1, <1>2, <2>3, <2>5 DEF JobOK
  <2>7. Become(c, row)
    BY <1>4, <2>1, <2>3, <2>4 DEF JobRows
  <2> QED BY <1>1, <1>2, <1>4, <2>5, <2>6, <2>7, CallGoesOn
<1> QED BY <1>1, <1>3, <1>4 DEF EmbedBatch

\* The digest is looked up again.
LEMMA FindAgainKeeps ==
    ASSUME ImportInd, NEW c \in Importers, FindAgain(c)
    PROVE  ImportInd'
<1>1. PICK j \in JobRows : j = jobs[c] /\ JobOK(j)
  BY CallReads
<1>2. j.step = "embed" /\ UNCHANGED <<outside, imports, gateway>>
  BY <1>1 DEF FindAgain
<1>3. CASE GiveUp(c)
  BY <1>1, <1>2, <1>3, CallReturns
<1>4. CASE Proceed(c, "insert") /\ UNCHANGED temps
  <2>1. PICK row : row = [j EXCEPT !.step = "insert"]
    OBVIOUS
  <2>2. /\ row \in JobRows /\ row.step = "insert" /\ row.want = j.want /\ row.file = j.file
        /\ row.copied = j.copied /\ row.model = j.model /\ row.used = j.used
    BY <2>1 DEF JobRows, ImportSteps
  <2>3. JobOK(row)
    BY <1>1, <1>2, <2>2 DEF JobOK
  <2>4. Become(c, row)
    BY <1>1, <1>4, <2>1 DEF Proceed
  <2> QED BY <1>1, <1>2, <1>4, <2>2, <2>3, <2>4, CallGoesOn
<1> QED BY <1>3, <1>4 DEF FindAgain

\* One more row, whose digest no other row has.
LEMMA OneMoreImport ==
    ASSUME ImportInd, NEW r \in ImportRows, ImportOK(r), UNCHANGED versions,
           \A i \in DOMAIN imports : imports[i].digest # r.digest,
           imports' = Append(imports, r)
    PROVE  ImportsOK'
<1>1. imports \in Seq(ImportRows) /\ Len(imports) \in Nat /\ DOMAIN imports = 1 .. Len(imports)
  BY LenProperties DEF ImportInd, ImportsOK
<1>2. /\ imports' \in Seq(ImportRows) /\ Len(imports') = Len(imports) + 1
      /\ \A i \in 1 .. Len(imports) : imports'[i] = imports[i]
      /\ imports'[Len(imports) + 1] = r
  BY <1>1
<1>3. DOMAIN imports' = 1 .. Len(imports) + 1
  BY <1>2, LenProperties
<1>4. \A i \in DOMAIN imports' : i \in DOMAIN imports \/ i = Len(imports) + 1
  BY <1>1, <1>3
<1>5. \A i \in DOMAIN imports' : ImportOK(imports[i])'
  <2> SUFFICES ASSUME NEW i \in DOMAIN imports' PROVE ImportOK(imports[i])'
    OBVIOUS
  <2>1. CASE i \in DOMAIN imports
    <3>1. ImportOK(imports[i]) /\ imports'[i] = imports[i]
      BY <1>1, <1>2, <2>1 DEF ImportInd, ImportsOK
    <3> QED BY <3>1 DEF ImportOK
  <2>2. CASE i = Len(imports) + 1
    BY <1>2, <2>2 DEF ImportOK
  <2> QED BY <1>4, <2>1, <2>2
<1>6. OneImportPerDigest'
  <2> SUFFICES ASSUME NEW i \in DOMAIN imports', NEW k \in DOMAIN imports',
                      imports'[i].digest = imports'[k].digest
               PROVE  i = k
    BY DEF OneImportPerDigest
  <2>1. OneImportPerDigest
    BY DEF ImportInd, ImportsOK
  <2> QED BY <1>1, <1>2, <1>4, <2>1 DEF OneImportPerDigest
<1> QED BY <1>2, <1>5, <1>6 DEF ImportsOK

\* The insertion adds a row only when no row has the digest (imports.sha256).
LEMMA SaveKeeps ==
    ASSUME ImportInd, NEW c \in Importers, SaveImport(c)
    PROVE  ImportInd'
<1>1. PICK j \in JobRows : j = jobs[c] /\ JobOK(j)
  BY CallReads
<1>2. j.step = "insert" /\ GiveUp(c) /\ UNCHANGED <<outside, gateway>>
  BY <1>1 DEF SaveImport
<1>3. jobs[c] # NoJob
  BY <1>1, <1>2, NoJobOK
<1>4. CASE UNCHANGED imports
  <2>1. ImportsOK'
    BY <1>2, <1>4, ImportsStay DEF outside
  <2> QED BY <1>2, <1>3, <2>1, ReturnKeeps
<1>5. CASE /\ UniqueDigest(c)
           /\ imports' = Append(imports, [digest |-> j.want, records |-> j.copied,
                                          model |-> j.model, used |-> j.used])
  <2>1. PICK r : r = [digest |-> j.want, records |-> j.copied, model |-> j.model, used |-> j.used]
    OBVIOUS
  <2>2. /\ j.want \in versions /\ j.copied = Frequency(j.want) /\ j.used = {j.model}
        /\ j.want \in Seq(Lines)
    BY <1>1, <1>2 DEF JobOK, JobRows
  <2>3. j.copied \in Rankings /\ j.model \in Nat /\ j.used \in SUBSET Nat
    BY <2>2 DEF JobRows, Rankings
  <2>4. r \in ImportRows
    BY <2>1, <2>2, <2>3 DEF ImportRows
  <2>5. ImportOK(r) /\ r.digest = j.want
    BY <2>1, <2>2 DEF ImportOK
  <2>6. \A i \in DOMAIN imports : imports[i].digest # r.digest
    BY <1>1, <1>5, <2>5 DEF UniqueDigest
  <2>7. ImportsOK'
    BY <1>2, <1>5, <2>1, <2>4, <2>5, <2>6, OneMoreImport DEF outside
  <2> QED BY <1>2, <1>3, <2>7, ReturnKeeps
<1> QED BY <1>1, <1>4, <1>5 DEF SaveImport

\* One content and no import.
LEMMA ImportIndInit == ImportsInit => ImportInd
<1> SUFFICES ASSUME ImportsInit PROVE ImportInd
  OBVIOUS
<1>1. PICK body \in Bodies :
        /\ volume = [f \in Files |-> IF f = 1 THEN [lines |-> body, time |-> 0] ELSE NoFile]
        /\ versions = {body}
  BY DEF ImportsInit
<1>2. body \in Seq(Lines)
  BY ImportsAssumption
<1>3. volume \in [Files -> FileRows] /\ versions \subseteq Seq(Lines)
  <2>1. NoFile \in FileRows /\ [lines |-> body, time |-> 0] \in FileRows
    BY <1>2, EmptySeq DEF NoFile, FileRows
  <2> QED BY <1>1, <1>2, <2>1
<1>4. path \in Files /\ engine \in 1 .. MaxModels
  BY ImportsAssumption DEF ImportsInit, Files
<1>5. ImportsOK
  BY EmptySeq DEF ImportsInit, ImportsOK, OneImportPerDigest
<1>6. /\ jobs \in [Importers -> JobRows] /\ temps = {} /\ gateway = "open"
      /\ \A c \in Importers : JobOK(jobs[c])
  BY NoJobOK DEF ImportsInit
<1> QED BY <1>3, <1>4, <1>5, <1>6 DEF ImportInd, NothingAfterStop

\* Every action keeps it.
LEMMA ImportIndStep == ImportInd /\ [ImportsNext]_importVars => ImportInd'
<1> SUFFICES ASSUME ImportInd, [ImportsNext]_importVars PROVE ImportInd'
  OBVIOUS
<1>1. CASE UNCHANGED importVars
  <2>1. UNCHANGED <<volume, path, versions, engine, jobs, temps, imports, gateway>>
    BY <1>1 DEF importVars
  <2>2. ImportsOK'
    BY <2>1, ImportsStay
  <2>3. (\A c \in Importers : JobOK(jobs[c])') /\ NothingAfterStop'
    BY <2>1 DEF ImportInd, JobOK, NothingAfterStop
  <2> QED BY <2>1, <2>2, <2>3 DEF ImportInd
<1>2. CASE \/ \E n \in 1 .. MaxFileLines + 1, l \in Lines : EditInPlace(n, l)
           \/ \E body \in Bodies : ReplaceFile(body)
           \/ ServeModel \/ StopOperations \/ OperationsStopped
  BY <1>2, EditInPlaceKeeps, ReplaceFileKeeps, ServeModelKeeps, GatewayKeeps
<1>3. ASSUME NEW c \in Importers,
             \/ \E want \in versions : ImportAIFile(c, want)
             \/ ImportStep(c) \/ ImportFails(c)
      PROVE  ImportInd'
  BY <1>3, BeginKeeps, FailKeeps, OpenKeeps, CopyKeeps, RecheckKeeps, RepathKeeps, FindKeeps,
     ProfileKeeps, EmbedKeeps, FindAgainKeeps, SaveKeeps DEF ImportStep
<1> QED BY <1>1, <1>2, <1>3 DEF ImportsNext

\* It says what the runs check.
LEMMA ImportIndMeans == ImportInd => ImportsInv
<1> SUFFICES ASSUME ImportInd PROVE ImportsInv
  OBVIOUS
<1>1. \A i \in DOMAIN imports : imports[i].digest \in versions /\ versions \subseteq Seq(Lines)
  BY DEF ImportInd, ImportsOK, ImportOK
<1>2. \A s \in Seq(Lines) : ToSet(s) \subseteq Lines
  <2> SUFFICES ASSUME NEW s \in Seq(Lines) PROVE ToSet(s) \subseteq Lines
    OBVIOUS
  <2>1. s \in [1 .. Len(s) -> Lines] /\ DOMAIN s = 1 .. Len(s)
    BY LenProperties
  <2> QED BY <2>1 DEF ToSet
<1>3. ImportsTypeOK
  BY <1>1, <1>2 DEF ImportInd, ImportsTypeOK
<1>4. OneImportPerDigest /\ NothingAfterStop /\ ImportIsWhole
  BY DEF ImportInd, ImportsOK, ImportOK, ImportIsWhole
<1> QED BY <1>3, <1>4 DEF ImportsInv

\* For any number of calls, contents and models: an import holds the ranking of
\* one content the file really had, embedded by one model; no digest is imported
\* twice; and once StopOperations returned no call and no snapshot is left.
THEOREM ImportsInvariant == ImportsSpec => []ImportsInv
<1>1. ImportsInit => ImportInd
  BY ImportIndInit
<1>2. ImportInd /\ [ImportsNext]_importVars => ImportInd'
  BY ImportIndStep
<1>3. ImportInd => ImportsInv
  BY ImportIndMeans
<1> QED BY <1>1, <1>2, <1>3, PTL DEF ImportsSpec

-----------------------------------------------------------------------------
(* The collection of messages *)

\* The pages, the scans, the updates and the stored rows.
Pages == UNION {[D -> 1 .. MaxText] : D \in SUBSET Messages}
Scanning == {"ask", "page", "store", "cursor"}
ScanRows == [step : {"off", "next"} \cup Scanning, todo : SUBSET Scouts,
             scout : Scouts \cup {"none"}, min : 0 .. MaxMessage, offset : 0 .. MaxMessage,
             max : 0 .. MaxMessage, cutoff : 0 .. MaxMessage, page : Pages,
             low : 0 .. MaxMessage, last : BOOLEAN]
UpdateRows == [kind : UpdateKinds, msg : Messages, text : Texts]
RouteRows == [step : {"idle", "check", "save", "delete"}, kind : UpdateKinds,
              msg : 0 .. MaxMessage, text : Texts]
StoredRows == [text : Texts, edited : Texts]

\* An update that tells of a text has one.
UpdateOK(u) == u.kind # "delete" => u.text # 0
\* A router works on a message, and saves a text.
RouteOK(r) ==
    /\ r.step # "idle" => r.msg \in Messages
    /\ r.step \in {"check", "save"} => r.text # 0

\* Telegram's numbers grow, and what was not posted has no text.
ChatOK ==
    /\ chat.text \in [Messages -> Texts] /\ chat.posted \in 0 .. MaxMessage
    /\ chat.old \in 0 .. MaxMessage
    /\ \A m \in Messages : chat.text[m] # 0 => m <= chat.posted

\* Stored, or known to be deleted.
Collected(m) == Exists(m) \/ m \in tombs

\* What the scan under way must have collected when it saves its cursor, and
\* what of it is still to come.
Due(m) ==
    /\ chat.text[m] # 0 /\ m \notin Blank /\ m > scan.min /\ m <= scan.max
    /\ scan.min > 0 \/ m > scan.cutoff
ToCome(m) ==
    \/ scan.step = "ask" /\ scan.offset # 0 /\ m < scan.offset
    \/ /\ scan.step \in {"page", "store"}
       /\ m \in DOMAIN scan.page \/ (m < scan.low /\ ~scan.last)

\* What the scan under way may rely on.
ScanOK ==
    scan.step \in Scanning =>
        /\ scan.scout \in Scouts /\ scan.min = cursor[scan.scout]
        /\ scan.min <= scan.max /\ scan.max <= chat.posted
        /\ scan.step = "ask" => /\ scan.offset <= scan.max
                                /\ scan.offset = 0 => scan.max = scan.min
        /\ scan.step \in {"page", "store"} =>
              /\ scan.low \in Messages /\ scan.low <= scan.max
              /\ \A m \in DOMAIN scan.page : scan.low <= m
        /\ scan.step = "store" => DOMAIN scan.page # {}
        /\ \A m \in Messages : Due(m) => Collected(m) \/ ToCome(m)

\* The inductive invariant of the collection.
HistInd ==
    /\ chat = [text |-> chat.text, posted |-> chat.posted, old |-> chat.old,
               changes |-> chat.changes]
    /\ ChatOK
    /\ rows \in [Messages -> StoredRows] /\ tombs \in SUBSET Messages
    /\ cursor \in [Scouts -> 0 .. MaxMessage]
    /\ scan \in ScanRows
    /\ updates \in [Scouts -> Seq(UpdateRows)] /\ routing \in [Scouts -> RouteRows]
    /\ floor \in [Scouts -> 0 .. MaxMessage]
    /\ \A s \in Scouts : \A i \in DOMAIN updates[s] : UpdateOK(updates[s][i])
    /\ \A s \in Scouts : RouteOK(routing[s])
    /\ \A s \in Scouts : cursor[s] <= chat.posted
    /\ DeletedStaysDeleted /\ NothingSkipped
    /\ ScanOK

\* A page without a message.
LEMMA EmptyPage ==
    <<>> \in Pages /\ DOMAIN <<>> = {}
<1>1. <<>> \in Seq(1 .. MaxText) /\ Len(<<>>) = 0
  BY EmptySeq
<1>2. <<>> \in [1 .. Len(<<>>) -> 1 .. MaxText] /\ DOMAIN <<>> = 1 .. Len(<<>>)
  BY <1>1, LenProperties
<1>3. 1 .. Len(<<>>) = {}
  BY <1>1
<1> QED BY <1>2, <1>3 DEF Pages

\* No scan.
LEMMA NoScanOK ==
    NoScan \in ScanRows
BY EmptyPage, HistoryAssumption DEF NoScan, ScanRows

\* The newest message of some.
LEMMA GreatestMember ==
    ASSUME NEW T, T \subseteq Messages, T # {}
    PROVE  Max(T) \in T /\ \A k \in T : Max(T) >= k
<1>1. T \subseteq 0 .. MaxMessage /\ MaxMessage \in Nat
  BY HistoryAssumption DEF Messages
<1>2. \E n \in T : \A k \in T : n >= k
  BY <1>1, GreatestOfNaturals
<1> QED BY <1>2 DEF Max

\* The oldest message of some.
LEMMA LeastMember ==
    ASSUME NEW T, T \subseteq Messages, T # {}
    PROVE  Min(T) \in T /\ \A k \in T : Min(T) <= k
<1>1. T \subseteq Nat
  BY HistoryAssumption DEF Messages
<1>2. \E n \in T : \A k \in T : n <= k
  BY <1>1, LeastOfNaturals
<1> QED BY <1>2 DEF Min

\* A page that is not full leaves out nothing.
LEMMA NothingOlder ==
    ASSUME NEW all \in SUBSET Messages, NEW top \in SUBSET all,
           IsFiniteSet(top), Cardinality(top) < PageSize,
           \A b \in all \ top, n \in top : b < n,
           \A b \in all : b \notin top => Cardinality({n \in all : n >= b}) > PageSize
    PROVE  top = all
<1>1. MaxMessage \in Nat /\ PageSize \in Nat
  BY HistoryAssumption
<1>2. \A k \in all : k \in 1 .. MaxMessage
  BY DEF Messages
<1>3. \A k \in all : k \in Nat
  BY <1>1, <1>2
<1> SUFFICES ASSUME top # all PROVE FALSE
  OBVIOUS
<1>4. PICK rest : rest = all \ top
  OBVIOUS
<1>5. rest # {} /\ rest \subseteq 0 .. MaxMessage
  BY <1>1, <1>2, <1>4
<1>6. PICK b \in rest : \A k \in rest : b >= k
  BY <1>1, <1>5, GreatestOfNaturals
<1>7. b \in all /\ b \notin top
  BY <1>4, <1>6
<1>8. {k \in all : k >= b} = top \cup {b}
  <2>1. ASSUME NEW k \in all, k >= b PROVE k \in top \cup {b}
    <3>1. CASE k \in rest
      BY <3>1, <2>1, <1>6, <1>7, <1>3
    <3>2. CASE k \in top
      BY <3>2
    <3> QED BY <3>1, <3>2, <1>4
  <2>2. ASSUME NEW k \in top PROVE k \in all /\ k >= b
    <3>1. b < k /\ k \in Nat /\ b \in Nat
      BY <1>7, <1>3
    <3> QED BY <3>1
  <2>3. b >= b
    BY <1>7, <1>3
  <2> QED BY <2>1, <2>2, <2>3, <1>7
<1>9. Cardinality(top \cup {b}) = Cardinality(top) + 1 /\ Cardinality(top) \in Nat
  BY <1>7, FS_AddElement, FS_CardinalityType
<1>10. Cardinality({k \in all : k >= b}) > PageSize
  BY <1>7
<1> QED BY <1>1, <1>8, <1>9, <1>10

\* The messages of all that fit a page.
Newest(all) == {m \in all : Cardinality({n \in all : n >= m}) <= PageSize}

\* What a page leaves out is older than all it holds.
LEMMA NewestOf ==
    ASSUME NEW all \in SUBSET Messages,
           NEW top, top = Newest(all)
    PROVE  /\ top \subseteq all
           /\ \A b \in all \ top, n \in top : b < n
           /\ Cardinality(top) < PageSize => top = all
<1>1. MaxMessage \in Nat /\ PageSize \in Nat
  BY HistoryAssumption
<1>2. IsFiniteSet(Messages)
  BY <1>1, FS_Interval DEF Messages
<1>3. IsFiniteSet(all)
  BY <1>2, FS_Subset
<1>4. top \in SUBSET all
  BY DEF Newest
<1>5. IsFiniteSet(top) /\ Cardinality(top) \in Nat
  BY <1>3, <1>4, FS_Subset, FS_CardinalityType
<1>6. \A m \in all : m \in Nat
  BY <1>1 DEF Messages
<1>7. ASSUME NEW b \in all \ top, NEW n \in top PROVE b < n
  <2> SUFFICES ASSUME b >= n PROVE FALSE
    BY <1>4, <1>6
  <2> DEFINE B == {k \in all : k >= b}
             N == {k \in all : k >= n}
  <2>1. B \in SUBSET N /\ N \in SUBSET all
    BY <1>4, <1>6
  <2>2. IsFiniteSet(N) /\ IsFiniteSet(B)
    BY <2>1, <1>3, FS_Subset
  <2>3. Cardinality(B) <= Cardinality(N)
    BY <2>1, <2>2, FS_Subset
  <2>4. Cardinality(N) <= PageSize /\ ~ (Cardinality(B) <= PageSize)
    BY DEF Newest
  <2>5. Cardinality(B) \in Nat /\ Cardinality(N) \in Nat
    BY <2>2, FS_CardinalityType
  <2> HIDE DEF B, N
  <2> QED BY <2>3, <2>4, <2>5, <1>1
<1>8. ASSUME NEW b \in all, b \notin top
      PROVE  Cardinality({n \in all : n >= b}) > PageSize
  <2> DEFINE B == {k \in all : k >= b}
  <2>1. B \in SUBSET all
    OBVIOUS
  <2>2. IsFiniteSet(B)
    BY <2>1, <1>3, FS_Subset
  <2>3. ~ (Cardinality(B) <= PageSize)
    BY <1>8 DEF Newest
  <2>4. Cardinality(B) \in Nat
    BY <2>2, FS_CardinalityType
  <2> HIDE DEF B
  <2>5. Cardinality(B) > PageSize
    BY <2>3, <2>4, <1>1
  <2> QED BY <2>5 DEF B
<1>9. Cardinality(top) < PageSize => top = all
  <2>1. \A b \in all \ top, n \in top : b < n
    BY <1>7
  <2>2. \A b \in all : b \notin top => Cardinality({n \in all : n >= b}) > PageSize
    BY <1>8
  <2> QED BY <1>4, <1>5, <2>1, <2>2, NothingOlder
<1> QED BY <1>4, <1>7, <1>9

\* SaveEncrypted removes no row, stores no message under a tombstone, and
\* replaces a text only by a later edit.
LEMMA StoredKeeps ==
    ASSUME HistInd, NEW m \in Messages, NEW t \in Texts, t # 0, NEW e \in Texts,
           NEW after, after = SaveEncrypted(m, t, e)
    PROVE  /\ after \in [Messages -> StoredRows]
           /\ \A n \in Messages : Exists(n) => after[n].text # 0
           /\ after[m].text # 0 \/ m \in tombs
           /\ \A n \in tombs : after[n].text = 0
           /\ \A n \in Messages :
                 Exists(n) /\ after[n] # rows[n] => after[n].edited > rows[n].edited
<1>1. rows \in [Messages -> StoredRows] /\ tombs \in SUBSET Messages /\ DeletedStaysDeleted
  BY DEF HistInd
<1>2. PICK row : row = [text |-> t, edited |-> e]
  OBVIOUS
<1>3. row \in StoredRows /\ row.text = t /\ row.edited = e
  BY <1>2 DEF StoredRows
<1>4. after = IF m \in tombs THEN rows
              ELSE IF ~Exists(m) \/ e > rows[m].edited THEN [rows EXCEPT ![m] = row] ELSE rows
  BY <1>2 DEF SaveEncrypted
<1> HIDE DEF SaveEncrypted
<1>5. CASE m \in tombs
  BY <1>1, <1>4, <1>5 DEF Exists, DeletedStaysDeleted
<1>6. CASE m \notin tombs /\ ~ (~Exists(m) \/ e > rows[m].edited)
  <2>1. after = rows
    BY <1>4, <1>6
  <2> QED BY <1>1, <1>6, <2>1 DEF Exists, DeletedStaysDeleted
<1>7. CASE m \notin tombs /\ (~Exists(m) \/ e > rows[m].edited)
  <2>1. after = [rows EXCEPT ![m] = row]
    BY <1>4, <1>7
  <2> QED BY <1>1, <1>3, <1>7, <2>1 DEF Exists, DeletedStaysDeleted
<1> QED BY <1>5, <1>6, <1>7

\* What a step of a router or of the store must show.
LEMMA StoreStep ==
    ASSUME HistInd, UNCHANGED <<chat, cursor, scan, floor>>,
           rows' \in [Messages -> StoredRows], tombs' \in SUBSET Messages,
           \A m \in Messages : Collected(m) => Collected(m)',
           DeletedStaysDeleted',
           updates' \in [Scouts -> Seq(UpdateRows)], routing' \in [Scouts -> RouteRows],
           \A s \in Scouts : \A i \in DOMAIN updates'[s] : UpdateOK(updates'[s][i]),
           \A s \in Scouts : RouteOK(routing'[s])
    PROVE  HistInd'
<1>1. ChatOK'
  BY DEF HistInd, ChatOK
<1>2. NothingSkipped'
  BY DEF HistInd, NothingSkipped, Collected, Exists
<1>3. \A m \in Messages : (Due(m)' <=> Due(m)) /\ (ToCome(m)' <=> ToCome(m))
  BY DEF Due, ToCome
<1>4. ScanOK'
  BY <1>3 DEF HistInd, ScanOK
<1> QED BY <1>1, <1>2, <1>4 DEF HistInd

\* What a step of the scan that saves no cursor must show.
LEMMA ScanOnly ==
    ASSUME HistInd, UNCHANGED <<chat, tombs, cursor, updates, routing, floor>>,
           rows' \in [Messages -> StoredRows],
           \A m \in Messages : Collected(m) => Collected(m)',
           DeletedStaysDeleted',
           scan' \in ScanRows, ScanOK'
    PROVE  HistInd'
<1>1. ChatOK'
  BY DEF HistInd, ChatOK
<1>2. NothingSkipped'
  BY DEF HistInd, NothingSkipped, Collected, Exists
<1> QED BY <1>1, <1>2 DEF HistInd

\* What a change of the chat must show.
LEMMA ChatStep ==
    ASSUME HistInd, UNCHANGED <<rows, tombs, cursor, scan, routing, floor>>,
           chat' = [text |-> chat'.text, posted |-> chat'.posted, old |-> chat'.old,
                    changes |-> chat'.changes],
           ChatOK', chat.posted <= chat'.posted,
           \A m \in Messages : m <= chat.posted /\ chat'.text[m] # 0 => chat.text[m] # 0,
           updates' \in [Scouts -> Seq(UpdateRows)],
           \A s \in Scouts : \A i \in DOMAIN updates'[s] : UpdateOK(updates'[s][i])
    PROVE  HistInd'
<1>0. chat.posted \in Nat /\ chat'.posted \in Nat /\ MaxMessage \in Nat
  BY HistoryAssumption DEF HistInd, ChatOK
<1>1. DeletedStaysDeleted'
  BY DEF HistInd, DeletedStaysDeleted, Exists
<1>2. NothingSkipped'
  <2> SUFFICES ASSUME NEW s \in Scouts, NEW m \in Messages,
                      m <= cursor[s], m > floor[s], m \notin Blank, chat'.text[m] # 0
               PROVE  Exists(m) \/ m \in tombs
    BY DEF NothingSkipped, Exists
  <2>1. m \in Nat /\ cursor[s] \in Nat /\ cursor[s] <= chat.posted
    BY <1>0 DEF HistInd, Messages
  <2>2. chat.text[m] # 0
    BY <1>0, <2>1
  <2> QED BY <2>2 DEF HistInd, NothingSkipped
<1>3. ScanOK'
  <2> SUFFICES ASSUME scan.step \in Scanning PROVE ScanOK'
    BY DEF ScanOK
  <2>1. scan.max \in Nat /\ scan.max <= chat.posted
    BY <1>0 DEF HistInd, ScanOK, ScanRows
  <2>2. scan.max <= chat'.posted
    BY <2>1, <1>0
  <2>3. ASSUME NEW m \in Messages, Due(m)' PROVE Collected(m)' \/ ToCome(m)'
    <3>1. m \in Nat /\ m <= scan.max
      BY <1>0, <2>3 DEF Due, Messages
    <3>2. chat.text[m] # 0
      BY <3>1, <2>1, <2>3, <1>0 DEF Due
    <3>3. Due(m)
      BY <3>2, <2>3 DEF Due
    <3>4. Collected(m) \/ ToCome(m)
      BY <3>3 DEF HistInd, ScanOK
    <3> QED BY <3>4 DEF Collected, Exists, ToCome
  <2> QED BY <2>2, <2>3 DEF HistInd, ScanOK
<1>4. \A s \in Scouts : cursor'[s] <= chat'.posted
  BY <1>0 DEF HistInd
<1> QED BY <1>1, <1>2, <1>3, <1>4 DEF HistInd

\* An announced update goes to the end of each router's queue.
LEMMA Announced ==
    ASSUME HistInd, NEW kind \in UpdateKinds, NEW m \in Messages, NEW t \in Texts,
           kind # "delete" => t # 0, Announce(kind, m, t)
    PROVE  /\ updates' \in [Scouts -> Seq(UpdateRows)]
           /\ \A s \in Scouts : \A i \in DOMAIN updates'[s] : UpdateOK(updates'[s][i])
<1>1. PICK u : u = [kind |-> kind, msg |-> m, text |-> t]
  OBVIOUS
<1>2. u \in UpdateRows /\ UpdateOK(u)
  BY <1>1 DEF UpdateRows, UpdateOK
<1>3. updates' = [s \in Scouts |-> Append(updates[s], u)]
  BY <1>1 DEF Announce
<1>4. ASSUME NEW s \in Scouts
      PROVE  /\ updates'[s] \in Seq(UpdateRows)
             /\ \A i \in DOMAIN updates'[s] : UpdateOK(updates'[s][i])
  <2>1. updates[s] \in Seq(UpdateRows) /\ \A i \in DOMAIN updates[s] : UpdateOK(updates[s][i])
    BY DEF HistInd
  <2>2. updates'[s] = Append(updates[s], u)
    BY <1>3
  <2>3. /\ Append(updates[s], u) \in Seq(UpdateRows)
        /\ Len(Append(updates[s], u)) = Len(updates[s]) + 1
        /\ \A i \in 1 .. Len(updates[s]) : Append(updates[s], u)[i] = updates[s][i]
        /\ Append(updates[s], u)[Len(updates[s]) + 1] = u
    BY <1>2, <2>1, AppendProperties
  <2>4. /\ DOMAIN updates[s] = 1 .. Len(updates[s]) /\ Len(updates[s]) \in Nat
        /\ DOMAIN updates'[s] = 1 .. Len(updates[s]) + 1
    BY <2>1, <2>2, <2>3, LenProperties
  <2>5. ASSUME NEW i \in DOMAIN updates'[s] PROVE UpdateOK(updates'[s][i])
    <3>1. CASE i \in 1 .. Len(updates[s])
      BY <3>1, <2>1, <2>2, <2>3, <2>4
    <3>2. CASE i = Len(updates[s]) + 1
      BY <3>2, <2>2, <2>3, <1>2
    <3> QED BY <2>4, <2>5, <3>1, <3>2
  <2> QED BY <2>2, <2>3, <2>5
<1> QED BY <1>3, <1>4

\* Telegram's own steps
LEMMA ChatSteps ==
    ASSUME HistInd
    PROVE  /\ Post => HistInd'
           /\ \A m \in Messages : EditPost(m) \/ DeletePost(m) => HistInd'
           /\ GrowOld => HistInd'
<1>1. /\ chat = [text |-> chat.text, posted |-> chat.posted, old |-> chat.old,
                 changes |-> chat.changes]
      /\ ChatOK
  BY DEF HistInd
<1>2. /\ MaxMessage \in Nat \ {0} /\ MaxText \in Nat \ {0}
      /\ Messages \subseteq Nat
  BY HistoryAssumption DEF Messages
<1>3. PICK texts, posted, old, changes :
         /\ chat = [text |-> texts, posted |-> posted, old |-> old, changes |-> changes]
         /\ texts = chat.text /\ posted = chat.posted /\ old = chat.old
  BY <1>1
<1>4. /\ texts \in [Messages -> Texts] /\ posted \in 0 .. MaxMessage /\ old \in 0 .. MaxMessage
      /\ \A m \in Messages : texts[m] # 0 => m <= posted
  BY <1>1, <1>3 DEF ChatOK
<1>5. ASSUME Post PROVE HistInd'
  <2> DEFINE m == posted + 1
  <2>1. m \in Messages /\ posted < MaxMessage
    BY <1>2, <1>3, <1>4, <1>5 DEF Post, Messages
  <2>2. chat' = [text |-> [texts EXCEPT ![m] = 1], posted |-> m, old |-> old,
                 changes |-> changes]
    BY <1>3, <1>5 DEF Post
  <2>3. 1 \in Texts /\ 1 # 0
    BY <1>2 DEF Texts
  <2>4. Announce("new", m, 1)
    BY <1>3, <1>5 DEF Post
  <2>5. ChatOK'
    BY <1>2, <1>4, <2>1, <2>2, <2>3 DEF ChatOK
  <2>6. /\ updates' \in [Scouts -> Seq(UpdateRows)]
        /\ \A s \in Scouts : \A i \in DOMAIN updates'[s] : UpdateOK(updates'[s][i])
    <3>1. "new" \in UpdateKinds
      BY DEF UpdateKinds
    <3> QED BY <2>1, <2>3, <2>4, <3>1, Announced
  <2>7. UNCHANGED <<rows, tombs, cursor, scan, routing, floor>>
    BY <1>5 DEF Post, storeVars
  <2>8. chat.posted <= chat'.posted
    BY <1>2, <1>3, <1>4, <2>2
  <2>9. \A n \in Messages : n <= chat.posted /\ chat'.text[n] # 0 => chat.text[n] # 0
    BY <1>2, <1>3, <1>4, <2>2
  <2> HIDE DEF m
  <2> QED BY <2>2, <2>5, <2>6, <2>7, <2>8, <2>9, ChatStep
<1>6. ASSUME NEW m \in Messages, EditPost(m) PROVE HistInd'
  <2>1. PICK t \in 1 .. MaxText - 1 : t = texts[m]
    BY <1>3, <1>6 DEF EditPost
  <2>2. t + 1 \in Texts /\ t + 1 # 0 /\ t # 0 /\ t \in Texts
    BY <1>2, <2>1 DEF Texts
  <2>3. chat' = [text |-> [texts EXCEPT ![m] = t + 1], posted |-> posted, old |-> old,
                 changes |-> changes + 1]
    BY <1>3, <1>6, <2>1 DEF EditPost
  <2>4. Announce("edit", m, t + 1)
    BY <1>3, <1>6, <2>1 DEF EditPost
  <2>5. ChatOK'
    BY <1>2, <1>4, <2>1, <2>2, <2>3 DEF ChatOK
  <2>6. /\ updates' \in [Scouts -> Seq(UpdateRows)]
        /\ \A s \in Scouts : \A i \in DOMAIN updates'[s] : UpdateOK(updates'[s][i])
    <3>1. "edit" \in UpdateKinds
      BY DEF UpdateKinds
    <3> QED BY <2>2, <2>4, <3>1, Announced
  <2>7. UNCHANGED <<rows, tombs, cursor, scan, routing, floor>>
    BY <1>6 DEF EditPost, storeVars
  <2>8. chat.posted <= chat'.posted
    BY <1>2, <1>3, <1>4, <2>3
  <2>9. \A n \in Messages : n <= chat.posted /\ chat'.text[n] # 0 => chat.text[n] # 0
    BY <1>2, <1>3, <1>4, <2>1, <2>2, <2>3
  <2> QED BY <2>3, <2>5, <2>6, <2>7, <2>8, <2>9, ChatStep
<1>7. ASSUME NEW m \in Messages, DeletePost(m) PROVE HistInd'
  <2>1. 0 \in Texts
    BY <1>2 DEF Texts
  <2>2. chat' = [text |-> [texts EXCEPT ![m] = 0], posted |-> posted, old |-> old,
                 changes |-> changes + 1]
    BY <1>3, <1>7 DEF DeletePost
  <2>3. Announce("delete", m, 0)
    BY <1>7 DEF DeletePost
  <2>4. ChatOK'
    BY <1>2, <1>4, <2>1, <2>2 DEF ChatOK
  <2>5. /\ updates' \in [Scouts -> Seq(UpdateRows)]
        /\ \A s \in Scouts : \A i \in DOMAIN updates'[s] : UpdateOK(updates'[s][i])
    <3>1. "delete" \in UpdateKinds
      BY DEF UpdateKinds
    <3> QED BY <2>1, <2>3, <3>1, Announced
  <2>6. UNCHANGED <<rows, tombs, cursor, scan, routing, floor>>
    BY <1>7 DEF DeletePost, storeVars
  <2>7. chat.posted <= chat'.posted
    BY <1>2, <1>3, <1>4, <2>2
  <2>8. \A n \in Messages : n <= chat.posted /\ chat'.text[n] # 0 => chat.text[n] # 0
    BY <1>2, <1>3, <1>4, <2>2
  <2> QED BY <2>2, <2>4, <2>5, <2>6, <2>7, <2>8, ChatStep
<1>8. ASSUME GrowOld PROVE HistInd'
  <2>1. chat' = [text |-> texts, posted |-> posted, old |-> old + 1, changes |-> changes]
    BY <1>3, <1>8 DEF GrowOld
  <2>2. old + 1 \in 0 .. MaxMessage
    BY <1>2, <1>3, <1>4, <1>8 DEF GrowOld
  <2>3. ChatOK'
    BY <1>2, <1>4, <2>1, <2>2 DEF ChatOK
  <2>4. UNCHANGED <<rows, tombs, cursor, scan, updates, routing, floor>>
    BY <1>8 DEF GrowOld, storeVars, routerVars
  <2>5. /\ updates' \in [Scouts -> Seq(UpdateRows)]
        /\ \A s \in Scouts : \A i \in DOMAIN updates'[s] : UpdateOK(updates'[s][i])
    BY <2>4 DEF HistInd
  <2>6. chat.posted <= chat'.posted
    BY <1>2, <1>3, <1>4, <2>1
  <2>7. \A n \in Messages : n <= chat.posted /\ chat'.text[n] # 0 => chat.text[n] # 0
    BY <1>3, <2>1
  <2> QED BY <2>1, <2>3, <2>4, <2>5, <2>6, <2>7, ChatStep
<1> QED BY <1>5, <1>6, <1>7, <1>8

\* A step of one router that leaves the store alone.
LEMMA RouteOnly ==
    ASSUME HistInd, NEW s \in Scouts, NEW row \in RouteRows, RouteOK(row),
           Route(s, row), UNCHANGED <<chat, rows, tombs, cursor, scan, floor>>,
           updates' \in [Scouts -> Seq(UpdateRows)],
           \A c \in Scouts : \A i \in DOMAIN updates'[c] : UpdateOK(updates'[c][i])
    PROVE  HistInd'
<1>1. routing \in [Scouts -> RouteRows] /\ \A c \in Scouts : RouteOK(routing[c])
  BY DEF HistInd
<1>2. routing' \in [Scouts -> RouteRows] /\ \A c \in Scouts : RouteOK(routing'[c])
  BY <1>1 DEF Route
<1>3. \A m \in Messages : Collected(m) => Collected(m)'
  BY DEF Collected, Exists
<1>4. DeletedStaysDeleted'
  BY DEF HistInd, DeletedStaysDeleted, Exists
<1>5. rows' \in [Messages -> StoredRows] /\ tombs' \in SUBSET Messages
  BY DEF HistInd
<1> QED BY <1>2, <1>3, <1>4, <1>5, StoreStep

\* A router that rests.
LEMMA RestingOK ==
    Resting \in RouteRows /\ RouteOK(Resting)
BY HistoryAssumption DEF Resting, RouteRows, RouteOK, UpdateKinds, Texts

\* A queue without its first update, or without any.
LEMMA FewerUpdates ==
    ASSUME HistInd, NEW s \in Scouts, NEW q, q = <<>> \/ q = Tail(updates[s]),
           updates[s] # <<>>, updates' = [updates EXCEPT ![s] = q]
    PROVE  /\ updates' \in [Scouts -> Seq(UpdateRows)]
           /\ \A c \in Scouts : \A i \in DOMAIN updates'[c] : UpdateOK(updates'[c][i])
<1>1. /\ updates \in [Scouts -> Seq(UpdateRows)]
      /\ \A c \in Scouts : \A i \in DOMAIN updates[c] : UpdateOK(updates[c][i])
  BY DEF HistInd
<1>2. q \in Seq(UpdateRows) /\ \A i \in DOMAIN q : UpdateOK(q[i])
  <2>1. CASE q = <<>>
    <3>1. q \in Seq(UpdateRows) /\ Len(q) = 0
      BY <2>1, EmptySeq
    <3>2. DOMAIN q = 1 .. Len(q)
      BY <3>1, LenProperties
    <3> QED BY <3>1, <3>2
  <2>2. CASE q = Tail(updates[s])
    <3>1. /\ q \in Seq(UpdateRows) /\ Len(q) = Len(updates[s]) - 1
          /\ \A i \in 1 .. Len(q) : q[i] = updates[s][i + 1]
      BY <1>1, <2>2, HeadTailProperties
    <3>2. /\ DOMAIN q = 1 .. Len(q)
          /\ DOMAIN updates[s] = 1 .. Len(updates[s]) /\ Len(updates[s]) \in Nat
      BY <1>1, <3>1, LenProperties
    <3>3. ASSUME NEW i \in DOMAIN q PROVE UpdateOK(q[i])
      <4>1. i + 1 \in DOMAIN updates[s] /\ q[i] = updates[s][i + 1]
        BY <3>1, <3>2, <3>3
      <4> QED BY <4>1, <1>1
    <3> QED BY <3>1, <3>3
  <2> QED BY <2>1, <2>2
<1> QED BY <1>1, <1>2

\* What a router does for one update.
LEMMA RouterSteps ==
    ASSUME HistInd, NEW s \in Scouts
    PROVE  /\ RouterStep(s) => HistInd'
           /\ SaveUpdateFails(s) \/ LoseUpdates(s) => HistInd'
<1>1. /\ updates \in [Scouts -> Seq(UpdateRows)] /\ routing \in [Scouts -> RouteRows]
      /\ \A c \in Scouts : \A i \in DOMAIN updates[c] : UpdateOK(updates[c][i])
      /\ \A c \in Scouts : RouteOK(routing[c])
  BY DEF HistInd
<1>2. PICK r \in RouteRows : r = routing[s]
  BY <1>1
<1>3. RouteOK(r)
  BY <1>1, <1>2
<1>4. rows \in [Messages -> StoredRows] /\ tombs \in SUBSET Messages
  BY DEF HistInd
<1>5. Resting \in RouteRows /\ RouteOK(Resting)
  BY RestingOK
<1>6. ASSUME Receive(s) PROVE HistInd'
  <2>1. updates[s] # <<>> /\ updates' = [updates EXCEPT ![s] = Tail(updates[s])]
    BY <1>6 DEF Receive
  <2>2. /\ updates' \in [Scouts -> Seq(UpdateRows)]
        /\ \A c \in Scouts : \A i \in DOMAIN updates'[c] : UpdateOK(updates'[c][i])
    BY <2>1, FewerUpdates
  <2>3. PICK u \in UpdateRows : u = Head(updates[s])
    BY <1>1, <2>1, HeadTailProperties
  <2>4. UpdateOK(u)
    <3>1. Head(updates[s]) = updates[s][1] /\ 1 \in DOMAIN updates[s]
      BY <1>1, <2>1, HeadTailProperties, LenProperties, EmptySeq
    <3> QED BY <3>1, <2>3, <1>1
  <2>5. PICK row : row = [step |-> IF u.kind = "delete" THEN "delete" ELSE "check",
                          kind |-> u.kind, msg |-> u.msg, text |-> u.text]
    OBVIOUS
  <2>6. row \in RouteRows /\ RouteOK(row)
    <3>1. u.kind \in UpdateKinds /\ u.msg \in Messages /\ u.text \in Texts
      BY DEF UpdateRows
    <3>2. u.msg \in 0 .. MaxMessage
      BY <3>1 DEF Messages
    <3> QED BY <2>4, <2>5, <3>1, <3>2 DEF RouteRows, RouteOK, UpdateOK
  <2>7. Route(s, row) \/ Route(s, Resting)
    BY <1>6, <2>3, <2>5 DEF Receive, Route
  <2>8. UNCHANGED <<chat, rows, tombs, cursor, scan, floor>>
    BY <1>6 DEF Receive, storeVars
  <2> QED BY <1>5, <2>2, <2>6, <2>7, <2>8, RouteOnly
<1>7. ASSUME CheckUpdate(s) PROVE HistInd'
  <2>1. PICK row : row = [r EXCEPT !.step = "save"]
    OBVIOUS
  <2>2. row \in RouteRows /\ RouteOK(row)
    BY <1>2, <1>3, <1>7, <2>1 DEF RouteRows, RouteOK, CheckUpdate
  <2>3. Route(s, row) \/ Route(s, Resting)
    BY <1>2, <1>7, <2>1 DEF CheckUpdate, Route
  <2>4. UNCHANGED <<chat, rows, tombs, cursor, scan, floor, updates>>
    BY <1>7 DEF CheckUpdate, storeVars
  <2> QED BY <1>1, <1>5, <2>2, <2>3, <2>4, RouteOnly
<1>8. ASSUME SaveUpdate(s) PROVE HistInd'
  <2>1. PICK e : e = IF r.kind = "edit" THEN r.text ELSE 0
    OBVIOUS
  <2>2. r.step = "save" /\ r.msg \in Messages /\ r.text \in Texts /\ r.text # 0
    BY <1>2, <1>3, <1>8 DEF SaveUpdate, RouteOK, RouteRows
  <2>3. e \in Texts
    BY <2>1, <2>2, HistoryAssumption DEF Texts
  <2>4. PICK after : after = SaveEncrypted(r.msg, r.text, e)
    OBVIOUS
  <2>5. /\ after \in [Messages -> StoredRows]
        /\ \A n \in Messages : Exists(n) => after[n].text # 0
        /\ \A n \in tombs : after[n].text = 0
    BY <2>2, <2>3, <2>4, StoredKeeps
  <2>6. rows' = after
    BY <1>2, <1>8, <2>1, <2>4 DEF SaveUpdate
  <2>7. UNCHANGED <<chat, tombs, cursor, scan, updates, floor>> /\ Route(s, Resting)
    BY <1>8 DEF SaveUpdate
  <2>8. (\A m \in Messages : Collected(m) => Collected(m)') /\ DeletedStaysDeleted'
    BY <2>5, <2>6, <2>7 DEF Collected, Exists, DeletedStaysDeleted
  <2>9. routing' \in [Scouts -> RouteRows] /\ \A c \in Scouts : RouteOK(routing'[c])
    BY <1>1, <1>5, <2>7 DEF Route
  <2> QED BY <1>1, <1>4, <2>5, <2>6, <2>7, <2>8, <2>9, StoreStep
<1>9. ASSUME DeleteMessage(s) PROVE HistInd'
  <2>1. r.step = "delete" /\ r.msg \in Messages
    BY <1>2, <1>3, <1>9 DEF DeleteMessage, RouteOK, RouteRows
  <2>2. tombs' = tombs \cup {r.msg} /\ rows' = [rows EXCEPT ![r.msg] = NoRow]
    BY <1>2, <1>9 DEF DeleteMessage, DeleteRow
  <2>3. NoRow \in StoredRows /\ NoRow.text = 0
    BY HistoryAssumption DEF NoRow, StoredRows, Texts
  <2>4. UNCHANGED <<chat, cursor, scan, updates, floor>> /\ Route(s, Resting)
    BY <1>9 DEF DeleteMessage
  <2>5. rows' \in [Messages -> StoredRows] /\ tombs' \in SUBSET Messages
    BY <1>4, <2>1, <2>2, <2>3
  <2>6. (\A m \in Messages : Collected(m) => Collected(m)') /\ DeletedStaysDeleted'
    <3>1. DeletedStaysDeleted
      BY DEF HistInd
    <3> QED BY <1>4, <2>1, <2>2, <2>3, <3>1 DEF Collected, Exists, DeletedStaysDeleted
  <2>7. routing' \in [Scouts -> RouteRows] /\ \A c \in Scouts : RouteOK(routing'[c])
    BY <1>1, <1>5, <2>4 DEF Route
  <2> QED BY <1>1, <2>4, <2>5, <2>6, <2>7, StoreStep
<1>10. ASSUME SaveUpdateFails(s) PROVE HistInd'
  <2>1. Route(s, Resting) /\ UNCHANGED <<chat, rows, tombs, cursor, scan, floor, updates>>
    BY <1>10 DEF SaveUpdateFails, storeVars
  <2> QED BY <1>1, <1>5, <2>1, RouteOnly
<1>11. ASSUME LoseUpdates(s) PROVE HistInd'
  <2>1. updates[s] # <<>> /\ updates' = [updates EXCEPT ![s] = <<>>]
    BY <1>11 DEF LoseUpdates
  <2>2. /\ updates' \in [Scouts -> Seq(UpdateRows)]
        /\ \A c \in Scouts : \A i \in DOMAIN updates'[c] : UpdateOK(updates'[c][i])
    BY <2>1, FewerUpdates
  <2>3. UNCHANGED <<chat, rows, tombs, cursor, scan, floor, routing>>
    BY <1>11 DEF LoseUpdates, storeVars
  <2>4. (\A m \in Messages : Collected(m) => Collected(m)') /\ DeletedStaysDeleted'
    BY <2>3 DEF HistInd, Collected, Exists, DeletedStaysDeleted
  <2> QED BY <1>1, <1>4, <2>2, <2>3, <2>4, StoreStep
<1> QED BY <1>6, <1>7, <1>8, <1>9, <1>10, <1>11 DEF RouterStep

\* The scan's turn ends, or no cycle is under way: nothing is due.
LEMMA ScanRests ==
    ASSUME HistInd, NEW row \in ScanRows, row.step \in {"off", "next"}, scan' = row,
           UNCHANGED <<chat, rows, tombs, cursor, updates, routing, floor>>
    PROVE  HistInd'
<1>1. ScanOK'
  BY DEF ScanOK, Scanning
<1>2. (\A m \in Messages : Collected(m) => Collected(m)') /\ DeletedStaysDeleted'
  BY DEF HistInd, Collected, Exists, DeletedStaysDeleted
<1>3. rows' \in [Messages -> StoredRows]
  BY DEF HistInd
<1> QED BY <1>1, <1>2, <1>3, ScanOnly

\* A step within a page: the scan's limits stay as they are.
LEMMA PageStep ==
    ASSUME HistInd, NEW r \in ScanRows, r = scan, r.step \in Scanning,
           NEW row \in ScanRows, scan' = row, row.step \in Scanning,
           row.scout = r.scout, row.min = r.min, row.max = r.max, row.cutoff = r.cutoff,
           row.step = "ask" => row.offset <= row.max /\ row.offset # 0,
           row.step \in {"page", "store"} =>
              /\ row.low \in Messages /\ row.low <= row.max
              /\ \A m \in DOMAIN row.page : row.low <= m,
           row.step = "store" => DOMAIN row.page # {},
           UNCHANGED <<chat, tombs, cursor, updates, routing, floor>>,
           rows' \in [Messages -> StoredRows], DeletedStaysDeleted',
           \A m \in Messages : Collected(m) => Collected(m)',
           \A m \in Messages : Due(m) /\ ToCome(m) => Collected(m)' \/ ToCome(m)'
    PROVE  HistInd'
<1>1. /\ r.scout \in Scouts /\ r.min = cursor[r.scout]
      /\ r.min <= r.max /\ r.max <= chat.posted
      /\ \A m \in Messages : Due(m) => Collected(m) \/ ToCome(m)
  BY DEF HistInd, ScanOK
<1>2. \A m \in Messages : Due(m)' => Due(m)
  BY DEF Due
<1>3. \A m \in Messages : Due(m)' => Collected(m)' \/ ToCome(m)'
  BY <1>1, <1>2
<1>4. ScanOK'
  BY <1>1, <1>3 DEF ScanOK
<1> QED BY <1>4, ScanOnly

\* The page that Telegram answers.
LEMMA FetchStep ==
    ASSUME HistInd, FetchPage
    PROVE  HistInd'
<1>1. /\ ScanOK /\ ChatOK /\ scan.step = "ask"
      /\ UNCHANGED <<chat, rows, tombs, cursor, updates, routing, floor>>
  BY DEF HistInd, FetchPage, storeVars, routerVars
<1>2. PICK r \in ScanRows : r = scan
  BY DEF HistInd
<1>3. /\ r.step = "ask" /\ r.scout \in Scouts /\ r.min = cursor[r.scout]
      /\ r.min <= r.max /\ r.max <= chat.posted
      /\ r.offset <= r.max /\ (r.offset = 0 => r.max = r.min)
      /\ \A m \in Messages : Due(m) => Collected(m) \/ ToCome(m)
  BY <1>1, <1>2 DEF ScanOK, Scanning
<1>4. /\ r.min \in Nat /\ r.max \in 0 .. MaxMessage /\ r.offset \in Nat /\ r.cutoff \in Nat
      /\ chat.posted \in Nat /\ MaxMessage \in Nat \ {0} /\ PageSize \in Nat \ {0}
      /\ MaxText \in Nat \ {0} /\ Messages \subseteq Nat
  BY <1>1, HistoryAssumption DEF ScanRows, ChatOK, Messages
<1>5. PICK all \in SUBSET Messages :
         all = {m \in Messages : /\ chat.text[m] # 0 /\ m > r.min
                                 /\ r.offset = 0 \/ m < r.offset}
  OBVIOUS
<1>6. PICK top : top = Newest(all)
  OBVIOUS
<1>7. Page = top
  BY <1>2, <1>5, <1>6 DEF Page, Newest
<1>8. /\ top \subseteq all
      /\ \A b \in all \ top, n \in top : b < n
      /\ Cardinality(top) < PageSize => top = all
  BY <1>6, NewestOf
<1>9. rows' \in [Messages -> StoredRows] /\ DeletedStaysDeleted'
  BY <1>1 DEF HistInd, DeletedStaysDeleted, Exists
<1>10. \A m \in Messages : Collected(m) => Collected(m)'
  BY <1>1 DEF Collected, Exists
<1>11. CASE top = {}
  <2>1. PICK row : row = [r EXCEPT !.step = "cursor"]
    OBVIOUS
  <2>2. row \in ScanRows /\ row.step = "cursor"
    BY <2>1 DEF ScanRows, Scanning
  <2>3. scan' = row
    BY <1>2, <1>7, <1>11, <2>1 DEF FetchPage
  <2>4. all = {}
    BY <1>4, <1>8, <1>11, FS_EmptySet
  <2>5. ASSUME NEW m \in Messages, Due(m), ToCome(m) PROVE FALSE
    <3>1. r.offset # 0 /\ m < r.offset /\ chat.text[m] # 0 /\ m > r.min
      BY <1>2, <1>3, <2>5 DEF Due, ToCome
    <3> QED BY <3>1, <1>5, <2>4
  <2>6. /\ row.scout = r.scout /\ row.min = r.min /\ row.max = r.max /\ row.cutoff = r.cutoff
    BY <2>1 DEF ScanRows
  <2>7. r.step \in Scanning /\ row.step \in Scanning
    BY <1>3, <2>2 DEF Scanning
  <2> QED BY <1>1, <1>2, <1>9, <1>10, <2>2, <2>3, <2>5, <2>6, <2>7, PageStep
<1>12. CASE top # {}
  <2>1. PICK low, high : low = Min(top) /\ high = Max(top)
    OBVIOUS
  <2>2. /\ low \in top /\ high \in top
        /\ \A k \in top : low <= k /\ k <= high
    <3>1. top \subseteq Messages
      BY <1>8
    <3>2. Max(top) \in top /\ \A k \in top : Max(top) >= k
      BY <3>1, <1>12, GreatestMember
    <3>3. Min(top) \in top /\ \A k \in top : Min(top) <= k
      BY <3>1, <1>12, LeastMember
    <3> QED BY <3>1, <3>2, <3>3, <2>1, <1>4
  <2>3. PICK max : max = Max({r.max, high})
    OBVIOUS
  <2>4. /\ max \in {r.max, high} /\ max >= r.max /\ max >= high
    <3>1. r.max \in Nat /\ high \in Nat
      BY <1>4, <1>8, <2>2
    <3>2. \E n \in {r.max, high} : \A k \in {r.max, high} : n >= k
      BY <3>1
    <3> QED BY <3>2, <2>3 DEF Max
  <2>5. PICK page : page = [m \in top |-> chat.text[m]]
    OBVIOUS
  <2>6. page \in Pages /\ DOMAIN page = top
    <3>1. \A m \in top : chat.text[m] \in 1 .. MaxText
      BY <1>1, <1>4, <1>5, <1>8 DEF ChatOK, Texts
    <3>2. page \in [top -> 1 .. MaxText] /\ top \in SUBSET Messages
      BY <3>1, <2>5, <1>8
    <3> QED BY <3>2 DEF Pages
  <2>7. PICK last \in BOOLEAN : last = (Cardinality(top) < PageSize)
    <3>1. (Cardinality(top) < PageSize) \in BOOLEAN
      OBVIOUS
    <3> QED BY <3>1, Zenon
  <2>8. PICK row : row = [r EXCEPT !.step = "page", !.page = page, !.low = low,
                                   !.max = max, !.last = last]
    OBVIOUS
  <2>9. /\ row.step = "page" /\ row.page = page /\ row.low = low /\ row.max = max
        /\ row.last = last /\ row.scout = r.scout /\ row.min = r.min /\ row.cutoff = r.cutoff
    BY <2>8 DEF ScanRows
  <2>10. low \in Messages /\ high \in Messages /\ low \in 0 .. MaxMessage /\ max \in 0 .. MaxMessage
    BY <1>4, <1>8, <2>2, <2>4 DEF Messages
  <2>11. row \in ScanRows
    BY <2>6, <2>7, <2>8, <2>10 DEF ScanRows, Scanning
  <2>12. scan' = row
    BY <1>2, <1>7, <1>12, <2>1, <2>3, <2>5, <2>7, <2>8 DEF FetchPage
  <2>13. low <= max /\ r.min <= max
    BY <1>3, <1>4, <2>2, <2>4, <2>10
  <2>14. max <= chat.posted
    <3>1. high <= chat.posted
      BY <1>1, <1>5, <1>8, <2>2 DEF ChatOK
    <3> QED BY <3>1, <1>3, <2>4
  <2>15. ASSUME NEW m \in Messages, Due(m)' PROVE Collected(m)' \/ ToCome(m)'
    <3>1. /\ chat.text[m] # 0 /\ m \notin Blank /\ m > r.min /\ m <= max
          /\ r.min > 0 \/ m > r.cutoff
      BY <1>1, <2>9, <2>12, <2>15 DEF Due
    <3>2. CASE m \in top
      BY <3>2, <2>6, <2>9, <2>12 DEF ToCome
    <3>3. CASE m \in all \ top
      <4>1. m < low /\ ~last
        BY <3>3, <1>8, <2>2, <2>7
      <4> QED BY <4>1, <2>9, <2>12 DEF ToCome
    <3>4. CASE m \notin all
      <4>1. r.offset # 0 /\ m >= r.offset
        BY <3>1, <3>4, <1>4, <1>5
      <4>2. high < r.offset
        BY <4>1, <1>5, <1>8, <2>2
      <4>3. m <= r.max
        BY <3>1, <4>2, <1>3, <1>4, <2>4, <2>10
      <4>4. Due(m)
        BY <3>1, <4>3, <1>2 DEF Due
      <4>5. ~ ToCome(m)
        BY <4>1, <1>2, <1>3, <1>4 DEF ToCome
      <4> QED BY <4>4, <4>5, <1>3, <1>10
    <3> QED BY <3>2, <3>3, <3>4
  <2>16. ScanOK'
    BY <1>1, <1>3, <2>2, <2>6, <2>9, <2>10, <2>12, <2>13, <2>14, <2>15 DEF ScanOK
  <2> QED BY <1>1, <1>9, <1>10, <2>11, <2>12, <2>16, ScanOnly
<1> QED BY <1>11, <1>12

\* A page without its newest message.
LEMMA OneLess ==
    ASSUME NEW page \in Pages, NEW m
    PROVE  /\ Without(page, m) \in Pages
           /\ DOMAIN Without(page, m) = DOMAIN page \ {m}
<1>1. PICK D \in SUBSET Messages : page \in [D -> 1 .. MaxText]
  BY DEF Pages
<1>2. Without(page, m) \in [D \ {m} -> 1 .. MaxText] /\ D \ {m} \in SUBSET Messages
  BY <1>1 DEF Without
<1> QED BY <1>1, <1>2 DEF Pages

\* The texts of a page are texts.
LEMMA PageTexts ==
    ASSUME NEW page \in Pages
    PROVE  DOMAIN page \subseteq Messages /\ \A m \in DOMAIN page : page[m] \in 1 .. MaxText
BY DEF Pages

\* A message that is passed over is not due or has a tombstone; what is too old
\* ends the scan, and so does everything below it.
LEMMA CollectStep ==
    ASSUME HistInd, CollectNext
    PROVE  HistInd'
<1>1. /\ ScanOK /\ scan.step = "page" /\ DOMAIN scan.page # {}
      /\ UNCHANGED <<chat, rows, tombs, cursor, updates, routing, floor>>
  BY DEF HistInd, CollectNext, storeVars, routerVars
<1>2. PICK r \in ScanRows : r = scan
  BY DEF HistInd
<1>3. /\ r.low \in Messages /\ r.low <= r.max
      /\ \A m \in DOMAIN r.page : r.low <= m
  BY <1>1, <1>2 DEF ScanOK, Scanning
<1>4. r.page \in Pages
  BY DEF ScanRows
<1>5. DOMAIN r.page \subseteq Messages
  BY <1>4, PageTexts
<1>6. PICK m \in DOMAIN r.page : m = Max(DOMAIN r.page)
  BY <1>1, <1>2, <1>5, GreatestMember
<1>7. /\ r.step \in Scanning /\ "store" \in Scanning /\ "page" \in Scanning
      /\ Messages \subseteq Nat
  BY <1>1, <1>2, HistoryAssumption DEF Scanning, Messages
<1>8. rows' \in [Messages -> StoredRows] /\ DeletedStaysDeleted'
  BY <1>1 DEF HistInd, DeletedStaysDeleted, Exists
<1>9. \A n \in Messages : Collected(n) => Collected(n)'
  BY <1>1 DEF Collected, Exists
<1> DEFINE tooOld == r.min = 0 /\ m <= r.cutoff
           store == ~tooOld /\ m \notin Blank /\ m \notin tombs
<1>10. CASE store
  <2>1. PICK row : row = [r EXCEPT !.step = "store"]
    OBVIOUS
  <2>2. scan' = row
    BY <1>2, <1>6, <1>10, <2>1 DEF CollectNext, CanonicalMessageAt
  <2>3. /\ row.step = "store" /\ row.page = r.page /\ row.low = r.low /\ row.max = r.max
        /\ row.last = r.last /\ row.scout = r.scout /\ row.min = r.min /\ row.cutoff = r.cutoff
    BY <2>1 DEF ScanRows
  <2>4. row \in ScanRows
    BY <2>1, <1>7 DEF ScanRows
  <2>5. ASSUME NEW n \in Messages, ToCome(n) PROVE ToCome(n)'
    BY <1>1, <1>2, <2>2, <2>3, <2>5 DEF ToCome
  <2> QED BY <1>1, <1>2, <1>3, <1>7, <1>8, <1>9, <2>2, <2>3, <2>4, <2>5, PageStep
<1>11. CASE ~store
  <2>1. PICK last \in BOOLEAN : last = (r.last \/ tooOld)
    <3>1. (r.last \/ tooOld) \in BOOLEAN
      OBVIOUS
    <3> QED BY <3>1, Zenon
  <2>2. PICK page \in Pages : page = Without(r.page, m) /\ DOMAIN page = DOMAIN r.page \ {m}
    BY <1>4, OneLess
  <2>3. PICK row : row = [r EXCEPT !.page = page, !.last = last]
    OBVIOUS
  <2>4. scan' = row
    BY <1>2, <1>6, <1>11, <2>1, <2>2, <2>3 DEF CollectNext, CanonicalMessageAt
  <2>5. /\ row.step = "page" /\ row.page = page /\ row.low = r.low /\ row.max = r.max
        /\ row.last = last /\ row.scout = r.scout /\ row.min = r.min /\ row.cutoff = r.cutoff
    BY <1>1, <1>2, <2>3 DEF ScanRows
  <2>6. row \in ScanRows
    BY <2>1, <2>2, <2>3 DEF ScanRows
  <2>7. ASSUME NEW n \in Messages, Due(n), ToCome(n)
        PROVE  Collected(n)' \/ ToCome(n)'
    <3>1. n \in DOMAIN r.page \/ (n < r.low /\ ~r.last)
      BY <1>1, <1>2, <2>7 DEF ToCome
    <3>2. n \notin Blank /\ (r.min > 0 \/ n > r.cutoff) /\ r.min \in Nat /\ r.cutoff \in Nat
      BY <1>2, <2>7, HistoryAssumption DEF Due, ScanRows
    <3>3. CASE n \in DOMAIN r.page /\ n # m
      BY <3>3, <2>2, <2>4, <2>5 DEF ToCome
    <3>4. CASE n = m
      <4>1. n \in tombs
        BY <3>2, <3>4, <1>7, <1>11
      <4> QED BY <4>1, <1>1 DEF Collected
    <3>5. CASE n < r.low /\ ~r.last
      <4>0. n \in Nat /\ m \in Nat /\ r.low \in Nat /\ r.low <= m
        BY <1>3, <1>5, <1>7
      <4>1. n < m
        BY <3>5, <4>0
      <4>2. ~ tooOld
        BY <3>2, <4>0, <4>1
      <4> QED BY <3>5, <4>2, <2>1, <2>4, <2>5 DEF ToCome
    <3> QED BY <3>1, <3>3, <3>4, <3>5
  <2>8. \A n \in DOMAIN page : r.low <= n
    BY <1>3, <2>2
  <2> QED BY <1>1, <1>2, <1>3, <1>7, <1>8, <1>9, <2>4, <2>5, <2>6, <2>7, <2>8, PageStep
<1> QED BY <1>10, <1>11

\* A message that is stored is collected, by whichever text was there first.
LEMMA StoreNextStep ==
    ASSUME HistInd, StoreNext
    PROVE  HistInd'
<1>1. /\ ScanOK /\ scan.step = "store"
      /\ UNCHANGED <<chat, tombs, cursor, updates, routing, floor>>
  BY DEF HistInd, StoreNext, routerVars
<1>2. PICK r \in ScanRows : r = scan
  BY DEF HistInd
<1>3. /\ r.low \in Messages /\ r.low <= r.max /\ DOMAIN r.page # {}
      /\ \A m \in DOMAIN r.page : r.low <= m
  BY <1>1, <1>2 DEF ScanOK, Scanning
<1>4. r.page \in Pages
  BY DEF ScanRows
<1>5. DOMAIN r.page \subseteq Messages /\ \A m \in DOMAIN r.page : r.page[m] \in 1 .. MaxText
  BY <1>4, PageTexts
<1>6. PICK m \in DOMAIN r.page : m = Max(DOMAIN r.page)
  BY <1>3, <1>5, GreatestMember
<1>7. r.step \in Scanning /\ "page" \in Scanning
  BY <1>1, <1>2 DEF Scanning
<1>8. PICK t : t = r.page[m]
  OBVIOUS
<1>9. m \in Messages /\ t \in Texts /\ t # 0 /\ 0 \in Texts
  BY <1>5, <1>8, HistoryAssumption DEF Texts
<1>10. PICK after : after = SaveEncrypted(m, t, 0)
  OBVIOUS
<1>11. /\ after \in [Messages -> StoredRows]
       /\ \A n \in Messages : Exists(n) => after[n].text # 0
       /\ after[m].text # 0 \/ m \in tombs
       /\ \A n \in tombs : after[n].text = 0
  BY <1>9, <1>10, StoredKeeps
<1>12. rows' = after
  BY <1>2, <1>6, <1>8, <1>10 DEF StoreNext
<1>13. DeletedStaysDeleted' /\ \A n \in Messages : Collected(n) => Collected(n)'
  BY <1>1, <1>11, <1>12 DEF Collected, Exists, DeletedStaysDeleted
<1>14. PICK page \in Pages : page = Without(r.page, m) /\ DOMAIN page = DOMAIN r.page \ {m}
  BY <1>4, OneLess
<1>15. PICK row : row = [r EXCEPT !.step = "page", !.page = page]
  OBVIOUS
<1>16. scan' = row
  BY <1>2, <1>6, <1>14, <1>15 DEF StoreNext
<1>17. /\ row.step = "page" /\ row.page = page /\ row.low = r.low /\ row.max = r.max
       /\ row.last = r.last /\ row.scout = r.scout /\ row.min = r.min /\ row.cutoff = r.cutoff
  BY <1>15 DEF ScanRows
<1>18. row \in ScanRows
  BY <1>7, <1>14, <1>15 DEF ScanRows
<1>19. ASSUME NEW n \in Messages, ToCome(n)
       PROVE  Collected(n)' \/ ToCome(n)'
  <2>1. n \in DOMAIN r.page \/ (n < r.low /\ ~r.last)
    BY <1>1, <1>2, <1>19 DEF ToCome
  <2>2. CASE n = m
    BY <2>2, <1>1, <1>11, <1>12 DEF Collected, Exists
  <2>3. CASE n # m
    BY <2>1, <2>3, <1>14, <1>16, <1>17 DEF ToCome
  <2> QED BY <2>2, <2>3
<1>20. \A n \in DOMAIN page : r.low <= n
  BY <1>3, <1>14
<1> QED BY <1>1, <1>2, <1>3, <1>7, <1>11, <1>12, <1>13, <1>16, <1>17, <1>18, <1>19, <1>20, PageStep

\* What is still due lies below a full page.
LEMMA EndPageStep ==
    ASSUME HistInd, EndPage
    PROVE  HistInd'
<1>1. /\ ScanOK /\ scan.step = "page" /\ DOMAIN scan.page = {}
      /\ UNCHANGED <<chat, rows, tombs, cursor, updates, routing, floor>>
  BY DEF HistInd, EndPage, storeVars, routerVars
<1>2. PICK r \in ScanRows : r = scan
  BY DEF HistInd
<1>3. r.low \in Messages /\ r.low <= r.max
  BY <1>1, <1>2 DEF ScanOK, Scanning
<1>4. PICK step \in {"cursor", "ask"} : step = IF r.last THEN "cursor" ELSE "ask"
  OBVIOUS
<1>5. PICK row : row = [r EXCEPT !.step = step, !.offset = r.low, !.page = <<>>]
  OBVIOUS
<1>6. scan' = row
  BY <1>2, <1>4, <1>5 DEF EndPage
<1>7. /\ row.step = step /\ row.offset = r.low /\ row.max = r.max
      /\ row.scout = r.scout /\ row.min = r.min /\ row.cutoff = r.cutoff
  BY <1>5 DEF ScanRows
<1>8. row \in ScanRows
  BY <1>3, <1>4, <1>5, EmptyPage DEF ScanRows, Scanning, Messages
<1>9. /\ r.step \in Scanning /\ row.step \in Scanning /\ row.offset # 0
      /\ row.step \notin {"page", "store"}
  BY <1>1, <1>2, <1>3, <1>4, <1>7 DEF Scanning, Messages
<1>10. ASSUME NEW n \in Messages, ToCome(n) PROVE ToCome(n)'
  <2>1. n < r.low /\ ~r.last
    BY <1>1, <1>2, <1>10 DEF ToCome
  <2>2. row.step = "ask"
    BY <2>1, <1>4, <1>7
  <2> QED BY <2>1, <2>2, <1>6, <1>7, <1>9 DEF ToCome
<1>11. rows' \in [Messages -> StoredRows] /\ DeletedStaysDeleted'
  BY <1>1 DEF HistInd, DeletedStaysDeleted, Exists
<1>12. \A n \in Messages : Collected(n) => Collected(n)'
  BY <1>1 DEF Collected, Exists
<1> QED BY <1>1, <1>2, <1>3, <1>6, <1>7, <1>8, <1>9, <1>10, <1>11, <1>12, PageStep

\* A cursor moves to the newest message of a scan that came to its end.
LEMMA CursorStep ==
    ASSUME HistInd, SaveScoutCursor
    PROVE  HistInd'
<1>1. /\ ScanOK /\ ChatOK /\ NothingSkipped /\ scan.step = "cursor"
      /\ cursor \in [Scouts -> 0 .. MaxMessage] /\ floor \in [Scouts -> 0 .. MaxMessage]
      /\ UNCHANGED <<chat, rows, tombs, updates, routing>>
  BY DEF HistInd, SaveScoutCursor, routerVars
<1>2. PICK r \in ScanRows : r = scan
  BY DEF HistInd
<1>3. /\ r.scout \in Scouts /\ r.min = cursor[r.scout]
      /\ r.min <= r.max /\ r.max <= chat.posted
      /\ \A m \in Messages : Due(m) => Collected(m) \/ ToCome(m)
  BY <1>1, <1>2 DEF ScanOK, Scanning
<1>4. /\ r.min \in Nat /\ r.max \in 0 .. MaxMessage /\ r.cutoff \in 0 .. MaxMessage
      /\ MaxMessage \in Nat /\ Messages \subseteq Nat
  BY HistoryAssumption DEF ScanRows, Messages
<1>5. PICK s \in Scouts : s = r.scout
  BY <1>3
<1>6. Max({cursor[s], r.max}) = r.max
  <2>1. \A k \in {cursor[s], r.max} : r.max >= k
    BY <1>3, <1>4, <1>5
  <2>2. \E n \in {cursor[s], r.max} : \A k \in {cursor[s], r.max} : n >= k
    BY <2>1
  <2>3. /\ Max({cursor[s], r.max}) \in {cursor[s], r.max}
        /\ Max({cursor[s], r.max}) >= r.max
    BY <2>2 DEF Max
  <2> QED BY <2>3, <1>3, <1>4, <1>5
<1>7. cursor' = [cursor EXCEPT ![s] = r.max]
  BY <1>2, <1>5, <1>6 DEF SaveScoutCursor
<1>8. floor' = IF r.min = 0 /\ r.max > 0 THEN [floor EXCEPT ![s] = r.cutoff] ELSE floor
  BY <1>2, <1>5 DEF SaveScoutCursor
<1>9. PICK row : row = [NoScan EXCEPT !.step = "next", !.todo = r.todo]
  OBVIOUS
<1>10. row \in ScanRows /\ row.step = "next" /\ scan' = row
  <2>1. scan' = row
    BY <1>2, <1>9 DEF SaveScoutCursor
  <2>2. r.todo \in SUBSET Scouts
    BY DEF ScanRows
  <2> QED BY <1>9, <2>1, <2>2, NoScanOK DEF ScanRows, NoScan
<1>11. ScanOK'
  BY <1>10 DEF ScanOK, Scanning
<1>12. NothingSkipped'
  <2> SUFFICES ASSUME NEW c \in Scouts, NEW m \in Messages,
                      m <= cursor'[c], m > floor'[c], m \notin Blank, chat.text[m] # 0
               PROVE  Collected(m)
    BY <1>1 DEF NothingSkipped, Collected, Exists
  <2>1. CASE c # s
    <3>1. cursor'[c] = cursor[c] /\ floor'[c] = floor[c]
      BY <2>1, <1>1, <1>7, <1>8
    <3> QED BY <3>1, <1>1 DEF NothingSkipped, Collected
  <2>2. CASE c = s
    <3>1. cursor'[c] = r.max /\ m \in Nat /\ m > 0
      BY <2>2, <1>1, <1>4, <1>7 DEF Messages
    <3>2. CASE m <= r.min
      <4>1. r.min # 0
        BY <3>1, <3>2, <1>4
      <4>2. floor' = floor
        BY <4>1, <1>8
      <4>3. m <= cursor[s]
        BY <3>2, <1>3, <1>5
      <4> QED BY <4>2, <4>3, <2>2, <1>1 DEF NothingSkipped, Collected
    <3>3. CASE m > r.min
      <4>1. r.min > 0 \/ m > r.cutoff
        <5>1. CASE r.min = 0
          <6>1. r.max > 0
            BY <3>1, <1>4
          <6>2. floor'[c] = r.cutoff
            BY <5>1, <6>1, <1>1, <1>8, <2>2
          <6> QED BY <6>2
        <5> QED BY <5>1, <1>4
      <4>2. Due(m)
        BY <3>1, <3>3, <4>1, <1>2 DEF Due
      <4>3. ~ ToCome(m)
        BY <1>1 DEF ToCome
      <4> QED BY <4>2, <4>3, <1>3
    <3> QED BY <3>1, <3>2, <3>3, <1>4
  <2> QED BY <2>1, <2>2
<1>13. ChatOK' /\ DeletedStaysDeleted'
  BY <1>1 DEF HistInd, ChatOK, DeletedStaysDeleted, Exists
<1>14. /\ cursor' \in [Scouts -> 0 .. MaxMessage] /\ floor' \in [Scouts -> 0 .. MaxMessage]
       /\ \A c \in Scouts : cursor'[c] <= chat.posted
  <2>1. \A c \in Scouts : cursor[c] <= chat.posted
    BY DEF HistInd
  <2> QED BY <2>1, <1>1, <1>3, <1>4, <1>7, <1>8
<1> QED BY <1>1, <1>10, <1>11, <1>12, <1>13, <1>14 DEF HistInd

\* Every step of the scan.
LEMMA ScanSteps ==
    ASSUME HistInd
    PROVE  /\ \A connected \in SUBSET Scouts \ {{}} : BeginCycle(connected) => HistInd'
           /\ ScanStep \/ ScanFails => HistInd'
<1>1. PICK r \in ScanRows : r = scan
  BY DEF HistInd
<1>2. r.todo \in SUBSET Scouts
  BY DEF ScanRows
<1>3. ASSUME NEW connected \in SUBSET Scouts, BeginCycle(connected) PROVE HistInd'
  <2>1. PICK row : row = [NoScan EXCEPT !.step = "next", !.todo = connected]
    OBVIOUS
  <2>2. row \in ScanRows /\ row.step = "next"
    BY <2>1, NoScanOK DEF ScanRows, NoScan
  <2>3. scan' = row /\ UNCHANGED <<chat, rows, tombs, cursor, updates, routing, floor>>
    BY <1>3, <2>1 DEF BeginCycle, storeVars, routerVars
  <2> QED BY <2>2, <2>3, ScanRests
<1>4. ASSUME ScanFails PROVE HistInd'
  <2>1. PICK row : row = [NoScan EXCEPT !.step = "next", !.todo = r.todo]
    OBVIOUS
  <2>2. row \in ScanRows /\ row.step = "next"
    BY <1>2, <2>1, NoScanOK DEF ScanRows, NoScan
  <2>3. scan' = row /\ UNCHANGED <<chat, rows, tombs, cursor, updates, routing, floor>>
    BY <1>1, <1>4, <2>1 DEF ScanFails, storeVars, routerVars
  <2> QED BY <2>2, <2>3, ScanRests
<1>5. ASSUME EndCycle PROVE HistInd'
  <2>1. NoScan.step = "off"
    BY DEF NoScan
  <2>2. scan' = NoScan /\ UNCHANGED <<chat, rows, tombs, cursor, updates, routing, floor>>
    BY <1>5 DEF EndCycle, storeVars, routerVars
  <2> QED BY <2>1, <2>2, NoScanOK, ScanRests
<1>6. ASSUME NEW s \in Scouts, BeginScan(s) PROVE HistInd'
  <2>1. /\ cursor[s] \in 0 .. MaxMessage /\ cursor[s] <= chat.posted
        /\ chat.old \in 0 .. MaxMessage /\ MaxMessage \in Nat
    BY HistoryAssumption DEF HistInd, ChatOK
  <2>2. PICK row : row = [NoScan EXCEPT !.step = "ask", !.todo = r.todo \ {s}, !.scout = s,
                                        !.min = cursor[s], !.max = cursor[s],
                                        !.cutoff = chat.old]
    OBVIOUS
  <2>3. /\ row \in ScanRows /\ row.step = "ask" /\ row.scout = s /\ row.min = cursor[s]
        /\ row.max = cursor[s] /\ row.offset = 0
    BY <1>2, <2>1, <2>2, NoScanOK DEF ScanRows, NoScan, Scanning
  <2>4. scan' = row /\ UNCHANGED <<chat, rows, tombs, cursor, updates, routing, floor>>
    BY <1>1, <1>6, <2>2 DEF BeginScan, storeVars, routerVars
  <2>5. ASSUME NEW m \in Messages, Due(m)' PROVE FALSE
    <3>1. m > cursor[s] /\ m <= cursor[s] /\ m \in Nat
      BY <2>3, <2>4, <2>5, HistoryAssumption DEF Due, Messages
    <3> QED BY <3>1, <2>1
  <2>6. ScanOK'
    BY <2>1, <2>3, <2>4, <2>5 DEF ScanOK
  <2>7. (\A m \in Messages : Collected(m) => Collected(m)') /\ DeletedStaysDeleted'
    BY <2>4 DEF HistInd, Collected, Exists, DeletedStaysDeleted
  <2>8. rows' \in [Messages -> StoredRows]
    BY <2>4 DEF HistInd
  <2> QED BY <2>3, <2>4, <2>6, <2>7, <2>8, ScanOnly
<1> QED BY <1>3, <1>4, <1>5, <1>6, FetchStep, CollectStep, StoreNextStep, EndPageStep,
           CursorStep DEF ScanStep

\* After a restart no scan is under way and the cursors are the saved ones.
LEMMA RestartStep ==
    ASSUME HistInd, RestartCollection
    PROVE  HistInd'
<1>1. /\ routing' = [s \in Scouts |-> Resting] /\ scan' = NoScan
      /\ UNCHANGED <<chat, rows, tombs, cursor, updates, floor>>
  BY DEF RestartCollection, storeVars
<1>2. routing' \in [Scouts -> RouteRows] /\ \A s \in Scouts : RouteOK(routing'[s])
  BY <1>1, RestingOK
<1>3. ScanOK'
  BY <1>1 DEF ScanOK, NoScan, Scanning
<1>4. ChatOK' /\ DeletedStaysDeleted' /\ NothingSkipped'
  BY <1>1 DEF HistInd, ChatOK, DeletedStaysDeleted, NothingSkipped, Exists
<1> QED BY <1>1, <1>2, <1>3, <1>4, NoScanOK DEF HistInd

\* Nothing is posted yet.
LEMMA HistIndInit ==
    HistoryInit => HistInd
<1> SUFFICES ASSUME HistoryInit PROVE HistInd
  OBVIOUS
<1>1. MaxMessage \in Nat /\ 0 \in Texts /\ <<>> \in Seq(UpdateRows)
  BY HistoryAssumption, EmptySeq DEF Texts
<1>2. /\ chat = [text |-> [m \in Messages |-> 0], posted |-> 0, old |-> 0, changes |-> 0]
      /\ rows = [m \in Messages |-> NoRow] /\ tombs = {}
      /\ cursor = [s \in Scouts |-> 0] /\ scan = NoScan
      /\ updates = [s \in Scouts |-> <<>>] /\ routing = [s \in Scouts |-> Resting]
      /\ floor = [s \in Scouts |-> 0]
  BY DEF HistoryInit
<1>3. ChatOK
  BY <1>1, <1>2 DEF ChatOK
<1>4. rows \in [Messages -> StoredRows] /\ DeletedStaysDeleted
  BY <1>1, <1>2 DEF NoRow, StoredRows, DeletedStaysDeleted
<1>5. NothingSkipped
  BY <1>2, HistoryAssumption DEF NothingSkipped, Messages
<1>6. ScanOK
  BY <1>2 DEF ScanOK, NoScan, Scanning
<1>7. \A s \in Scouts : \A i \in DOMAIN updates[s] : UpdateOK(updates[s][i])
  <2>1. DOMAIN <<>> = {}
    BY EmptyPage
  <2> QED BY <2>1, <1>2
<1>8. routing \in [Scouts -> RouteRows] /\ \A s \in Scouts : RouteOK(routing[s])
  BY <1>2, RestingOK
<1>9. chat = [text |-> chat.text, posted |-> chat.posted, old |-> chat.old,
              changes |-> chat.changes]
  BY <1>2
<1> QED BY <1>1, <1>2, <1>3, <1>4, <1>5, <1>6, <1>7, <1>8, <1>9, NoScanOK DEF HistInd

\* Every action keeps it.
LEMMA HistIndStep ==
    HistInd /\ [HistoryNext]_historyVars => HistInd'
<1> SUFFICES ASSUME HistInd, [HistoryNext]_historyVars PROVE HistInd'
  OBVIOUS
<1>1. CASE UNCHANGED historyVars
  BY <1>1 DEF historyVars, HistInd, ChatOK, DeletedStaysDeleted, NothingSkipped, Exists,
              ScanOK, Due, ToCome, Collected
<1>2. CASE HistoryNext
  <2>1. CASE Post \/ GrowOld \/ \E m \in Messages : EditPost(m) \/ DeletePost(m)
    BY <2>1, ChatSteps
  <2>2. CASE \E s \in Scouts : RouterStep(s) \/ SaveUpdateFails(s) \/ LoseUpdates(s)
    BY <2>2, RouterSteps
  <2>3. CASE \E connected \in SUBSET Scouts \ {{}} : BeginCycle(connected)
    BY <2>3, ScanSteps
  <2>4. CASE ScanStep \/ ScanFails
    BY <2>4, ScanSteps
  <2>5. CASE RestartCollection
    BY <2>5, RestartStep
  <2> QED BY <1>2, <2>1, <2>2, <2>3, <2>4, <2>5 DEF HistoryNext
<1> QED BY <1>1, <1>2

\* It says what the runs check.
LEMMA HistIndMeans ==
    HistInd => HistoryInv
BY DEF HistInd, HistoryInv, HistoryTypeOK, ChatOK, StoredRows, RouteRows

\* For any number of scouts, messages, edits, failures and restarts, and any size
\* of a page: a cursor passes no message by, and a deleted message is not stored
\* again (SaveScoutCursor after the last page, SaveEncrypted with its tombstones).
THEOREM HistoryInvariant ==
    HistorySpec => []HistoryInv
<1> QED BY HistIndInit, HistIndStep, HistIndMeans, PTL DEF HistorySpec

\* A stored text is replaced only by a later edit.
Advances ==
    \A m \in Messages :
        Exists(m) /\ rows'[m] # rows[m] /\ rows'[m].text # 0
            => rows'[m].edited > rows[m].edited

\* Only SaveEncrypted and DeleteRow write a row.
LEMMA AdvanceStep ==
    HistInd /\ [HistoryNext]_historyVars => Advances
<1> SUFFICES ASSUME HistInd, [HistoryNext]_historyVars PROVE Advances
  OBVIOUS
<1>1. CASE UNCHANGED rows
  BY <1>1 DEF Advances
<1>2. ASSUME NEW s \in Scouts, SaveUpdate(s) PROVE Advances
  <2>1. PICK r \in RouteRows : r = routing[s] /\ RouteOK(r)
    BY DEF HistInd
  <2>2. PICK e : e = IF r.kind = "edit" THEN r.text ELSE 0
    OBVIOUS
  <2>3. r.step = "save" /\ r.msg \in Messages /\ r.text \in Texts /\ r.text # 0
    BY <1>2, <2>1 DEF SaveUpdate, RouteOK, RouteRows
  <2>4. e \in Texts
    BY <2>2, <2>3, HistoryAssumption DEF Texts
  <2>5. rows' = SaveEncrypted(r.msg, r.text, e)
    BY <1>2, <2>1, <2>2 DEF SaveUpdate
  <2> QED BY <2>3, <2>4, <2>5, StoredKeeps DEF Advances
<1>3. ASSUME StoreNext PROVE Advances
  <2>1. ScanOK /\ scan.step = "store"
    BY <1>3 DEF HistInd, StoreNext
  <2>2. PICK r \in ScanRows : r = scan
    BY DEF HistInd
  <2>3. DOMAIN r.page # {} /\ r.page \in Pages
    BY <2>1, <2>2 DEF ScanOK, Scanning, ScanRows
  <2>4. DOMAIN r.page \subseteq Messages /\ \A m \in DOMAIN r.page : r.page[m] \in 1 .. MaxText
    BY <2>3, PageTexts
  <2>5. PICK m \in DOMAIN r.page : m = Max(DOMAIN r.page)
    BY <2>3, <2>4, GreatestMember
  <2>6. PICK t : t = r.page[m]
    OBVIOUS
  <2>7. m \in Messages /\ t \in Texts /\ t # 0 /\ 0 \in Texts
    BY <2>4, <2>6, HistoryAssumption DEF Texts
  <2>8. rows' = SaveEncrypted(m, t, 0)
    BY <1>3, <2>2, <2>5, <2>6 DEF StoreNext
  <2> QED BY <2>7, <2>8, StoredKeeps DEF Advances
<1>4. ASSUME NEW s \in Scouts, DeleteMessage(s) PROVE Advances
  <2>1. rows' = [rows EXCEPT ![routing[s].msg] = NoRow] /\ rows \in [Messages -> StoredRows]
    BY <1>4 DEF DeleteMessage, DeleteRow, HistInd
  <2>2. NoRow.text = 0
    BY DEF NoRow
  <2> QED BY <2>1, <2>2 DEF Advances
<1>5. CASE HistoryNext
  <2>1. ASSUME NEW s \in Scouts, RouterStep(s) PROVE Advances
    <3>1. CASE Receive(s) \/ CheckUpdate(s)
      BY <3>1, <1>1 DEF Receive, CheckUpdate, storeVars
    <3> QED BY <2>1, <3>1, <1>2, <1>4 DEF RouterStep
  <2>2. ASSUME ScanStep PROVE Advances
    <3>1. CASE \E s \in Scouts : BeginScan(s)
      BY <3>1, <1>1 DEF BeginScan, storeVars
    <3>2. CASE FetchPage \/ CollectNext \/ EndPage \/ SaveScoutCursor \/ EndCycle
      BY <3>2, <1>1 DEF FetchPage, CollectNext, EndPage, SaveScoutCursor, EndCycle, storeVars
    <3> QED BY <2>2, <3>1, <3>2, <1>3 DEF ScanStep
  <2>3. CASE Post \/ GrowOld \/ \E m \in Messages : EditPost(m) \/ DeletePost(m)
    BY <2>3, <1>1 DEF Post, GrowOld, EditPost, DeletePost, storeVars
  <2>4. CASE \E s \in Scouts : SaveUpdateFails(s) \/ LoseUpdates(s)
    BY <2>4, <1>1 DEF SaveUpdateFails, LoseUpdates, storeVars
  <2>5. CASE \E connected \in SUBSET Scouts \ {{}} : BeginCycle(connected)
    BY <2>5, <1>1 DEF BeginCycle, storeVars
  <2>6. CASE ScanFails \/ RestartCollection
    BY <2>6, <1>1 DEF ScanFails, RestartCollection, storeVars
  <2> QED BY <1>5, <2>1, <2>2, <2>3, <2>4, <2>5, <2>6 DEF HistoryNext
<1> QED BY <1>1, <1>5 DEF historyVars

\* A stored text is only ever replaced by a later edit, in whatever order pages
\* and updates arrive (the edit date that SaveEncrypted compares).
THEOREM EditsOnlyAdvance ==
    HistorySpec => EditsAdvance
<1>1. HistInd /\ [HistoryNext]_historyVars => [Advances]_historyVars
  BY AdvanceStep
<1>2. HistorySpec => [][Advances]_historyVars
  BY <1>1, HistIndInit, HistIndStep, PTL DEF HistorySpec
<1> QED BY <1>2 DEF EditsAdvance, Advances
============================================================================
