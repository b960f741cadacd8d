------------------------------ MODULE Imports ------------------------------
(***************************************************************************)
(* Importing a local file for analysis.  A call copies the file chunk by   *)
(* chunk into a snapshot of its own while someone may edit or replace it,  *)
(* compares the digest with the one it was given, parses the snapshot, has *)
(* it embedded batch by batch by a provider whose model can change, and    *)
(* saves the result once per digest.  A digest is the content it is of.    *)
(***************************************************************************)
EXTENDS Naturals, Sequences, FiniteSets, FiniteSetsExt, SequencesExt

CONSTANTS Importers,    \* concurrent calls of the desktop
          Lines,        \* what a line of a file can be
          BlankLine,    \* the line that holds no record
          BrokenLine,   \* the line no parser accepts
          Bodies,       \* contents a file begins with
          MaxFileLines, \* MaxFileBytes
          MaxUnique,    \* MaxUniqueRecords
          BatchSize,    \* EmbedBatchSize
          MaxEdits,     \* changes of the file
          MaxModels     \* models the provider ever serves

ASSUME ImportsAssumption ==
    /\ {BlankLine, BrokenLine} \subseteq Lines /\ Bodies \subseteq Seq(Lines)
    /\ {MaxFileLines, MaxUnique, BatchSize, MaxModels} \subseteq Nat \ {0} /\ MaxEdits \in Nat

VARIABLES
    volume,     \* the files, by identity: lines and modification time
    path,       \* the file the path names
    versions,   \* every content the path ever had
    engine,     \* the model the provider serves
    jobs,       \* what each call does
    temps,      \* the calls whose snapshot directory exists
    imports,    \* the imports table with its analysis run
    gateway     \* of the desktop's operations: open, closing, stopped

importVars == <<volume, path, versions, engine, jobs, temps, imports, gateway>>
outside == <<volume, path, versions, engine>>

-----------------------------------------------------------------------------
Files == 1 .. MaxEdits + 1
NoFile == [lines |-> <<>>, time |-> 0]
NoJob == [step |-> "none", want |-> <<>>, file |-> 0, size |-> 0, time |-> 0,
          copied |-> <<>>, left |-> 0, model |-> 0, used |-> {}]

ImportsInit ==
    /\ \E body \in Bodies :
          /\ volume = [f \in Files |-> IF f = 1 THEN [lines |-> body, time |-> 0] ELSE NoFile]
          /\ versions = {body}
    /\ path = 1 /\ engine = 1
    /\ jobs = [c \in Importers |-> NoJob] /\ temps = {}
    /\ imports = <<>> /\ gateway = "open"

Become(c, j) == jobs' = [jobs EXCEPT ![c] = j]
Proceed(c, step) == Become(c, [jobs[c] EXCEPT !.step = step])
\* The call returns; its snapshot goes with it.
GiveUp(c) == Become(c, NoJob) /\ temps' = temps \ {c}

-----------------------------------------------------------------------------
(* Someone at work on the file; the provider *)

Edited == Cardinality(versions) <= MaxEdits
EditInPlace(n, l) ==
    LET body == [volume[path].lines EXCEPT ![n] = l]
    IN  /\ Edited /\ n \in DOMAIN volume[path].lines /\ l # volume[path].lines[n]
        /\ body \notin versions
        /\ volume' = [volume EXCEPT ![path] = [lines |-> body, time |-> @.time + 1]]
        /\ versions' = versions \cup {body}
        /\ UNCHANGED <<path, engine, jobs, temps, imports, gateway>>

ReplaceFile(body) ==
    /\ Edited /\ path < MaxEdits + 1 /\ body \notin versions
    /\ path' = path + 1
    /\ volume' = [volume EXCEPT ![path + 1] = [lines |-> body, time |-> 0]]
    /\ versions' = versions \cup {body}
    /\ UNCHANGED <<engine, jobs, temps, imports, gateway>>

ServeModel ==
    /\ engine < MaxModels /\ engine' = engine + 1
    /\ UNCHANGED <<volume, path, versions, jobs, temps, imports, gateway>>

-----------------------------------------------------------------------------
(* The desktop's operations *)

\* beginOperation: refused once the operations are being stopped.
GateOpen == gateway = "open"

\* The digest in the request was computed from the file at some time before;
\* the call inspects the path first.
ImportAIFile(c, want) ==
    /\ GateOpen /\ jobs[c] = NoJob /\ want \in versions
    /\ Len(volume[path].lines) <= MaxFileLines
    /\ Become(c, [NoJob EXCEPT !.step = "open", !.want = want, !.file = path])
    /\ UNCHANGED <<outside, temps, imports, gateway>>

StopOperations ==
    /\ gateway = "open" /\ gateway' = "closing"
    /\ UNCHANGED <<outside, jobs, temps, imports>>

\* The wait group is at zero.
OperationsStopped ==
    /\ gateway = "closing" /\ \A c \in Importers : jobs[c] = NoJob
    /\ gateway' = "stopped"
    /\ UNCHANGED <<outside, jobs, temps, imports>>

\* The context is cancelled, or something of the call's own fails: a read, the
\* provider, the database.
ImportFails(c) ==
    /\ jobs[c] # NoJob
    /\ GiveUp(c)
    /\ UNCHANGED <<outside, imports, gateway>>

-----------------------------------------------------------------------------
(* snapshotLocalFile *)

OpenSource(c) ==
    /\ jobs[c].step = "open"
    /\ IF path # jobs[c].file THEN GiveUp(c)
       ELSE /\ Become(c, [jobs[c] EXCEPT !.step = "copy", !.size = Len(volume[path].lines),
                                         !.time = volume[path].time])
            /\ temps' = temps \cup {c}
    /\ UNCHANGED <<outside, imports, gateway>>

\* One chunk, of the file that was opened; the reader stops one past the limit.
CopyChunk(c) ==
    LET j == jobs[c]
        at == Len(j.copied) + 1
    IN  /\ j.step = "copy"
        /\ IF at <= Len(volume[j.file].lines) /\ at <= MaxFileLines + 1
           THEN Become(c, [j EXCEPT !.copied = Append(@, volume[j.file].lines[at])])
           ELSE Proceed(c, "recheck")
        /\ UNCHANGED <<outside, temps, imports, gateway>>

RecheckSource(c) ==
    LET j == jobs[c]
        same == /\ Len(volume[j.file].lines) = j.size /\ volume[j.file].time = j.time
                /\ Len(j.copied) = j.size
    IN  /\ j.step = "recheck"
        /\ IF same THEN Proceed(c, "repath") /\ UNCHANGED temps ELSE GiveUp(c)
        /\ UNCHANGED <<outside, imports, gateway>>

\* The path still names the file; the digest is the one that was asked for.
RecheckPath(c) ==
    LET j == jobs[c]
    IN  /\ j.step = "repath"
        /\ IF path = j.file /\ j.copied = j.want THEN Proceed(c, "find") /\ UNCHANGED temps
           ELSE GiveUp(c)
        /\ UNCHANGED <<outside, imports, gateway>>

-----------------------------------------------------------------------------
(* Parsing and ranking *)

\* The parsers hand one record after the other to the collector, which skips
\* blank ones, refuses a broken one, and counts how often each occurs.
Parsed(body) == {l \in ToSet(body) : l # BlankLine}
Frequency(body) == [l \in Parsed(body) |-> Cardinality({n \in DOMAIN body : body[n] = l})]
WellFormed(body) == BrokenLine \notin ToSet(body)
WithinLimits(body) == Cardinality(Parsed(body)) \in 1 .. MaxUnique

ReadFromPath(c) == volume[path].lines
\* What readRecords parses: the snapshot.
SourceOfRecords(c) == jobs[c].copied

FindBySHA256(c) ==
    LET known == \E i \in DOMAIN imports : imports[i].digest = jobs[c].copied
    IN  /\ jobs[c].step = "find"
        /\ IF known \/ ~WellFormed(SourceOfRecords(c)) \/ ~WithinLimits(SourceOfRecords(c)) THEN GiveUp(c)
           ELSE /\ Become(c, [jobs[c] EXCEPT !.step = "profile", !.left = Cardinality(Parsed(SourceOfRecords(c))),
                                             !.copied = Frequency(SourceOfRecords(c))])
                /\ UNCHANGED temps
        /\ UNCHANGED <<outside, imports, gateway>>

\* The examples of the profile come first: their model is the import's.
EmbedProfile(c) ==
    /\ jobs[c].step = "profile"
    /\ Become(c, [jobs[c] EXCEPT !.step = "embed", !.model = engine, !.used = {engine}])
    /\ UNCHANGED <<outside, temps, imports, gateway>>

SameModel(j) == engine = j.model

\* Batches of the records, until none is left.
EmbedBatch(c) ==
    LET j == jobs[c]
    IN  /\ j.step = "embed" /\ j.left > 0
        /\ IF SameModel(j)
           THEN /\ Become(c, [j EXCEPT !.left = @ - Min({@, BatchSize}), !.used = @ \cup {engine}])
                /\ UNCHANGED temps
           ELSE GiveUp(c)
        /\ UNCHANGED <<outside, imports, gateway>>

-----------------------------------------------------------------------------
(* ImportStore.Save *)

\* The digest is looked up again before the transaction begins.
FindAgain(c) ==
    LET known == \E i \in DOMAIN imports : imports[i].digest = jobs[c].want
    IN  /\ jobs[c].step = "embed" /\ jobs[c].left = 0
        /\ IF known THEN GiveUp(c) ELSE Proceed(c, "insert") /\ UNCHANGED temps
        /\ UNCHANGED <<outside, imports, gateway>>

\* imports.sha256 is unique: the second insertion fails and is rolled back.
UniqueDigest(c) == \A i \in DOMAIN imports : imports[i].digest # jobs[c].want

SaveImport(c) ==
    LET j == jobs[c]
    IN  /\ j.step = "insert"
        /\ imports' = IF UniqueDigest(c)
                      THEN Append(imports, [digest |-> j.want, records |-> j.copied,
                                            model |-> j.model, used |-> j.used])
                      ELSE imports
        /\ GiveUp(c)
        /\ UNCHANGED <<outside, gateway>>

-----------------------------------------------------------------------------
ImportStep(c) ==
    \/ OpenSource(c) \/ CopyChunk(c) \/ RecheckSource(c) \/ RecheckPath(c)
    \/ FindBySHA256(c) \/ EmbedProfile(c) \/ EmbedBatch(c) \/ FindAgain(c) \/ SaveImport(c)

ImportsNext ==
    \/ \E n \in 1 .. MaxFileLines + 1, l \in Lines : EditInPlace(n, l)
    \/ \E body \in Bodies : ReplaceFile(body)
    \/ ServeModel \/ StopOperations \/ OperationsStopped
    \/ \E c \in Importers : \/ \E want \in versions : ImportAIFile(c, want)
                            \/ ImportStep(c) \/ ImportFails(c)

ImportsSpec == ImportsInit /\ [][ImportsNext]_importVars

-----------------------------------------------------------------------------
(* Properties *)

ImportsTypeOK ==
    /\ path \in Files /\ engine \in 1 .. MaxModels /\ temps \subseteq Importers
    /\ gateway \in {"open", "closing", "stopped"}
    /\ \A i \in DOMAIN imports : ToSet(imports[i].digest) \subseteq Lines

OneImportPerDigest ==
    \A i, k \in DOMAIN imports : imports[i].digest = imports[k].digest => i = k

\* What is saved under a digest are the records of one content the file really
\* had, ranked by one model, whoever wrote to the file and whichever model the
\* provider came to serve during the call.
ImportIsWhole ==
    \A i \in DOMAIN imports :
        /\ imports[i].digest \in versions
        /\ imports[i].records = Frequency(imports[i].digest)
        /\ imports[i].used = {imports[i].model}

\* Once StopOperations returned no call is under way, none begins, and no
\* snapshot of a file is left.
NothingAfterStop == gateway = "stopped" => temps = {} /\ \A c \in Importers : jobs[c] = NoJob

\* Everything about one state of the imports: types, calls that both found no
\* import of a digest do not both save one, stopping is complete, and what is
\* saved is whole.
ImportsInv ==
    /\ ImportsTypeOK /\ OneImportPerDigest /\ NothingAfterStop
    /\ ImportIsWhole

============================================================================
