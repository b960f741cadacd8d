------------------------------- MODULE Backup -------------------------------
(***************************************************************************)
(* Encrypted backups: the manager that creates, verifies, publishes and    *)
(* rotates archives, the daily runner, the user's own backups,             *)
(* and the start of the program, which upgrades the database only behind a *)
(* verified backup.  Several creators work at the same time; Telegram      *)
(* clients write session files under the barrier the snapshot takes.  The  *)
(* contents of an archive are the schema of its database and the versions  *)
(* of its session files; encryption and the tar format come down to an     *)
(* archive that verifies or does not.                                      *)
(***************************************************************************)
EXTENDS Naturals, FiniteSets

CONSTANTS SessionFiles,    \* the session files of the accounts
          Askers,         \* goroutines of CreateBackup
          Ids,             \* random identifiers of archives
          MaxSchema,       \* the schema the program migrates to
          MaxWrites,       \* writes of one session file
          MaxNow,          \* the clock
          MaxTroubles,     \* failures, kills and archives that go bad
          DailyRetention, MonthlyRetention

ASSUME BackupAssumption ==
    /\ IsFiniteSet(SessionFiles) /\ IsFiniteSet(Askers) /\ IsFiniteSet(Ids)
    /\ {MaxSchema, MaxWrites, MaxNow, MaxTroubles} \subseteq Nat
    /\ {DailyRetention, MonthlyRetention} \subseteq Nat \ {0}
    /\ {"startup", "runner", "free"} \cap Askers = {} /\ Ids \subseteq Nat \ {0}

Creators == Askers \cup {"startup", "runner"}
Kinds == {"daily", "monthly", "premigration"}

VARIABLES
    schema,      \* the schema of the live database
    session,     \* the version of every session file
    gate,        \* who holds the session barrier
    archive,     \* every archive, from the creation of its identifier on
    creator,     \* per creator: Create step by step
    program,     \* what the start-up has come to
    upgraded,    \* the schemas from which an upgrade began
    now,         \* the wall clock
    trouble      \* failures, kills and archives that went bad so far

backupVars == <<schema, session, gate, archive, creator, program, upgraded,
                now, trouble>>

-----------------------------------------------------------------------------
Versions == [SessionFiles -> 0 .. MaxWrites]
\* id order breaks ties of the creation time, as the names of archives do.
Archives == [state : {"unused", "temp", "disk", "gone"}, kind : Kinds, at : 0 .. MaxNow,
             schema : 0 .. MaxSchema, health : {"good", "damaged", "spoilt"}]
CreateSteps == {"rest", "database", "barrier", "sessions", "seal", "verify", "publish",
                "list", "sort", "rotate"}
\* copied holds the session files a snapshot has, with their versions.
CreatorRows == [step : CreateSteps, id : Ids \cup {0},
                copied : SUBSET (SessionFiles \X (0 .. MaxWrites)),
                view : SUBSET Ids, next : BOOLEAN]
Resting == [step |-> "rest", id |-> 0, copied |-> {}, view |-> {}, next |-> FALSE]
Unused == [state |-> "unused", kind |-> "daily", at |-> 0, schema |-> 0, health |-> "good"]
Gone == [Unused EXCEPT !.state = "gone"]

BackupInit ==
    /\ schema \in 0 .. MaxSchema
    /\ session = [f \in SessionFiles |-> 0]
    /\ gate = "free"
    /\ archive = [i \in Ids |-> Unused]
    /\ creator = [c \in Creators |-> Resting]
    /\ program = "closed"
    /\ upgraded = {}
    /\ now = 0
    /\ trouble = 0

Trouble == trouble < MaxTroubles /\ trouble' = trouble + 1
OnDisk(kind) == {i \in Ids : archive[i].state = "disk" /\ archive[i].kind = kind}
Step(c, step) == creator' = [creator EXCEPT ![c].step = step]

-----------------------------------------------------------------------------
(* BackupManager.Create *)

\* The archive gets a fresh identifier and the time at which its creation
\* began.  Identifiers are random in the code; here they count.
BeginCreate(c, kind) ==
    /\ creator[c].step = "rest"
    /\ \E i \in Ids :
        /\ archive[i].state = "unused"
        /\ \A j \in Ids : archive[j].state = "unused" => i <= j
        /\ archive' = [archive EXCEPT ![i].state = "temp", ![i].kind = kind, ![i].at = now]
        /\ creator' = [creator EXCEPT ![c] = [Resting EXCEPT !.step = "database", !.id = i]]

\* onlineDatabaseBackup and the snapshot of the application state: SQLite
\* copies one state of the database.
CopyDatabase(c) ==
    /\ creator[c].step = "database"
    /\ archive' = [archive EXCEPT ![creator[c].id].schema = schema]
    /\ Step(c, "barrier")
    /\ UNCHANGED <<schema, session, gate, program, upgraded, now, trouble>>

\* AcquireRead.
TakeBarrier(c) ==
    /\ creator[c].step = "barrier" /\ gate = "free"
    /\ gate' = c /\ Step(c, "sessions")
    /\ UNCHANGED <<schema, session, archive, program, upgraded, now, trouble>>

\* snapshotSessions copies one file after the other and then lets go.
CopySession(c) ==
    /\ creator[c].step = "sessions"
    /\ \/ \E f \in SessionFiles :
            /\ \A p \in creator[c].copied : p[1] # f
            /\ creator' = [creator EXCEPT ![c].copied = @ \cup {<<f, session[f]>>}]
            /\ UNCHANGED gate
       \/ /\ Cardinality(creator[c].copied) = Cardinality(SessionFiles)
          /\ creator' = [creator EXCEPT ![c].step = "seal", ![c].copied = {}]
          /\ gate' = "free"
    /\ UNCHANGED <<schema, session, archive, program, upgraded, now, trouble>>

\* Manifest, tar and encryption into a hidden file; the disk may damage it.
SealArchive(c) ==
    /\ creator[c].step = "seal"
    /\ Step(c, "verify")
    /\ \/ UNCHANGED <<archive, trouble>>
       \/ Trouble /\ archive' = [archive EXCEPT ![creator[c].id].health = "damaged"]
    /\ UNCHANGED <<schema, session, gate, program, upgraded, now>>

\* Decryption, extraction, hashes, integrity and schema of the copy.
verifyArchive(i) == archive[i].health = "good"

\* A creation that fails removes its hidden files and reports an error; the
\* start of the program fails with it, a scheduled run skips the monthly one.
FailCreate(c) ==
    /\ archive' = [archive EXCEPT ![creator[c].id] = Gone]
    /\ creator' = [creator EXCEPT ![c] = Resting]
    /\ gate' = IF gate = c THEN "free" ELSE gate
    /\ program' = IF c = "startup" THEN "closed" ELSE program

VerifyCreated(c) ==
    /\ creator[c].step = "verify"
    /\ IF verifyArchive(creator[c].id)
       THEN Step(c, "publish") /\ UNCHANGED <<archive, gate, program>>
       ELSE FailCreate(c)
    /\ UNCHANGED <<schema, session, upgraded, now, trouble>>

\* A rename that replaces nothing, and a sync of the directory.
PublishArchive(c) ==
    /\ creator[c].step = "publish"
    /\ archive' = [archive EXCEPT ![creator[c].id].state = "disk"]
    /\ Step(c, "list")
    /\ UNCHANGED <<schema, session, gate, program, upgraded, now, trouble>>

\* Any step up to the sync of the directory may fail or meet a cancelled
\* context.
CreateFails(c) ==
    /\ creator[c].step \in {"database", "barrier", "sessions", "seal", "verify", "publish"}
    /\ Trouble /\ FailCreate(c)
    /\ UNCHANGED <<schema, session, upgraded, now>>

\* Create returned.  Startup may upgrade now, the runner may go on with the
\* monthly archive, the user has the answer.
Created(c) ==
    /\ creator' = [creator EXCEPT ![c] = [Resting EXCEPT !.next = (c = "runner" /\
                      archive[creator[c].id].kind = "daily")]]
    /\ program' = IF c = "startup" THEN "backed" ELSE program

\* rotate lists the directory ...
ListArchives(c) ==
    LET kind == archive[creator[c].id].kind
    IN /\ creator[c].step = "list"
       /\ IF kind = "premigration"
          THEN Created(c)
          ELSE /\ creator' = [creator EXCEPT ![c].step = "sort", ![c].view = OnDisk(kind)]
               /\ UNCHANGED program
       /\ UNCHANGED <<schema, session, gate, archive, upgraded, now, trouble>>

Newer(i, j) == archive[i].at > archive[j].at \/ (archive[i].at = archive[j].at /\ i > j)
Retention(kind) == IF kind = "daily" THEN DailyRetention ELSE MonthlyRetention

\* Mutant: every archive of the kind counts, readable or not.
ObsoleteOfAll(view, kind) ==
    {i \in view : Cardinality({j \in view : Newer(j, i)}) >= Retention(kind)}

\* ... and of those it can verify, the newest stay.
Obsolete(view, kind) ==
    LET verified == {i \in view : archive[i].state = "disk" /\ verifyArchive(i)}
    IN {i \in verified : Cardinality({j \in verified : Newer(j, i)}) >= Retention(kind)}

SortArchives(c) ==
    /\ creator[c].step = "sort"
    /\ creator' = [creator EXCEPT ![c].step = "rotate",
                       ![c].view = Obsolete(@, archive[creator[c].id].kind)]
    /\ UNCHANGED <<schema, session, gate, archive, program, upgraded, now, trouble>>

\* The newest of the obsolete goes first.  One that another rotation removed
\* ends the rotation with an error: the archive stays, but a scheduled run
\* does not go on to the monthly one.
RemoveObsolete(c) ==
    /\ creator[c].step = "rotate"
    /\ \/ /\ creator[c].view = {}
          /\ Created(c) /\ UNCHANGED archive
       \/ \E i \in creator[c].view :
            /\ \A j \in creator[c].view : ~Newer(j, i)
            /\ IF archive[i].state = "disk"
               THEN /\ archive' = [archive EXCEPT ![i] = [Gone EXCEPT !.kind = archive[i].kind]]
                    /\ creator' = [creator EXCEPT ![c].view = @ \ {i}]
               ELSE /\ creator' = [creator EXCEPT ![c] = Resting]
                    /\ UNCHANGED archive
            /\ UNCHANGED program
    /\ UNCHANGED <<schema, session, gate, upgraded, now, trouble>>

\* The directory cannot be read, an archive not be removed, or the sync fails:
\* Create returns an error although its archive is published, and a scheduled
\* run skips the monthly one.  A history that cannot be saved would end it the
\* same way, but the program configures none.
RotationFails(c) ==
    /\ creator[c].step \in {"list", "sort", "rotate"}
    /\ archive[creator[c].id].kind # "premigration"
    /\ Trouble
    /\ creator' = [creator EXCEPT ![c] = Resting]
    /\ UNCHANGED <<schema, session, gate, archive, program, upgraded, now>>

-----------------------------------------------------------------------------
(* Who creates archives *)

\* CreateBackup of the window, for any kind.
CreateBackup(c) ==
    /\ program = "open" /\ \E kind \in Kinds : BeginCreate(c, kind)
    /\ UNCHANGED <<schema, session, gate, program, upgraded, now, trouble>>

\* BackupRunner.Run at three in the morning: first the daily archive.
RunScheduled ==
    /\ program = "open" /\ ~creator["runner"].next
    /\ BeginCreate("runner", "daily")
    /\ UNCHANGED <<schema, session, gate, program, upgraded, now, trouble>>

\* A month is one tick of the clock.
HasVerifiedMonthly == \E i \in OnDisk("monthly") : verifyArchive(i) /\ archive[i].at = now

\* After a daily archive that succeeded: the monthly one, if there is none.
RunMonthly ==
    /\ creator["runner"].next /\ creator["runner"].step = "rest"
    /\ IF HasVerifiedMonthly
       THEN creator' = [creator EXCEPT !["runner"].next = FALSE] /\ UNCHANGED archive
       ELSE BeginCreate("runner", "monthly")
    /\ UNCHANGED <<schema, session, gate, program, upgraded, now, trouble>>

\* openProductionDatabase, MigrateWithBackup: a database that was migrated
\* before is backed up first; a fresh one is not.
OpenDatabase ==
    /\ program = "closed"
    /\ IF schema = MaxSchema
       THEN program' = "open" /\ UNCHANGED <<archive, creator>>
       ELSE IF schema = 0
            THEN program' = "backed" /\ UNCHANGED <<archive, creator>>
            ELSE BeginCreate("startup", "premigration") /\ program' = "backing"
    /\ UNCHANGED <<schema, session, gate, upgraded, now, trouble>>

\* Mutant: the upgrade does not wait for the backup.
UpgradeAtOnce ==
    /\ program \in {"backing", "backed", "upgrading"} /\ schema < MaxSchema
    /\ schema' = schema + 1
    /\ upgraded' = IF program # "upgrading" THEN upgraded \cup {schema} ELSE upgraded
    /\ program' = IF schema' = MaxSchema THEN "open" ELSE "upgrading"
    /\ UNCHANGED <<session, gate, archive, creator, now, trouble>>

\* provider.Up applies one migration after the other.
ApplyMigration ==
    /\ program \in {"backed", "upgrading"}
    /\ schema' = schema + 1
    /\ upgraded' = IF program = "backed" THEN upgraded \cup {schema} ELSE upgraded
    /\ program' = IF schema' = MaxSchema THEN "open" ELSE "upgrading"
    /\ UNCHANGED <<session, gate, archive, creator, now, trouble>>

-----------------------------------------------------------------------------
(* Everyone else *)

\* barrierSessionStorage.StoreSession takes and returns the barrier.
StoreSession(f) ==
    /\ program = "open" /\ gate = "free" /\ \A g \in SessionFiles : session[g] < MaxWrites
    /\ session' = [session EXCEPT ![f] = @ + 1]
    /\ UNCHANGED <<schema, gate, archive, creator, program, upgraded, now, trouble>>

\* The process dies.  Hidden files stay and are never looked at again.
KillProgram ==
    /\ program # "closed" /\ Trouble
    /\ program' = "closed" /\ gate' = "free"
    /\ creator' = [c \in Creators |-> Resting]
    /\ archive' = [i \in Ids |-> IF archive[i].state = "temp" THEN Gone ELSE archive[i]]
    /\ UNCHANGED <<schema, session, upgraded, now>>

\* An archive goes bad on the disk, not in the middle of a rotation.
SpoilArchive ==
    /\ Trouble
    /\ \A c \in Creators : creator[c].step # "rotate"
    /\ \E i \in Ids : /\ archive[i].state = "disk" /\ verifyArchive(i)
                      /\ archive' = [archive EXCEPT ![i].health = "spoilt"]
    /\ UNCHANGED <<schema, session, gate, creator, program, upgraded, now>>

\* The clock, which a user may also set back.
MoveClock ==
    /\ now' \in 0 .. MaxNow /\ now' # now
    /\ UNCHANGED <<schema, session, gate, archive, creator, program, upgraded, trouble>>

CreateStep(c) ==
    \/ CopyDatabase(c) \/ TakeBarrier(c) \/ CopySession(c) \/ SealArchive(c)
    \/ VerifyCreated(c) \/ PublishArchive(c) \/ CreateFails(c)
    \/ ListArchives(c) \/ SortArchives(c) \/ RemoveObsolete(c) \/ RotationFails(c)

BackupNext ==
    \/ \E c \in Creators : CreateStep(c)
    \/ \E c \in Askers : CreateBackup(c)
    \/ RunScheduled \/ RunMonthly \/ OpenDatabase \/ ApplyMigration
    \/ \E f \in SessionFiles : StoreSession(f)
    \/ KillProgram \/ SpoilArchive \/ MoveClock

BackupSpec == BackupInit /\ [][BackupNext]_backupVars

-----------------------------------------------------------------------------
(* Properties *)

BackupTypeOK ==
    /\ schema \in 0 .. MaxSchema /\ session \in Versions
    /\ gate \in Creators \cup {"free"}
    /\ archive \in [Ids -> Archives] /\ creator \in [Creators -> CreatorRows]
    /\ program \in {"closed", "backing", "backed", "upgrading", "open"}
    /\ upgraded \subseteq 0 .. MaxSchema
    /\ now \in 0 .. MaxNow /\ trouble \in 0 .. MaxTroubles

\* What the barrier is for: while a snapshot holds it, every session file it has
\* copied is still what it was, so the copies existed together at one moment.
SnapshotIsOneMoment ==
    \A c \in Creators : creator[c].step = "sessions" =>
        /\ gate = c
        /\ \A p \in creator[c].copied : p[2] = session[p[1]]

\* RequirePreMigrationBackup is the gate of every upgrade: whatever failed,
\* was killed or went wrong before, a database that was upgraded from a
\* migrated schema has a published backup with that schema.
UpgradeHasBackup ==
    \A v \in upgraded \ {0} :
        \E i \in OnDisk("premigration") : archive[i].schema = v

\* Everything about one state of the backups: types, the barrier, an archive
\* under its hidden name is the work of a creator, nothing that never verified
\* is published under an archive's name, and no upgrade without its backup.
BackupInv ==
    /\ BackupTypeOK /\ SnapshotIsOneMoment /\ UpgradeHasBackup
    /\ \A i \in Ids : archive[i].state = "temp" <=>
         \E c \in Creators : creator[c].id = i /\ creator[c].step \notin {"list", "sort", "rotate"}
    /\ \A i \in Ids : archive[i].state = "disk" => archive[i].health # "damaged"

\* Rotation removes an archive only while as many newer ones of its kind as are
\* to be kept are on the disk and readable, although other rotations work from
\* listings of their own at the same time.
RotationKeepsNewest ==
    [][\A c \in Creators, i \in Ids :
        (creator[c].step = "rotate" /\ creator[c] # creator'[c] /\
         archive[i].state = "disk" /\ archive'[i].state = "gone" /\ program' # "closed") =>
            Cardinality({j \in OnDisk(archive[i].kind) :
                             verifyArchive(j) /\ Newer(j, i) /\ archive'[j].state = "disk"})
                >= Retention(archive[i].kind)]_backupVars

=============================================================================
