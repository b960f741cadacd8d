-------------------------------- MODULE Seed --------------------------------
(***************************************************************************)
(* The first-launch seed of a public build.  Every launch of the program   *)
(* inspects the profile directory and, when nothing but a pristine profile *)
(* is there, installs the bundled state: the operational secrets first,    *)
(* then the data directory, then the marker.  One action is one rename,    *)
(* one write of a secret, one inspection, or what happens between two of   *)
(* them without touching anything shared.  A data directory is a tree with *)
(* an identity; its contents are a version, whether it holds anything worth*)
(* keeping, and whether a running program has its database open.           *)
(***************************************************************************)
EXTENDS Naturals, Sequences, FiniteSets

CONSTANTS Launches,        \* processes of the program
          SecretNames,     \* the operational secrets
          MaxIntrusions,       \* changes by programs that know nothing of the lock
          MaxFaults,       \* renames and secret writes that fail
          MaxKills         \* processes that die in the middle

ASSUME SeedAssumption ==
    /\ IsFiniteSet(Launches) /\ IsFiniteSet(SecretNames)
    /\ {MaxIntrusions, MaxFaults, MaxKills} \subseteq Nat
    /\ "none" \notin Launches

VARIABLES
    tree,        \* every data directory: version, used, open
    target,      \* the profile root: data, marker, whatever else is in it
    staging,     \* per launch: its staging directory
    secret,      \* the secrets in the keyring
    launch,      \* per launch: what its goroutine does and remembers
    seedLock,    \* the launch that holds the file lock
    exposed,     \* trees that were reachable as the profile's data
    deleted,     \* trees that were removed from the disk
    stuck,       \* a rename that should undo an installation failed
    spent        \* writes, faults and kills so far

seedVars == <<tree, target, staging, secret, launch, seedLock, exposed,
              deleted, stuck, spent>>

-----------------------------------------------------------------------------
NoTree == <<"no", "none">>
OldTree == <<"old", "none">>
LateTree == <<"late", "none">>
SeedTree(l) == <<"seed", l>>
Trees == {OldTree, LateTree} \cup {SeedTree(l) : l \in Launches}

Contents == [ver : 0 .. MaxIntrusions, used : BOOLEAN, open : BOOLEAN]
Extras == {"nothing", "proxy", "unknown"}
Roots == [data : Trees \cup {NoTree}, marker : {"none", "good", "bad"},
          extra : Extras]

\* A staging directory: the data it holds, its marker, and whether it stays.
Stages == [data : Trees \cup {NoTree}, marker : BOOLEAN, keep : BOOLEAN]
NoStage == [data |-> NoTree, marker |-> FALSE, keep |-> FALSE]

LaunchSteps == {"out", "waiting", "scanning", "staging", "secrets", "observe", "publish",
                "verify", "marker", "validate", "unmark", "restore", "undo",
                "workspace", "recovery", "ended"}
\* seen is the fingerprint of what was at the target when it was observed.
LaunchRows == [step : LaunchSteps, prior : [SecretNames -> {"none", "app", "seed"}],
               todo : SUBSET SecretNames, seen : (Trees \X (0 .. MaxIntrusions)) \cup {<<>>}]
Installing == LaunchSteps \ {"out", "waiting", "workspace", "recovery", "ended"}
NotLaunched == [step |-> "out", prior |-> [n \in SecretNames |-> "none"],
                todo |-> {}, seen |-> <<>>]

SeedInit ==
    /\ tree = [t \in Trees |-> [ver |-> 0, used |-> t \notin {OldTree, LateTree},
                                open |-> FALSE]]
    /\ target \in [data : {NoTree, OldTree}, marker : {"none"}, extra : {"nothing"}]
    /\ staging = [l \in Launches |-> NoStage]
    /\ secret = [n \in SecretNames |-> "none"]
    /\ launch = [l \in Launches |-> NotLaunched]
    /\ seedLock = "none"
    /\ exposed = {target.data} \ {NoTree}
    /\ deleted = {}
    /\ stuck = FALSE
    /\ spent = [writes |-> 0, faults |-> 0, kills |-> 0]

-----------------------------------------------------------------------------
(* Inspection of the profile *)

\* A sidecar of the database makes the tree ambiguous; anything in it beyond
\* the defaults of the migrations makes it a profile.
inspectFirstLaunchData(t) ==
    IF tree[t].open THEN "blocked" ELSE IF tree[t].used THEN "existing" ELSE "requires"

inspectFirstLaunchTarget(allowRuntimeOwned) ==
    LET data == IF target.data = NoTree THEN "requires"
                ELSE inspectFirstLaunchData(target.data)
    IN IF \/ target.extra = "unknown" \/ target.marker = "bad" \/ data = "blocked"
          \/ data # "existing" /\ target.marker = "good"
          \/ data # "existing" /\ target.extra = "proxy" /\ ~allowRuntimeOwned
       THEN "blocked" ELSE data

\* After the marker is there, only what the installation itself wrote and
\* what was allowed before may be in the root.
inspectFirstLaunchPublishedTarget ==
    target.extra = "nothing" /\ target.data # NoTree /\ target.marker # "none"

Fingerprint(t) == <<t, tree[t].ver>>

-----------------------------------------------------------------------------
(* Steps of a launch *)

Reach(l, step) == launch' = [launch EXCEPT ![l].step = step]
DiskUnchanged == UNCHANGED <<tree, target, staging, exposed, deleted, stuck>>
MayFail == spent.faults < MaxFaults
CountFault == spent' = [spent EXCEPT !.faults = @ + 1]

\* importBundledDesktopState: what the profile looks like decides.  A grant, a
\* bundle or a configuration that is missing ends in recovery.
importBundledDesktopState(l, emptyBuild) ==
    LET state == inspectFirstLaunchTarget(emptyBuild)
    IN /\ launch[l].step = "out"
       /\ \/ /\ state = "existing" \/ (state = "requires" /\ emptyBuild)
             /\ Reach(l, "workspace")
             /\ secret' = [n \in SecretNames |->
                              IF secret[n] = "none" THEN "app" ELSE secret[n]]
             /\ LET t == IF target.data = NoTree THEN LateTree ELSE target.data
                IN /\ target' = [target EXCEPT !.data = t]
                   /\ tree' = [tree EXCEPT ![t].open = TRUE]
                   /\ exposed' = exposed \cup {t}
             /\ UNCHANGED <<staging, deleted, stuck>>
          \/ /\ state = "blocked" \/ (state = "requires" /\ ~emptyBuild)
             /\ Reach(l, "recovery")
             /\ UNCHANGED secret /\ DiskUnchanged
          \/ /\ state = "requires" /\ ~emptyBuild
             /\ Reach(l, "waiting")
             /\ UNCHANGED secret /\ DiskUnchanged
       /\ UNCHANGED <<seedLock, spent>>

\* The end of ImportFirstLaunchSeed: the staging directory goes unless it has
\* to be kept, and so does the lock.
Leave(l, step) ==
    /\ launch' = [launch EXCEPT ![l] = [NotLaunched EXCEPT !.step = step]]
    /\ seedLock' = "none"
    /\ staging' = [staging EXCEPT ![l] = IF @.keep THEN @ ELSE NoStage]
    /\ deleted' = deleted \cup
         (IF staging[l].keep THEN {} ELSE {staging[l].data} \ {NoTree})

\* TryLockContext, then FirstLaunchSeedRequired under the lock.
TakeSeedLock(l) ==
    /\ launch[l].step = "waiting" /\ seedLock = "none"
    /\ IF inspectFirstLaunchTarget(FALSE) = "requires"
       THEN seedLock' = l /\ Reach(l, "scanning")
       ELSE Reach(l, "recovery") /\ UNCHANGED seedLock
    /\ UNCHANGED <<secret, spent>> /\ DiskUnchanged

\* The first scan of the bundle, which writes nothing: an archive that cannot be
\* decrypted, is too large, has unsafe names, no manifest or no database, another
\* version or too little space for it ends the import.
ScanBundle(l) ==
    /\ launch[l].step = "scanning"
    /\ \/ Reach(l, "staging") /\ UNCHANGED <<staging, seedLock, deleted>>
       \/ Leave(l, "recovery")
    /\ UNCHANGED <<tree, target, secret, exposed, stuck, spent>>

\* The second scan extracts into the staging directory, which nobody else sees,
\* and must see the same bundle; then the data gets its place next to a marker.
StageSeed(l) ==
    /\ launch[l].step = "staging"
    /\ \/ /\ staging' = [staging EXCEPT ![l] = [data |-> SeedTree(l),
                                                marker |-> TRUE, keep |-> FALSE]]
          /\ launch' = [launch EXCEPT ![l].step = "secrets", ![l].prior = secret,
                                      ![l].todo = SecretNames]
          /\ UNCHANGED <<seedLock, deleted, spent>>
       \/ /\ MayFail /\ CountFault
          /\ Leave(l, "recovery")
    /\ UNCHANGED <<tree, target, secret, exposed, stuck>>

\* SetBatch writes one secret after the other; a failed write undoes all.
SetSecret(l) ==
    /\ launch[l].step = "secrets"
    /\ \/ /\ launch[l].todo = {}
          /\ Reach(l, "observe") /\ UNCHANGED <<secret, spent>>
       \/ \E n \in launch[l].todo :
            \/ /\ secret' = [secret EXCEPT ![n] = "seed"]
               /\ launch' = [launch EXCEPT ![l].todo = @ \ {n}]
               /\ UNCHANGED spent
            \/ /\ MayFail /\ CountFault
               /\ launch' = [launch EXCEPT ![l].step = "undo", ![l].todo = SecretNames]
               /\ UNCHANGED secret
    /\ UNCHANGED seedLock /\ DiskUnchanged

\* Mutant: a failed write of one secret leaves the others as they are.
SecretsStayOnFailure(l) ==
    /\ launch[l].step = "undo"
    /\ Leave(l, "recovery")
    /\ UNCHANGED <<tree, target, secret, exposed, stuck, spent>>

\* SetBatch's rollback: every secret gets its prior value, then the import
\* returns its error.  One that cannot be written is left as it is.
UndoSecret(l) ==
    /\ launch[l].step = "undo"
    /\ \/ /\ launch[l].todo = {}
          /\ Leave(l, "recovery")
          /\ UNCHANGED <<secret, stuck, spent>>
       \/ \E n \in launch[l].todo :
            /\ launch' = [launch EXCEPT ![l].todo = @ \ {n}]
            /\ \/ secret' = [secret EXCEPT ![n] = launch[l].prior[n]] /\ UNCHANGED <<stuck, spent>>
               \/ MayFail /\ CountFault /\ stuck' = TRUE /\ UNCHANGED secret
            /\ UNCHANGED <<seedLock, staging, deleted>>
    /\ UNCHANGED <<tree, target, exposed>>

StartUndo(l) == launch' = [launch EXCEPT ![l].step = "undo", ![l].todo = SecretNames]

\* observeFirstLaunchSeedTarget, the first thing the commit does.
observeFirstLaunchSeedTarget(l) ==
    /\ launch[l].step = "observe"
    /\ IF inspectFirstLaunchTarget(FALSE) # "requires"
       THEN StartUndo(l)
       ELSE launch' = [launch EXCEPT ![l].step = "publish", ![l].seen =
                          IF target.data = NoTree THEN <<>> ELSE Fingerprint(target.data)]
    /\ UNCHANGED <<secret, seedLock, spent>> /\ DiskUnchanged

\* Swap the staged data with what is at the target: an exchange of two names,
\* or a rename that replaces nothing.  With nothing to exchange, with something
\* in the way, or with an error of the disk, nothing happens.
CanSwap(l, exchange) ==
    exchange = (target.data # NoTree /\ staging[l].data # NoTree)
TreeSwapped(l) ==
    /\ target' = [target EXCEPT !.data = staging[l].data]
    /\ staging' = [staging EXCEPT ![l].data = target.data]
    /\ exposed' = exposed \cup ({staging[l].data} \ {NoTree})

\* installFirstLaunchSeedData up to the first change of the target.
PublishData(l) ==
    /\ launch[l].step = "publish"
    /\ \/ /\ CanSwap(l, launch[l].seen # <<>>)
          /\ TreeSwapped(l)
          /\ Reach(l, IF launch[l].seen = <<>> THEN "marker" ELSE "verify")
          /\ UNCHANGED spent
       \/ /\ \/ ~CanSwap(l, launch[l].seen # <<>>) /\ UNCHANGED spent
             \/ MayFail /\ CountFault
          /\ StartUndo(l)
          /\ UNCHANGED <<target, staging, exposed>>
    /\ UNCHANGED <<tree, secret, seedLock, deleted, stuck>>

\* The rename that takes an installation back.  Whatever was reachable at the
\* target is kept, even when the rename fails.
TakeBack(l, exchange) ==
    /\ \/ /\ CanSwap(l, exchange) /\ UNCHANGED <<stuck, spent>>
          /\ target' = [target EXCEPT !.data = staging[l].data]
          /\ staging' = [staging EXCEPT ![l].data = target.data, ![l].keep = TRUE]
          /\ exposed' = exposed \cup ({staging[l].data} \ {NoTree})
       \/ /\ \/ ~CanSwap(l, exchange) /\ UNCHANGED spent
             \/ MayFail /\ CountFault
          /\ staging' = [staging EXCEPT ![l].keep = TRUE]
          /\ stuck' = TRUE /\ UNCHANGED <<target, exposed>>
    /\ StartUndo(l)
    /\ UNCHANGED <<tree, secret, seedLock, deleted>>

\* The tree that came back must be the one observed, unchanged and pristine.
Displaced(l) ==
    /\ Fingerprint(staging[l].data) = launch[l].seen
    /\ inspectFirstLaunchData(staging[l].data) = "requires"

VerifyDisplaced(l) ==
    /\ launch[l].step = "verify"
    /\ IF Displaced(l)
       THEN Reach(l, "marker") /\ UNCHANGED <<tree, target, staging, secret, seedLock,
                                           exposed, deleted, stuck, spent>>
       ELSE TakeBack(l, TRUE)

\* The marker is renamed into place where there is none.
PublishMarker(l) ==
    /\ launch[l].step = "marker"
    /\ \/ /\ target.marker = "none"
          /\ target' = [target EXCEPT !.marker = "good"]
          /\ staging' = [staging EXCEPT ![l].marker = FALSE]
          /\ Reach(l, "validate") /\ UNCHANGED spent
       \/ /\ \/ target.marker # "none" /\ UNCHANGED spent
             \/ MayFail /\ CountFault
          /\ Reach(l, "restore") /\ UNCHANGED <<target, staging>>
    /\ UNCHANGED <<tree, secret, seedLock, exposed, deleted, stuck>>

\* The last look: everything published is what was staged.  With a displaced
\* tree the staging directory stays as its quarantine.
TreePublished(l) ==
    /\ inspectFirstLaunchPublishedTarget /\ target.marker = "good"
    /\ Fingerprint(target.data) = <<SeedTree(l), 0>>

FinishSeed(l) ==
    /\ launch[l].step = "validate" /\ TreePublished(l)
    /\ launch' = [launch EXCEPT ![l] = [NotLaunched EXCEPT !.step = "workspace"]]
    /\ seedLock' = "none"
    /\ staging' = [staging EXCEPT ![l] =
                      IF launch[l].seen = <<>> THEN NoStage ELSE [@ EXCEPT !.keep = TRUE]]
    /\ deleted' = deleted \cup
         (IF launch[l].seen = <<>> THEN {staging[l].data} \ {NoTree} ELSE {})
    /\ tree' = [tree EXCEPT ![target.data].open = TRUE]
    /\ UNCHANGED <<target, secret, exposed, stuck, spent>>

RefusePublished(l) ==
    /\ launch[l].step = "validate" /\ ~TreePublished(l)
    /\ Reach(l, "unmark")
    /\ UNCHANGED <<secret, seedLock, spent>> /\ DiskUnchanged

\* Mutant: the rollback forgets the marker.
MarkerStays(l) ==
    /\ launch[l].step = "unmark"
    /\ Reach(l, "restore")
    /\ UNCHANGED <<secret, seedLock, spent>> /\ DiskUnchanged

\* rollbackFirstLaunchPublishedState: first the marker, then the data.
TakeMarkerBack(l) ==
    /\ launch[l].step = "unmark"
    /\ Reach(l, "restore")
    /\ \/ /\ target' = [target EXCEPT !.marker = "none"]
          /\ staging' = [staging EXCEPT ![l].marker = TRUE]
          /\ UNCHANGED <<stuck, spent>>
       \/ /\ MayFail /\ CountFault /\ stuck' = TRUE
          /\ UNCHANGED <<target, staging>>
    /\ UNCHANGED <<tree, secret, seedLock, exposed, deleted>>

RestoreData(l) == launch[l].step = "restore" /\ TakeBack(l, launch[l].seen # <<>>)

-----------------------------------------------------------------------------
(* Everyone else *)

\* A process dies.  Its lock goes with it, its staging directory stays.
KillLaunch(l) ==
    /\ launch[l].step \notin {"out", "recovery", "ended"} /\ spent.kills < MaxKills
    /\ launch' = [launch EXCEPT ![l] = [NotLaunched EXCEPT !.step = "ended"]]
    /\ seedLock' = IF seedLock = l THEN "none" ELSE seedLock
    /\ spent' = [spent EXCEPT !.kills = @ + 1]
    /\ staging' = [staging EXCEPT ![l].keep = TRUE]
    /\ UNCHANGED <<tree, target, secret, exposed, deleted, stuck>>

\* The user closes the window: the database is checkpointed and its sidecars go.
CloseWorkspace(l) ==
    /\ launch[l].step = "workspace"
    /\ Reach(l, "ended")
    /\ tree' = [t \in Trees |-> IF t = target.data THEN [tree[t] EXCEPT !.open = FALSE]
                                ELSE tree[t]]
    /\ UNCHANGED <<target, staging, secret, seedLock, exposed, deleted, stuck, spent>>

\* A program that knows nothing of the lock writes into the profile, or into a
\* directory of it that it opened before, or creates one.
Intrude ==
    /\ spent.writes < MaxIntrusions
    /\ spent' = [spent EXCEPT !.writes = @ + 1]
    /\ \/ \E t \in exposed \ deleted :
            /\ tree' = [tree EXCEPT ![t].ver = @ + 1, ![t].used = TRUE]
            /\ UNCHANGED <<target, exposed>>
       \/ /\ target.data = NoTree /\ LateTree \notin exposed
          /\ target' = [target EXCEPT !.data = LateTree]
          /\ tree' = [tree EXCEPT ![LateTree].used = TRUE]
          /\ exposed' = exposed \cup {LateTree}
       \/ /\ \/ \E x \in Extras : target' = [target EXCEPT !.extra = x]
             \/ target.marker = "none" /\ target' = [target EXCEPT !.marker = "bad"]
          /\ UNCHANGED <<tree, exposed>>
    /\ UNCHANGED <<staging, secret, launch, seedLock, deleted, stuck>>

LaunchStep(l) ==
    \/ \E e \in BOOLEAN : importBundledDesktopState(l, e)
    \/ TakeSeedLock(l) \/ ScanBundle(l) \/ StageSeed(l) \/ SetSecret(l) \/ UndoSecret(l)
    \/ observeFirstLaunchSeedTarget(l) \/ PublishData(l) \/ VerifyDisplaced(l)
    \/ PublishMarker(l) \/ FinishSeed(l) \/ RefusePublished(l)
    \/ TakeMarkerBack(l) \/ RestoreData(l)

SeedNext ==
    \/ \E l \in Launches : LaunchStep(l) \/ CloseWorkspace(l) \/ KillLaunch(l)
    \/ Intrude

SeedSpec == SeedInit /\ [][SeedNext]_seedVars

-----------------------------------------------------------------------------
(* Properties *)

\* Types: every place of the disk holds one of the trees, and a launch is
\* between the lock and its release in ImportFirstLaunchSeed exactly while it
\* holds the file lock.
SeedTypeOK ==
    /\ tree \in [Trees -> Contents]
    /\ target \in Roots
    /\ staging \in [Launches -> Stages]
    /\ secret \in [SecretNames -> {"none", "app", "seed"}]
    /\ launch \in [Launches -> LaunchRows]
    /\ seedLock \in Launches \cup {"none"}
    /\ exposed \subseteq Trees /\ deleted \subseteq Trees
    /\ stuck \in BOOLEAN
    /\ \A l \in Launches : launch[l].step \in Installing <=> seedLock = l

\* installFirstLaunchSeedData and its rollbacks only quarantine: no tree that
\* was ever reachable as the profile's data is deleted, so that neither a
\* profile that appeared in the meantime nor what a late writer put into the
\* seed is lost.
NoExposedTreeDeleted == exposed \cap deleted = {}

\* A profile with the seed's data has the seed's secrets (its databases are
\* encrypted with them) as soon as nobody installs any more, whatever was
\* killed or failed on the way, unless a rename that takes it back failed.
SeedHasItsSecrets ==
    (seedLock = "none" /\ ~stuck /\ \E l \in Launches : target.data = SeedTree(l))
        => \A n \in SecretNames : secret[n] = "seed"

\* SetBatch promises that a failure restores prior values: an import that gives
\* up after any number of steps leaves every secret that existed as it was.
UndoRestoresSecrets ==
    [][\A l \in Launches :
        (launch[l].step = "undo" /\ launch'[l].step = "recovery" /\ ~stuck') =>
            \A n \in SecretNames : launch[l].prior[n] # "none" =>
                secret'[n] = launch[l].prior[n]]_seedVars

\* A workspace that opens on a profile with a valid marker opens on the seed
\* the marker was written for, unless taking one back failed: the marker comes
\* last and leaves first.
MarkerMeansSeed ==
    (target.marker = "good" /\ ~stuck /\ seedLock = "none") =>
        \E l \in Launches : target.data = SeedTree(l)

\* Everything about one state of a first launch: types and lock, a marker means
\* the seed it was written for, the seed's data has the seed's secrets, and no
\* tree that was ever reachable is deleted.
SeedInv ==
    /\ SeedTypeOK /\ MarkerMeansSeed /\ SeedHasItsSecrets
    /\ NoExposedTreeDeleted

=============================================================================
