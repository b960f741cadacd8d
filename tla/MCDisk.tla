------------------------------- MODULE MCDisk -------------------------------
(***************************************************************************)
(* Three parts that share no variable, side by side: the first launch, the *)
(* backups and the rate limiter.  A behaviour is a behaviour of the one    *)
(* part that Init chooses; the others rest in one initial state of theirs. *)
(***************************************************************************)
EXTENDS Seed, Backup, OutboundRate, TLC

CONSTANTS l1, l2, n1, n2, f1, f2, user, c1, c2

VARIABLE part

diskVars == <<part, seedVars, backupVars, vars>>

\* The same limit per minute in three spellings.
Saved(p, i) == [perMinute |-> p, interval |-> i]
OneLimit == {Saved(0, 0), Saved(9, -1), Saved(2, 3)}

DiskInit ==
    /\ part \in {"seed", "backup", "rate"}
    /\ SeedInit /\ BackupInit /\ Init
    /\ part # "seed" => target.data = NoTree
    /\ part # "backup" => schema = 0
    /\ part # "rate" => settings = Saved(0, 0)

DiskNext ==
    /\ UNCHANGED part
    /\ \/ part = "seed" /\ SeedNext /\ UNCHANGED <<backupVars, vars>>
       \/ part = "backup" /\ BackupNext /\ UNCHANGED <<seedVars, vars>>
       \/ part = "rate" /\ Next /\ UNCHANGED <<seedVars, backupVars>>

\* The session files are interchangeable.
SessionSymmetry == Permutations(SessionFiles)

DiskSpec == DiskInit /\ [][DiskNext]_diskVars
=============================================================================
