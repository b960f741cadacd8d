----------------------------- MODULE MCRecords -----------------------------
(***************************************************************************)
(* Three parts that share no variable, side by side: the publication of    *)
(* revocations, the imports of files and the collection of messages.  A    *)
(* behaviour is a behaviour of the one part that Init chooses; the others  *)
(* rest in one initial state of theirs.                                    *)
(***************************************************************************)
EXTENDS Publication, Imports, History

CONSTANTS g1, g2, m1, m2, h1, h2, i1, i2, x, y, z, blank, broken, s1

VARIABLE part

recordsVars == <<part, pubVars, importVars, historyVars>>

\* Contents of a file: usable, with a blank line and a repetition, with too
\* many records, too long.
ImportBodies == {<<x, y>>, <<x, blank, x>>, <<x, y, z>>, <<x, x, x, x>>}

\* The first generator's machine is called m1.
RecordsInit ==
    /\ part \in {"publication", "imports", "history"}
    /\ PubInit /\ ImportsInit /\ HistoryInit
    /\ home[g1] = m1
    /\ part # "publication" => home[g2] = m1
    /\ part # "imports" => volume[1].lines = <<x, y>>

RecordsNext ==
    /\ UNCHANGED part
    /\ \/ part = "publication" /\ PubNext /\ UNCHANGED <<importVars, historyVars>>
       \/ part = "imports" /\ ImportsNext /\ UNCHANGED <<pubVars, historyVars>>
       \/ part = "history" /\ HistoryNext /\ UNCHANGED <<pubVars, importVars>>

RecordsSpec == RecordsInit /\ [][RecordsNext]_recordsVars
============================================================================
