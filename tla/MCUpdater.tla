------------------------------ MODULE MCUpdater ------------------------------
(* Small instances of Updater for TLC. *)
EXTENDS Updater, TLC

CONSTANTS c1, s1, s2, v1

\* Below and above the range of a percentage.
SomeReports == {-1, 120}

\* The stoppers are interchangeable.
Symmetry == Permutations(Stoppers)
=============================================================================
