------------------------------ MODULE MCSparkle ------------------------------
(***************************************************************************)
(* The updater on its native driver when the application quits: Stop runs  *)
(* in OnShutdown, on the main thread that begin dispatches to.             *)
(***************************************************************************)
EXTENDS Sparkle

CONSTANTS s1, v1, c1

\* Past the end of a download.
SomeReports == {120}

QuitSpec == NativeSpec /\ NativeFairness
=============================================================================
