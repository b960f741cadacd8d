---------------------------- MODULE ManifestLog ----------------------------
(***************************************************************************)
(* What the revocation manifest promises to everyone who reads it: one     *)
(* history under one key, in which every manifest adds one licence to the  *)
(* one before it and its sequence number says where it stands.  A reader   *)
(* may be late; it never sees two manifests with one number.               *)
(***************************************************************************)
EXTENDS Naturals, Sequences, SequencesExt

CONSTANT Handles        \* the licences, by the digest of their identifier

VARIABLE log            \* the manifests so far, oldest first

LogInit == log = <<>>

Open == log = <<>> /\ log' = <<[seq |-> 0, entries |-> {}]>>

Extend(h) ==
    /\ log # <<>> /\ h \notin Last(log).entries
    /\ log' = Append(log, [seq |-> Last(log).seq + 1,
                           entries |-> Last(log).entries \cup {h}])

LogNext == Open \/ \E h \in Handles : Extend(h)

LogSpec == LogInit /\ [][LogNext]_log
============================================================================
