---------------------------- MODULE LicenseLock ----------------------------
(***************************************************************************)
(* What the licence machinery promises: nothing is opened on the authority *)
(* of a licence this computer knows to be revoked, this knowledge is never *)
(* lost, and what was open when it came is closed.                         *)
(***************************************************************************)
CONSTANT Licences

VARIABLES open,      \* licences on whose authority something runs
          banned     \* licences this computer knows to be revoked

LockInit == open = {} /\ banned = {}

Grant(h) == h \notin banned /\ open' = open \cup {h} /\ UNCHANGED banned
Learn(h) == banned' = banned \cup {h} /\ UNCHANGED open
Close == open' \subseteq open /\ UNCHANGED banned

LockNext == Close \/ \E h \in Licences : Grant(h) \/ Learn(h)

LockSafety == LockInit /\ [][LockNext]_<<open, banned>>

LockSpec == LockSafety /\ []<>(open \cap banned = {})
============================================================================
