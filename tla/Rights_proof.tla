---------------------------- MODULE Rights_proof ----------------------------
(***************************************************************************)
(* What the licence lock and the memberships guarantee for any number of   *)
(* licences, accounts and steps.                                           *)
(*                                                                         *)
(* License: the inductive invariant LicInv is the types; from it every save*)
(* of the kept state is one of an evaluated state (EvaluatedIsNewer), and a*)
(* check that opens something found no receipt and kept none               *)
(* (OpensUnrevoked), so each step maps to a step of LicenseLock.           *)
(*                                                                         *)
(* Membership: an account's pass writes back what it read, so the invariant*)
(* says what a pass may rely on meanwhile: a removal it read is under way  *)
(* as long as the store holds a request or a membership of its account,    *)
(* which nobody else can delete.  A step of one account is its own case    *)
(* (OwnStep) and leaves the others as they were (Undisturbed).             *)
(***************************************************************************)
EXTENDS License, Membership, TLAPS

-----------------------------------------------------------------------------
(* The licence lock *)

\* The rows of the two checkers.
Rows == [step : {"none", "waiting", "asked", "loaded", "decided", "closing"},
         lic : Handles \cup {"none"}, at : Nat, decision : Decisions, start : BOOLEAN]
\* What the keyring can hold.
States == [known : BOOLEAN, digest : Nat, success : Nat, wall : Nat, receipts : SUBSET Handles]

\* The program that was never run knows no manifest and checks nothing.
LEMMA LicStarts == LicInit => LicInv
<1> SUFFICES ASSUME LicInit PROVE LicInv
  OBVIOUS
<1>1. NoCheck \in Rows /\ NoSuccess \in States /\ NoSuccess.digest = 0 /\ NoCheck.step = "none"
  BY DEF NoCheck, Rows, NoSuccess, States, Decisions
<1>2. kept \in States /\ kept.digest = 0
  BY <1>1 DEF LicInit
<1>3. check \in [Checkers -> Rows] /\ \A c \in Checkers : Step(c, "none")
  BY <1>1 DEF LicInit, Step
<1>. QED
  BY <1>2, <1>3 DEF LicInit, LicInv, Rows, States

\* A state that was evaluated is a state, none older than the one before.
LEMMA EvaluatedIsNewer ==
  ASSUME NEW s \in States, ~s.known => s.digest = 0, NEW h \in Handles, NEW i \in Nat,
         NEW now \in Nat
  PROVE  /\ EvaluatedState(h, s, i, now) \in States
         /\ ~EvaluatedState(h, s, i, now).known => EvaluatedState(h, s, i, now).digest = 0
         /\ EvaluatedState(h, s, i, now).digest >= s.digest
         /\ EvaluatedState(h, s, i, now).wall >= s.wall
         /\ s.receipts \subseteq EvaluatedState(h, s, i, now).receipts
         /\ EvaluatedState(h, s, i, now).receipts \subseteq s.receipts \cup {h}
<1> DEFINE later == [s EXCEPT !.wall = laterTime(@, now)]
           fresh == [later EXCEPT !.known = TRUE, !.digest = i, !.success = now]
           full == [fresh EXCEPT !.receipts = @ \cup {h}]
<1>1. laterTime(s.wall, now) \in Nat /\ laterTime(s.wall, now) >= s.wall
  BY DEF laterTime, States
<1>2. /\ later \in States /\ later.wall >= s.wall /\ later.digest = s.digest
      /\ later.receipts = s.receipts /\ later.known = s.known
  BY <1>1 DEF States
<1>3. /\ fresh \in States /\ fresh.wall >= s.wall /\ fresh.digest = i
      /\ fresh.receipts = s.receipts /\ fresh.known = TRUE
  BY <1>2 DEF States
<1>4. /\ full \in States /\ full.wall >= s.wall /\ full.digest = i
      /\ full.receipts = s.receipts \cup {h} /\ full.known = TRUE
  BY <1>3 DEF States
<1>5. validatedFetch(s, i) => i >= s.digest
  BY DEF validatedFetch, States
<1>6. \/ EvaluatedState(h, s, i, now) \in {s, later}
      \/ validatedFetch(s, i) /\ EvaluatedState(h, s, i, now) \in {fresh, full}
  BY DEF EvaluatedState
<1>7. s.digest >= s.digest /\ s.wall >= s.wall
  BY DEF States
<1> HIDE DEF later, fresh, full
<1>. QED
  BY <1>2, <1>3, <1>4, <1>5, <1>6, <1>7

\* A check that opens something found no receipt, and none was kept with it.
LEMMA OpensUnrevoked ==
  ASSUME NEW s \in States, NEW h \in Handles, NEW i \in Nat, NEW now \in Nat,
         Evaluate(h, s, i, now) \in {"active", "grace"}
  PROVE  h \notin s.receipts /\ EvaluatedState(h, s, i, now).receipts = s.receipts
<1>1. h \notin s.receipts
  BY DEF Evaluate
<1>2. validatedFetch(s, i) => h \notin log[i].entries
  BY <1>1 DEF Evaluate
<1> DEFINE later == [s EXCEPT !.wall = laterTime(@, now)]
           fresh == [later EXCEPT !.known = TRUE, !.digest = i, !.success = now]
<1>3. EvaluatedState(h, s, i, now) \in {s, later, fresh}
  BY <1>1, <1>2 DEF EvaluatedState
<1>4. later.receipts = s.receipts /\ fresh.receipts = s.receipts
  BY DEF States
<1>. QED
  BY <1>1, <1>3, <1>4

\* Evaluate gives one of the decisions.
LEMMA EvaluateDecides ==
  ASSUME NEW s, NEW h, NEW i, NEW now
  PROVE  Evaluate(h, s, i, now) \in Decisions
BY DEF Evaluate, Decisions

\* Every action keeps it: a check that is under way is for a licence, and the kept
\* state is one that was evaluated.
LEMMA LicSteps == LicInv /\ [LicNext]_licVars => LicInv'
<1> SUFFICES ASSUME LicInv, [LicNext]_licVars PROVE LicInv'
  OBVIOUS
<1> DEFINE Checks(k) == /\ k \in [Checkers -> Rows]
                        /\ \A c \in Checkers : k[c].step # "none" => k[c].lic \in Handles
           Kept(s) == s \in States /\ (~s.known => s.digest = 0)
           Token(t) == t \in Handles \cup {"none"}
<1>1. Checks(check) /\ Kept(kept) /\ Token(token) /\ clock \in Nat
  BY DEF LicInv, Rows, States, Step
<1>2. SUFFICES Checks(check') /\ Kept(kept') /\ Token(token') /\ clock' \in Nat
  BY DEF LicInv, Rows, States, Step
<1>3. "gate" \in Checkers /\ "sup" \in Checkers /\ NoCheck \in Rows /\ NoCheck.step = "none"
  BY DEF Checkers, NoCheck, Rows, Decisions
<1>4. ASSUME NEW c \in Checkers, NEW r \in Rows, check' = [check EXCEPT ![c] = r],
             r.step # "none" => r.lic \in Handles
      PROVE  Checks(check')
  BY <1>1, <1>4
<1>5. CASE UNCHANGED licVars
  BY <1>1, <1>5 DEF licVars
<1>6. ASSUME NEW c \in Checkers, CheckLoad(c) PROVE Checks(check')
  <2>1. check[c] \in Rows /\ check[c].step = "asked" /\ check[c].lic \in Handles
    BY <1>1, <1>6 DEF CheckLoad, Step
  <2> DEFINE r1 == [check[c] EXCEPT !.step = "loaded", !.at = clock]
             r2 == Decided(check[c], "check")
  <2>2. check' = [check EXCEPT ![c] = r1] \/ check' = [check EXCEPT ![c] = r2]
    BY <1>1, <1>6 DEF CheckLoad
  <2>3. r1 \in Rows /\ r1.lic \in Handles
    BY <1>1, <2>1 DEF Rows
  <2>4. r2 \in Rows /\ r2.lic \in Handles
    BY <2>1 DEF Rows, Decided, Decisions
  <2> HIDE DEF r1, r2
  <2>. QED
    BY <1>4, <2>2, <2>3, <2>4
<1>7. ASSUME NEW c \in Checkers, CheckSave(c) PROVE Checks(check') /\ Kept(kept')
  <2>1. /\ check[c] \in Rows /\ check[c].step = "loaded" /\ check[c].lic \in Handles
        /\ check[c].at \in Nat
    BY <1>1, <1>7 DEF CheckSave, Step, Rows
  <2>2. PICK i \in Nat : \E d \in Decisions :
          /\ check' = [check EXCEPT ![c] = Decided(check[c], d)]
          /\ kept' \in {kept, EvaluatedState(check[c].lic, kept, i, check[c].at)}
    <3>1. \A i : Evaluate(check[c].lic, kept, i, check[c].at) \in Decisions
      BY EvaluateDecides
    <3>2. "check" \in Decisions
      BY DEF Decisions
    <3>3. check' = [check EXCEPT ![c] = Decided(@, "check")]
          => check' = [check EXCEPT ![c] = Decided(check[c], "check")]
      BY <1>1
    <3>. QED
      BY <1>1, <1>7, <3>1, <3>2 DEF CheckSave
  <2>3. PICK d \in Decisions : check' = [check EXCEPT ![c] = Decided(check[c], d)]
    BY <2>2
  <2>4. Decided(check[c], d) \in Rows /\ Decided(check[c], d).lic \in Handles
    BY <2>1 DEF Decided, Rows
  <2>5. Checks(check')
    BY <1>4, <2>3, <2>4
  <2>6. Kept(EvaluatedState(check[c].lic, kept, i, check[c].at))
    BY <1>1, <2>1, EvaluatedIsNewer
  <2> HIDE DEF Kept
  <2>. QED
    BY <1>1, <2>2, <2>5, <2>6
<1>8. ASSUME StartProgram PROVE Checks(check')
  <2> DEFINE r == [NoCheck EXCEPT !.step = "asked", !.lic = token, !.start = TRUE]
  <2>1. (check' = [check EXCEPT !["gate"] = r] /\ token # "none") \/ check' = check
    BY <1>8 DEF StartProgram
  <2>2. token # "none" => r \in Rows /\ r.lic \in Handles
    BY <1>1 DEF NoCheck, Rows, Decisions
  <2> HIDE DEF r
  <2>. QED
    BY <1>1, <1>3, <1>4, <2>1, <2>2
<1>9. ASSUME NEW h \in Handles, Activate(h) PROVE Checks(check')
  <2> DEFINE r == [NoCheck EXCEPT !.step = "asked", !.lic = h]
  <2>1. check' = [check EXCEPT !["gate"] = r] \/ check' = check
    BY <1>9 DEF Activate
  <2>2. r \in Rows /\ r.lic \in Handles
    BY <1>3 DEF NoCheck, Rows, Decisions
  <2> HIDE DEF r
  <2>. QED
    BY <1>1, <1>3, <1>4, <2>1, <2>2
<1>10. ASSUME PublishGate PROVE Checks(check') /\ Token(token')
  <2>1. /\ check["gate"] \in Rows /\ check["gate"].step = "decided"
        /\ check["gate"].lic \in Handles
    BY <1>1, <1>3, <1>10 DEF PublishGate, Step
  <2>2. token' \in {token, check["gate"].lic}
    BY <1>10 DEF PublishGate
  <2> DEFINE w == [NoCheck EXCEPT !.step = "waiting", !.lic = check["gate"].lic]
             s == IF proc' = "workspace" /\ proc # "workspace" THEN w ELSE check["sup"]
  <2>3. check' = [check EXCEPT !["gate"] = NoCheck, !["sup"] = s]
    BY <1>1, <1>3, <1>10 DEF PublishGate
  <2>4. w \in Rows /\ w.lic \in Handles
    BY <1>3, <2>1 DEF NoCheck, Rows, Decisions
  <2>5. s \in Rows /\ (s.step # "none" => s.lic \in Handles)
    BY <1>1, <1>3, <2>4
  <2> HIDE DEF s, w
  <2>. QED
    BY <1>1, <1>3, <2>1, <2>2, <2>3, <2>5
<1>11. ASSUME SupervisorWakes PROVE Checks(check')
  <2> DEFINE r == [check["sup"] EXCEPT !.step = "asked"]
  <2>1. check' = [check EXCEPT !["sup"] = r]
    BY <1>1, <1>3, <1>11 DEF SupervisorWakes
  <2>2. r \in Rows /\ r.lic \in Handles
    BY <1>1, <1>3, <1>11 DEF SupervisorWakes, Step, Rows
  <2> HIDE DEF r
  <2>. QED
    BY <1>3, <1>4, <2>1, <2>2
<1>12. ASSUME SupervisorDecides PROVE Checks(check')
  <2> DEFINE r1 == [check["sup"] EXCEPT !.step = "closing"]
             r2 == [check["sup"] EXCEPT !.step = "waiting", !.decision = "none"]
  <2>1. check' = [check EXCEPT !["sup"] = r1] \/ check' = [check EXCEPT !["sup"] = r2]
    BY <1>1, <1>3, <1>12 DEF SupervisorDecides
  <2>2. check["sup"] \in Rows /\ check["sup"].lic \in Handles
    BY <1>1, <1>3, <1>12 DEF SupervisorDecides, Step
  <2>3. r1 \in Rows /\ r1.lic \in Handles
    BY <2>2 DEF Rows
  <2>4. r2 \in Rows /\ r2.lic \in Handles
    BY <2>2 DEF Rows, Decisions
  <2> HIDE DEF r1, r2
  <2>. QED
    BY <1>3, <1>4, <2>1, <2>3, <2>4
<1>13. ASSUME handleTerminal PROVE Checks(check')
  BY <1>3, <1>4, <1>13 DEF handleTerminal
<1>14. ASSUME ExitProgram PROVE Checks(check')
  BY <1>3, <1>14 DEF ExitProgram
<1> HIDE DEF Checks
<1>15. CASE \E c \in Checkers : CheckLoad(c) \/ CheckSave(c)
  <2>1. CASE \E c \in Checkers : CheckLoad(c)
    BY <1>1, <1>6, <2>1 DEF CheckLoad
  <2>2. CASE \E c \in Checkers : CheckSave(c)
    BY <1>1, <1>7, <2>2 DEF CheckSave
  <2>. QED
    BY <1>15, <2>1, <2>2
<1>16. CASE StartProgram
  BY <1>1, <1>8, <1>16 DEF StartProgram
<1>17. CASE \E h \in Handles : Activate(h)
  BY <1>1, <1>9, <1>17 DEF Activate
<1>18. CASE PublishGate
  BY <1>1, <1>10, <1>18 DEF PublishGate
<1>19. CASE SupervisorWakes \/ SupervisorDecides
  BY <1>1, <1>11, <1>12, <1>19 DEF SupervisorWakes, SupervisorDecides
<1>20. CASE ApplyRevocationDecision
  BY <1>1, <1>20 DEF ApplyRevocationDecision
<1>21. CASE handleTerminal
  BY <1>1, <1>13, <1>21 DEF handleTerminal
<1>22. CASE ExitProgram
  BY <1>1, <1>14, <1>22 DEF ExitProgram
<1>23. CASE SetClock
  BY <1>1, <1>23 DEF SetClock
<1>24. CASE GrowLog
  BY <1>1, <1>24 DEF GrowLog
<1>. QED
  BY <1>5, <1>15, <1>16, <1>17, <1>18, <1>19, <1>20, <1>21, <1>22, <1>23, <1>24
     DEF LicNext, LicWork

\* The types of the gate, the supervisor and their checker hold in every state, a
\* check under way is for a licence, and a manifest number is kept only with a
\* manifest.
THEOREM LicInvariant == LicSpec => []LicInv
<1>. QED
  BY LicStarts, LicSteps, PTL DEF LicSpec

\* Only a save changes the kept state, and it saves what it evaluated.
LEMMA LicStepsNewer ==
  LicInv /\ [LicNext]_licVars =>
    [/\ kept'.digest >= kept.digest /\ kept.receipts \subseteq kept'.receipts
     /\ kept'.wall >= kept.wall]_licVars
<1> SUFFICES ASSUME LicInv, LicNext
             PROVE /\ kept'.digest >= kept.digest /\ kept.receipts \subseteq kept'.receipts
                   /\ kept'.wall >= kept.wall
  OBVIOUS
<1>1. kept \in States /\ (~kept.known => kept.digest = 0)
  BY DEF LicInv, States
<1>2. kept' = kept \/ \E c \in Checkers : CheckSave(c)
  BY DEF LicNext, LicWork, CheckLoad, PublishGate, SupervisorWakes, SupervisorDecides,
         ApplyRevocationDecision, handleTerminal, StartProgram, Activate, ExitProgram,
         SetClock, GrowLog
<1>3. CASE kept' = kept
  BY <1>1, <1>3 DEF States
<1>4. ASSUME NEW c \in Checkers, CheckSave(c), kept' # kept
      PROVE  /\ kept'.digest >= kept.digest /\ kept.receipts \subseteq kept'.receipts
             /\ kept'.wall >= kept.wall
  <2>1. check[c].lic \in Handles /\ check[c].at \in Nat
    BY <1>4 DEF LicInv, CheckSave, Step
  <2>2. PICK i \in Nat : kept' = EvaluatedState(check[c].lic, kept, i, check[c].at)
    BY <1>4 DEF CheckSave
  <2>. QED
    BY <1>1, <2>1, <2>2, EvaluatedIsNewer
<1>. QED
  BY <1>2, <1>3, <1>4

\* The checker's saves, by the gate and by the supervisor in any order, never
\* replace the kept state by an older one (the checker's mutex and
\* validatedFetch).
THEOREM KeptStateNeverOlder == LicSpec => NeverOlder
<1>. QED
  BY LicInvariant, LicStepsNewer, PTL DEF LicSpec, NeverOlder

\* A snapshot opens the gate for the licence that was checked, if at all.
LEMMA SnapshotOpens ==
  ASSUME NEW r \in Rows, NEW h \in Handles, SnapshotFor(r) = GateAs("activated", h)
  PROVE  r.lic = h /\ r.decision \in {"active", "grace"}
BY DEF SnapshotFor, GateAs

\* Every action but the save of a check can only close.
LEMMA OthersClose ==
  ASSUME LicInv, LicNext, ~ \E c \in Checkers : CheckSave(c)
  PROVE  Running' \subseteq Running /\ kept' = kept
<1> SUFFICES ASSUME NEW h \in Handles, h \in Running' PROVE h \in Running
  <2>1. kept' = kept
    BY DEF LicNext, LicWork, CheckLoad, PublishGate, SupervisorWakes, SupervisorDecides,
           ApplyRevocationDecision, handleTerminal, StartProgram, Activate, ExitProgram,
           SetClock, GrowLog
  <2>. QED
    BY <2>1 DEF Running
<1> DEFINE Opened == gate = GateAs("activated", h)
           Opening == Step("gate", "decided") /\ SnapshotFor(check["gate"]) = GateAs("activated", h)
           Used == ~Step("sup", "none") /\ check["sup"].lic = h
<1>1. Opened' \/ Opening' \/ Used'
  BY DEF Running
<1>2. SUFFICES Opened \/ Opening \/ Used
  BY DEF Running
<1>3. /\ check \in [Checkers -> Rows] /\ "gate" \in Checkers /\ "sup" \in Checkers
      /\ \A c \in Checkers : check[c].step # "none" => check[c].lic \in Handles
  BY DEF LicInv, Rows, Checkers, Step
<1>4. /\ NoCheck.step = "none"
      /\ \A l : /\ GateAs("checking", l) # GateAs("activated", h)
                /\ GateAs("error", l) # GateAs("activated", h)
                /\ GateAs("needs", l) # GateAs("activated", h)
  BY DEF NoCheck, GateAs
<1>5. ASSUME NEW c \in Checkers, CheckLoad(c) PROVE Opened \/ Opening \/ Used
  <2> DEFINE r1 == [check[c] EXCEPT !.step = "loaded", !.at = clock]
             r2 == Decided(check[c], "check")
  <2>1. check' = [check EXCEPT ![c] = r1] \/ check' = [check EXCEPT ![c] = r2]
    BY <1>3, <1>5 DEF CheckLoad
  <2>2. gate' = gate /\ check[c].step = "asked"
    BY <1>5 DEF CheckLoad, Step
  <2>3. r1.step = "loaded" /\ r1.lic = check[c].lic
    BY <1>3 DEF Rows
  <2>4. r2 \in Rows /\ r2.step = "decided" /\ r2.decision = "check" /\ r2.lic = check[c].lic
    BY <1>3 DEF Rows, Decided, Decisions
  <2>5. SnapshotFor(r2) # GateAs("activated", h)
    BY <2>4, SnapshotOpens
  <2> HIDE DEF r1, r2
  <2>. QED
    BY <1>1, <1>3, <2>1, <2>2, <2>3, <2>4, <2>5 DEF Step
<1>6. CASE StartProgram
  <2> DEFINE r == [NoCheck EXCEPT !.step = "asked", !.lic = token, !.start = TRUE]
  <2>1. check' = [check EXCEPT !["gate"] = r] \/ check' = check
    BY <1>6 DEF StartProgram
  <2>2. ~Opened'
    BY <1>4, <1>6 DEF StartProgram
  <2>3. r.step = "asked"
    BY DEF NoCheck
  <2> HIDE DEF r
  <2>. QED
    BY <1>1, <1>3, <2>1, <2>2, <2>3 DEF Step
<1>7. ASSUME NEW l \in Handles, Activate(l) PROVE Opened \/ Opening \/ Used
  <2> DEFINE r == [NoCheck EXCEPT !.step = "asked", !.lic = l]
  <2>1. check' = [check EXCEPT !["gate"] = r] \/ check' = check
    BY <1>7 DEF Activate
  <2>2. ~Opened'
    BY <1>4, <1>7 DEF Activate
  <2>3. r.step = "asked"
    BY DEF NoCheck
  <2> HIDE DEF r
  <2>. QED
    BY <1>1, <1>3, <2>1, <2>2, <2>3 DEF Step
<1>8. CASE PublishGate
  <2> DEFINE r == check["gate"]
             w == [NoCheck EXCEPT !.step = "waiting", !.lic = r.lic]
             s == IF proc' = "workspace" /\ proc # "workspace" THEN w ELSE check["sup"]
  <2>1. check' = [check EXCEPT !["gate"] = NoCheck, !["sup"] = s]
    BY <1>3, <1>8 DEF PublishGate
  <2>2. Step("gate", "decided") /\ r \in Rows /\ r.lic \in Handles
    BY <1>3, <1>8 DEF PublishGate, Step
  <2>4. gate' = GateAs("error", "none") \/ gate' = SnapshotFor(r)
    BY <1>8 DEF PublishGate
  <2>5. Opened' => Opening
    BY <1>4, <2>2, <2>4
  <2>6. gate'.state = "activated" => SnapshotFor(r) = GateAs("activated", r.lic)
    BY <2>4 DEF GateAs, SnapshotFor
  <2>7. s # check["sup"] => s = w /\ gate'.state = "activated"
    BY <1>8 DEF PublishGate
  <2>8. w.lic = r.lic
    BY DEF NoCheck
  <2> HIDE DEF s, w
  <2>9. ~Opening'
    BY <1>3, <1>4, <2>1 DEF Step, Checkers
  <2>10. check'["sup"] = s
    BY <1>3, <2>1
  <2>11. CASE s = check["sup"]
    BY <1>1, <2>5, <2>9, <2>10, <2>11 DEF Step
  <2>12. CASE s # check["sup"]
    <3>1. Used' => r.lic = h
      BY <2>7, <2>8, <2>10, <2>12
    <3>2. r.lic = h => Opening
      BY <2>2, <2>6, <2>7, <2>12
    <3>. QED
      BY <1>1, <2>5, <2>9, <3>1, <3>2
  <2>. QED
    BY <2>11, <2>12
<1>9. CASE SupervisorWakes \/ SupervisorDecides
  <2> DEFINE r1 == [check["sup"] EXCEPT !.step = "asked"]
             r2 == [check["sup"] EXCEPT !.step = "closing"]
             r3 == [check["sup"] EXCEPT !.step = "waiting", !.decision = "none"]
  <2>1. PICK r \in {r1, r2, r3} : check' = [check EXCEPT !["sup"] = r]
    BY <1>3, <1>9 DEF SupervisorWakes, SupervisorDecides
  <2>2. gate' = gate /\ check["sup"].step # "none"
    BY <1>9 DEF SupervisorWakes, SupervisorDecides, Step
  <2>3. r.lic = check["sup"].lic
    BY <1>3 DEF Rows
  <2> HIDE DEF r1, r2, r3
  <2>. QED
    BY <1>1, <1>3, <2>1, <2>2, <2>3 DEF Step
<1>10. CASE ApplyRevocationDecision
  <2>1. gate' = GateAs(check["sup"].decision, "none") /\ check["sup"].decision \in Decisions
    BY <1>3, <1>10 DEF ApplyRevocationDecision, Rows
  <2>2. ~Opened'
    BY <2>1 DEF GateAs, Decisions
  <2>. QED
    BY <1>1, <1>10, <2>2 DEF ApplyRevocationDecision, Step
<1>11. CASE handleTerminal
  BY <1>1, <1>3, <1>4, <1>11 DEF handleTerminal, Step
<1>12. CASE ExitProgram
  BY <1>1, <1>3, <1>4, <1>12 DEF ExitProgram, Step
<1>13. CASE SetClock \/ GrowLog
  BY <1>1, <1>13 DEF SetClock, GrowLog, Step
<1>. QED
  BY <1>5, <1>6, <1>7, <1>8, <1>9, <1>10, <1>11, <1>12, <1>13 DEF LicNext, LicWork

\* A save learns of a revocation, or it lets one licence that is not known to be
\* revoked open, or it changes neither.
LEMMA SaveLearnsOrGrants ==
  ASSUME LicInv, NEW c \in Checkers, CheckSave(c)
  PROVE  \/ Running' = Running /\ kept'.receipts = kept.receipts
         \/ \E h \in Handles : Lock!Grant(h) \/ Lock!Learn(h)
<1>1. /\ check \in [Checkers -> Rows] /\ "gate" \in Checkers /\ "sup" \in Checkers
      /\ check[c].lic \in Handles /\ check[c].step = "loaded" /\ check[c].at \in Nat
      /\ kept \in States /\ (~kept.known => kept.digest = 0) /\ gate' = gate
  BY DEF LicInv, Rows, States, Checkers, Step, CheckSave
<1> DEFINE l == check[c].lic
<1>2. PICK d \in Decisions : check' = [check EXCEPT ![c] = Decided(check[c], d)]
                             /\ \/ d = "check" /\ kept' = kept
                                \/ \E i \in Nat :
                                     /\ d = Evaluate(l, kept, i, check[c].at)
                                     /\ kept' = EvaluatedState(l, kept, i, check[c].at)
  <2>1. \A i : Evaluate(l, kept, i, check[c].at) \in Decisions
    BY EvaluateDecides
  <2>2. "check" \in Decisions
    BY DEF Decisions
  <2>3. check' = [check EXCEPT ![c] = Decided(@, "check")]
        => check' = [check EXCEPT ![c] = Decided(check[c], "check")]
    BY <1>1
  <2>. QED
    BY <1>1, <2>1, <2>2, <2>3 DEF CheckSave
<1> DEFINE r == Decided(check[c], d)
<1>3. r \in Rows /\ r.step = "decided" /\ r.lic = l /\ r.decision = d
  BY <1>1 DEF Rows, Decided
<1>4. kept.receipts \subseteq kept'.receipts /\ kept'.receipts \subseteq kept.receipts \cup {l}
  BY <1>1, <1>2, EvaluatedIsNewer
<1>5. Running \subseteq Running'
  BY <1>1, <1>2, <1>3 DEF Running, Step
<1>6. CASE c = "gate" /\ SnapshotFor(r) = GateAs("activated", l)
  <2>1. d \in {"active", "grace"}
    BY <1>1, <1>3, <1>6, SnapshotOpens
  <2>2. l \notin kept.receipts /\ kept'.receipts = kept.receipts
    BY <1>1, <1>2, <2>1, OpensUnrevoked
  <2>3. Running' \subseteq Running \cup {l}
    <3> SUFFICES ASSUME NEW h \in Handles, h \in Running', h \notin Running PROVE h = l
      BY DEF Running
    <3>1. check'["gate"] = r /\ check'["sup"] = check["sup"]
      BY <1>1, <1>2, <1>6
    <3>2. SnapshotFor(r) = GateAs("activated", h)
      BY <1>1, <3>1 DEF Running, Step
    <3>. QED
      BY <1>3, <3>2, SnapshotOpens
  <2>4. l \in Running'
    BY <1>1, <1>2, <1>3, <1>6 DEF Running, Step
  <2>5. Running' = Running \cup {l}
    BY <1>5, <2>3, <2>4
  <2>. QED
    BY <1>1, <2>2, <2>5 DEF Lock!Grant
<1>7. CASE ~(c = "gate" /\ SnapshotFor(r) = GateAs("activated", l))
  <2>1. Running' = Running
    <3> SUFFICES ASSUME NEW h \in Handles, h \in Running', h \notin Running PROVE FALSE
      BY <1>5 DEF Running
    <3>1. CASE c = "gate"
      <4>1. check'["gate"] = r /\ check'["sup"] = check["sup"]
        BY <1>1, <1>2, <3>1
      <4>2. SnapshotFor(r) = GateAs("activated", h)
        BY <1>1, <4>1 DEF Running, Step
      <4>3. l = h
        BY <1>3, <4>2, SnapshotOpens
      <4>. QED
        BY <1>7, <3>1, <4>2, <4>3
    <3>2. CASE c = "sup"
      BY <1>1, <1>2, <1>3, <3>2 DEF Running, Step
    <3>. QED
      BY <3>1, <3>2 DEF Checkers
  <2>2. kept'.receipts = kept.receipts \/ kept'.receipts = kept.receipts \cup {l}
    BY <1>4
  <2>. QED
    BY <1>1, <2>1, <2>2 DEF Lock!Learn
<1>. QED
  BY <1>6, <1>7

\* The safety of the lock, for every number of licences and any history of the
\* manifest: the gate, the supervisor and the checker they share never open
\* anything for a licence known to be revoked, and forget no revocation.
THEOREM LockIsImplemented == LicSpec => Lock!LockSafety
<1>1. LicInit => Lock!LockInit
  <2> SUFFICES ASSUME LicInit PROVE Running = {} /\ kept.receipts = {}
    BY DEF Lock!LockInit
  <2>. QED
    BY DEF LicInit, Running, NoSuccess, NoCheck, GateAs, Step, Checkers
<1>2. LicInv /\ [LicNext]_licVars => [Lock!LockNext]_<<Running, kept.receipts>>
  <2> SUFFICES ASSUME LicInv, [LicNext]_licVars
               PROVE [Lock!LockNext]_<<Running, kept.receipts>>
    OBVIOUS
  <2>1. CASE UNCHANGED licVars
    BY <2>1 DEF licVars, Running, Step
  <2>2. CASE LicNext /\ ~ \E c \in Checkers : CheckSave(c)
    BY <2>2, OthersClose DEF Lock!LockNext, Lock!Close
  <2>3. ASSUME NEW c \in Checkers, CheckSave(c) PROVE [Lock!LockNext]_<<Running, kept.receipts>>
    BY <2>3, SaveLearnsOrGrants DEF Lock!LockNext
  <2>. QED
    BY <2>1, <2>2, <2>3
<1>. QED
  BY <1>1, <1>2, LicInvariant, PTL DEF LicSpec, Lock!LockSafety

-----------------------------------------------------------------------------
(* The memberships of a channel *)

\* What the invariant says of one account.
AccountInv(a) ==
    /\ mem[a].status = "member" => tg[a] = "in" \/ RemovalUnderWay
    /\ mem[a].status = "pending" => mem[a].req
    /\ pass[a].mem.status = "pending" => pass[a].mem.req
    /\ RemovalOutlivesPass(a)
    /\ AnswerStillHolds(a)

\* The invariant, account by account.
LEMMA MembershipInvIs ==
  /\ MembershipInv <=> MembershipTypeOK /\ \A a \in Members : AccountInv(a)
  /\ MembershipInv' <=> MembershipTypeOK' /\ \A a \in Members : AccountInv(a)'
BY DEF MembershipInv, AccountInv, MemberIsIn, PendingIsRequested

\* What a membership that was read asks for.
LEMMA GoalMeans ==
  ASSUME NEW p \in Passes
  PROVE  /\ Goal(p) = "leave" => /\ p.mem.member
                                 /\ Removing(p) \/ p.mem.status = "leaving"
                                 /\ p.mem.status # "pending" /\ p.kind = "reconcile"
         /\ Goal(p) = "check" => /\ p.mem.status \in {"pending", "leaving"}
                                 /\ p.mem.status = "leaving" =>
                                      p.kind = "reconcile" /\ ~Removing(p)
         /\ Goal(p) = "join" => p.mem.status = "joining" /\ ~Removing(p)
         /\ Goal(p) = "row" => p.kind = "register"
         /\ Removing(p) /\ p.mem.status = "member" => Goal(p) \in {"leave", "delete"}
<1>1. /\ p.kind \in {"reconcile", "register"} /\ p.mem \in MemRows
      /\ p.kind = "register" => ~Removing(p)
  BY DEF Passes, Removing
<1>2. p.mem.status \in MemStatuses
  BY <1>1 DEF MemRows
<1>3. CASE p.kind = "register"
  <2>1. CASE p.mem.status = "pending"
    BY <1>1, <1>3, <2>1 DEF Goal
  <2>2. CASE p.mem.status = "joining"
    BY <1>1, <1>3, <2>2 DEF Goal
  <2>3. CASE p.mem.status \in {"leaving", "none", "error"}
    BY <1>1, <1>3, <2>3 DEF Goal
  <2>4. CASE p.mem.status = "member"
    BY <1>1, <1>3, <2>4 DEF Goal
  <2>. QED
    BY <1>2, <2>1, <2>2, <2>3, <2>4 DEF MemStatuses
<1>4. CASE p.kind = "reconcile"
  <2>1. CASE p.mem.status = "pending"
    BY <1>1, <1>4, <2>1 DEF Goal
  <2>2. CASE p.mem.status = "none"
    BY <1>1, <1>4, <2>2 DEF Goal
  <2>3. CASE p.mem.status = "leaving"
    BY <1>1, <1>4, <2>3 DEF Goal
  <2>4. CASE p.mem.status \in {"joining", "error", "member"}
    BY <1>1, <1>4, <2>4 DEF Goal
  <2>. QED
    BY <1>2, <2>1, <2>2, <2>3, <2>4 DEF MemStatuses
<1>. QED
  BY <1>1, <1>3, <1>4

\* A row that is saved keeps a removal that is under way.
LEMMA SavedRowKeeps ==
  ASSUME NEW row \in ListedRows, channel \in Channels
  PROVE  SavedRow(row) \in ListedRows /\ (RemovalUnderWay => SavedRow(row).removing)
<1>1. channel.removing \in BOOLEAN /\ row \in Channels /\ row.state = "listed"
  BY DEF Channels, ListedRows
<1> DEFINE r == row.removing \/ channel.removing
<1>2. r \in BOOLEAN /\ SavedRow(row) \in {[row EXCEPT !.removing = r],
                                          [row EXCEPT !.removing = FALSE], row}
  BY <1>1 DEF SavedRow, Channels
<1>3. channel.state = "listed" => SavedRow(row) = [row EXCEPT !.removing = r]
  BY <1>1 DEF SavedRow, Channels
<1>4. RemovalUnderWay => channel.state = "listed" /\ r = TRUE
  BY DEF RemovalUnderWay
<1> HIDE DEF r
<1>5. [row EXCEPT !.removing = r] \in ListedRows /\ [row EXCEPT !.removing = FALSE] \in ListedRows
      /\ [row EXCEPT !.removing = r].removing = r
  BY <1>1, <1>2 DEF Channels, ListedRows
<1>. QED
  BY <1>2, <1>3, <1>4, <1>5

\* A pass that is replaced is the only one that changes.
LEMMA Moved ==
  ASSUME MembershipTypeOK, NEW a \in Members, NEW q \in Passes, pass' = [pass EXCEPT ![a] = q]
  PROVE  pass' \in [Members -> Passes] /\ pass'[a] = q
         /\ \A b \in Members : b # a => pass'[b] = pass[b]
BY DEF MembershipTypeOK

\* The initial values.
LEMMA Typed ==
  /\ NoPass \in Passes /\ NoPass.step = "idle" /\ NoPass.mem.status = "none"
  /\ NoMem \in MemRows /\ Joining \in MemRows /\ NewChannel \in ListedRows
  /\ ListedRows \subseteq Channels
  /\ NoMem.status = "none" /\ NoMem.req = FALSE /\ NoMem.member = FALSE
  /\ Joining.status = "joining" /\ Joining.req = FALSE /\ Joining.member = FALSE
BY DEF NoPass, Passes, PassSteps, NoMem, Joining, MemRows, MemStatuses, NewChannel,
       ListedRows, Channels

\* A pass that rests relies on nothing.
LEMMA IdleRelies ==
  ASSUME NEW a \in Members, pass'[a] = NoPass,
         mem'[a].status = "member" => tg'[a] = "in" \/ RemovalUnderWay',
         mem'[a].status = "pending" => mem'[a].req
  PROVE  AccountInv(a)'
BY Typed DEF AccountInv, RemovalOutlivesPass, AnswerStillHolds, InFlight

\* What the others do to an account: its request and its membership are not
\* made by them, nor lost while a removal is under way; that ends when nobody
\* has a membership.
LEMMA Undisturbed ==
  ASSUME MembershipTypeOK, NEW a \in Members, AccountInv(a), pass'[a] = pass[a],
         tg'[a] = tg[a] \/ tg'[a] = "in",
         mem'[a].status = "member" => mem[a].status = "member",
         mem'[a].req => mem[a].req,
         mem'[a].status = "pending" => mem[a].status = "pending" /\ mem'[a].req,
         RemovalUnderWay => RemovalUnderWay' \/ (mem[a] = NoMem /\ mem'[a] = NoMem),
         RemovalUnderWay /\ mem[a].req => mem'[a].req
  PROVE  AccountInv(a)'
<1>1. mem[a] = NoMem => ~mem[a].req /\ mem[a].status # "member"
  BY Typed
<1>2. mem'[a].status = "member" => tg'[a] = "in" \/ RemovalUnderWay'
  BY <1>1 DEF AccountInv
<1>3. RemovalOutlivesPass(a)'
  BY <1>1 DEF AccountInv, RemovalOutlivesPass, InFlight
<1>4. AnswerStillHolds(a)'
  BY DEF AccountInv, AnswerStillHolds
<1>. QED
  BY <1>2, <1>3, <1>4 DEF AccountInv

\* What has to be shown of an account whose pass moves on to q.
LEMMA AccountGoes ==
  ASSUME NEW a \in Members, NEW q, pass'[a] = q,
         mem'[a].status = "member" => tg'[a] = "in" \/ RemovalUnderWay',
         mem'[a].status = "pending" => mem'[a].req,
         q.mem.status = "pending" => q.mem.req,
         q.step = "listed" /\ Removing(q) /\ (mem'[a].req \/ mem'[a].status = "member")
            => RemovalUnderWay',
         q.step = "ask" /\ Goal(q) = "leave" /\ mem'[a].status = "member" => RemovalUnderWay',
         (\/ q.step = "ask" /\ Goal(q) = "check"
          \/ q.step \in {"save", "saveRow"} /\ q.mem.status = "member")
            => (Removing(q) => mem'[a].req /\ RemovalUnderWay'),
         q.step = "save" /\ q.mem.status = "member" => tg'[a] = "in",
         q.step = "saveRow" /\ Removing(q) => q.mem.status = "member" /\ tg'[a] = "in",
         q.step \in {"ask", "leave"} /\ q.mem.status = "leaving" => mem'[a].status # "member",
         q.step = "leave" => q.mem.status = "leaving" /\ ~Removing(q)
  PROVE  AccountInv(a)'
<1>1. RemovalOutlivesPass(a)'
  BY DEF RemovalOutlivesPass, InFlight
<1>2. AnswerStillHolds(a)'
  BY DEF AnswerStillHolds
<1>. QED
  BY <1>1, <1>2 DEF AccountInv

\* The same of the pass as it is.
LEMMA AccountKnows ==
  ASSUME NEW a \in Members, AccountInv(a), NEW p, p = pass[a]
  PROVE  /\ mem[a].status = "member" => tg[a] = "in" \/ RemovalUnderWay
         /\ mem[a].status = "pending" => mem[a].req
         /\ p.mem.status = "pending" => p.mem.req
         /\ p.step = "listed" /\ Removing(p) /\ (mem[a].req \/ mem[a].status = "member")
            => RemovalUnderWay
         /\ p.step = "ask" /\ Goal(p) = "leave" /\ mem[a].status = "member" => RemovalUnderWay
         /\ (\/ p.step = "ask" /\ Goal(p) = "check"
             \/ p.step \in {"save", "saveRow"} /\ p.mem.status = "member")
            => (Removing(p) => mem[a].req /\ RemovalUnderWay)
         /\ p.step = "save" /\ p.mem.status = "member" => tg[a] = "in"
         /\ p.step = "saveRow" /\ Removing(p) => p.mem.status = "member" /\ tg[a] = "in"
         /\ p.step \in {"ask", "leave"} /\ p.mem.status = "leaving" => mem[a].status # "member"
         /\ p.step = "leave" => p.mem.status = "leaving" /\ ~Removing(p)
BY DEF AccountInv, RemovalOutlivesPass, AnswerStillHolds, InFlight

\* What Telegram knows of an account.
TgStates == {"out", "requested", "in"}

\* A step of the pass of one account leaves the others alone.
LEMMA OwnStep ==
  ASSUME MembershipInv, NEW a \in Members, NEW q \in Passes, pass' = [pass EXCEPT ![a] = q],
         mem' = mem \/ \E m \in MemRows : mem' = [mem EXCEPT ![a] = m],
         tg' = tg \/ \E s \in TgStates : tg' = [tg EXCEPT ![a] = s],
         channel' \in Channels, ui' = ui,
         RemovalUnderWay => \/ RemovalUnderWay'
                            \/ mem' = mem /\ \A b \in Members : mem[b] = NoMem,
         AccountInv(a)'
  PROVE  MembershipInv'
<1>1. MembershipTypeOK /\ \A b \in Members : AccountInv(b)
  BY MembershipInvIs
<1>2. mem \in [Members -> MemRows] /\ tg \in [Members -> TgStates]
  BY <1>1 DEF MembershipTypeOK, TgStates
<1>3. mem' \in [Members -> MemRows] /\ \A b \in Members : b # a => mem'[b] = mem[b]
  BY <1>2
<1>4. tg' \in [Members -> TgStates] /\ \A b \in Members : b # a => tg'[b] = tg[b]
  BY <1>2
<1>5. pass' \in [Members -> Passes] /\ \A b \in Members : b # a => pass'[b] = pass[b]
  BY <1>1, Moved
<1>6. MembershipTypeOK'
  BY <1>1, <1>3, <1>4, <1>5 DEF MembershipTypeOK, TgStates
<1>7. ASSUME NEW b \in Members, b # a PROVE AccountInv(b)'
  <2>1. pass'[b] = pass[b] /\ mem'[b] = mem[b] /\ tg'[b] = tg[b] /\ AccountInv(b)
    BY <1>1, <1>3, <1>4, <1>5, <1>7
  <2>2. mem[b].status = "pending" => mem[b].req
    BY <2>1 DEF AccountInv
  <2>. QED
    BY <1>1, <2>1, <2>2, Undisturbed
<1>. QED
  BY <1>6, <1>7, MembershipInvIs

\* A step of the user takes no request and makes no member.
LEMMA OthersStep ==
  ASSUME MembershipInv, pass' = pass,
         tg' \in [Members -> TgStates], \A a \in Members : tg'[a] = tg[a] \/ tg'[a] = "in",
         mem' \in [Members -> MemRows],
         \A a \in Members : /\ mem'[a].status = "member" => mem[a].status = "member"
                            /\ mem'[a].req => mem[a].req
                            /\ mem'[a].status = "pending" =>
                                  mem[a].status = "pending" /\ mem'[a].req
                            /\ RemovalUnderWay /\ mem[a].req => mem'[a].req,
         channel' \in Channels, RemovalUnderWay => RemovalUnderWay',
         ui' \in UserCalls
  PROVE  MembershipInv'
<1>1. MembershipTypeOK /\ \A b \in Members : AccountInv(b)
  BY MembershipInvIs
<1>2. MembershipTypeOK'
  BY <1>1 DEF MembershipTypeOK, TgStates
<1>3. ASSUME NEW a \in Members PROVE AccountInv(a)'
  BY <1>1, Undisturbed
<1>. QED
  BY <1>2, <1>3, MembershipInvIs

\* What a pass is after depends on its kind, its row and its membership.
LEMMA GoalReads ==
  ASSUME NEW p, NEW q, q.kind = p.kind, q.row = p.row, q.mem = p.mem
  PROVE  Goal(q) = Goal(p) /\ Removing(q) = Removing(p)
BY DEF Goal, Removing

\* What is known of an account before it acts.
LEMMA Facts ==
  ASSUME MembershipInv, NEW a \in Members
  PROVE  /\ MembershipTypeOK /\ AccountInv(a) /\ pass[a] \in Passes /\ mem[a] \in MemRows
         /\ mem \in [Members -> MemRows] /\ pass \in [Members -> Passes]
         /\ tg \in [Members -> TgStates] /\ channel \in Channels
         /\ pass[a].row \in ListedRows /\ pass[a].mem \in MemRows
BY MembershipInvIs DEF MembershipTypeOK, TgStates, Passes

\* A pass that takes an answer keeps its kind and its row.
LEMMA AnswerGoes ==
  ASSUME MembershipInv, NEW a \in Members, NEW s \in PassSteps, NEW m \in MemRows, Answer(a, s, m)
  PROVE  \E q \in Passes : /\ pass' = [pass EXCEPT ![a] = q] /\ pass'[a] = q
                           /\ q.step = s /\ q.mem = m /\ q.kind = pass[a].kind
                           /\ q.row = pass[a].row /\ Removing(q) = Removing(pass[a])
<1> DEFINE q == [pass[a] EXCEPT !.step = s, !.mem = m]
<1>1. pass[a] \in Passes /\ pass \in [Members -> Passes]
  BY Facts
<1>2. pass' = [pass EXCEPT ![a] = q]
  BY <1>1 DEF Answer
<1>3. q \in Passes /\ q.step = s /\ q.mem = m /\ q.kind = pass[a].kind
      /\ q.row = pass[a].row /\ Removing(q) = Removing(pass[a])
  BY <1>1 DEF Passes, Removing
<1> HIDE DEF q
<1>. QED
  BY <1>1, <1>2, <1>3

\* A pass that goes on keeps what it read.
LEMMA GoGoes ==
  ASSUME MembershipInv, NEW a \in Members, NEW s \in PassSteps, Go(a, s)
  PROVE  \E q \in Passes : /\ pass' = [pass EXCEPT ![a] = q] /\ pass'[a] = q
                           /\ q.step = s /\ q.mem = pass[a].mem /\ q.kind = pass[a].kind
                           /\ q.row = pass[a].row /\ Removing(q) = Removing(pass[a])
                           /\ Goal(q) = Goal(pass[a])
<1> DEFINE q == [pass[a] EXCEPT !.step = s]
<1>1. pass[a] \in Passes /\ pass \in [Members -> Passes]
  BY Facts
<1>2. pass' = [pass EXCEPT ![a] = q]
  BY <1>1 DEF Go
<1>3. q \in Passes /\ q.step = s /\ q.mem = pass[a].mem /\ q.kind = pass[a].kind
      /\ q.row = pass[a].row
  BY <1>1 DEF Passes
<1> HIDE DEF q
<1>. QED
  BY <1>1, <1>2, <1>3, GoalReads

\* A pass that reads a removal reads one that is under way.
LEMMA BeginPassKeeps ==
  ASSUME MembershipInv, NEW a \in Members, NEW kind \in {"reconcile", "register"},
         BeginPass(a, kind)
  PROVE  MembershipInv'
<1> DEFINE q == [NoPass EXCEPT !.step = "listed", !.kind = kind, !.row = channel]
<1>1. AccountInv(a) /\ pass \in [Members -> Passes] /\ channel \in Channels
  BY Facts
<1>2. /\ pass' = [pass EXCEPT ![a] = q] /\ channel.state = "listed"
      /\ UNCHANGED <<catalog, channel, mem, tg, ui>>
  BY DEF BeginPass
<1>3. channel \in ListedRows
  BY <1>1, <1>2 DEF ListedRows
<1>4. q \in Passes /\ q.step = "listed" /\ q.mem = NoMem /\ q.row = channel
  BY <1>3 DEF NoPass, Passes, PassSteps, NoMem, MemRows, MemStatuses
<1> HIDE DEF q
<1>5. RemovalUnderWay' = RemovalUnderWay /\ (Removing(q) => RemovalUnderWay)
  BY <1>2, <1>4 DEF RemovalUnderWay, Removing
<1>6. pass'[a] = q
  BY <1>1, <1>2
<1>7. AccountInv(a)'
  <2>1. /\ mem[a].status = "member" => tg[a] = "in" \/ RemovalUnderWay
        /\ mem[a].status = "pending" => mem[a].req
    BY <1>1, AccountKnows
  <2>2. q.mem.status = "none"
    BY <1>4, Typed
  <2>. QED
    BY <1>2, <1>4, <1>5, <1>6, <2>1, <2>2, AccountGoes
<1>. QED
  BY <1>1, <1>2, <1>4, <1>5, <1>7, OwnStep

\* A pass that finds a request or a membership of its account knows that the
\* removal it read is still under way.
LEMMA LoadMembershipKeeps ==
  ASSUME MembershipInv, NEW a \in Members, LoadMembership(a)
  PROVE  MembershipInv'
<1> DEFINE p == pass[a]
           r == [p EXCEPT !.mem = mem[a]]
<1>1. /\ AccountInv(a) /\ pass \in [Members -> Passes] /\ channel \in Channels /\ p \in Passes
      /\ mem[a] \in MemRows
  BY Facts
<1>2. UNCHANGED <<catalog, channel, mem, tg, ui>> /\ p.step = "listed"
  BY DEF LoadMembership, MemberStep
<1>3. RemovalUnderWay' = RemovalUnderWay
  BY <1>2 DEF RemovalUnderWay
<1>4. PICK q \in Passes :
        /\ pass' = [pass EXCEPT ![a] = q]
        /\ \/ q = NoPass
           \/ /\ q.mem = mem[a] /\ q.kind = p.kind /\ q.row = p.row
              /\ \/ q.step = "ask" /\ Goal(r) \in {"check", "join", "leave"}
                 \/ q.step = "saveRow" /\ Goal(r) = "row"
                 \/ q.step \in {"delete", "complete"}
  <2>1. CASE Rest(a)
    BY <2>1, Typed DEF Rest
  <2>2. CASE pass' = [pass EXCEPT ![a] = NoPass]
    BY <2>2, Typed
  <2>3. ASSUME NEW s \in {"ask", "saveRow", "delete", "complete"},
               pass' = [pass EXCEPT ![a] = [r EXCEPT !.step = s]],
               s = "ask" => Goal(r) \in {"check", "join", "leave"},
               s = "saveRow" => Goal(r) = "row"
        PROVE  \E q \in Passes :
                 /\ pass' = [pass EXCEPT ![a] = q]
                 /\ q.mem = mem[a] /\ q.kind = p.kind /\ q.row = p.row
                 /\ \/ q.step = "ask" /\ Goal(r) \in {"check", "join", "leave"}
                    \/ q.step = "saveRow" /\ Goal(r) = "row"
                    \/ q.step \in {"delete", "complete"}
    <3> DEFINE q == [r EXCEPT !.step = s]
    <3>1. q \in Passes /\ q.mem = mem[a] /\ q.kind = p.kind /\ q.row = p.row /\ q.step = s
      BY <1>1 DEF Passes, PassSteps
    <3>2. pass' = [pass EXCEPT ![a] = q]
      BY <2>3
    <3> HIDE DEF q, r
    <3>. QED
      BY <2>3, <3>1, <3>2
  <2>4. \/ Rest(a) \/ pass' = [pass EXCEPT ![a] = NoPass]
        \/ \E s \in {"ask", "saveRow", "delete", "complete"} :
              /\ pass' = [pass EXCEPT ![a] = [r EXCEPT !.step = s]]
              /\ s = "ask" => Goal(r) \in {"check", "join", "leave"}
              /\ s = "saveRow" => Goal(r) = "row"
    <3> DEFINE next == CASE Goal(r) \in {"check", "join", "leave"} -> "ask"
                         [] Goal(r) = "row" -> "saveRow"
                         [] Goal(r) \in {"delete", "complete"} -> Goal(r)
                         [] OTHER -> "idle"
    <3>1. \/ pass' = [pass EXCEPT ![a] = IF next = "idle" THEN NoPass
                                          ELSE [r EXCEPT !.step = next]]
          \/ Rest(a)
      BY DEF LoadMembership
    <3> HIDE DEF r
    <3>2. /\ next \in {"idle", "ask", "saveRow", "delete", "complete"}
          /\ next = "ask" => Goal(r) \in {"check", "join", "leave"}
          /\ next = "saveRow" => Goal(r) = "row"
      OBVIOUS
    <3> HIDE DEF next
    <3>. QED
      BY <3>1, <3>2
  <2>. QED
    BY <2>1, <2>2, <2>3, <2>4
<1>5. pass'[a] = q
  BY <1>1, <1>4
<1>6. AccountInv(a)'
  <2>1. CASE q = NoPass
    BY <1>1, <1>2, <1>3, <1>5, <2>1, IdleRelies, AccountKnows
  <2>2. CASE q # NoPass
    <3>1. r.mem = mem[a] /\ r.kind = p.kind /\ r.row = p.row
      BY <1>1 DEF Passes
    <3> HIDE DEF r
    <3>2. Goal(r) = Goal(q) /\ Removing(q) = Removing(p)
      <4>1. q.mem = r.mem /\ q.kind = r.kind /\ q.row = r.row /\ q.kind = p.kind /\ q.row = p.row
        BY <1>4, <2>2, <3>1
      <4>. QED
        BY <4>1, GoalReads DEF Removing
    <3>3. /\ q.mem = mem[a]
          /\ q.step \in {"ask", "saveRow", "delete", "complete"}
          /\ q.step = "saveRow" => Goal(q) = "row"
      BY <1>4, <2>2, <3>2
    <3>4. /\ mem[a].status = "member" => tg[a] = "in" \/ RemovalUnderWay
          /\ mem[a].status = "pending" => mem[a].req
          /\ Removing(q) /\ (mem[a].req \/ mem[a].status = "member") => RemovalUnderWay
      BY <1>1, <1>2, <3>2, AccountKnows
    <3>5. /\ Goal(q) = "leave" => Removing(q) \/ q.mem.status = "leaving"
          /\ Goal(q) = "check" => q.mem.status \in {"pending", "leaving"}
                                  /\ (q.mem.status = "leaving" => ~Removing(q))
          /\ Goal(q) = "row" => ~Removing(q)
      BY GoalMeans DEF Removing
    <3>. QED
      BY <1>2, <1>3, <1>5, <3>3, <3>4, <3>5, AccountGoes
  <2>. QED
    BY <2>1, <2>2
<1>. QED
  BY <1>1, <1>2, <1>3, <1>4, <1>6, OwnStep

\* A pass that rests after it has talked to Telegram, or because it was cut off.
LEMMA RestKeeps ==
  ASSUME MembershipInv, NEW a \in Members, Rest(a), UNCHANGED <<channel, mem, ui>>,
         tg' = tg \/ \E s \in TgStates : tg' = [tg EXCEPT ![a] = s],
         mem[a].status = "member" => tg'[a] = "in" \/ RemovalUnderWay
  PROVE  MembershipInv'
<1>1. AccountInv(a) /\ channel \in Channels /\ pass \in [Members -> Passes]
  BY Facts
<1>2. pass' = [pass EXCEPT ![a] = NoPass] /\ pass'[a] = NoPass
  BY <1>1 DEF Rest
<1>3. RemovalUnderWay' = RemovalUnderWay
  BY DEF RemovalUnderWay
<1>4. AccountInv(a)'
  BY <1>1, <1>2, <1>3, IdleRelies, AccountKnows
<1>. QED
  BY <1>1, <1>2, <1>3, <1>4, Typed, OwnStep

\* A pass that goes on after it has talked to Telegram.
LEMMA AnswerKeeps ==
  ASSUME MembershipInv, NEW a \in Members, NEW s \in PassSteps, NEW m \in MemRows,
         Answer(a, s, m), UNCHANGED <<channel, mem, ui>>,
         tg' = tg \/ \E x \in TgStates : tg' = [tg EXCEPT ![a] = x],
         s # "listed",
         mem[a].status = "member" => tg'[a] = "in" \/ RemovalUnderWay,
         m.status = "pending" => m.req,
         s # "ask",
         s = "leave" => /\ m.status = "leaving" /\ mem[a].status # "member"
                        /\ ~Removing(pass[a]),
         s \in {"save", "saveRow"} /\ m.status = "member"
            => /\ tg'[a] = "in"
               /\ Removing(pass[a]) => mem[a].req /\ RemovalUnderWay,
         s = "saveRow" => m.status = "member"
  PROVE  MembershipInv'
<1>1. AccountInv(a) /\ channel \in Channels /\ pass \in [Members -> Passes]
  BY Facts
<1>2. PICK q \in Passes :
         /\ pass' = [pass EXCEPT ![a] = q] /\ pass'[a] = q /\ q.step = s /\ q.mem = m
         /\ q.kind = pass[a].kind /\ Removing(q) = Removing(pass[a])
  BY AnswerGoes
<1>3. RemovalUnderWay' = RemovalUnderWay
  BY DEF RemovalUnderWay
<1>4. mem[a].status = "pending" => mem[a].req
  BY <1>1, AccountKnows
<1>5. AccountInv(a)'
  BY <1>2, <1>3, <1>4, AccountGoes
<1>. QED
  BY <1>1, <1>2, <1>3, <1>5, OwnStep

\* A pass that goes on with what it read goes on as if that were the answer.
LEMMA GoAnswers ==
  ASSUME MembershipInv, NEW a \in Members, NEW s \in PassSteps, Go(a, s)
  PROVE  Answer(a, s, pass[a].mem)
BY Facts DEF Go, Answer, Passes

\* What a pass writes of a join.
LEMMA MarkedMember ==
  ASSUME NEW m \in MemRows, NEW a
  PROVE  /\ markMember(a, m) \in MemRows /\ markMember(a, m).status = "member"
         /\ markPending(m) \in MemRows /\ markPending(m).status = "pending"
         /\ markPending(m).req = TRUE
BY DEF markMember, markPending, MemRows, MemStatuses

\* What Telegram answered is written, and it is so.
LEMMA AskJoinKeeps ==
  ASSUME MembershipInv, NEW a \in Members, AskJoin(a)
  PROVE  MembershipInv'
<1> DEFINE p == pass[a]
<1>1. /\ AccountInv(a) /\ MembershipTypeOK /\ pass \in [Members -> Passes]
      /\ channel \in Channels /\ p \in Passes /\ mem[a] \in MemRows /\ p.mem \in MemRows
      /\ mem \in [Members -> MemRows] /\ tg \in [Members -> TgStates] /\ p.row \in ListedRows
  BY Facts
<1>2. /\ p.step = "ask" /\ p.mem.status = "joining" /\ ~Removing(p)
      /\ UNCHANGED <<catalog, channel, mem, ui>>
  BY <1>1, GoalMeans DEF AskJoin, MemberStep
<1>3. mem[a].status = "member" => tg[a] = "in" \/ RemovalUnderWay
  BY <1>1, AccountKnows
<1>4. "save" \in PassSteps /\ "in" \in TgStates /\ "requested" \in TgStates
  BY DEF PassSteps, TgStates
<1>5. CASE tg' = [tg EXCEPT ![a] = "in"] /\ Answer(a, "save", markMember(a, p.mem))
  <2>1. tg'[a] = "in"
    BY <1>1, <1>5
  <2>. QED
    BY <1>1, <1>2, <1>4, <1>5, <2>1, MarkedMember, AnswerKeeps
<1>6. CASE /\ tg[a] # "in" /\ tg' = [tg EXCEPT ![a] = "requested"]
           /\ Answer(a, "save", markPending(p.mem))
  BY <1>1, <1>2, <1>3, <1>4, <1>6, MarkedMember, AnswerKeeps
<1>7. CASE UNCHANGED tg /\ Rest(a)
  BY <1>2, <1>3, <1>7, RestKeeps
<1>. QED
  BY <1>5, <1>6, <1>7 DEF AskJoin

\* A request that was approved while the channel is taken out: nobody but this
\* pass can delete the membership, so the removal waits for it.
LEMMA AskCheckKeeps ==
  ASSUME MembershipInv, NEW a \in Members, AskCheck(a)
  PROVE  MembershipInv'
<1> DEFINE p == pass[a]
<1>1. /\ AccountInv(a) /\ MembershipTypeOK /\ pass \in [Members -> Passes]
      /\ channel \in Channels /\ p \in Passes /\ mem[a] \in MemRows /\ p.mem \in MemRows
      /\ mem \in [Members -> MemRows] /\ tg \in [Members -> TgStates] /\ p.row \in ListedRows
  BY Facts
<1> DEFINE found == markMember(a, p.mem)
<1>2. /\ p.step = "ask" /\ Goal(p) = "check" /\ UNCHANGED <<catalog, channel, mem, tg, ui>>
      /\ p.mem.status \in {"pending", "leaving"}
      /\ p.mem.status = "leaving" => ~Removing(p)
  BY <1>1, GoalMeans DEF AskCheck, MemberStep
<1>3. /\ mem[a].status = "member" => tg[a] = "in" \/ RemovalUnderWay
      /\ p.mem.status = "pending" => p.mem.req
      /\ Removing(p) => mem[a].req /\ RemovalUnderWay
      /\ p.mem.status = "leaving" => mem[a].status # "member"
  BY <1>1, <1>2, AccountKnows
<1>4. {"save", "saveRow", "leave"} \subseteq PassSteps
  BY DEF PassSteps
<1>5. CASE tg[a] = "in" /\ p.mem.status = "leaving" /\ Go(a, "leave")
  <2>1. Answer(a, "leave", p.mem)
    BY <1>4, <1>5, GoAnswers
  <2>. QED
    BY <1>1, <1>2, <1>3, <1>4, <1>5, <2>1, AnswerKeeps
<1>6. ASSUME NEW s \in {"save", "saveRow"}, tg[a] = "in", Answer(a, s, found)
      PROVE  MembershipInv'
  <2>1. found \in MemRows /\ found.status = "member"
    BY <1>1, MarkedMember
  <2> HIDE DEF found
  <2>. QED
    BY <1>1, <1>2, <1>3, <1>4, <1>6, <2>1, AnswerKeeps
<1>7. CASE Answer(a, "save", p.mem)
  BY <1>1, <1>2, <1>3, <1>4, <1>7, AnswerKeeps
<1>8. CASE Rest(a)
  BY <1>2, <1>3, <1>8, RestKeeps
<1>. QED
  BY <1>5, <1>6, <1>7, <1>8 DEF AskCheck

\* An account leaves only while its channel is removed or it is not a member.
LEMMA AskLeaveKeeps ==
  ASSUME MembershipInv, NEW a \in Members, AskLeave(a)
  PROVE  MembershipInv'
<1> DEFINE p == pass[a]
<1>1. /\ AccountInv(a) /\ MembershipTypeOK /\ pass \in [Members -> Passes]
      /\ channel \in Channels /\ p \in Passes /\ mem[a] \in MemRows /\ p.mem \in MemRows
      /\ mem \in [Members -> MemRows] /\ tg \in [Members -> TgStates] /\ p.row \in ListedRows
  BY Facts
<1>2. /\ p.step = "leave" \/ (p.step = "ask" /\ Goal(p) = "leave")
      /\ UNCHANGED <<catalog, channel, mem, ui>>
      /\ tg' = [tg EXCEPT ![a] = "out"] /\ Answer(a, "delete", p.mem)
  BY DEF AskLeave, Leaves, MemberStep
<1>3. /\ mem[a].status = "member" => RemovalUnderWay
      /\ p.mem.status = "pending" => p.mem.req
  BY <1>1, <1>2, AccountKnows
<1>4. "delete" \in PassSteps /\ "out" \in TgStates
  BY DEF PassSteps, TgStates
<1>. QED
  BY <1>1, <1>2, <1>3, <1>4, AnswerKeeps

\* A leave that failed leaves the account in.
LEMMA LeaveFailsKeeps ==
  ASSUME MembershipInv, NEW a \in Members, LeaveFails(a)
  PROVE  MembershipInv'
<1> DEFINE p == pass[a]
<1>1. /\ AccountInv(a) /\ MembershipTypeOK /\ pass \in [Members -> Passes]
      /\ channel \in Channels /\ p \in Passes /\ mem[a] \in MemRows /\ p.mem \in MemRows
      /\ mem \in [Members -> MemRows] /\ tg \in [Members -> TgStates] /\ p.row \in ListedRows
  BY Facts
<1> DEFINE m == IF Removing(p) THEN [p.mem EXCEPT !.status = "error"] ELSE p.mem
<1>2. /\ p.step = "leave" \/ (p.step = "ask" /\ Goal(p) = "leave")
      /\ UNCHANGED <<catalog, channel, mem, tg, ui>> /\ Answer(a, "save", m)
  BY DEF LeaveFails, Leaves, MemberStep
<1>3. mem[a].status = "member" => tg[a] = "in" \/ RemovalUnderWay
  BY <1>1, AccountKnows
<1>4. ~Removing(p) => p.mem.status = "leaving"
  BY <1>1, <1>2, GoalMeans, AccountKnows
<1>5. m \in MemRows /\ m.status \in {"error", "leaving"}
  BY <1>1, <1>4 DEF MemRows, MemStatuses
<1>6. "save" \in PassSteps
  BY DEF PassSteps
<1> HIDE DEF m
<1>. QED
  BY <1>1, <1>2, <1>3, <1>5, <1>6, AnswerKeeps

\* The pass that lost the answer leaves the store as it was.
LEMMA AnswerLostKeeps ==
  ASSUME MembershipInv, NEW a \in Members, AnswerLost(a)
  PROVE  MembershipInv'
<1> DEFINE p == pass[a]
<1>1. /\ AccountInv(a) /\ MembershipTypeOK /\ pass \in [Members -> Passes]
      /\ channel \in Channels /\ p \in Passes /\ mem[a] \in MemRows /\ p.mem \in MemRows
      /\ mem \in [Members -> MemRows] /\ tg \in [Members -> TgStates] /\ p.row \in ListedRows
  BY Facts
<1> DEFINE leaves == p.step = "leave" \/ (p.step = "ask" /\ Goal(p) = "leave")
<1>2. /\ UNCHANGED <<catalog, channel, mem, ui>> /\ Rest(a)
      /\ \/ leaves /\ tg' = [tg EXCEPT ![a] = "out"]
         \/ tg' = [tg EXCEPT ![a] = "in"]
         \/ tg' = [tg EXCEPT ![a] = "requested"] /\ tg[a] # "in"
  BY DEF AnswerLost, Leaves, MemberStep
<1>3. /\ mem[a].status = "member" => tg[a] = "in" \/ RemovalUnderWay
      /\ leaves /\ mem[a].status = "member" => RemovalUnderWay
  BY <1>1, <1>2, AccountKnows
<1>4. mem[a].status = "member" => tg'[a] = "in" \/ RemovalUnderWay
  BY <1>1, <1>2, <1>3
<1>5. \E s \in TgStates : tg' = [tg EXCEPT ![a] = s]
  BY <1>2 DEF TgStates
<1>. QED
  BY <1>2, <1>4, <1>5, RestKeeps

\* A pass that is cut off leaves the store as it was.
LEMMA AbortPassKeeps ==
  ASSUME MembershipInv, NEW a \in Members, AbortPass(a)
  PROVE  MembershipInv'
<1>1. mem[a].status = "member" => tg[a] = "in" \/ RemovalUnderWay
  BY Facts, AccountKnows
<1>. QED
  BY <1>1, RestKeeps DEF AbortPass

\* A membership is saved by the pass of its account alone.
LEMMA SaveMembershipKeeps ==
  ASSUME MembershipInv, NEW a \in Members, SaveMembership(a)
  PROVE  MembershipInv'
<1> DEFINE p == pass[a]
<1>1. /\ AccountInv(a) /\ MembershipTypeOK /\ pass \in [Members -> Passes]
      /\ channel \in Channels /\ p \in Passes /\ mem[a] \in MemRows /\ p.mem \in MemRows
      /\ mem \in [Members -> MemRows] /\ tg \in [Members -> TgStates] /\ p.row \in ListedRows
  BY Facts
<1> DEFINE m == saveCatalogMembership(a, p.mem)
<1>2. /\ p.step = "save" /\ UNCHANGED <<catalog, channel, tg, ui>>
      /\ mem' = [mem EXCEPT ![a] = m]
      /\ IF p.mem.status # "member" THEN Rest(a)
         ELSE IF Removing(p) THEN Go(a, "ask") ELSE Go(a, "saveRow")
  BY DEF SaveMembership, MemberStep
<1>3. /\ p.mem.status = "pending" => p.mem.req
      /\ p.mem.status = "member" => tg[a] = "in"
      /\ p.mem.status = "member" /\ Removing(p) => mem[a].req /\ RemovalUnderWay
  BY <1>1, <1>2, AccountKnows
<1>4. /\ m \in MemRows /\ m.status = p.mem.status /\ m.req = (p.mem.req \/ mem[a].req)
  <2> DEFINE r == p.mem.req \/ mem[a].req
  <2>1. r \in BOOLEAN
    OBVIOUS
  <2>2. m = [p.mem EXCEPT !.req = r]
    BY <1>1 DEF saveCatalogMembership, MemRows
  <2> HIDE DEF r, m
  <2>3. m \in MemRows /\ m.status = p.mem.status /\ m.req = r
    BY <1>1, <2>1, <2>2 DEF MemRows
  <2>. QED
    BY <2>3 DEF r
<1>5. mem'[a] = m /\ RemovalUnderWay' = RemovalUnderWay
  BY <1>1, <1>2 DEF RemovalUnderWay
<1> HIDE DEF m
<1>6. "ask" \in PassSteps /\ "saveRow" \in PassSteps
  BY DEF PassSteps
<1>7. CASE p.mem.status # "member"
  <2>1. pass' = [pass EXCEPT ![a] = NoPass] /\ pass'[a] = NoPass
    BY <1>1, <1>2, <1>7 DEF Rest
  <2>2. AccountInv(a)'
    BY <1>3, <1>4, <1>5, <1>7, <2>1, IdleRelies
  <2>. QED
    BY <1>1, <1>2, <1>4, <1>5, <2>1, <2>2, Typed, OwnStep
<1>8. CASE p.mem.status = "member"
  <2>1. PICK q \in Passes :
           /\ pass' = [pass EXCEPT ![a] = q] /\ pass'[a] = q /\ q.mem = p.mem
           /\ Removing(q) = Removing(p) /\ Goal(q) = Goal(p)
           /\ q.step = IF Removing(p) THEN "ask" ELSE "saveRow"
    BY <1>2, <1>6, <1>8, GoGoes
  <2>2. Removing(q) => Goal(q) \in {"leave", "delete"}
    BY <1>8, <2>1, GoalMeans
  <2>3. AccountInv(a)'
    BY <1>2, <1>3, <1>4, <1>5, <1>8, <2>1, <2>2, AccountGoes
  <2>. QED
    BY <1>1, <1>2, <1>4, <1>5, <2>1, <2>3, OwnStep
<1>. QED
  BY <1>7, <1>8

\* A row that is saved keeps the removal others rely on.
LEMMA SaveRowKeeps ==
  ASSUME MembershipInv, NEW a \in Members, SaveRow(a)
  PROVE  MembershipInv'
<1> DEFINE p == pass[a]
<1>1. /\ AccountInv(a) /\ MembershipTypeOK /\ pass \in [Members -> Passes]
      /\ channel \in Channels /\ p \in Passes /\ mem[a] \in MemRows /\ p.mem \in MemRows
      /\ mem \in [Members -> MemRows] /\ tg \in [Members -> TgStates] /\ p.row \in ListedRows
  BY Facts
<1> DEFINE ready == [p.row EXCEPT !.status = "ready"]
           row == IF Removing(p) THEN p.row ELSE ready
<1>2. /\ p.step = "saveRow" /\ UNCHANGED <<catalog, mem, tg, ui>> /\ channel' = SavedRow(row)
      /\ IF Removing(p) THEN Go(a, "save") ELSE Rest(a)
  BY DEF SaveRow, MemberStep
<1>3. ready \in ListedRows
  BY <1>1 DEF ListedRows, Channels
<1>4. channel' \in Channels /\ (RemovalUnderWay => RemovalUnderWay')
  <2>1. row \in ListedRows
    BY <1>1, <1>3
  <2>. QED
    BY <1>1, <1>2, <2>1, SavedRowKeeps DEF RemovalUnderWay, ListedRows
<1>5. /\ mem[a].status = "member" => tg[a] = "in" \/ RemovalUnderWay
      /\ mem[a].status = "pending" => mem[a].req
      /\ p.mem.status = "pending" => p.mem.req
      /\ Removing(p) => p.mem.status = "member" /\ tg[a] = "in"
      /\ Removing(p) => mem[a].req /\ RemovalUnderWay
  BY <1>1, <1>2, AccountKnows
<1>6. "save" \in PassSteps
  BY DEF PassSteps
<1>7. CASE ~Removing(p)
  <2>1. pass' = [pass EXCEPT ![a] = NoPass] /\ pass'[a] = NoPass
    BY <1>1, <1>2, <1>7 DEF Rest
  <2>2. AccountInv(a)'
    BY <1>2, <1>4, <1>5, <2>1, IdleRelies
  <2>. QED
    BY <1>2, <1>4, <2>1, <2>2, Typed, OwnStep
<1>8. CASE Removing(p)
  <2>1. PICK q \in Passes :
           /\ pass' = [pass EXCEPT ![a] = q] /\ pass'[a] = q /\ q.mem = p.mem
           /\ Removing(q) = Removing(p) /\ q.step = "save"
    BY <1>2, <1>6, <1>8, GoGoes
  <2>2. AccountInv(a)'
    BY <1>2, <1>4, <1>5, <1>8, <2>1, AccountGoes
  <2>. QED
    BY <1>2, <1>4, <2>1, <2>2, OwnStep
<1>. QED
  BY <1>7, <1>8

\* Without a membership there is nothing to be true.
LEMMA DeleteMembershipKeeps ==
  ASSUME MembershipInv, NEW a \in Members, DeleteMembership(a)
  PROVE  MembershipInv'
<1> DEFINE p == pass[a]
<1>1. /\ AccountInv(a) /\ MembershipTypeOK /\ pass \in [Members -> Passes]
      /\ channel \in Channels /\ p \in Passes /\ mem[a] \in MemRows /\ p.mem \in MemRows
      /\ mem \in [Members -> MemRows] /\ tg \in [Members -> TgStates] /\ p.row \in ListedRows
  BY Facts
<1>2. /\ p.step = "delete" /\ UNCHANGED <<catalog, channel, tg, ui>>
      /\ mem' = [mem EXCEPT ![a] = NoMem]
      /\ IF Removing(p) THEN Go(a, "complete") ELSE Rest(a)
  BY DEF DeleteMembership, MemberStep
<1>3. mem'[a] = NoMem /\ RemovalUnderWay' = RemovalUnderWay /\ "complete" \in PassSteps
  BY <1>1, <1>2 DEF RemovalUnderWay, PassSteps
<1>4. p.mem.status = "pending" => p.mem.req
  BY <1>1, AccountKnows
<1>5. PICK q \in Passes : /\ pass' = [pass EXCEPT ![a] = q] /\ pass'[a] = q
                          /\ \/ q = NoPass
                             \/ q.step = "complete" /\ q.mem = p.mem
  <2>1. CASE Removing(p)
    BY <1>2, <1>3, <2>1, GoGoes
  <2>2. CASE ~Removing(p)
    BY <1>1, <1>2, <2>2, Typed DEF Rest
  <2>. QED
    BY <2>1, <2>2
<1>6. AccountInv(a)'
  BY <1>3, <1>4, <1>5, Typed, AccountGoes
<1>. QED
  BY <1>1, <1>2, <1>3, <1>5, <1>6, Typed, OwnStep

\* The removal ends when nobody has a membership, and then no pass relies on it.
LEMMA CompleteRemovalKeeps ==
  ASSUME MembershipInv, NEW a \in Members, CompleteRemoval(a)
  PROVE  MembershipInv'
<1> DEFINE p == pass[a]
<1>1. /\ AccountInv(a) /\ MembershipTypeOK /\ pass \in [Members -> Passes]
      /\ channel \in Channels /\ p \in Passes /\ mem[a] \in MemRows /\ p.mem \in MemRows
      /\ mem \in [Members -> MemRows] /\ tg \in [Members -> TgStates] /\ p.row \in ListedRows
  BY Facts
<1>2. /\ UNCHANGED <<catalog, mem, tg, ui>> /\ Rest(a) /\ channel' = CompleteCatalogRemoval
  BY DEF CompleteRemoval
<1>3. pass' = [pass EXCEPT ![a] = NoPass] /\ pass'[a] = NoPass
  BY <1>1, <1>2 DEF Rest
<1>4. channel' = channel \/ \A b \in Members : mem[b] = NoMem
  BY <1>2 DEF CompleteCatalogRemoval
<1>5. channel' \in Channels
  BY <1>1, <1>2 DEF CompleteCatalogRemoval, Channels, NewChannel
<1>6. RemovalUnderWay => RemovalUnderWay' \/ \A b \in Members : mem[b] = NoMem
  BY <1>4 DEF RemovalUnderWay
<1>7. /\ mem[a].status = "member" => tg[a] = "in" \/ RemovalUnderWay
      /\ mem[a].status = "pending" => mem[a].req
  BY <1>1, AccountKnows
<1>8. AccountInv(a)'
  BY <1>2, <1>3, <1>6, <1>7, Typed, IdleRelies
<1>. QED
  BY <1>2, <1>3, <1>5, <1>6, <1>8, Typed, OwnStep

\* An account that is let in breaks nothing.
LEMMA ApproveKeeps ==
  ASSUME MembershipInv, NEW a \in Members, Approve(a)
  PROVE  MembershipInv'
<1>1. /\ MembershipTypeOK /\ tg \in [Members -> TgStates] /\ mem \in [Members -> MemRows]
      /\ \A b \in Members : mem[b].status = "pending" => mem[b].req
  BY Facts, AccountKnows
<1>2. UNCHANGED <<catalog, channel, mem, pass, ui>> /\ tg' = [tg EXCEPT ![a] = "in"]
  BY DEF Approve
<1>3. tg' \in [Members -> TgStates] /\ \A b \in Members : tg'[b] = tg[b] \/ tg'[b] = "in"
  BY <1>1, <1>2 DEF TgStates
<1>4. RemovalUnderWay' = RemovalUnderWay
  BY <1>2 DEF RemovalUnderWay
<1>. QED
  BY <1>1, <1>2, <1>3, <1>4, OthersStep DEF MembershipTypeOK

\* What is known when the user acts.
LEMMA UserFacts ==
  ASSUME MembershipInv
  PROVE  /\ MembershipTypeOK /\ channel \in Channels /\ tg \in [Members -> TgStates]
         /\ mem \in [Members -> MemRows] /\ ui.row \in ListedRows /\ ui.on \in BOOLEAN
         /\ \A a \in Members : mem[a].status = "pending" => mem[a].req
         /\ NoUserCall \in UserCalls
<1>1. MembershipTypeOK /\ \A a \in Members : AccountInv(a)
  BY MembershipInvIs
<1>2. \A a \in Members : mem[a].status = "pending" => mem[a].req
  BY <1>1 DEF AccountInv
<1>. QED
  BY <1>1, <1>2, Typed DEF MembershipTypeOK, TgStates, NoUserCall, UserCalls

\* A call that touches the row alone.
LEMMA RowStep ==
  ASSUME MembershipInv, UNCHANGED <<mem, tg, pass>>, channel' \in Channels,
         RemovalUnderWay => RemovalUnderWay',
         ui' \in UserCalls
  PROVE  MembershipInv'
BY UserFacts, OthersStep

\* A call of the user reads a row that is listed.
LEMMA CallReadsKeeps ==
  ASSUME MembershipInv, NEW op \in {"toggle", "join", "leave", "retry"}, NEW on \in BOOLEAN,
         CallReads(op, on)
  PROVE  MembershipInv'
<1>1. /\ UNCHANGED <<catalog, channel, mem, tg, pass>> /\ channel.state = "listed"
      /\ ui' = [op |-> op, row |-> channel, on |-> on, known |-> {}]
  BY DEF CallReads
<1>2. channel \in ListedRows /\ RemovalUnderWay' = RemovalUnderWay
  BY <1>1, UserFacts DEF ListedRows, RemovalUnderWay
<1>3. ui' \in UserCalls
  BY <1>1, <1>2 DEF UserCalls
<1>. QED
  BY <1>1, <1>2, <1>3, UserFacts, RowStep

\* Reading the memberships changes none.
LEMMA ListMembershipsKeeps ==
  ASSUME MembershipInv, ListMemberships
  PROVE  MembershipInv'
<1> DEFINE as == {a \in Members : mem[a] # NoMem}
<1>1. UNCHANGED <<catalog, channel, mem, tg, pass>> /\ ui' = [ui EXCEPT !.op = "intend", !.known = as]
  BY DEF ListMemberships
<1>2. ui \in UserCalls /\ as \in SUBSET Members
  BY UserFacts DEF MembershipTypeOK
<1> HIDE DEF as
<1>3. ui' \in UserCalls
  BY <1>1, <1>2 DEF UserCalls
<1>4. RemovalUnderWay' = RemovalUnderWay
  BY <1>1 DEF RemovalUnderWay
<1>. QED
  BY <1>1, <1>3, <1>4, UserFacts, RowStep

\* The switch writes an old row, without the removal it may miss.
LEMMA ToggleKeeps ==
  ASSUME MembershipInv, Toggle
  PROVE  MembershipInv'
<1> DEFINE row == [ui.row EXCEPT !.active = ui.on]
<1>1. channel' = SavedRow(row) /\ UNCHANGED <<catalog, mem, tg, pass>> /\ ui' = NoUserCall
  BY DEF Toggle
<1>2. row \in ListedRows
  BY UserFacts DEF ListedRows, Channels
<1> HIDE DEF row
<1>3. channel' \in Channels /\ (RemovalUnderWay => RemovalUnderWay')
  BY <1>1, <1>2, UserFacts, SavedRowKeeps DEF RemovalUnderWay, ListedRows
<1>. QED
  BY <1>1, <1>3, UserFacts, RowStep

\* A removal that is requested is under way.
LEMMA RequestCatalogRemovalKeeps ==
  ASSUME MembershipInv, RequestCatalogRemoval
  PROVE  MembershipInv'
<1>1. /\ channel.state = "listed" /\ UNCHANGED <<catalog, mem, tg, pass, ui>>
      /\ channel' = [channel EXCEPT !.active = FALSE, !.status = "paused", !.removing = TRUE]
  BY DEF RequestCatalogRemoval
<1>2. channel' \in Channels /\ channel'.state = "listed" /\ channel'.removing = TRUE
  BY <1>1, UserFacts DEF Channels
<1>. QED
  BY <1>1, <1>2, UserFacts, RowStep DEF RemovalUnderWay, MembershipTypeOK

\* A link is added again when no removal is under way.
LEMMA AddLinksKeeps ==
  ASSUME MembershipInv, AddLinks
  PROVE  MembershipInv'
<1>1. /\ channel.state # "listed" /\ UNCHANGED <<catalog, mem, tg, pass, ui>>
      /\ channel' = SavedRow(NewChannel)
  BY DEF AddLinks
<1>2. channel' \in Channels /\ ~RemovalUnderWay
  BY <1>1, UserFacts, Typed, SavedRowKeeps DEF RemovalUnderWay
<1>. QED
  BY <1>1, <1>2, UserFacts, RowStep DEF MembershipTypeOK

\* An intent that is saved keeps a request that was sent.
LEMMA IntentKeepsRequest ==
  ASSUME MembershipInv, NEW a \in Members
  PROVE  LET m == saveCatalogMembership(a, Joining)
         IN  m \in MemRows /\ m.status = "joining" /\ m.req = mem[a].req
BY UserFacts, Typed DEF saveCatalogMembership, MemRows, MemStatuses, Joining, NoMem

\* An intent may replace a membership made meanwhile; a request stays.
LEMMA JoinChannelKeeps ==
  ASSUME MembershipInv, NEW eligible \in SUBSET Members, JoinChannel(eligible)
  PROVE  MembershipInv'
<1> DEFINE row == [ui.row EXCEPT !.status = "joining"]
           as == eligible \ ui.known
<1>1. /\ channel' = SavedRow(row) /\ UNCHANGED <<catalog, tg, pass>> /\ ui' = NoUserCall
      /\ mem' = [a \in Members |-> IF a \in as THEN saveCatalogMembership(a, Joining) ELSE mem[a]]
  BY DEF JoinChannel, WithIntents
<1>2. row \in ListedRows
  BY UserFacts DEF ListedRows, Channels
<1> HIDE DEF row, as
<1>3. channel' \in Channels /\ (RemovalUnderWay => RemovalUnderWay')
  BY <1>1, <1>2, UserFacts, SavedRowKeeps DEF RemovalUnderWay, ListedRows
<1>4. ASSUME NEW a \in Members
      PROVE  /\ mem'[a] \in MemRows /\ mem'[a].req = mem[a].req
             /\ mem'[a] = mem[a] \/ mem'[a].status = "joining"
  <2>1. CASE a \in as
    <3>1. mem'[a] = saveCatalogMembership(a, Joining)
      BY <1>1, <2>1
    <3>. QED
      BY <3>1, IntentKeepsRequest
  <2>2. CASE a \notin as
    BY <1>1, <2>2, UserFacts
  <2>. QED
    BY <2>1, <2>2
<1>5. mem' \in [Members -> MemRows]
  BY <1>1, <1>4
<1>. QED
  BY <1>1, <1>3, <1>4, <1>5, UserFacts, OthersStep

\* Leaving makes no member and forgets no request that was sent.
LEMMA RequestCatalogLeaveKeeps ==
  ASSUME MembershipInv, RequestCatalogLeave
  PROVE  MembershipInv'
<1>1. /\ ui' = NoUserCall /\ UNCHANGED <<catalog, tg, pass>>
      /\ channel' = channel \/ channel' = [channel EXCEPT !.active = FALSE, !.status = "paused"]
      /\ mem' = [a \in Members |->
                    IF channel.state = "gone" \/ mem[a] = NoMem THEN mem[a]
                    ELSE IF mem[a] = Joining THEN NoMem
                    ELSE [mem[a] EXCEPT !.status = "leaving"]]
  BY DEF RequestCatalogLeave
<1>2. channel' \in Channels /\ RemovalUnderWay' = RemovalUnderWay
  BY <1>1, UserFacts DEF Channels, RemovalUnderWay
<1>3. ASSUME NEW a \in Members
      PROVE  /\ mem'[a] \in MemRows /\ mem'[a].req = mem[a].req
             /\ mem'[a] = mem[a] \/ mem'[a].status \in {"none", "leaving"}
  <2> DEFINE m == [mem[a] EXCEPT !.status = "leaving"]
  <2>1. mem[a] \in MemRows
    BY UserFacts
  <2>2. m \in MemRows /\ m.req = mem[a].req /\ m.status = "leaving"
    BY <2>1 DEF MemRows, MemStatuses
  <2>3. mem'[a] \in {mem[a], m} \/ (mem[a] = Joining /\ mem'[a] = NoMem)
    BY <1>1
  <2> HIDE DEF m
  <2>. QED
    BY <2>1, <2>2, <2>3, Typed
<1>4. mem' \in [Members -> MemRows]
  BY <1>1, <1>3
<1>. QED
  BY <1>1, <1>2, <1>3, <1>4, UserFacts, OthersStep

\* Only without a removal is a request forgotten.
LEMMA RetryPendingKeeps ==
  ASSUME MembershipInv, RetryPendingCatalogMemberships
  PROVE  MembershipInv'
<1> DEFINE again == {a \in Members : mem[a].status = "pending" /\ ~mem[a].member}
           may == channel.state # "gone" /\ ~channel.removing
<1>1. /\ ui' = NoUserCall /\ UNCHANGED <<catalog, tg, pass>>
      /\ channel' = channel \/ channel' = [channel EXCEPT !.status = "joining"]
      /\ mem' = [a \in Members |-> IF a \in again /\ may THEN Joining ELSE mem[a]]
  BY DEF RetryPendingCatalogMemberships
<1>2. channel' \in Channels /\ RemovalUnderWay' = RemovalUnderWay
  BY <1>1, UserFacts DEF Channels, RemovalUnderWay
<1>3. may => ~RemovalUnderWay
  BY DEF RemovalUnderWay
<1> HIDE DEF again, may
<1>4. ASSUME NEW a \in Members
      PROVE  /\ mem'[a] \in MemRows
             /\ mem'[a] = mem[a] \/ (mem'[a] = Joining /\ ~RemovalUnderWay)
  BY <1>1, <1>3, UserFacts, Typed
<1>5. mem' \in [Members -> MemRows]
  BY <1>1, <1>4
<1>. QED
  BY <1>1, <1>2, <1>4, <1>5, UserFacts, Typed, OthersStep

\* Nobody is a member at first.
LEMMA MembershipStarts == MembershipInit => MembershipInv
<1> SUFFICES ASSUME MembershipInit PROVE MembershipInv
  OBVIOUS
<1>1. \A a \in Members : mem[a] = NoMem /\ pass[a] = NoPass
  BY DEF MembershipInit
<1>2. MembershipTypeOK
  BY Typed DEF MembershipInit, MembershipTypeOK, NoUserCall, UserCalls
<1>3. \A a \in Members : RemovalOutlivesPass(a) /\ AnswerStillHolds(a)
  BY <1>1, Typed DEF RemovalOutlivesPass, AnswerStillHolds, InFlight
<1>. QED
  BY <1>1, <1>2, <1>3, Typed DEF MembershipInv, MemberIsIn, PendingIsRequested

\* One step for the user, for a pass, for Telegram.
LEMMA MembershipSteps == MembershipInv /\ [MembershipNext]_memVars => MembershipInv'
<1> SUFFICES ASSUME MembershipInv, [MembershipNext]_memVars PROVE MembershipInv'
  OBVIOUS
<1>1. CASE UNCHANGED memVars
  <2>1. RemovalUnderWay' = RemovalUnderWay
    BY <1>1 DEF memVars, RemovalUnderWay
  <2>. QED
    BY <1>1, <2>1, UserFacts, RowStep DEF memVars, MembershipTypeOK
<1>2. CASE UserStep
  BY <1>2, CallReadsKeeps, ListMembershipsKeeps, ToggleKeeps, RequestCatalogLeaveKeeps, RetryPendingKeeps,
     JoinChannelKeeps, RequestCatalogRemovalKeeps, AddLinksKeeps DEF UserStep
<1>3. ASSUME NEW a \in Members, PassStep(a) PROVE MembershipInv'
  BY <1>3, LoadMembershipKeeps, AskJoinKeeps, AskCheckKeeps, AskLeaveKeeps, LeaveFailsKeeps,
     SaveMembershipKeeps, SaveRowKeeps, DeleteMembershipKeeps, CompleteRemovalKeeps DEF PassStep
<1>4. ASSUME NEW a \in Members,
             \/ \E kind \in {"reconcile", "register"} : BeginPass(a, kind)
             \/ AnswerLost(a) \/ Approve(a) \/ AbortPass(a)
      PROVE  MembershipInv'
  BY <1>4, BeginPassKeeps, AnswerLostKeeps, ApproveKeeps, AbortPassKeeps
<1>. QED
  BY <1>1, <1>2, <1>3, <1>4 DEF MembershipNext

\* For any number of accounts: the store calls an account a member only if it is
\* in the channel or the removal is under way, whatever the user asks for and
\* wherever passes are cut off between Telegram and the store.
THEOREM MembershipInvariant == MembershipSpec => []MembershipInv
<1>. QED
  BY MembershipStarts, MembershipSteps, PTL DEF MembershipSpec

\* Whatever writes the row, it was read when listed, and saving it merges the
\* removal that is in the store.
LEMMA RowsKeepRemoval ==
  MembershipInv /\ [MembershipNext]_memVars =>
    [channel.state = "listed" /\ channel.removing /\ channel'.state = "listed"
        => channel'.removing]_memVars
<1> SUFFICES ASSUME MembershipInv, MembershipNext, RemovalUnderWay, channel'.state = "listed"
             PROVE channel'.removing
  BY DEF RemovalUnderWay
<1>1. channel \in Channels /\ ui.row \in ListedRows
  BY UserFacts
<1>2. ASSUME NEW row \in ListedRows, channel' = SavedRow(row) PROVE channel'.removing
  BY <1>1, <1>2, SavedRowKeeps
<1>3. CASE channel' = channel
  BY <1>3 DEF RemovalUnderWay
<1>4. CASE Toggle
  <2>1. [ui.row EXCEPT !.active = ui.on] \in ListedRows
    BY <1>1, UserFacts DEF ListedRows, Channels
  <2>. QED
    BY <1>2, <1>4, <2>1 DEF Toggle
<1>5. CASE \E eligible \in SUBSET Members : JoinChannel(eligible)
  <2>1. [ui.row EXCEPT !.status = "joining"] \in ListedRows
    BY <1>1 DEF ListedRows, Channels
  <2>. QED
    BY <1>2, <1>5, <2>1 DEF JoinChannel
<1>6. CASE RequestCatalogLeave \/ RetryPendingCatalogMemberships
  BY <1>1, <1>6 DEF RequestCatalogLeave, RetryPendingCatalogMemberships, Channels,
                    RemovalUnderWay
<1>7. CASE RequestCatalogRemoval
  BY <1>1, <1>7 DEF RequestCatalogRemoval, Channels
<1>8. CASE AddLinks
  BY <1>8 DEF AddLinks, RemovalUnderWay
<1>9. ASSUME NEW a \in Members, SaveRow(a) PROVE channel'.removing
  <2>1. pass[a].row \in ListedRows
    BY Facts
  <2>2. [pass[a].row EXCEPT !.status = "ready"] \in ListedRows
    BY <2>1 DEF ListedRows, Channels
  <2>. QED
    BY <1>2, <1>9, <2>1, <2>2 DEF SaveRow
<1>10. ASSUME NEW a \in Members, CompleteRemoval(a) PROVE channel'.removing
  BY <1>1, <1>10 DEF CompleteRemoval, CompleteCatalogRemoval, Channels, NewChannel,
                     RemovalUnderWay
<1>. QED
  BY <1>3, <1>4, <1>5, <1>6, <1>7, <1>8, <1>9, <1>10
     DEF MembershipNext, UserStep, CallReads, ListMemberships, BeginPass, PassStep, LoadMembership, AskJoin,
         AskCheck, AskLeave, LeaveFails, SaveMembership, DeleteMembership, AnswerLost, Approve,
         AbortPass

\* A requested removal survives every writer that saves a row it read before
\* (Toggle, Join, the accounts' passes), because save merges it.
THEOREM RemovalIsKept == MembershipSpec => RemovalKept
<1>. QED
  BY MembershipInvariant, RowsKeepRemoval, PTL DEF MembershipSpec, RemovalKept
============================================================================
