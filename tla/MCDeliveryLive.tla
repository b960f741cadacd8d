--------------------------- MODULE MCDeliveryLive ---------------------------
(***************************************************************************)
(* Two parts that share no variable, side by side: the delivery queue and  *)
(* the licence lock.  A behaviour is a fair behaviour of the part that     *)
(* Init chooses; the other rests in one initial state of its.              *)
(***************************************************************************)
EXTENDS MCDelivery, License

CONSTANTS l1, l2

VARIABLE part

liveVars == <<part, vars, licVars>>

LiveInit ==
    /\ part \in {"delivery", "license"}
    /\ Init /\ LicInit

LiveNext ==
    /\ UNCHANGED part
    /\ \/ part = "delivery" /\ Next /\ UNCHANGED licVars
       \/ part = "license" /\ LicNext /\ UNCHANGED vars

\* A step of the queue or one of the lock: part is constant, so fairness of it
\* is fairness of the one or of the other.
Either(deliveryStep, licStep) ==
    \/ part = "delivery" /\ deliveryStep /\ UNCHANGED licVars
    \/ part = "license" /\ licStep /\ UNCHANGED vars

\* Fairness and LicFairness, for the behaviours of that part.
LiveFairness ==
    /\ WF_vars(part = "delivery" /\ RunStep)
    /\ WF_vars(part = "delivery" /\ ClearGroupRests)
    /\ \A j \in Jobs : WF_vars(part = "delivery" /\ JobFallsDue(j))
    /\ \A a \in Accounts :
          /\ WF_vars(part = "delivery" /\ RestExpires(a))
          /\ WF_vars(part = "delivery" /\ FloodExpires(a))
    /\ SF_<<vars, licVars>>(Either(NextDue(j1), SupervisorLocks))
    /\ SF_vars(part = "delivery" /\ NextDue(j2))
    /\ \A c \in Checkers : WF_licVars(part = "license" /\ CheckSave(c))
    /\ WF_licVars(part = "license" /\ CheckLoad("gate"))
    /\ WF_licVars(part = "license" /\ PublishGate)
    /\ WF_licVars(part = "license" /\ SupervisorWakes)
    /\ WF_licVars(part = "license" /\ SupervisorDecides)
    /\ WF_licVars(part = "license" /\ handleTerminal)

LiveSpec == LiveInit /\ [][LiveNext]_liveVars /\ LiveFairness
=============================================================================
