----------------------------- MODULE MCAccounts -----------------------------
(***************************************************************************)
(* Two parts that share no variable, side by side: the memberships of a    *)
(* channel and the scheduled direct messages.  A behaviour is a fair       *)
(* behaviour of the part that Init chooses; the other rests in one initial *)
(* state of its.                                                           *)
(***************************************************************************)
EXTENDS Membership, ScheduledDM

CONSTANTS u1, t1, r1, r2, a1, a2, c1

VARIABLE part

accountsVars == <<part, memVars, vars>>

Plan(rs, as, interval, max) ==
    [recipients |-> rs, accounts |-> as, start |-> 1, interval |-> interval,
     max |-> max]

\* One recipient twice; two recipients once, in another order of both
\* names and accounts.  The last draft is refused: "once" with two runs.
EditDrafts == {Plan(<<r1>>, <<a1>>, 2, 2), Plan(<<r2, r1>>, <<a2>>, 0, 1),
               Plan(<<r1>>, <<a1>>, 0, 2)}

AccountsInit ==
    /\ part \in {"membership", "messages"}
    /\ MembershipInit /\ Init
    /\ part # "membership" => catalog = "outbound"

AccountsNext ==
    /\ UNCHANGED part
    /\ \/ part = "membership" /\ MembershipNext /\ UNCHANGED vars
       \/ part = "messages" /\ Next /\ UNCHANGED memVars

\* A step of the memberships or one of the messages: part is constant, so
\* fairness of it is fairness of the one or of the other.
Either(memStep, messageStep) ==
    \/ part = "membership" /\ memStep /\ UNCHANGED vars
    \/ part = "messages" /\ messageStep /\ UNCHANGED memVars

\* MembershipFairness and Fairness, for the behaviours of that part.
AccountsFairness ==
    /\ WF_<<memVars, vars>>(Either(PassStep(u1), RunnerStep))
    /\ SF_<<memVars, vars>>(Either(BeginPass(u1, "reconcile"), FindAccount))
    /\ SF_<<memVars, vars>>(
           Either(pass[u1].kind = "reconcile" /\ LoadMembership(u1),
                  \E o \in {"resolved", "closed", "invalid"} : ResolveUsername(o)))
    /\ SF_<<memVars, vars>>(
           Either(AskLeave(u1), \/ SendAccepted("sent")
                                \/ \E o \in {"closed", "failed"} : SendRefused(o)))
    /\ SF_memVars(part = "membership" /\ (DeleteMembership(u1) \/ CompleteRemoval(u1)))

AccountsSpec == AccountsInit /\ [][AccountsNext]_accountsVars /\ AccountsFairness
============================================================================
