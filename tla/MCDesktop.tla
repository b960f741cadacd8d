----------------------------- MODULE MCDesktop -----------------------------
(***************************************************************************)
(* Four parts that share no variable, side by side: the keywords, the      *)
(* proxy routes, the connection to Telegram and the program's life.  A     *)
(* behaviour is a fair behaviour of the part that Init chooses; the others *)
(* rest in one initial state of theirs.                                    *)
(***************************************************************************)
EXTENDS Keywords, Routes, Connectivity, Lifecycle, TLC

CONSTANTS k1, k2, a1, a2, p1, c1, c2, o1

VARIABLE part

desktopVars == <<part, keywordVars, routesVars, connVars, lifeVars>>

\* Both keywords have one canonical form.
KeywordLemma == (k1 :> k1) @@ (k2 :> k1)
KeywordCorpora == {{k1, k2}}

DesktopInit ==
    /\ part \in {"keywords", "routes", "connection", "life"}
    /\ KeywordsInit /\ RoutesInit /\ ConnInit /\ LifecycleInit
    /\ part # "keywords" => typed = {}
    /\ part # "connection" => bridges = 0
    /\ part # "life" => used = {"analysis"}

DesktopNext ==
    /\ UNCHANGED part
    /\ \/ /\ part = "keywords" /\ KeywordsNext
          /\ UNCHANGED <<routesVars, connVars, lifeVars>>
       \/ /\ part = "routes" /\ RoutesNext
          /\ UNCHANGED <<keywordVars, connVars, lifeVars>>
       \/ /\ part = "connection" /\ ConnNext
          /\ UNCHANGED <<keywordVars, routesVars, lifeVars>>
       \/ /\ part = "life" /\ LifecycleNext
          /\ UNCHANGED <<keywordVars, routesVars, connVars>>

\* The fairness of each module, for the behaviours of its part.
DesktopFairness ==
    /\ \A c \in Clerks : WF_keywordVars(part = "keywords" /\ CallStep(c))
    /\ WF_keywordVars(part = "keywords" /\ (CallStep(Cycle) \/ AnalysisStep))
    /\ WF_routesVars(part = "routes" /\ LoopStep)
    /\ WF_routesVars(part = "routes" /\ CheckStep(p1))
    /\ WF_routesVars(part = "routes" /\ RetryDue(p1))
    /\ WF_connVars(part = "connection" /\ RunStep)
    /\ WF_connVars(part = "connection" /\ TorStep)
    /\ WF_connVars(part = "connection" /\ tor.step = "kill" /\ ProcessExits)
    /\ WF_lifeVars(part = "life" /\ UNCHANGED used /\ ShutdownStep)
    /\ WF_lifeVars(part = "life" /\ UNCHANGED used /\ MaintenanceObeys)

DesktopSpec == DesktopInit /\ [][DesktopNext]_desktopVars /\ DesktopFairness
=============================================================================
