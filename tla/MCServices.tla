------------------------------ MODULE MCServices ------------------------------
(***************************************************************************)
(* The server's own services: the control plane on the catalog, the dbt    *)
(* pipeline, the saved charts, and the surfaces that bring statements to   *)
(* the engine.  They share no state, so each behaviour exercises one of    *)
(* them and the run adds their state spaces instead of multiplying them.   *)
(***************************************************************************)
EXTENDS ControlPlane, Workspace, Frontend, TLC

CONSTANTS a1, a2, sl, wh1, wh2, cl1, cl2, v1, s1, s2, x, y, z, h1, h2, h3

\* The second account has the name of the first, an underscore and the slug.
Names == {<<a1, sl, a2>>}

VARIABLE area  \* the service this behaviour exercises

servicesVars == <<area, cpVars, pipelineVars, chartVars, frontVars>>

\* Requests differ in nothing but their name: their kinds come in this order.
Order == <<"none", "refused", "load", "replace", "pg", "query">>
Rank(h) == CHOOSE i \in DOMAIN Order : Order[i] = handler'[h].kind
InOrder == \A g, h \in Handlers :
    (<<g, h>> \in {<<h1, h2>>, <<h1, h3>>, <<h2, h3>>} /\ Rank(g) # 1 /\ Rank(h) # 1)
        => Rank(g) <= Rank(h)

\* Calls are alike too: the second is taken up while the first is busy.
FirstFree == call[cl2] = <<>> /\ call'[cl2] # <<>> => call[cl1] # <<>>

\* What accounts hold does not depend on the audit log, nor the log on what they
\* hold: requests store while nothing is appended, and the log is written, and
\* tampered with, while nothing is stored.
NothingLogged == log' = log
NothingStored == UNCHANGED <<resource, activated, warehouse>>

InFront(A) == /\ area = "front" /\ A
              /\ UNCHANGED <<area, cpVars, pipelineVars, chartVars>>

MCServicesInit ==
    /\ area \in {"control", "audit", "pipeline", "charts", "front"}
    /\ CpInit /\ WorkspaceInit /\ FrontInit

MCServicesNext ==
    \/ /\ area = "control" /\ CpNext /\ FirstFree /\ NothingLogged
       /\ UNCHANGED <<area, pipelineVars, chartVars, frontVars>>
    \/ /\ area = "audit" /\ CpNext /\ FirstFree /\ NothingStored
       /\ UNCHANGED <<area, pipelineVars, chartVars, frontVars>>
    \/ area = "pipeline" /\ PipelineNext /\ UNCHANGED <<area, cpVars, chartVars, frontVars>>
    \/ area = "charts" /\ ChartsNext /\ UNCHANGED <<area, cpVars, pipelineVars, frontVars>>
    \/ InFront(FrontNext /\ InOrder)

MCServicesSpec ==
    /\ MCServicesInit /\ [][MCServicesNext]_servicesVars
    /\ WF_servicesVars(InFront(EngineStep))
    /\ \A h \in Handlers : SF_servicesVars(InFront(HandlerStep(h)))
===============================================================================
