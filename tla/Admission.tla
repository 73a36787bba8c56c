------------------------------ MODULE Admission ------------------------------
(***************************************************************************)
(* GatewayServer::OnMessage up to the choice of a backend: the filter, then *)
(* the router.  What follows is in Gateway.                                *)
(***************************************************************************)
EXTENDS RateLimit, Router

CONSTANT Paths  \* bound: paths requests have

ASSUME PathsAssumption == Paths \subseteq Seq(Nat)

admissionVars == <<vars, routerVars>>

AdmissionInit == Init /\ RouterInit

\* The filter passes the request on, ...
Pass(path) == DoFilter /\ answer' = "pass" /\ Route(path)

\* ... or answers 429.
Deny == DoFilter /\ answer' = "deny" /\ UNCHANGED routerVars

Clock == Tick /\ UNCHANGED routerVars

AdmissionNext == (\E path \in Paths : Pass(path)) \/ Deny \/ Clock

AdmissionSpec == AdmissionInit /\ [][AdmissionNext]_admissionVars

OnMessage == (\E path \in Paths : Pass(path)) \/ Deny

\* As RateLimit's.
AdmissionFairSpec ==
    AdmissionSpec /\ WF_admissionVars(Clock) /\ WF_admissionVars(OnMessage)
==============================================================================
