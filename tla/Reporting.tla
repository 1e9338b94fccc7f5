----------------------------- MODULE Reporting ------------------------------
(* The management reports, with the stores that write what they read and a *)
(* client that reads them: an operator's dashboard or the discovery of a   *)
(* Render deployment.  Clients only read, so that each sees the same       *)
(* whatever the other does, and one at a time is enough.                   *)
EXTENDS Dashboard, RenderDiscovery

CONSTANT Client   \* which of "DASHBOARD", "DISCOVERY" there may be

VARIABLE client

clientVars == <<pageVars, request>>

vars == <<tableVars, clientVars, discoveryVars, client>>

TypeOK == ReportTypeOK /\ DashboardTypeOK /\ DiscoveryTypeOK /\ client \in Client

Init == ReportInit /\ DashboardInit /\ DiscoveryInit /\ client \in Client

Next ==
  \/ Write /\ UNCHANGED <<clientVars, discoveryVars, client>>
  \/ client = "DASHBOARD" /\ Browse /\ UNCHANGED <<tableVars, discoveryVars, client>>
  \/ client = "DISCOVERY" /\ Discover /\ UNCHANGED <<tableVars, clientVars, client>>

Spec == Init /\ [][Next]_vars

=============================================================================
