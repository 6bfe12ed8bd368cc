--------------------------- MODULE MCDialoutFeed ----------------------------
(***************************************************************************)
(* Small instances of DialoutFeed for TLC: devices with different plans    *)
(* and different ways to number the nodes of their fragments.              *)
(***************************************************************************)
EXTENDS DialoutFeed

CONSTANTS c1, c2, p1, p2

\* Bodies of two fragments do not add up to JSON, all others do.
MCValidJson(bodies) == Len(bodies) # 2

MCClients == {c1, c2}
MCOneClient == {c1}
MCPaths == {p1, p2}
MCOnePath == {p1}
MCConfigs == {[performance_mode |-> FALSE, orignal |-> FALSE]}

\* p1 sends up to two messages at a time and numbers its fragments on and on,
\* past the largest node id; p2 sends one message at a time and numbers the
\* fragments of each from 0.
MCPlan == (p1 :> <<2, 0, 2>>) @@ (p2 :> <<3, 2>>)
MCFirstNode == (p1 :> <<7, 0, 1>>) @@ (p2 :> <<0, 0>>)
MCInFlight == (p1 :> 2) @@ (p2 :> 1)

\* The handler can tell the messages of this plan apart.
ASSUME MCPlanAssumption == Plan = MCPlan => Distinguishable /\ Parsing

\* A device that cuts a message into one fragment.
MCSinglePlan == p1 :> <<1, 2>>
MCSingleNode == p1 :> <<0, 0>>
MCSingleInFlight == p1 :> 1

MCTotals == 0 .. 3
MCBodies ==
    UNION {{<<p, i, j>> : i \in DOMAIN Plan[p], j \in 1 .. 3} : p \in Paths}

=============================================================================
