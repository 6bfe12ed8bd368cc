------------------------------ MODULE MCDialout -----------------------------
(***************************************************************************)
(* A small instance of Dialout for TLC: arbitrary messages on every        *)
(* connection, in each of the three modes the service can be started in.   *)
(***************************************************************************)
EXTENDS Dialout

CONSTANTS c1, c2, p1, p2, b1

\* Bodies of two fragments do not add up to JSON, all others do.
MCValidJson(bodies) == Len(bodies) # 2

MCClients == {c1, c2}
MCPaths == {p1, p2}
MCBodies == {b1}
MCTotals == {1, 2}
MCConfigs == {[performance_mode |-> FALSE, orignal |-> FALSE],
              [performance_mode |-> FALSE, orignal |-> TRUE],
              [performance_mode |-> TRUE,  orignal |-> TRUE]}

MCSymmetry == Permutations(MCClients) \cup Permutations(MCPaths)

=============================================================================
