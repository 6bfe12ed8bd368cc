----------------------------- MODULE MCLogging ------------------------------
(***************************************************************************)
(* Small instances of Logging for TLC: p1 stands for a name of port 5700,  *)
(* p2 for one of port 57000, which starts with it.                         *)
(***************************************************************************)
EXTENDS Logging

CONSTANTS p1, p2

MCPrefixes == {p1, p2}
MCCovers == {<<p1, p1>>, <<p2, p2>>, <<p2, p1>>}

MCDefaults == [only |-> FALSE, bytes |-> 4, num |-> 2]
MCConfigs == {[log |-> TRUE, prefix |-> p1, limits |-> [only |-> FALSE, bytes |-> 3, num |-> 2]],
              [log |-> TRUE, prefix |-> p2, limits |-> [only |-> TRUE, bytes |-> 4, num |-> 2]]}

=============================================================================
