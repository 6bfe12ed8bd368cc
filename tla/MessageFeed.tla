---------------------------- MODULE MessageFeed -----------------------------
(***************************************************************************)
(* What the 2-layer dial-out service promises a device and the reader of   *)
(* its log, with no fragments in it: on one connection, the messages the   *)
(* device has sent to the end are shown whole, once each and in the order  *)
(* in which the device finished them; as long as the connection lasts none *)
(* of them stays unshown.  A connection may be lost at any time, and then  *)
(* what was not shown yet never is.                                        *)
(***************************************************************************)
EXTENDS Integers, Sequences

CONSTANTS Clients, Messages

VARIABLES
    up,        \* per client: whether it is connected
    finished,  \* per client: the messages sent to the end, in order
    delivered  \* per client: the messages shown, in order

vars == <<up, finished, delivered>>

Init ==
    /\ up = [c \in Clients |-> FALSE]
    /\ finished = [c \in Clients |-> <<>>]
    /\ delivered = [c \in Clients |-> <<>>]

Begin(c) ==
    /\ ~ up[c]
    /\ up' = [up EXCEPT ![c] = TRUE]
    /\ UNCHANGED <<finished, delivered>>

Finish(c, m) ==
    /\ up[c]
    /\ finished' = [finished EXCEPT ![c] = Append(@, m)]
    /\ UNCHANGED <<up, delivered>>

Deliver(c) ==
    /\ up[c]
    /\ Len(delivered[c]) < Len(finished[c])
    /\ delivered' = [delivered EXCEPT
                        ![c] = Append(@, finished[c][Len(@) + 1])]
    /\ UNCHANGED <<up, finished>>

End(c) ==
    /\ up[c]
    /\ up' = [up EXCEPT ![c] = FALSE]
    /\ finished' = [finished EXCEPT ![c] = <<>>]
    /\ delivered' = [delivered EXCEPT ![c] = <<>>]

Next ==
    \E c \in Clients :
        \/ Begin(c)
        \/ \E m \in Messages : Finish(c, m)
        \/ Deliver(c)
        \/ End(c)

\* What is shown are the messages finished, in their order; ...
Steps == Init /\ [][Next]_vars

\* ... and a message that can be shown is.
Progress == \A c \in Clients : WF_vars(Deliver(c))

Spec == Steps /\ Progress

=============================================================================
