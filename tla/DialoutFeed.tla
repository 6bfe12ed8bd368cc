---------------------------- MODULE DialoutFeed -----------------------------
(***************************************************************************)
(* The 2-layer service together with the devices that feed it.  A device   *)
(* (not part of this repository) streams, on each sensor path, the         *)
(* messages of a plan: some in one piece, some cut into numbered fragments *)
(* the way chunk.rs expects them.  The gRPC stream between a device and    *)
(* its handler keeps the order and may break at any time.                  *)
(***************************************************************************)
EXTENDS Dialout

CONSTANTS
    Plan,        \* per path: for each message its number of fragments, or 0
                 \* for a message without chunk_msg
    FirstNode,   \* per path: for each message the node_id of its first fragment
    MaxInFlight, \* per path: messages a device sends at the same time
    MaxWire      \* bound: messages on the way to a handler

VARIABLES
    sent,        \* per client, path and message: fragments sent so far
    wire,        \* per client: the stream, as the handler will read it
    finished     \* per client: the messages sent to the end, in order

feedVars == <<config, conn, records, clientCount, count, msgCount,
              clientTotal, shown, sent, wire, finished>>

Size(p, i) == IF Plan[p][i] = 0 THEN 1 ELSE Plan[p][i]

\* The messages of the plan, as <<path, place>>.
Messages == UNION {{p} \X DOMAIN Plan[p] : p \in Paths}

NothingSent == [p \in Paths |-> [i \in DOMAIN Plan[p] |-> 0]]

\* The j-th fragment of the i-th message on path p, and its node_id.
Node(p, i, j) == (FirstNode[p][i] + j - 1) % NodeMod

FragmentOf(p, i, j) ==
    [path |-> p,
     chunk |-> IF Plan[p][i] = 0 THEN NoChunk
               ELSE [total |-> Plan[p][i], node |-> Node(p, i, j)],
     body |-> <<p, i, j>>]

\* What a device sends can be sent.
ASSUME PlanAssumption ==
    /\ Plan \in [Paths -> Seq(Nat)]
    /\ MaxInFlight \in [Paths -> Nat]
    /\ \A p \in Paths : \A i \in DOMAIN Plan[p] :
        /\ FirstNode[p][i] \in Nat
        /\ Plan[p][i] \in Totals \cup {0}
        /\ \A j \in 1 .. Size(p, i) : FragmentOf(p, i, j) \in Message

\* What chunk.rs needs of the devices to tell their messages apart: a message
\* in fragments has at least two of them; on a path with several messages at a
\* time, no fragment has the node_id that a fragment of another message, other
\* than its first, has.
NoSingleFragment == \A p \in Paths : \A i \in DOMAIN Plan[p] : Plan[p][i] # 1

NodesApart ==
    \A p \in Paths : MaxInFlight[p] > 1 =>
        \A i, h \in DOMAIN Plan[p] : i # h =>
            \A j \in 1 .. Plan[p][i], k \in 2 .. Plan[p][h] : Node(p, i, j) # Node(p, h, k)

Distinguishable == NoSingleFragment /\ NodesApart

\* The service is started in the mode that parses.
Parsing == \A cf \in Configs : ~ cf.performance_mode /\ ~ cf.orignal

FeedInit ==
    /\ Init
    /\ sent = [c \in Clients |-> NothingSent]
    /\ wire = [c \in Clients |-> <<>>]
    /\ finished = [c \in Clients |-> <<>>]

FeedConnect(c) ==
    /\ Connect(c)
    /\ UNCHANGED <<sent, wire, finished>>

InFlight(c, p) == {i \in DOMAIN Plan[p] : sent[c][p][i] \in 1 .. Size(p, i) - 1}

\* Messages of a path are begun in order, at most MaxInFlight[p] at a time.
MayBegin(c, p, i) ==
    /\ sent[c][p][i] = 0
    /\ \A h \in 1 .. i - 1 : sent[c][p][h] > 0
    /\ Cardinality(InFlight(c, p)) < MaxInFlight[p]

SendFragment(c, p, i) ==
    /\ conn[c] = "open"
    /\ Len(wire[c]) < MaxWire
    /\ MayBegin(c, p, i) \/ i \in InFlight(c, p)
    /\ sent' = [sent EXCEPT ![c][p][i] = @ + 1]
    /\ wire' = [wire EXCEPT ![c] = Append(@, FragmentOf(p, i, sent'[c][p][i]))]
    /\ finished' = IF sent'[c][p][i] = Size(p, i)
                   THEN [finished EXCEPT ![c] = Append(@, <<p, i>>)]
                   ELSE finished
    /\ UNCHANGED vars

\* One turn of the handler's loop, on the message at the head of the stream.
FeedReceive(c) ==
    /\ wire[c] # <<>>
    /\ Receive(c, Head(wire[c]))
    /\ wire' = [wire EXCEPT ![c] = Tail(@)]
    /\ UNCHANGED <<sent, finished>>

\* The device and its stream are gone with the connection.
Forget(c) ==
    /\ sent' = [sent EXCEPT ![c] = NothingSent]
    /\ wire' = [wire EXCEPT ![c] = <<>>]
    /\ finished' = [finished EXCEPT ![c] = <<>>]

\* The handler reads the end of the stream only behind the last message ...
StreamEnd(c) ==
    /\ wire[c] = <<>>
    /\ \A p \in Paths : \A i \in DOMAIN Plan[p] : sent[c][p][i] = Size(p, i)
    /\ Disconnect(c)
    /\ Forget(c)

\* ... but it may get an error at any time, and what was on the way is lost.
StreamError(c) == Disconnect(c) /\ Forget(c)

FeedNext ==
    \E c \in Clients :
        \/ FeedConnect(c)
        \/ \E p \in Paths : \E i \in DOMAIN Plan[p] : SendFragment(c, p, i)
        \/ FeedReceive(c)
        \/ StreamEnd(c)
        \/ StreamError(c)

\* A handler is polled while its stream holds a message: between two messages
\* it awaits nothing else.  Devices and the network owe nothing.
FeedSpec ==
    /\ FeedInit
    /\ [][FeedNext]_feedVars
    /\ \A c \in Clients : WF_feedVars(FeedReceive(c))

-----------------------------------------------------------------------------
\* The message an entry of the log shows, when it shows exactly one.
ShowsMessage(e, p, i) ==
    /\ Len(e.parts) = Size(p, i)
    /\ \A j \in 1 .. Len(e.parts) : e.parts[j].msg.body = <<p, i, j>>

\* `Returns Some(merged_json_data) if the message completed a chunk record':
\* a record that has all of its fragments is not kept.
NoCompleteHeld ==
    \A c \in Clients, p \in Paths : \A k \in DOMAIN records[c][p] :
        Len(records[c][p][k].parts) < records[c][p][k].total

\* Nothing is left behind: the records in flight on a path are never more than
\* the messages the device or the stream still owes a fragment of.
Owed(c, p) ==
    {i \in DOMAIN Plan[p] :
        \/ i \in InFlight(c, p)
        \/ \E w \in DOMAIN wire[c] : wire[c][w].body = <<p, i, Size(p, i)>>}

NoResidue ==
    \A c \in Clients, p \in Paths :
        conn[c] = "open" => Len(records[c][p]) <= Cardinality(Owed(c, p))

\* The service implements MessageFeed.  An entry that shows no message as a
\* whole is mapped to a value that is no message.
EntryMessage(e) ==
    LET b == e.parts[1].msg.body
    IN  IF ShowsMessage(e, b[1], b[2]) THEN <<b[1], b[2]>> ELSE <<>>

Feed ==
    INSTANCE MessageFeed WITH
        up        <- [c \in Clients |-> conn[c] = "open"],
        delivered <- [c \in Clients |->
                        [e \in DOMAIN shown[c] |-> EntryMessage(shown[c][e])]]

\* Messages are shown whole, once, in the order in which the device finished
\* them.
ImplementsMessageFeed == Feed!Steps

\* No message that a device has finished stays unshown while its connection
\* lasts.
NoneStaysUnshown == Feed!Progress

=============================================================================
