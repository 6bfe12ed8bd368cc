------------------------------ MODULE GpbFeed -------------------------------
(***************************************************************************)
(* The 3-layer service together with the clients that feed it.  A device   *)
(* (external) streams the messages of a plan, each in one piece or cut     *)
(* into chunks that it sends one after the other, with their sum as        *)
(* total_size.  Any other client sends what it likes.  A stream keeps the  *)
(* order and may break at any time.                                        *)
(***************************************************************************)
EXTENDS GpbV3

CONSTANTS
    Devices,     \* the clients that follow the plan
    Plan,        \* the messages: the sizes of their chunks, <<>> for a whole
    WholeSize,   \* the length of a whole
    WildMessages,\* what the other clients send
    MaxWild,     \* bound: messages of such a client on one connection
    MaxWire      \* bound: messages on the way to a handler

ASSUME DevicesAssumption == Devices \subseteq Clients
ASSUME WildAssumption == WildMessages \subseteq Message

VARIABLES
    place,       \* per device: the message and the chunk it sends next
    wire,        \* per device: the stream, as the handler will read it
    finished     \* per device: the messages sent to the end, in order

feedVars == <<performance_mode, conn, chunkData, clientCount, shown, msgCount,
              clientTotal, place, wire, finished>>

Start == [d \in Devices |-> <<1, 1>>]
Nothing == [d \in Devices |-> <<>>]

FeedInit == Init /\ place = Start /\ wire = Nothing /\ finished = Nothing

Chunks(i) == IF Plan[i] = <<>> THEN 1 ELSE Len(Plan[i])

\* The k-th chunk of the i-th message.
ChunkOf(i, k) ==
    [total |-> Total(Plan[i]),
     size  |-> IF Plan[i] = <<>> THEN WholeSize ELSE Plan[i][k],
     body  |-> <<i, k>>]

\* A device cuts a message into chunks that are not empty, and what it sends
\* can be sent: the lengths and the sum fit.
ASSUME PlanAssumption ==
    /\ Plan \in Seq(Seq(Nat \ {0}))
    /\ \A i \in DOMAIN Plan : \A k \in 1 .. Chunks(i) : ChunkOf(i, k) \in Message

FeedConnect(c) == Connect(c) /\ UNCHANGED <<place, wire, finished>>

SendChunk(d) ==
    LET i == place[d][1]
        k == place[d][2]
    IN  /\ conn[d] = "open"
        /\ i \in DOMAIN Plan
        /\ Len(wire[d]) < MaxWire
        /\ wire' = [wire EXCEPT ![d] = Append(@, ChunkOf(i, k))]
        /\ IF k < Chunks(i)
           THEN /\ place' = [place EXCEPT ![d] = <<i, k + 1>>]
                /\ UNCHANGED finished
           ELSE /\ place' = [place EXCEPT ![d] = <<i + 1, 1>>]
                /\ finished' = [finished EXCEPT ![d] = Append(@, i)]
        /\ UNCHANGED vars

\* One turn of the handler's loop, on the message at the head of the stream.
FeedReceive(d) ==
    /\ wire[d] # <<>>
    /\ Receive(d, Head(wire[d]))
    /\ wire' = [wire EXCEPT ![d] = Tail(@)]
    /\ UNCHANGED <<place, finished>>

\* ... and on whatever any other client sends.
WildReceive(c) ==
    /\ clientCount[c] < MaxWild
    /\ \E m \in WildMessages : Receive(c, m)
    /\ UNCHANGED <<place, wire, finished>>

\* A stream ends behind its last message or breaks anywhere.
FeedDisconnect(c) ==
    /\ Disconnect(c)
    /\ place' = [d \in Devices |-> IF d = c THEN <<1, 1>> ELSE place[d]]
    /\ wire' = [d \in Devices |-> IF d = c THEN <<>> ELSE wire[d]]
    /\ finished' = [d \in Devices |-> IF d = c THEN <<>> ELSE finished[d]]

FeedNext ==
    \/ \E c \in Clients : FeedConnect(c) \/ FeedDisconnect(c)
    \/ \E d \in Devices : SendChunk(d) \/ FeedReceive(d)
    \/ \E c \in Clients \ Devices : WildReceive(c)

\* A handler is polled while its stream holds a message.  Devices and the
\* network owe nothing.
FeedSpec ==
    /\ FeedInit
    /\ [][FeedNext]_feedVars
    /\ \A d \in Devices : WF_feedVars(FeedReceive(d))

-----------------------------------------------------------------------------
\* The message an entry of the log shows as a whole, or 0.
EntryMessage(parts) ==
    LET i == parts[1].msg.body[1]
    IN  IF /\ Len(parts) = Chunks(i)
           /\ \A k \in 1 .. Len(parts) : parts[k].msg.body = <<i, k>>
        THEN i ELSE 0

Feed ==
    INSTANCE MessageFeed WITH
        Clients   <- Devices,
        Messages  <- DOMAIN Plan,
        up        <- [d \in Devices |-> conn[d] = "open"],
        finished  <- IF performance_mode THEN Nothing ELSE finished,
        delivered <- [d \in Devices |->
                        [e \in DOMAIN shown[d] |-> EntryMessage(shown[d][e])]]

\* A device's messages are shown whole, once, in the order in which it
\* finished them, whatever other clients send at the same time.  (In
\* performance mode messages are counted only, and nothing is promised.)
ImplementsMessageFeed == Feed!Steps

\* No message that a device has finished stays unshown while its connection
\* lasts.
NoneStaysUnshown == Feed!Progress

=============================================================================
