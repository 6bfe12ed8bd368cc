---------------------------- MODULE GnmiPublish -----------------------------
(***************************************************************************)
(* The publish handler of the gNMI dial-out service                        *)
(* (src/src-tauri/src/dialout/gnmi.rs) with the devices that call it.      *)
(*                                                                         *)
(* The handler answers every message into a bounded channel, but gives the *)
(* reading end of the channel to the transport only when it returns, which *)
(* is after the device has ended its stream.  A device (external) sends    *)
(* messages, may wait for answers, and may end the stream; the connection  *)
(* may be lost at any time, which drops the handler.                       *)
(***************************************************************************)
EXTENDS Integers

CONSTANTS
    Clients,     \* connections that can be open at the same time
    Cap,         \* capacity of the response channel; 64 in the code
    Window,      \* unanswered messages a device allows itself
    MaxMessages, \* bound: messages on one connection
    MaxConnects  \* bound: connections over the service's life

ASSUME CapAssumption == Cap \in Nat /\ Cap > 0
ASSUME WindowAssumption == Window \in Nat /\ Window > 0
ASSUME BoundsAssumption == MaxMessages \in Nat /\ MaxConnects \in Nat

VARIABLES
    phase,       \* per client, where its handler is; see Phases
    wire,        \* per client: messages the device sent and the handler has not read
    ended,       \* per client: the device has ended its stream
    seen,        \* per client: count of the handler
    chan,        \* per client: answers in the response channel
    acked,       \* per client: answers the device has received
    msgCount,    \* models::GLOBAL_MSG_COUNT
    clientTotal  \* models::GLOBAL_CLIENT_COUNT

vars == <<phase, wire, ended, seen, chan, acked, msgCount, clientTotal>>

\* "reading" awaits stream.message(), "sending" awaits tx.send(); in
\* "answering" the handler has returned and the transport drains the channel.
Phases == {"idle", "reading", "sending", "answering", "done"}

TypeOK ==
    /\ phase \in [Clients -> Phases]
    /\ wire \in [Clients -> Nat]
    /\ ended \in [Clients -> BOOLEAN]
    /\ seen \in [Clients -> Nat]
    /\ chan \in [Clients -> 0 .. Cap]
    /\ acked \in [Clients -> Nat]
    /\ msgCount \in Nat
    /\ clientTotal \in Nat

Init ==
    /\ phase = [c \in Clients |-> "idle"]
    /\ wire = [c \in Clients |-> 0]
    /\ ended = [c \in Clients |-> FALSE]
    /\ seen = [c \in Clients |-> 0]
    /\ chan = [c \in Clients |-> 0]
    /\ acked = [c \in Clients |-> 0]
    /\ msgCount = 0
    /\ clientTotal = 0

Running(c) == phase[c] \in {"reading", "sending"}
Open(c) == Running(c) \/ phase[c] = "answering"

-----------------------------------------------------------------------------
(***************************************************************************)
(* The device and the network.                                             *)
(***************************************************************************)

\* A device connects, and the handler starts with fresh locals.
Connect(c) ==
    /\ phase[c] \in {"idle", "done"}
    /\ clientTotal < MaxConnects
    /\ clientTotal' = clientTotal + 1
    /\ phase' = [phase EXCEPT ![c] = "reading"]
    /\ wire' = [wire EXCEPT ![c] = 0]
    /\ ended' = [ended EXCEPT ![c] = FALSE]
    /\ seen' = [seen EXCEPT ![c] = 0]
    /\ chan' = [chan EXCEPT ![c] = 0]
    /\ acked' = [acked EXCEPT ![c] = 0]
    /\ UNCHANGED msgCount

\* While its stream is open a device sends, unless it waits for answers.
DeviceSend(c) ==
    /\ Running(c)
    /\ ~ ended[c]
    /\ seen[c] + wire[c] < MaxMessages
    /\ seen[c] + wire[c] - acked[c] < Window
    /\ wire' = [wire EXCEPT ![c] = @ + 1]
    /\ UNCHANGED <<phase, ended, seen, chan, acked, msgCount, clientTotal>>

DeviceEnd(c) ==
    /\ Running(c)
    /\ ~ ended[c]
    /\ ended' = [ended EXCEPT ![c] = TRUE]
    /\ UNCHANGED <<phase, wire, seen, chan, acked, msgCount, clientTotal>>

\* The connection is lost: message() fails (`?'), or the transport drops the
\* handler where it stands, or the response stream.
Lose(c) ==
    /\ Open(c)
    /\ phase' = [phase EXCEPT ![c] = "idle"]
    /\ wire' = [wire EXCEPT ![c] = 0]
    /\ chan' = [chan EXCEPT ![c] = 0]
    /\ UNCHANGED <<ended, seen, acked, msgCount, clientTotal>>

-----------------------------------------------------------------------------
(***************************************************************************)
(* The handler and the response stream.                                    *)
(***************************************************************************)

\* message() returns a message; it is counted and logged.  What is logged
\* depends on the mode, what follows does not: each of the three branches of
\* the loop ends in the same tx.send().
Read(c) ==
    /\ phase[c] = "reading"
    /\ wire[c] > 0
    /\ wire' = [wire EXCEPT ![c] = @ - 1]
    /\ seen' = [seen EXCEPT ![c] = @ + 1]
    /\ msgCount' = msgCount + 1
    /\ phase' = [phase EXCEPT ![c] = "sending"]
    /\ UNCHANGED <<ended, chan, acked, clientTotal>>

\* Mutants of Send: a channel with no bound, one with room for one answer
\* less, and try_send, which drops the answer when there is no room.
SendIf(c, room, n) ==
    /\ phase[c] = "sending"
    /\ room
    /\ chan' = [chan EXCEPT ![c] = n]
    /\ phase' = [phase EXCEPT ![c] = "reading"]
    /\ UNCHANGED <<wire, ended, seen, acked, msgCount, clientTotal>>

SendUnbounded(c) == SendIf(c, TRUE, chan[c] + 1)
SendShort(c) == SendIf(c, chan[c] < Cap - 1, chan[c] + 1)
SendOrDrop(c) == SendIf(c, TRUE, IF chan[c] < Cap THEN chan[c] + 1 ELSE Cap)

\* tx.send(..).await completes once the channel has room.
Send(c) ==
    /\ phase[c] = "sending"
    /\ chan[c] < Cap
    /\ chan' = [chan EXCEPT ![c] = @ + 1]
    /\ phase' = [phase EXCEPT ![c] = "reading"]
    /\ UNCHANGED <<wire, ended, seen, acked, msgCount, clientTotal>>

\* Mutant of Return: the stream is given up while the device still sends.
ReturnEarly(c) ==
    /\ phase[c] = "reading"
    /\ wire[c] = 0
    /\ phase' = [phase EXCEPT ![c] = "answering"]
    /\ UNCHANGED <<wire, ended, seen, chan, acked, msgCount, clientTotal>>

\* message() returns None: the handler returns the reading end.  tx is a local
\* of the handler and is dropped with it, so the stream of answers will end.
Return(c) ==
    /\ phase[c] = "reading"
    /\ wire[c] = 0
    /\ ended[c]
    /\ phase' = [phase EXCEPT ![c] = "answering"]
    /\ UNCHANGED <<wire, ended, seen, chan, acked, msgCount, clientTotal>>

\* The transport takes an answer from the channel and sends it.
Answer(c) ==
    /\ phase[c] = "answering"
    /\ chan[c] > 0
    /\ chan' = [chan EXCEPT ![c] = @ - 1]
    /\ acked' = [acked EXCEPT ![c] = @ + 1]
    /\ UNCHANGED <<phase, wire, ended, seen, msgCount, clientTotal>>

Finish(c) ==
    /\ phase[c] = "answering"
    /\ chan[c] = 0
    /\ phase' = [phase EXCEPT ![c] = "done"]
    /\ UNCHANGED <<wire, ended, seen, chan, acked, msgCount, clientTotal>>

Handler(c) == Read(c) \/ Send(c) \/ Return(c) \/ Answer(c) \/ Finish(c)

Next ==
    \E c \in Clients :
        \/ Connect(c)
        \/ DeviceSend(c)
        \/ DeviceEnd(c)
        \/ Lose(c)
        \/ Handler(c)

\* The runtime polls a handler and a response stream that can go on.
Spec == Init /\ [][Next]_vars /\ \A c \in Clients : WF_vars(Handler(c))

-----------------------------------------------------------------------------
\* The answers never outrun what was read, and none is lost on the way: every
\* message read was answered, but for the one whose answer waits for room.
AnswersAccounted ==
    \A c \in Clients : Open(c) =>
        seen[c] = acked[c] + chan[c] + (IF phase[c] = "sending" THEN 1 ELSE 0)

\* No device sees an answer before it has ended its stream and all it sent has
\* been read.  The stream is bidirectional in its signature only.
AnsweredAfterEnd ==
    \A c \in Clients : acked[c] > 0 => ended[c] /\ wire[c] = 0

\* What makes it inductive: answers leave the channel in "answering" only.
AnswersHeldBack ==
    \A c \in Clients :
        /\ Running(c) => acked[c] = 0
        /\ phase[c] \in {"answering", "done"} => ended[c]
        /\ ~ Running(c) => wire[c] = 0

PublishInv == TypeOK /\ AnswersAccounted /\ AnsweredAfterEnd /\ AnswersHeldBack

\* The handler waits for room in a channel that nobody reads.
Stuck(c) == phase[c] = "sending" /\ chan[c] = Cap

\* Once it does, it waits until the connection is lost: no message of the
\* device, no end of its stream and no other connection can wake it.
StuckUntilLost ==
    [][\A c \in Clients : Stuck(c) => Stuck(c)' \/ phase'[c] = "idle"]_vars

\* When the device ends its stream, every message is answered in the end or
\* the connection is lost, if the stream was no longer than the channel.
AnsweredWithinCap ==
    \A c \in Clients : \A n \in 1 .. Cap :
        ended[c] /\ seen[c] + wire[c] \in n .. Cap
            ~> acked[c] >= n \/ phase[c] = "idle"

\* `Send empty acknowledgement': a message that was read is acknowledged at
\* the latest after the device has ended its stream, whatever its length.
Acknowledged ==
    \A c \in Clients : \A n \in 1 .. MaxMessages :
        ended[c] /\ seen[c] >= n ~> acked[c] >= n \/ phase[c] = "idle"

=============================================================================
