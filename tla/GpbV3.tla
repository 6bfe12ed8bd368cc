------------------------------- MODULE GpbV3 --------------------------------
(***************************************************************************)
(* The 3-layer (GPB) dial-out service (src/src-tauri/src/dialout/          *)
(* gpb_v3.rs).  A stream has ONE buffer for chunks.  A message says how    *)
(* long the whole is, in an i32; nothing in it says to which whole it      *)
(* belongs.                                                                *)
(*                                                                         *)
(* One action is one turn of the handler's loop, as in Dialout.  Decoding  *)
(* what is shown (protobuf, JSON, the registry of modules) keeps no state  *)
(* and always ends in one entry of the log; it is left out.  The response  *)
(* channel is never written to, and ends with the handler.                 *)
(***************************************************************************)
EXTENDS Integers, Sequences, SequencesExt

CONSTANTS
    Clients,     \* connections that can be open at the same time
    Half,        \* an i32 is in -Half .. Half - 1; 2^31 in the code
    Totals,      \* the values of total_size
    Sizes,       \* the lengths of data
    Bodies,      \* tell messages of equal length apart
    Modes,       \* the values of V3Config.performance_mode
    MaxMessages, \* bound: messages over the service's life
    MaxConnects  \* bound: connections over the service's life

ASSUME HalfAssumption == Half \in Nat /\ Half > 0
ASSUME TotalsAssumption == Totals \subseteq -Half .. Half - 1
ASSUME SizesAssumption == Sizes \subseteq Nat
ASSUME ModesAssumption == Modes \subseteq BOOLEAN
ASSUME BoundsAssumption == MaxMessages \in Nat /\ MaxConnects \in Nat

VARIABLES
    performance_mode, \* config.performance_mode
    conn,        \* per client: "idle" or "open" (its handler runs)
    chunkData,   \* chunk_data: the arrivals whose data is in the buffer
    clientCount, \* count of the handler
    shown,       \* per client: what the open connection put in the log
    msgCount,    \* models::GLOBAL_MSG_COUNT
    clientTotal  \* models::GLOBAL_CLIENT_COUNT

vars == <<performance_mode, conn, chunkData, clientCount, shown, msgCount,
          clientTotal>>

\* DialoutV3Args, and a message as the n-th of its connection.
Message == [total : Totals, size : Sizes, body : Bodies]
Arrival == [n : Nat, msg : Message]

TypeOK ==
    /\ performance_mode \in Modes
    /\ conn \in [Clients -> {"idle", "open"}]
    /\ chunkData \in [Clients -> Seq(Arrival)]
    /\ clientCount \in [Clients -> Nat]
    /\ shown \in [Clients -> Seq(Seq(Arrival))]
    /\ msgCount \in Nat
    /\ clientTotal \in Nat

Init ==
    /\ performance_mode \in Modes
    /\ conn = [c \in Clients |-> "idle"]
    /\ chunkData = [c \in Clients |-> <<>>]
    /\ clientCount = [c \in Clients |-> 0]
    /\ shown = [c \in Clients |-> <<>>]
    /\ msgCount = 0
    /\ clientTotal = 0

Connect(c) ==
    /\ conn[c] = "idle"
    /\ clientTotal < MaxConnects
    /\ clientTotal' = clientTotal + 1
    /\ conn' = [conn EXCEPT ![c] = "open"]
    /\ UNCHANGED <<performance_mode, chunkData, clientCount, shown, msgCount>>

\* The stream ends or fails: the handler's locals are dropped.
Disconnect(c) ==
    /\ conn[c] = "open"
    /\ conn' = [conn EXCEPT ![c] = "idle"]
    /\ chunkData' = [chunkData EXCEPT ![c] = <<>>]
    /\ clientCount' = [clientCount EXCEPT ![c] = 0]
    /\ shown' = [shown EXCEPT ![c] = <<>>]
    /\ UNCHANGED <<performance_mode, msgCount, clientTotal>>

-----------------------------------------------------------------------------
\* n as i32
AsI32(n) == ((n + Half) % (2 * Half)) - Half

Total(sizes) ==
    LET upto[k \in 0 .. Len(sizes)] == IF k = 0 THEN 0 ELSE upto[k - 1] + sizes[k]
    IN  upto[Len(sizes)]

SizeOf(parts) == Total([k \in 1 .. Len(parts) |-> parts[k].msg.size])

\* The head of the loop.
Arrive(c) ==
    /\ conn[c] = "open"
    /\ msgCount < MaxMessages
    /\ clientCount' = [clientCount EXCEPT ![c] = @ + 1]
    /\ msgCount' = msgCount + 1
    /\ UNCHANGED <<performance_mode, conn, clientTotal>>

CountOnly(c, m) ==
    /\ performance_mode
    /\ Arrive(c)
    /\ UNCHANGED <<chunkData, shown>>

Arriving(c, m) == [n |-> clientCount[c] + 1, msg |-> m]

\* Mutant of Combined: the new data goes in front.
CombinedBefore(c, m) == <<Arriving(c, m)>> \o chunkData[c]

\* chunk_data.clone() with the data of m behind it.
Combined(c, m) == Append(chunkData[c], Arriving(c, m))

Show(c, parts) == shown' = [shown EXCEPT ![c] = Append(@, parts)]

\* Mutant of Clear: the buffer is kept.
ClearNot(c) == UNCHANGED chunkData

\* chunk_data.clear()
Clear(c) == chunkData' = [chunkData EXCEPT ![c] = <<>>]

\* A message with total_size 0 is a whole.  It clears the buffer too: the
\* handler does so for every message that assemble_chunk returns data for.
ShowWhole(c, m) ==
    /\ ~ performance_mode
    /\ Arrive(c)
    /\ m.total = 0
    /\ Show(c, <<Arriving(c, m)>>)
    /\ Clear(c)

\* Mutants of TooShort: the total has to be exceeded; the new data alone is
\* compared.
TooShortOrEqual(parts, m) == AsI32(SizeOf(parts)) <= m.total
TooShortAlone(parts, m) == AsI32(m.size) < m.total

\* The comparison of assemble_chunk.
TooShort(parts, m) == AsI32(SizeOf(parts)) < m.total

KeepChunk(c, m) ==
    /\ ~ performance_mode
    /\ Arrive(c)
    /\ m.total # 0
    /\ TooShort(Combined(c, m), m)
    /\ chunkData' = [chunkData EXCEPT ![c] = Combined(c, m)]
    /\ UNCHANGED shown

ShowChunks(c, m) ==
    /\ ~ performance_mode
    /\ Arrive(c)
    /\ m.total # 0
    /\ ~ TooShort(Combined(c, m), m)
    /\ Show(c, Combined(c, m))
    /\ Clear(c)

Receive(c, m) ==
    CountOnly(c, m) \/ ShowWhole(c, m) \/ KeepChunk(c, m) \/ ShowChunks(c, m)

Next ==
    \E c \in Clients :
        \/ Connect(c)
        \/ Disconnect(c)
        \/ \E m \in Message : Receive(c, m)

Spec == Init /\ [][Next]_vars

-----------------------------------------------------------------------------
\* The number of the arrival after the e-th entry of a log.
After(log, e) == IF e = 0 THEN 1 ELSE log[e][Len(log[e])].n + 1

Consecutive(parts) ==
    \A i \in 1 .. Len(parts) - 1 : parts[i + 1].n = parts[i].n + 1

\* What is merged are consecutive messages of the stream, nothing in between
\* left out, and the buffer reaches up to the last message received.
ConsecutiveRuns ==
    \A c \in Clients : ~ performance_mode =>
        /\ Consecutive(chunkData[c])
        /\ chunkData[c] # <<>> =>
            chunkData[c][Len(chunkData[c])].n = clientCount[c]
        /\ \A e \in 1 .. Len(shown[c]) :
            shown[c][e] # <<>> /\ Consecutive(shown[c][e])

\* Messages are dropped in one case only, and never used twice: an entry
\* starts where the one before ended, but for the chunks that a message with
\* total_size 0 found in the buffer.  What came after the last entry is in
\* the buffer.
DroppedByWholesOnly ==
    \A c \in Clients : ~ performance_mode =>
        /\ \A e \in 1 .. Len(shown[c]) :
            LET first == shown[c][e][1]
            IN  /\ first.n >= After(shown[c], e - 1)
                /\ first.n > After(shown[c], e - 1) =>
                    first.msg.total = 0 /\ Len(shown[c][e]) = 1
        /\ IF chunkData[c] = <<>>
           THEN clientCount[c] + 1 = After(shown[c], Len(shown[c]))
           ELSE chunkData[c][1].n = After(shown[c], Len(shown[c]))

\* The buffer holds less than its last chunk asked for, so that nothing
\* complete is kept: unless it has outgrown an i32, in which case its length
\* counts as negative.
NothingCompleteKept ==
    \A c \in Clients : chunkData[c] # <<>> =>
        \/ SizeOf(chunkData[c]) < Last(chunkData[c]).msg.total
        \/ SizeOf(chunkData[c]) >= Half

=============================================================================
