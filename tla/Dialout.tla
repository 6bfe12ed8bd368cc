------------------------------ MODULE Dialout -------------------------------
(***************************************************************************)
(* The 2-layer gRPC dial-out service (src/src-tauri/src/dialout/normal.rs).*)
(*                                                                         *)
(* One action stands for one turn of the `while let Some(msg)' loop of one *)
(* connection: between two awaits a handler touches only its own           *)
(* connection and three counters that commute, so the turns of different   *)
(* connections may be interleaved as wholes.  Devices are unconstrained    *)
(* here: any message may arrive next.  DialoutFeed adds well-behaved ones. *)
(***************************************************************************)
EXTENDS ChunkRecords

CONSTANTS
    Clients,     \* connections that can be open at the same time
    Configs,     \* the DialoutConfigs the service may be started with
    MaxMessages, \* bound: messages over the service's life
    ValidJson(_),\* whether the concatenation of these bodies parses as JSON
    MaxConnects  \* bound: connections over the service's life

ASSUME BoundsAssumption == MaxMessages \in Nat /\ MaxConnects \in Nat
ASSUME ConfigsAssumption ==
    Configs \subseteq [performance_mode : BOOLEAN, orignal : BOOLEAN]

VARIABLES
    config,      \* DialoutService.config
    conn,        \* per client: "idle" or "open" (its dialout handler runs)
    records,     \* chunk_records: per client and path, the records in flight
    clientCount, \* client_count of the handler
    count,       \* DialoutService.count
    msgCount,    \* models::GLOBAL_MSG_COUNT
    clientTotal, \* models::GLOBAL_CLIENT_COUNT
    shown        \* per client: what the open connection put in the log

vars == <<config, conn, records, clientCount, count, msgCount, clientTotal,
          shown>>

NoRecords == [p \in Paths |-> <<>>]

\* One entry of the log: the whole message, its JSON, or the text of a JSON
\* that does not parse, with the fragments it was merged from.
Entry == [kind : {"original", "json", "invalid"}, parts : Seq(Fragment)]

TypeOK ==
    /\ config \in Configs
    /\ conn \in [Clients -> {"idle", "open"}]
    /\ records \in [Clients -> [Paths -> Seq(Record)]]
    /\ clientCount \in [Clients -> Nat]
    /\ count \in Nat
    /\ msgCount \in Nat
    /\ clientTotal \in Nat
    /\ shown \in [Clients -> Seq(Entry)]

Init ==
    /\ config \in Configs
    /\ conn = [c \in Clients |-> "idle"]
    /\ records = [c \in Clients |-> NoRecords]
    /\ clientCount = [c \in Clients |-> 0]
    /\ count = 0
    /\ msgCount = 0
    /\ clientTotal = 0
    /\ shown = [c \in Clients |-> <<>>]

-----------------------------------------------------------------------------
\* A client opens the stream: the handler starts with fresh locals.
Connect(c) ==
    /\ conn[c] = "idle"
    /\ clientTotal < MaxConnects
    /\ clientTotal' = clientTotal + 1
    /\ conn' = [conn EXCEPT ![c] = "open"]
    /\ records' = [records EXCEPT ![c] = NoRecords]
    /\ clientCount' = [clientCount EXCEPT ![c] = 0]
    /\ shown' = [shown EXCEPT ![c] = <<>>]
    /\ UNCHANGED <<config, count, msgCount>>

\* The stream ends (the client half-closed: Ok(response)) or fails (`?': the
\* error is returned).  Either way the locals are dropped, and the fragments
\* still in flight with them.
Disconnect(c) ==
    /\ conn[c] = "open"
    /\ conn' = [conn EXCEPT ![c] = "idle"]
    /\ records' = [records EXCEPT ![c] = NoRecords]
    /\ clientCount' = [clientCount EXCEPT ![c] = 0]
    /\ shown' = [shown EXCEPT ![c] = <<>>]
    /\ UNCHANGED <<config, count, msgCount, clientTotal>>

Kind(parts) ==
    IF ValidJson([i \in 1 .. Len(parts) |-> parts[i].msg.body])
    THEN "json" ELSE "invalid"

\* The head of the loop, common to every message.
Arrive(c) ==
    /\ conn[c] = "open"
    /\ msgCount < MaxMessages
    /\ clientCount' = [clientCount EXCEPT ![c] = @ + 1]
    /\ msgCount' = msgCount + 1
    /\ UNCHANGED <<config, conn, clientTotal>>

\* The message m as the fragment that arrives now.
Arrival(c, m) == [n |-> clientCount[c] + 1, msg |-> m]

Show(c, kind, parts) ==
    shown' = [shown EXCEPT ![c] = Append(@, [kind |-> kind, parts |-> parts])]

\* The list of records of one path changes, and no other.
Store(c, p, list) == records' = [records EXCEPT ![c][p] = list]

\* Mutant of CountOnly: the service's counter is bumped too.
CountOnlyTwice(c, m) ==
    /\ config.performance_mode
    /\ Arrive(c)
    /\ count' = count + 1
    /\ UNCHANGED <<records, shown>>

\* Performance mode: count only, and not in DialoutService.count.
CountOnly(c, m) ==
    /\ config.performance_mode
    /\ Arrive(c)
    /\ UNCHANGED <<records, count, shown>>

\* Original mode: the message as it came, fragments included.
ShowOriginal(c, m) ==
    /\ ~ config.performance_mode
    /\ config.orignal
    /\ Arrive(c)
    /\ count' = count + 1
    /\ Show(c, "original", <<Arrival(c, m)>>)
    /\ UNCHANGED records

\* The branch of the loop that parses; every path through it adds to count.
Parse(c) ==
    /\ ~ config.performance_mode
    /\ ~ config.orignal
    /\ Arrive(c)
    /\ count' = count + 1

\* ChunkRecords::add without chunk info: the message passes through.  Its
\* text parses or does not: both arms of the match log it and go on.
PassThrough(c, m) ==
    /\ Parse(c)
    /\ m.chunk = NoChunk
    /\ Show(c, Kind(<<Arrival(c, m)>>), <<Arrival(c, m)>>)
    /\ UNCHANGED records

\* ChunkRecords::add finds no record waiting for this node: a new one.
StartRecord(c, m) ==
    /\ Parse(c)
    /\ m.chunk # NoChunk
    /\ NoMatch(records[c][m.path], m.chunk.node)
    /\ Store(c, m.path, Append(records[c][m.path], NewRecord(Arrival(c, m))))
    /\ UNCHANGED shown

\* ChunkRecords::add gives the fragment to the first record waiting for it.
\* A complete record leaves the list and its merge is shown.
JoinRecord(c, m) ==
    /\ Parse(c)
    /\ m.chunk # NoChunk
    /\ \E k \in 1 .. Len(records[c][m.path]) :
        LET list == records[c][m.path]
            r    == Extend(list[k], Arrival(c, m))
        IN  /\ FirstMatch(list, m.chunk.node, k)
            /\ \/ /\ IsComplete(r)
                  /\ Store(c, m.path, RemoveRecord(list, k))
                  /\ Show(c, Kind(r.parts), r.parts)
               \/ /\ ~ IsComplete(r)
                  /\ Store(c, m.path, [list EXCEPT ![k] = r])
                  /\ UNCHANGED shown

Receive(c, m) ==
    \/ CountOnly(c, m)
    \/ ShowOriginal(c, m)
    \/ PassThrough(c, m)
    \/ StartRecord(c, m)
    \/ JoinRecord(c, m)

Next ==
    \E c \in Clients :
        \/ Connect(c)
        \/ Disconnect(c)
        \/ \E m \in Message : Receive(c, m)

Spec == Init /\ [][Next]_vars

-----------------------------------------------------------------------------
\* Consecutive fragments of one path, each the successor of the one before.
IsRun(parts) ==
    /\ parts # <<>>
    /\ \A i \in 1 .. Len(parts) :
        /\ parts[i].msg.chunk # NoChunk
        /\ parts[i].msg.path = parts[1].msg.path
    /\ \A i \in 1 .. Len(parts) - 1 :
        /\ parts[i + 1].msg.chunk.node = NextNode(parts[i].msg.chunk.node)
        /\ parts[i].n < parts[i + 1].n

\* A record is a run, filed under its path, that remembers what the first
\* fragment promised and where the last one stood.
RecordRun(p, r) ==
    /\ IsRun(r.parts)
    /\ r.parts[1].msg.path = p
    /\ r.total = r.parts[1].msg.chunk.total
    /\ r.last = r.parts[Len(r.parts)].msg.chunk.node

\* A single message, or a run exactly as long as its first fragment promised.
ShownRun(parts) ==
    \/ Len(parts) = 1
    \/ IsRun(parts) /\ Len(parts) = parts[1].msg.chunk.total

\* What the assembler shows is a whole run: what is merged into one JSON comes
\* from one sensor path, with consecutive node ids, in the order of arrival,
\* and is exactly as long as its first fragment promised.  The records in
\* flight are runs too, filed under their own path, whatever the device sends.
FragmentRuns ==
    \A c \in Clients :
        /\ \A p \in Paths : \A k \in 1 .. Len(records[c][p]) :
            RecordRun(p, records[c][p][k])
        /\ \A e \in 1 .. Len(shown[c]) : ShownRun(shown[c][e].parts)

\* What makes FragmentRuns inductive: fragments are numbered as they arrive, so
\* the next one is younger than any that a record holds.
Arrived(parts, n) == parts[Len(parts)].n <= n

RecordsArrived ==
    \A c \in Clients, p \in Paths : \A k \in 1 .. Len(records[c][p]) :
        Arrived(records[c][p][k].parts, clientCount[c])

RunInv == TypeOK /\ FragmentRuns /\ RecordsArrived

\* The n-th arrival is among these fragments.
Among(n, parts) == \E i \in 1 .. Len(parts) : parts[i].n = n

Held(c, n) ==
    \E p \in Paths : \E k \in 1 .. Len(records[c][p]) :
        Among(n, records[c][p][k].parts)

Logged(c, n) == \E e \in 1 .. Len(shown[c]) : Among(n, shown[c][e].parts)

\* No message is lost: while a connection is open in a mode that shows
\* messages, each of its arrivals is in flight or in the log.
NoneLost ==
    \A c \in Clients : conn[c] = "open" /\ ~ config.performance_mode =>
        \A n \in 1 .. clientCount[c] : Held(c, n) \/ Logged(c, n)

\* No message is used twice: it is in one record or in one entry, not in both.
UsedOnce ==
    \A c \in Clients : \A n \in 1 .. clientCount[c] :
        /\ ~ (Held(c, n) /\ Logged(c, n))
        /\ \A p, q \in Paths :
            \A k \in 1 .. Len(records[c][p]), j \in 1 .. Len(records[c][q]) :
                /\ Among(n, records[c][p][k].parts)
                /\ Among(n, records[c][q][j].parts)
                => p = q /\ k = j
        /\ \A d, e \in 1 .. Len(shown[c]) :
            Among(n, shown[c][d].parts) /\ Among(n, shown[c][e].parts) => d = e

\* Every arrival is accounted for: at one place of the records in flight or
\* of the log, and at no other.  (FragmentRuns says that a record or a merged
\* entry does not have an arrival twice.)
ArrivalsAccounted == NoneLost /\ UsedOnce

\* DialoutService.count is bumped at four places of the loop, one for each way
\* through it but the one of the performance mode: it agrees with the global
\* counter of messages, over all connections, in the other modes.
CountsAgree ==
    count = IF config.performance_mode THEN 0 ELSE msgCount

\* The oldest record waiting for a node gets it: when a fragment extends (or
\* completes) a record, no record of its path whose first fragment arrived
\* earlier was waiting for the same node.  This relies on push appending and
\* on Vec::remove keeping the order, not only on `position'.
FirstArrival(r) == r.parts[1].n

\* Record k of path p got the fragment that arrived in this step.
Grew(c, p, k) ==
    LET old == records[c][p][k]
    IN  \/ \E r \in 1 .. Len(records'[c][p]) :
            /\ FirstArrival(records'[c][p][r]) = FirstArrival(old)
            /\ Len(records'[c][p][r].parts) > Len(old.parts)
        \/ \E e \in Len(shown[c]) + 1 .. Len(shown'[c]) :
            /\ Len(shown'[c][e].parts) > 1
            /\ FirstArrival(shown'[c][e]) = FirstArrival(old)

OldestFirst ==
    [][\A c \in Clients, p \in Paths :
        \A k, j \in 1 .. Len(records[c][p]) :
            /\ Grew(c, p, k)
            /\ FirstArrival(records[c][p][j]) < FirstArrival(records[c][p][k])
            => records[c][p][j].last # records[c][p][k].last]_vars

=============================================================================
