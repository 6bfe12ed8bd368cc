---------------------------- MODULE UdpListener -----------------------------
(***************************************************************************)
(* The UDP dial-out server (src/src-tauri/src/dialout/udp.rs): one task    *)
(* for each socket, which takes datagrams from anyone in the order the     *)
(* network delivers them.  The task has ONE buffer for the segments of     *)
(* fragmented messages; sender, message id and segment number are read     *)
(* from the header and not looked at.                                      *)
(***************************************************************************)
EXTENDS UdpHeader, Sequences, SequencesExt

CONSTANTS
    Sockets,         \* the IPv4 and the IPv6 socket
    FirstWords,      \* first words of datagrams
    Lengths,         \* lengths of datagrams
    Modes,           \* the values of UdpConfig.performance_mode
    MaxDatagrams     \* bound: datagrams received on all sockets

ASSUME FirstWordsAssumption == FirstWords \subseteq Words
ASSUME LengthsAssumption == Lengths \subseteq Nat
ASSUME ModesAssumption == Modes \subseteq BOOLEAN
ASSUME MaxDatagramsAssumption == MaxDatagrams \in Nat

Datagram == [word : FirstWords, len : Lengths, last : BOOLEAN]

\* Bytes of the n-th datagram of a socket, from offset start on.
Piece == [n : Nat, start : Nat, size : Nat]

\* A message handed to print_original_json or deserialize_and_print.
Entry == [n : Nat, pieces : Seq(Piece)]

VARIABLES
    performance_mode, \* config.performance_mode, the same for all sockets
    running,   \* per socket: its task has not seen the stop signal
    chunk,     \* per socket: chunk_data, as the pieces it was filled with
    received,  \* per socket: the datagrams received; count is its length
    shown,     \* per socket: the messages put in the log
    msgCount   \* models::GLOBAL_MSG_COUNT

vars == <<performance_mode, running, chunk, received, shown, msgCount>>

TypeOK ==
    /\ performance_mode \in Modes
    /\ running \in [Sockets -> BOOLEAN]
    /\ chunk \in [Sockets -> Seq(Piece)]
    /\ received \in [Sockets -> Seq(Datagram)]
    /\ shown \in [Sockets -> Seq(Entry)]
    /\ msgCount \in Nat

Init ==
    /\ performance_mode \in Modes
    /\ running = [s \in Sockets |-> TRUE]
    /\ chunk = [s \in Sockets |-> <<>>]
    /\ received = [s \in Sockets |-> <<>>]
    /\ shown = [s \in Sockets |-> <<>>]
    /\ msgCount = 0

-----------------------------------------------------------------------------
Count(s) == Len(received[s])

\* The bytes of datagram d, the next of socket s, from offset start on.
Slice(s, d, start) ==
    [n |-> Count(s) + 1, start |-> start, size |-> PayloadSize(d.len, start)]

\* recv_from returns a datagram.
Arrive(s, d) ==
    /\ running[s]
    /\ msgCount < MaxDatagrams
    /\ received' = [received EXCEPT ![s] = Append(@, d)]
    /\ msgCount' = msgCount + 1
    /\ UNCHANGED <<performance_mode, running>>

Show(s, pieces) ==
    shown' = [shown EXCEPT
                ![s] = Append(@, [n |-> Count(s) + 1, pieces |-> pieces])]

CountOnly(s, d) ==
    /\ performance_mode
    /\ Arrive(s, d)
    /\ UNCHANGED <<chunk, shown>>

\* process_udp_packet runs.
Process(s, d) == ~ performance_mode /\ Arrive(s, d)

IsSegment(d) == ParsesOK(d.word, d.len) /\ HasOption(d.word)

\* A segment, but not the last: its payload goes into the buffer.
KeepSegment(s, d) ==
    /\ Process(s, d)
    /\ IsSegment(d)
    /\ ~ d.last
    /\ chunk' = [chunk EXCEPT ![s] = Append(@, Slice(s, d, HeaderLength(d.word)))]
    /\ UNCHANGED shown

\* Mutant of LastSegment: clone() in place of split().
LastSegmentClone(s, d) ==
    /\ Process(s, d)
    /\ IsSegment(d)
    /\ d.last
    /\ chunk' = [chunk EXCEPT ![s] = Append(@, Slice(s, d, HeaderLength(d.word)))]
    /\ Show(s, chunk'[s])

\* Mutant of LastSegment: the last segment is not put into the buffer first.
LastSegmentAlone(s, d) ==
    /\ Process(s, d)
    /\ IsSegment(d)
    /\ d.last
    /\ Show(s, <<Slice(s, d, HeaderLength(d.word))>>)
    /\ UNCHANGED chunk

\* The last segment: the whole buffer, its payload included, is split off and
\* is the message.
LastSegment(s, d) ==
    /\ Process(s, d)
    /\ IsSegment(d)
    /\ d.last
    /\ Show(s, Append(chunk[s], Slice(s, d, HeaderLength(d.word))))
    /\ chunk' = [chunk EXCEPT ![s] = <<>>]

\* A header without option: the payload is the message.  The buffer stays.
ShowPlain(s, d) ==
    /\ Process(s, d)
    /\ ParsesOK(d.word, d.len)
    /\ ~ HasOption(d.word)
    /\ Show(s, <<Slice(s, d, HeaderLength(d.word))>>)
    /\ UNCHANGED chunk

\* The header does not parse: what follows the first 12 bytes is the message,
\* if anything does.
ShowFallback(s, d) ==
    /\ Process(s, d)
    /\ ~ ParsesOK(d.word, d.len)
    /\ d.len > MinSize
    /\ Show(s, <<Slice(s, d, MinSize)>>)
    /\ UNCHANGED chunk

Ignore(s, d) ==
    /\ Process(s, d)
    /\ ~ ParsesOK(d.word, d.len)
    /\ d.len <= MinSize
    /\ UNCHANGED <<chunk, shown>>

Receive(s, d) ==
    \/ CountOnly(s, d)
    \/ KeepSegment(s, d)
    \/ LastSegment(s, d)
    \/ ShowPlain(s, d)
    \/ ShowFallback(s, d)
    \/ Ignore(s, d)

\* The stop signal, or the drop of the server that holds its sender: the task
\* ends and its buffer with it.
Stop(s) ==
    /\ running[s]
    /\ running' = [running EXCEPT ![s] = FALSE]
    /\ chunk' = [chunk EXCEPT ![s] = <<>>]
    /\ UNCHANGED <<performance_mode, received, shown, msgCount>>

Next == \E s \in Sockets : Stop(s) \/ \E d \in Datagram : Receive(s, d)

Spec == Init /\ [][Next]_vars

-----------------------------------------------------------------------------
\* The numbers of the segments among the datagrams rec.
Segments(rec) == {n \in DOMAIN rec : IsSegment(rec[n])}

\* The places of a log where segments are: its merged entries and, behind its
\* end, the buffer.
Groups(rec, log) == {e \in DOMAIN log : IsSegment(rec[log[e].n])} \cup {Len(log) + 1}

Group(buffer, log, e) == IF e \in DOMAIN log THEN log[e].pieces ELSE buffer

\* All segments are used, nothing else is, and in the order of their numbers.
InSequence(rec, buffer, log) ==
    /\ \A e \in Groups(rec, log) : \A i \in DOMAIN Group(buffer, log, e) :
        Group(buffer, log, e)[i].n \in Segments(rec)
    /\ \A n \in Segments(rec) : \E e \in Groups(rec, log) :
        \E i \in DOMAIN Group(buffer, log, e) : Group(buffer, log, e)[i].n = n
    /\ \A d, e \in Groups(rec, log) :
        \A i \in DOMAIN Group(buffer, log, d), j \in DOMAIN Group(buffer, log, e) :
            d < e \/ (d = e /\ i < j) =>
                Group(buffer, log, d)[i].n < Group(buffer, log, e)[j].n

\* Segments are used once each and in the order of arrival: the messages that
\* were merged so far, one after the other, and what is in the buffer are
\* together the segments received, whatever arrived between them.
SegmentsInOrder ==
    \A s \in Sockets : running[s] /\ ~ performance_mode =>
        InSequence(received[s], chunk[s], shown[s])

\* A message ends at the first segment that is marked last: that mark is on
\* its last piece and on no other one, and never on a piece of the buffer.
EndsAtLast ==
    \A s \in Sockets :
        /\ \A i \in DOMAIN chunk[s] : ~ received[s][chunk[s][i].n].last
        /\ \A e \in DOMAIN shown[s] : IsSegment(received[s][shown[s][e].n]) =>
            LET pieces == shown[s][e].pieces
            IN  \A i \in DOMAIN pieces :
                    received[s][pieces[i].n].last <=> i = Len(pieces)

\* The pieces of the buffer and of the log of a socket.
PiecesOf(s) ==
    {chunk[s][i] : i \in DOMAIN chunk[s]}
        \cup UNION {{shown[s][e].pieces[i] : i \in DOMAIN shown[s][e].pieces} :
                        e \in DOMAIN shown[s]}

\* Whatever lengths the headers claim, a piece is the rest of its datagram
\* behind its header: it starts no later than where the datagram ends, and a
\* segment's option, which is read from bytes 12 to 15, lies inside of it.
SlicesInBounds ==
    \A s \in Sockets : \A piece \in PiecesOf(s) :
        LET d == received[s][piece.n]
        IN  /\ piece.start + piece.size = d.len
            /\ IsSegment(d) => WithOptionSize <= d.len

\* The length read from a header is the length its documented layout gives.
ReadAsDocumented ==
    \A s \in Sockets : \A n \in DOMAIN received[s] :
        HeaderLength(received[s][n].word) = DocumentedLength(received[s][n].word)

=============================================================================
