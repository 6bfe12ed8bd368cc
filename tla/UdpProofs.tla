----------------------------- MODULE UdpProofs ------------------------------
(***************************************************************************)
(* Theorems about UdpListener, for any number of sockets, any number of    *)
(* datagrams and any first words and lengths, with their proofs.           *)
(***************************************************************************)
EXTENDS UdpListener, TLAPS

\* A piece is the rest of a datagram that has arrived.
InDatagram(rec, piece) ==
    /\ piece.n \in DOMAIN rec
    /\ piece.start + piece.size = rec[piece.n].len
    /\ IsSegment(rec[piece.n]) => WithOptionSize <= rec[piece.n].len

\* The buffer of a socket that has received rec.
BufferOK(rec, pieces) ==
    \A i \in DOMAIN pieces :
        InDatagram(rec, pieces[i]) /\ ~ rec[pieces[i].n].last

\* An entry of its log.  The mark is on the last piece and on no other one.
EntryOK(rec, e) ==
    /\ e.n \in DOMAIN rec
    /\ \A i \in DOMAIN e.pieces : InDatagram(rec, e.pieces[i])
    /\ IsSegment(rec[e.n]) =>
        \A i \in DOMAIN e.pieces :
            rec[e.pieces[i].n].last <=> i = Len(e.pieces)

SocketOK(rec, buffer, log) ==
    /\ BufferOK(rec, buffer)
    /\ \A e \in DOMAIN log : EntryOK(rec, log[e])

\* EndsAtLast and SlicesInBounds do not say that pieces and entries are those of
\* datagrams that have arrived, so that the next one could change them.
UdpInv ==
    /\ TypeOK
    /\ \A s \in Sockets : SocketOK(received[s], chunk[s], shown[s])

-----------------------------------------------------------------------------
\* What HeaderLength returns is a number of bytes.
LEMMA HeaderLengthNat ==
    ASSUME NEW word \in Words
    PROVE  HeaderLength(word) \in Nat
BY DEF HeaderLength, Words

\* The payload ends where the datagram does, unless it would start behind it.
LEMMA PayloadEnds ==
    ASSUME NEW len \in Nat, NEW start \in Nat, start <= len
    PROVE  PayloadSize(len, start) \in Nat /\ start + PayloadSize(len, start) = len
BY DEF PayloadSize

\* The header of a datagram that parses ends within it, with its option.
LEMMA ParsedInside ==
    ASSUME NEW word \in Words, NEW len \in Nat, ParsesOK(word, len)
    PROVE  /\ HeaderLength(word) \in Nat
           /\ HeaderLength(word) <= len
           /\ HasOption(word) => WithOptionSize <= len
BY HeaderLengthNat DEF ParsesOK, HasOption

\* A datagram's word and length are as the parser expects them.
LEMMA DatagramFields ==
    ASSUME NEW d \in Datagram
    PROVE  d.word \in Words /\ d.len \in Nat /\ d.last \in BOOLEAN
BY FirstWordsAssumption, LengthsAssumption DEF Datagram

\* Another datagram changes nothing of what is there.
LEMMA ArrivalKeeps ==
    ASSUME NEW rec \in Seq(Datagram), NEW d \in Datagram,
           NEW buffer \in Seq(Piece), NEW log \in Seq(Entry),
           SocketOK(rec, buffer, log)
    PROVE  SocketOK(Append(rec, d), buffer, log)
<1>1. \A n \in DOMAIN rec : n \in DOMAIN Append(rec, d) /\ Append(rec, d)[n] = rec[n]
  OBVIOUS
<1>2. \A p : InDatagram(rec, p) => InDatagram(Append(rec, d), p)
  BY <1>1 DEF InDatagram
<1>3. BufferOK(Append(rec, d), buffer)
  BY <1>1, <1>2 DEF SocketOK, BufferOK, InDatagram
<1>4. ASSUME NEW e \in DOMAIN log
      PROVE  EntryOK(Append(rec, d), log[e])
  <2>1. EntryOK(rec, log[e])
    BY DEF SocketOK
  <2>2. \A i \in DOMAIN log[e].pieces :
            log[e].pieces[i].n \in DOMAIN rec
    BY <2>1 DEF EntryOK, InDatagram
  <2> QED BY <1>1, <1>2, <2>1, <2>2 DEF EntryOK
<1> QED BY <1>3, <1>4 DEF SocketOK

-----------------------------------------------------------------------------
\* The slice of the datagram that arrives, behind a header that fits.
LEMMA SliceOK ==
    ASSUME TypeOK, NEW s \in Sockets, NEW d \in Datagram, NEW start \in Nat,
           start <= d.len
    PROVE  /\ Slice(s, d, start) \in Piece
           /\ Slice(s, d, start).n = Len(received[s]) + 1
           /\ InDatagram(Append(received[s], d), Slice(s, d, start))
<1> DEFINE rec == Append(received[s], d)
<1>1. received[s] \in Seq(Datagram)
  BY DEF TypeOK
<1>2. /\ Len(received[s]) \in Nat
      /\ Len(received[s]) + 1 \in DOMAIN rec
      /\ rec[Len(received[s]) + 1] = d
  BY <1>1
<1>3. d.word \in Words /\ d.len \in Nat
  BY DatagramFields
<1>4. PayloadSize(d.len, start) \in Nat /\ start + PayloadSize(d.len, start) = d.len
  BY <1>3, PayloadEnds
<1>5. IsSegment(d) => WithOptionSize <= d.len
  BY <1>3, ParsedInside DEF IsSegment
<1> QED BY <1>2, <1>4, <1>5 DEF Slice, Count, Piece, InDatagram

\* An entry that is added to the log.
LEMMA EntryAdded ==
    ASSUME NEW rec, NEW buffer, NEW log \in Seq(Entry), NEW e \in Entry,
           SocketOK(rec, buffer, log), EntryOK(rec, e)
    PROVE  SocketOK(rec, buffer, Append(log, e))
BY DEF SocketOK

\* The state after a datagram, given what becomes of its own socket.
LEMMA SocketsAfter ==
    ASSUME UdpInv, NEW s \in Sockets, NEW d \in Datagram, Arrive(s, d),
           NEW buffer \in Seq(Piece), NEW log \in Seq(Entry),
           chunk' = [chunk EXCEPT ![s] = buffer],
           shown' = [shown EXCEPT ![s] = log],
           SocketOK(Append(received[s], d), buffer, log)
    PROVE  UdpInv'
<1> USE DEF UdpInv, TypeOK, Arrive
<1>1. received' = [received EXCEPT ![s] = Append(@, d)]
  OBVIOUS
<1>2. received' \in [Sockets -> Seq(Datagram)]
  OBVIOUS
<1>3. chunk' \in [Sockets -> Seq(Piece)] /\ shown' \in [Sockets -> Seq(Entry)]
  OBVIOUS
<1>4. msgCount' \in Nat /\ performance_mode' \in Modes /\ running' \in [Sockets -> BOOLEAN]
  OBVIOUS
<1>5. \A o \in Sockets : SocketOK(received'[o], chunk'[o], shown'[o])
  OBVIOUS
<1> QED BY <1>2, <1>3, <1>4, <1>5

LEMMA InitUdpInv == Init => UdpInv
BY DEF Init, UdpInv, TypeOK, SocketOK, BufferOK

LEMMA ReceiveKeeps ==
    ASSUME UdpInv, NEW s \in Sockets, NEW d \in Datagram, Receive(s, d)
    PROVE  UdpInv'
<1> DEFINE rec == Append(received[s], d)
           n   == Len(received[s]) + 1
<1>1. /\ TypeOK
      /\ received[s] \in Seq(Datagram) /\ chunk[s] \in Seq(Piece)
      /\ shown[s] \in Seq(Entry) /\ SocketOK(received[s], chunk[s], shown[s])
  BY DEF UdpInv, TypeOK
<1>2. /\ n \in DOMAIN rec /\ rec[n] = d /\ n \in Nat
  BY <1>1
<1>3. SocketOK(rec, chunk[s], shown[s])
  BY <1>1, ArrivalKeeps
<1>4. d.word \in Words /\ d.len \in Nat /\ d.last \in BOOLEAN
  BY DatagramFields
<1>5. chunk = [chunk EXCEPT ![s] = chunk[s]] /\ shown = [shown EXCEPT ![s] = shown[s]]
  BY <1>1 DEF TypeOK
<1>6. CASE CountOnly(s, d) \/ Ignore(s, d)
  <2>1. Arrive(s, d) /\ chunk' = chunk /\ shown' = shown
    BY <1>6 DEF CountOnly, Ignore, Process
  <2> QED BY <2>1, <1>1, <1>3, <1>5, SocketsAfter
<1>7. ASSUME IsSegment(d)
      PROVE  /\ Slice(s, d, HeaderLength(d.word)) \in Piece
             /\ Slice(s, d, HeaderLength(d.word)).n = n
             /\ InDatagram(rec, Slice(s, d, HeaderLength(d.word)))
  BY <1>1, <1>4, <1>7, ParsedInside, SliceOK DEF IsSegment
<1>8. CASE KeepSegment(s, d)
  <2> DEFINE piece  == Slice(s, d, HeaderLength(d.word))
             buffer == Append(chunk[s], piece)
  <2>1. /\ Arrive(s, d) /\ IsSegment(d) /\ ~ d.last
        /\ chunk' = [chunk EXCEPT ![s] = buffer]
        /\ shown' = shown
    BY <1>8 DEF KeepSegment, Process
  <2>2. piece \in Piece /\ piece.n = n /\ InDatagram(rec, piece)
    BY <2>1, <1>7
  <2>3. buffer \in Seq(Piece)
    BY <1>1, <2>2
  <2>4. BufferOK(rec, buffer)
    <3>1. \A i \in DOMAIN buffer :
            \/ i \in DOMAIN chunk[s] /\ buffer[i] = chunk[s][i]
            \/ buffer[i] = piece
      BY <1>1, <2>2
    <3> HIDE DEF buffer, piece, rec
    <3> QED BY <1>2, <1>3, <2>1, <2>2, <3>1 DEF BufferOK, SocketOK
  <2>5. SocketOK(rec, buffer, shown[s])
    BY <1>3, <2>4 DEF SocketOK
  <2> QED BY <1>1, <1>5, <2>1, <2>3, <2>5, SocketsAfter
<1>9. CASE LastSegment(s, d)
  <2> DEFINE piece  == Slice(s, d, HeaderLength(d.word))
             pieces == Append(chunk[s], piece)
             entry  == [n |-> n, pieces |-> pieces]
  <2>1. /\ Arrive(s, d) /\ IsSegment(d) /\ d.last
        /\ chunk' = [chunk EXCEPT ![s] = <<>>]
        /\ shown' = [shown EXCEPT ![s] = Append(shown[s], entry)]
    BY <1>9, <1>1 DEF LastSegment, Process, Show, Count, TypeOK
  <2>2. piece \in Piece /\ piece.n = n /\ InDatagram(rec, piece)
    BY <2>1, <1>7
  <2>3. pieces \in Seq(Piece) /\ entry \in Entry
    BY <1>1, <1>2, <2>2 DEF Entry
  <2>4. \A i \in DOMAIN pieces :
            \/ i \in DOMAIN chunk[s] /\ i < Len(pieces) /\ pieces[i] = chunk[s][i]
            \/ i = Len(pieces) /\ pieces[i] = piece
    BY <1>1, <2>2
  <2>5. \A i \in DOMAIN chunk[s] :
            InDatagram(rec, chunk[s][i]) /\ ~ rec[chunk[s][i].n].last
    BY <1>3 DEF SocketOK, BufferOK
  <2>6. EntryOK(rec, entry)
    <3>1. \A i \in DOMAIN pieces :
            /\ InDatagram(rec, pieces[i])
            /\ rec[pieces[i].n].last <=> i = Len(pieces)
      <4> HIDE DEF pieces, piece, rec
      <4> QED BY <1>2, <2>1, <2>2, <2>4, <2>5
    <3> HIDE DEF pieces, rec
    <3> QED BY <1>2, <3>1 DEF EntryOK
  <2>7. SocketOK(rec, <<>>, Append(shown[s], entry))
    <3> HIDE DEF entry, rec
    <3>1. SocketOK(rec, <<>>, shown[s])
      BY <1>3 DEF SocketOK, BufferOK
    <3> QED BY <3>1, <1>1, <2>3, <2>6, EntryAdded
  <2>8. <<>> \in Seq(Piece) /\ Append(shown[s], entry) \in Seq(Entry)
    BY <1>1, <2>3
  <2> QED BY <2>1, <2>7, <2>8, SocketsAfter
<1>10. ASSUME NEW start \in Nat, start <= d.len, ~ IsSegment(d), Arrive(s, d),
              Show(s, <<Slice(s, d, start)>>), chunk' = chunk
       PROVE  UdpInv'
  <2> DEFINE piece == Slice(s, d, start)
             entry == [n |-> n, pieces |-> <<piece>>]
  <2>1. shown' = [shown EXCEPT ![s] = Append(shown[s], entry)]
    BY <1>10, <1>1 DEF Show, Count, TypeOK
  <2>2. piece \in Piece /\ InDatagram(rec, piece)
    BY <1>1, <1>10, SliceOK
  <2>3. entry \in Entry
    BY <1>2, <2>2 DEF Entry
  <2>4. EntryOK(rec, entry)
    <3> HIDE DEF piece, rec
    <3> QED BY <1>2, <1>10, <2>2 DEF EntryOK
  <2>5. SocketOK(rec, chunk[s], Append(shown[s], entry))
    BY <1>1, <1>3, <2>3, <2>4, EntryAdded
  <2>6. Append(shown[s], entry) \in Seq(Entry)
    BY <1>1, <2>3
  <2> QED BY <1>1, <1>5, <1>10, <2>1, <2>5, <2>6, SocketsAfter
<1>11. CASE ShowPlain(s, d)
  <2>1. /\ HeaderLength(d.word) \in Nat /\ HeaderLength(d.word) <= d.len
        /\ ~ IsSegment(d)
    BY <1>4, <1>11, ParsedInside DEF ShowPlain, IsSegment
  <2> QED BY <1>10, <1>11, <2>1 DEF ShowPlain, Process
<1>12. CASE ShowFallback(s, d)
  <2>1. MinSize \in Nat /\ MinSize <= d.len /\ ~ IsSegment(d)
    BY <1>4, <1>12 DEF ShowFallback, IsSegment, MinSize
  <2> QED BY <1>10, <1>12, <2>1 DEF ShowFallback, Process
<1> QED BY <1>6, <1>8, <1>9, <1>11, <1>12 DEF Receive

LEMMA NextUdpInv == UdpInv /\ [Next]_vars => UdpInv'
<1> SUFFICES ASSUME UdpInv, [Next]_vars
             PROVE  UdpInv'
  OBVIOUS
<1>1. CASE UNCHANGED vars
  BY <1>1 DEF vars, UdpInv, TypeOK
<1>2. ASSUME NEW s \in Sockets, Stop(s)
      PROVE  UdpInv'
  <2>1. TypeOK'
    BY <1>2 DEF Stop, UdpInv, TypeOK
  <2>2. ASSUME NEW o \in Sockets
        PROVE  SocketOK(received[o], chunk'[o], shown[o])
    <3>1. chunk'[o] = chunk[o] \/ chunk'[o] = <<>>
      BY <1>2 DEF Stop, UdpInv, TypeOK
    <3> QED BY <3>1 DEF UdpInv, SocketOK, BufferOK
  <2> QED BY <1>2, <2>1, <2>2 DEF Stop, UdpInv
<1>3. ASSUME NEW s \in Sockets, NEW d \in Datagram, Receive(s, d)
      PROVE  UdpInv'
  BY <1>3, ReceiveKeeps
<1> QED BY <1>1, <1>2, <1>3 DEF Next

LEMMA UdpInvariant == Spec => []UdpInv
BY InitUdpInv, NextUdpInv, PTL DEF Spec

-----------------------------------------------------------------------------
\* The variables of the listener keep their types: sizes of slices, which the
\* code takes from lengths in headers, are never negative.
THEOREM TypeCorrect == Spec => []TypeOK
<1>1. UdpInv => TypeOK
  BY DEF UdpInv
<1> QED BY <1>1, UdpInvariant, PTL

\* A merged message ends at the first segment marked last, on every socket and
\* whatever arrives in between: process_udp_packet leaves no such segment in
\* its buffer.
THEOREM MessagesEndAtLast == Spec => []EndsAtLast
<1>1. UdpInv => EndsAtLast
  BY DEF UdpInv, SocketOK, BufferOK, EntryOK, EndsAtLast
<1> QED BY <1>1, UdpInvariant, PTL

\* No header makes extract_payload or the option's reads leave the datagram.
THEOREM SlicesStayInBounds == Spec => []SlicesInBounds
<1>1. UdpInv => SlicesInBounds
  <2> SUFFICES ASSUME UdpInv, NEW s \in Sockets, NEW piece \in PiecesOf(s)
               PROVE  InDatagram(received[s], piece)
    BY DEF SlicesInBounds, InDatagram
  <2>1. SocketOK(received[s], chunk[s], shown[s])
    BY DEF UdpInv
  <2>2. CASE \E i \in DOMAIN chunk[s] : piece = chunk[s][i]
    BY <2>1, <2>2 DEF SocketOK, BufferOK
  <2>3. CASE \E e \in DOMAIN shown[s] : \E i \in DOMAIN shown[s][e].pieces :
                piece = shown[s][e].pieces[i]
    BY <2>1, <2>3 DEF SocketOK, EntryOK
  <2> QED BY <2>2, <2>3 DEF PiecesOf
<1> QED BY <1>1, UdpInvariant, PTL

-----------------------------------------------------------------------------
(***************************************************************************)
(* SegmentsInOrder.  A datagram goes behind all that are there: into the   *)
(* buffer if it is a segment; a merged entry takes the place of the buffer *)
(* in the sequence, and any other entry has no place in it.                *)
(***************************************************************************)
\* The places of the sequence, and what each holds.
LEMMA PlacesOf ==
    ASSUME NEW rec, NEW log \in Seq(Entry)
    PROVE  /\ Len(log) \in Nat /\ DOMAIN log = 1 .. Len(log)
           /\ \A e : e \in Groups(rec, log) <=>
                \/ e \in 1 .. Len(log) /\ IsSegment(rec[log[e].n])
                \/ e = Len(log) + 1
BY DEF Groups

LEMMA HeldAt ==
    ASSUME NEW buffer, NEW log \in Seq(Entry)
    PROVE  /\ \A e \in 1 .. Len(log) : Group(buffer, log, e) = log[e].pieces
           /\ Group(buffer, log, Len(log) + 1) = buffer
BY DEF Group

\* A datagram arrives.
LEMMA SequenceArrival ==
    ASSUME NEW rec \in Seq(Datagram), NEW d \in Datagram, NEW buffer, NEW log \in Seq(Entry),
           SocketOK(rec, buffer, log)
    PROVE  /\ Groups(Append(rec, d), log) = Groups(rec, log)
           /\ Len(rec) + 1 \notin Segments(rec)
           /\ \A n \in Segments(rec) : n < Len(rec) + 1
           /\ Segments(Append(rec, d)) =
                IF IsSegment(d) THEN Segments(rec) \cup {Len(rec) + 1} ELSE Segments(rec)
<1>1. /\ Len(rec) \in Nat /\ DOMAIN rec = 1 .. Len(rec)
      /\ DOMAIN Append(rec, d) = 1 .. Len(rec) + 1 /\ Append(rec, d)[Len(rec) + 1] = d
      /\ \A n \in 1 .. Len(rec) : Append(rec, d)[n] = rec[n]
  OBVIOUS
<1>2. \A e \in DOMAIN log : log[e].n \in DOMAIN rec
  BY DEF SocketOK, EntryOK
<1>3. Groups(Append(rec, d), log) = Groups(rec, log)
  BY <1>1, <1>2 DEF Groups
<1>4. \A n : n \in 1 .. Len(rec) + 1 <=> n \in 1 .. Len(rec) \/ n = Len(rec) + 1
  BY <1>1
<1>5. \A n \in Segments(rec) : n \in 1 .. Len(rec)
  BY <1>1 DEF Segments
<1>6. /\ Len(rec) + 1 \notin Segments(rec)
      /\ \A n \in Segments(rec) : n < Len(rec) + 1
  BY <1>1, <1>5
<1>7. \A n : n \in Segments(Append(rec, d)) <=>
            n \in Segments(rec) \/ (n = Len(rec) + 1 /\ IsSegment(d))
  BY <1>1, <1>4 DEF Segments
<1>8. Segments(Append(rec, d)) =
        IF IsSegment(d) THEN Segments(rec) \cup {Len(rec) + 1} ELSE Segments(rec)
  BY <1>7
<1> QED BY <1>3, <1>6, <1>8

LEMMA SequencePlain ==
    ASSUME NEW rec \in Seq(Datagram), NEW d \in Datagram, NEW buffer, NEW log \in Seq(Entry),
           SocketOK(rec, buffer, log), ~ IsSegment(d), InSequence(rec, buffer, log)
    PROVE  InSequence(Append(rec, d), buffer, log)
<1>1. /\ Groups(Append(rec, d), log) = Groups(rec, log)
      /\ Segments(Append(rec, d)) = Segments(rec)
  BY SequenceArrival
<1> QED BY <1>1 DEF InSequence

\* A segment is put into the buffer.
LEMMA SequenceKeep ==
    ASSUME NEW rec \in Seq(Datagram), NEW d \in Datagram, NEW buffer \in Seq(Piece),
           NEW log \in Seq(Entry), SocketOK(rec, buffer, log), IsSegment(d),
           InSequence(rec, buffer, log), NEW piece \in Piece, piece.n = Len(rec) + 1
    PROVE  InSequence(Append(rec, d), Append(buffer, piece), log)
<1> DEFINE more == Append(buffer, piece)
           all  == Append(rec, d)
           last == Len(log) + 1
           size == Len(buffer)
<1>1. /\ Groups(all, log) = Groups(rec, log)
      /\ \A n : n \in Segments(all) <=> n \in Segments(rec) \/ n = Len(rec) + 1
      /\ \A n \in Segments(rec) : n < Len(rec) + 1
  BY SequenceArrival
<1>2. /\ Len(log) \in Nat /\ last \in Groups(rec, log)
      /\ \A e \in Groups(rec, log) : e \in 1 .. Len(log) \/ e = last
      /\ Group(more, log, last) = more /\ Group(buffer, log, last) = buffer
      /\ \A e \in 1 .. Len(log) : Group(more, log, e) = Group(buffer, log, e)
  <2> HIDE DEF more
  <2>1. /\ Len(log) \in Nat /\ last \in Groups(rec, log)
        /\ \A e \in Groups(rec, log) : e \in 1 .. Len(log) \/ e = last
    BY PlacesOf
  <2>2. /\ \A e \in 1 .. Len(log) : Group(more, log, e) = log[e].pieces
        /\ Group(more, log, last) = more
    BY HeldAt
  <2>3. /\ \A e \in 1 .. Len(log) : Group(buffer, log, e) = log[e].pieces
        /\ Group(buffer, log, last) = buffer
    BY HeldAt
  <2> QED BY <2>1, <2>2, <2>3
<1>3. /\ size \in Nat /\ DOMAIN buffer = 1 .. size
      /\ DOMAIN more = 1 .. size + 1 /\ more[size + 1] = piece
      /\ \A i \in 1 .. size : more[i] = buffer[i]
  OBVIOUS
<1> HIDE DEF more, all, last, size
\* A place of the new sequence is one of the old or the last, with the piece.
<1>4. ASSUME NEW e \in Groups(rec, log), NEW i \in DOMAIN Group(more, log, e)
      PROVE  \/ e = last /\ i = size + 1 /\ Group(more, log, e)[i].n = Len(rec) + 1
             \/ /\ i \in DOMAIN Group(buffer, log, e)
                /\ Group(more, log, e)[i] = Group(buffer, log, e)[i]
                /\ e = last => i \in 1 .. size
  <2>1. CASE e \in 1 .. Len(log)
    BY <1>2, <2>1 DEF last
  <2>2. CASE e = last
    <3>1. Group(more, log, e) = more /\ Group(buffer, log, e) = buffer
      BY <1>2, <2>2
    <3>2. i = size + 1 \/ i \in 1 .. size
      BY <1>3, <3>1
    <3> QED BY <1>3, <2>2, <3>1, <3>2
  <2> QED BY <1>2, <2>1, <2>2
<1>5. \A e \in Groups(rec, log) : \A i \in DOMAIN Group(buffer, log, e) :
        i \in DOMAIN Group(more, log, e) /\ Group(more, log, e)[i] = Group(buffer, log, e)[i]
  <2> SUFFICES ASSUME NEW e \in Groups(rec, log), NEW i \in DOMAIN Group(buffer, log, e)
               PROVE  /\ i \in DOMAIN Group(more, log, e)
                      /\ Group(more, log, e)[i] = Group(buffer, log, e)[i]
    OBVIOUS
  <2>1. CASE e \in 1 .. Len(log)
    BY <1>2, <2>1
  <2>2. CASE e = last
    <3>1. Group(more, log, e) = more /\ Group(buffer, log, e) = buffer
      BY <1>2, <2>2
    <3> QED BY <1>3, <3>1
  <2> QED BY <1>2, <2>1, <2>2
<1>6. \A e \in Groups(rec, log) : \A i \in DOMAIN Group(buffer, log, e) :
        Group(buffer, log, e)[i].n \in Segments(rec)
  BY DEF InSequence
<1>7. \A e \in Groups(rec, log) : \A i \in DOMAIN Group(more, log, e) :
        Group(more, log, e)[i].n \in Segments(all)
  BY <1>1, <1>4, <1>6
<1>8. ASSUME NEW n \in Segments(all)
      PROVE  \E e \in Groups(rec, log) : \E i \in DOMAIN Group(more, log, e) :
                Group(more, log, e)[i].n = n
  <2>1. CASE n \in Segments(rec)
    <3>1. PICK e \in Groups(rec, log) : \E i \in DOMAIN Group(buffer, log, e) :
            Group(buffer, log, e)[i].n = n
      BY <2>1 DEF InSequence
    <3> QED BY <1>5, <3>1
  <2>2. CASE n = Len(rec) + 1
    <3>1. size + 1 \in DOMAIN Group(more, log, last) /\ Group(more, log, last)[size + 1].n = n
      BY <1>2, <1>3, <2>2
    <3> QED BY <1>2, <3>1
  <2> QED BY <1>1, <2>1, <2>2
<1>9. ASSUME NEW c \in Groups(rec, log), NEW e \in Groups(rec, log),
             NEW i \in DOMAIN Group(more, log, c), NEW j \in DOMAIN Group(more, log, e),
             c < e \/ (c = e /\ i < j)
      PROVE  Group(more, log, c)[i].n < Group(more, log, e)[j].n
  <2>1. ~ (c = last /\ i = size + 1)
    <3> SUFFICES ASSUME c = last, i = size + 1 PROVE FALSE
      OBVIOUS
    <3>1. e \in 1 .. Len(log) \/ e = last
      BY <1>2
    <3>2. CASE e \in 1 .. Len(log)
      BY <1>2, <1>9, <3>2 DEF last
    <3>3. CASE e = last
      <4>1. i < j
        BY <1>2, <1>9, <3>3 DEF last
      <4>2. j \in 1 .. size + 1
        BY <1>2, <1>3, <3>3
      <4> QED BY <1>3, <4>1, <4>2
    <3> QED BY <3>1, <3>2, <3>3
  <2>2. /\ i \in DOMAIN Group(buffer, log, c)
        /\ Group(more, log, c)[i] = Group(buffer, log, c)[i]
    BY <1>4, <2>1
  <2>3. CASE e = last /\ j = size + 1 /\ Group(more, log, e)[j].n = Len(rec) + 1
    BY <1>1, <1>6, <2>2, <2>3
  <2>4. CASE j \in DOMAIN Group(buffer, log, e) /\ Group(more, log, e)[j] = Group(buffer, log, e)[j]
    BY <1>9, <2>2, <2>4 DEF InSequence
  <2> QED BY <1>4, <2>3, <2>4
<1>10. InSequence(all, more, log)
  BY <1>1, <1>7, <1>8, <1>9 DEF InSequence
<1> QED BY <1>10 DEF all, more

\* An entry that is not merged is added to the log.
LEMMA SequenceEntry ==
    ASSUME NEW rec, NEW buffer, NEW log \in Seq(Entry), InSequence(rec, buffer, log),
           NEW entry \in Entry, ~ IsSegment(rec[entry.n])
    PROVE  InSequence(rec, buffer, Append(log, entry))
<1> DEFINE more == Append(log, entry)
           last == Len(log) + 1
           Old(e) == IF e = last + 1 THEN last ELSE e
<1>1. /\ more \in Seq(Entry) /\ Len(more) = last /\ more[last] = entry /\ Len(log) \in Nat
      /\ \A e \in 1 .. Len(log) : more[e] = log[e]
  OBVIOUS
<1>2. /\ last \in Groups(rec, log)
      /\ \A e : e \in Groups(rec, log) <=>
            (e \in 1 .. Len(log) /\ IsSegment(rec[log[e].n])) \/ e = last
      /\ \A e \in 1 .. Len(log) : Group(buffer, log, e) = log[e].pieces
      /\ Group(buffer, log, last) = buffer
  BY PlacesOf, HeldAt
<1>3. /\ \A e : e \in Groups(rec, more) <=>
            (e \in 1 .. last /\ IsSegment(rec[more[e].n])) \/ e = last + 1
      /\ \A e \in 1 .. last : Group(buffer, more, e) = more[e].pieces
      /\ Group(buffer, more, last + 1) = buffer
  <2> HIDE DEF more
  <2>1. \A e : e \in Groups(rec, more) <=>
            \/ e \in 1 .. Len(more) /\ IsSegment(rec[more[e].n])
            \/ e = Len(more) + 1
    BY <1>1, PlacesOf
  <2>2. /\ \A e \in 1 .. Len(more) : Group(buffer, more, e) = more[e].pieces
        /\ Group(buffer, more, Len(more) + 1) = buffer
    BY <1>1, HeldAt
  <2> HIDE DEF last
  <2> QED BY <1>1, <2>1, <2>2
<1> HIDE DEF more
<1>4. /\ \A e \in Groups(rec, more) : e \in 1 .. Len(log) \/ e = last + 1
      /\ \A e \in Groups(rec, log) : e \in 1 .. Len(log) \/ e = last
      /\ \A e \in 1 .. Len(log) : e \in 1 .. last /\ e # last /\ e # last + 1
      /\ last \in Nat
  <2>1. \A e \in 1 .. last : e \in 1 .. Len(log) \/ e = last
    BY <1>1
  <2> QED BY <1>1, <1>2, <1>3, <2>1
<1> HIDE DEF last
<1>5. \A e \in Groups(rec, more) :
        Old(e) \in Groups(rec, log) /\ Group(buffer, more, e) = Group(buffer, log, Old(e))
  <2> SUFFICES ASSUME NEW e \in Groups(rec, more)
               PROVE  Old(e) \in Groups(rec, log) /\ Group(buffer, more, e) = Group(buffer, log, Old(e))
    OBVIOUS
  <2>1. CASE e \in 1 .. Len(log)
    BY <1>1, <1>2, <1>3, <1>4, <2>1
  <2>2. CASE e = last + 1
    BY <1>2, <1>3, <2>2
  <2> QED BY <1>4, <2>1, <2>2
<1>6. \A e \in Groups(rec, log) : \E x \in Groups(rec, more) : Old(x) = e
  <2> SUFFICES ASSUME NEW e \in Groups(rec, log)
               PROVE  \E x \in Groups(rec, more) : Old(x) = e
    OBVIOUS
  <2>1. CASE e \in 1 .. Len(log)
    <3>1. e \in Groups(rec, more) /\ Old(e) = e
      BY <1>1, <1>2, <1>3, <1>4, <2>1
    <3> QED BY <3>1
  <2>2. CASE e = last
    <3>1. last + 1 \in Groups(rec, more) /\ Old(last + 1) = e
      BY <1>3, <2>2
    <3> QED BY <3>1
  <2> QED BY <1>4, <2>1, <2>2
<1>7. \A c, e \in Groups(rec, more) :
        /\ c < e => Old(c) < Old(e)
        /\ c = e => Old(c) = Old(e)
  <2> SUFFICES ASSUME NEW c \in Groups(rec, more), NEW e \in Groups(rec, more)
               PROVE  /\ c < e => Old(c) < Old(e)
                      /\ c = e => Old(c) = Old(e)
    OBVIOUS
  <2>1. last = Len(log) + 1
    BY DEF last
  <2>2. CASE c \in 1 .. Len(log) /\ e \in 1 .. Len(log)
    <3>1. Old(c) = c /\ Old(e) = e
      BY <1>4, <2>2
    <3> QED BY <3>1
  <2>3. CASE c \in 1 .. Len(log) /\ e = last + 1
    <3>1. Old(c) = c /\ Old(e) = last
      BY <1>4, <2>3
    <3>2. c < last /\ c # e
      BY <1>1, <1>4, <2>1, <2>3
    <3> QED BY <3>1, <3>2
  <2>4. CASE c = last + 1 /\ e \in 1 .. Len(log)
    BY <1>1, <1>4, <2>1, <2>4
  <2>5. CASE c = last + 1 /\ e = last + 1
    <3> HIDE DEF Old
    <3> QED BY <1>4, <2>5
  <2> QED BY <1>4, <2>2, <2>3, <2>4, <2>5
<1> HIDE DEF Old
<1>8. \A e \in Groups(rec, more) : \A i \in DOMAIN Group(buffer, more, e) :
        Group(buffer, more, e)[i].n \in Segments(rec)
  BY <1>5 DEF InSequence
<1>9. ASSUME NEW n \in Segments(rec)
      PROVE  \E e \in Groups(rec, more) : \E i \in DOMAIN Group(buffer, more, e) :
                Group(buffer, more, e)[i].n = n
  <2>1. PICK e \in Groups(rec, log) : \E i \in DOMAIN Group(buffer, log, e) :
            Group(buffer, log, e)[i].n = n
    BY DEF InSequence
  <2>2. PICK x \in Groups(rec, more) : Old(x) = e
    BY <1>6
  <2> QED BY <1>5, <2>1, <2>2
<1>10. ASSUME NEW c \in Groups(rec, more), NEW e \in Groups(rec, more),
              NEW i \in DOMAIN Group(buffer, more, c), NEW j \in DOMAIN Group(buffer, more, e),
              c < e \/ (c = e /\ i < j)
       PROVE  Group(buffer, more, c)[i].n < Group(buffer, more, e)[j].n
  <2>1. Old(c) < Old(e) \/ (Old(c) = Old(e) /\ i < j)
    BY <1>7, <1>10
  <2> QED BY <1>5, <2>1 DEF InSequence
<1>11. InSequence(rec, buffer, more)
  BY <1>8, <1>9, <1>10 DEF InSequence
<1> QED BY <1>11 DEF more

\* The buffer becomes an entry.
LEMMA SequenceMerge ==
    ASSUME NEW rec, NEW buffer, NEW log \in Seq(Entry), InSequence(rec, buffer, log),
           NEW entry \in Entry, entry.pieces = buffer, IsSegment(rec[entry.n])
    PROVE  InSequence(rec, <<>>, Append(log, entry))
<1> DEFINE more == Append(log, entry)
           last == Len(log) + 1
<1>1. /\ more \in Seq(Entry) /\ Len(more) = last /\ more[last] = entry /\ Len(log) \in Nat
      /\ \A e \in 1 .. Len(log) : more[e] = log[e]
  OBVIOUS
<1>2. /\ \A e : e \in Groups(rec, log) <=>
            (e \in 1 .. Len(log) /\ IsSegment(rec[log[e].n])) \/ e = last
      /\ \A e \in 1 .. Len(log) : Group(buffer, log, e) = log[e].pieces
      /\ Group(buffer, log, last) = buffer
  BY PlacesOf, HeldAt
<1>3. /\ \A e : e \in Groups(rec, more) <=>
            (e \in 1 .. last /\ IsSegment(rec[more[e].n])) \/ e = last + 1
      /\ \A e \in 1 .. last : Group(<<>>, more, e) = more[e].pieces
      /\ Group(<<>>, more, last + 1) = <<>>
  <2> HIDE DEF more
  <2>1. \A e : e \in Groups(rec, more) <=>
            \/ e \in 1 .. Len(more) /\ IsSegment(rec[more[e].n])
            \/ e = Len(more) + 1
    BY <1>1, PlacesOf
  <2>2. /\ \A e \in 1 .. Len(more) : Group(<<>>, more, e) = more[e].pieces
        /\ Group(<<>>, more, Len(more) + 1) = <<>>
    BY <1>1, HeldAt
  <2> HIDE DEF last
  <2> QED BY <1>1, <2>1, <2>2
<1> HIDE DEF more
<1>4. /\ \A e : e \in 1 .. last <=> e \in 1 .. Len(log) \/ e = last
      /\ last \in Nat /\ last \in 1 .. last /\ DOMAIN <<>> = {}
  BY <1>1
<1> HIDE DEF last
<1>5. \A e \in Groups(rec, more) : e = last + 1 \/
        (e \in Groups(rec, log) /\ Group(<<>>, more, e) = Group(buffer, log, e))
  BY <1>1, <1>2, <1>3, <1>4
<1>6. \A e \in Groups(rec, log) :
        e \in Groups(rec, more) /\ Group(<<>>, more, e) = Group(buffer, log, e)
  BY <1>1, <1>2, <1>3, <1>4
<1>7. \A e \in Groups(rec, more) : \A i \in DOMAIN Group(<<>>, more, e) :
        e \in Groups(rec, log) /\ Group(<<>>, more, e) = Group(buffer, log, e)
  BY <1>3, <1>4, <1>5
<1>8. InSequence(rec, <<>>, more)
  BY <1>6, <1>7 DEF InSequence
<1> QED BY <1>8 DEF more

-----------------------------------------------------------------------------
\* What a datagram does to the sequence of its socket.
LEMMA ReceiveInSequence ==
    ASSUME UdpInv, NEW s \in Sockets, NEW d \in Datagram, Process(s, d), Receive(s, d),
           InSequence(received[s], chunk[s], shown[s])
    PROVE  InSequence(received'[s], chunk'[s], shown'[s])
<1> DEFINE rec == Append(received[s], d)
           n   == Len(received[s]) + 1
<1>1. /\ TypeOK
      /\ received[s] \in Seq(Datagram) /\ chunk[s] \in Seq(Piece)
      /\ shown[s] \in Seq(Entry) /\ SocketOK(received[s], chunk[s], shown[s])
  BY DEF UdpInv, TypeOK
<1>2. received'[s] = rec /\ ~ performance_mode
  BY <1>1 DEF Process, Arrive, TypeOK
<1>3. /\ n \in DOMAIN rec /\ rec[n] = d /\ n \in Nat
  BY <1>1
<1>4. d.word \in Words /\ d.len \in Nat /\ d.last \in BOOLEAN
  BY DatagramFields
<1>5. ASSUME IsSegment(d)
      PROVE  /\ Slice(s, d, HeaderLength(d.word)) \in Piece
             /\ Slice(s, d, HeaderLength(d.word)).n = n
  BY <1>1, <1>4, <1>5, ParsedInside, SliceOK DEF IsSegment
<1>6. ASSUME NEW pieces, Show(s, pieces)
      PROVE  shown'[s] = Append(shown[s], [n |-> n, pieces |-> pieces])
  BY <1>1, <1>6 DEF Show, Count, TypeOK
<1>7. CASE Ignore(s, d)
  <2>1. ~ IsSegment(d) /\ chunk' = chunk /\ shown' = shown
    BY <1>7 DEF Ignore, IsSegment
  <2> QED BY <1>1, <1>2, <2>1, SequencePlain
<1>8. ASSUME NEW piece \in Piece, piece.n = n, IsSegment(d)
      PROVE  InSequence(rec, Append(chunk[s], piece), shown[s])
  BY <1>1, <1>8, SequenceKeep
<1>9. CASE KeepSegment(s, d)
  <2> DEFINE piece == Slice(s, d, HeaderLength(d.word))
  <2>1. /\ IsSegment(d)
        /\ chunk'[s] = Append(chunk[s], piece)
        /\ shown'[s] = shown[s]
    BY <1>1, <1>9 DEF KeepSegment, TypeOK
  <2>2. piece \in Piece /\ piece.n = n
    BY <1>5, <2>1
  <2> HIDE DEF piece
  <2> QED BY <1>2, <1>8, <2>1, <2>2
<1>10. CASE LastSegment(s, d)
  <2> DEFINE piece  == Slice(s, d, HeaderLength(d.word))
             pieces == Append(chunk[s], piece)
             entry  == [n |-> n, pieces |-> pieces]
  <2>1. /\ IsSegment(d)
        /\ chunk'[s] = <<>>
        /\ Show(s, pieces)
    BY <1>1, <1>10 DEF LastSegment, TypeOK
  <2>2. piece \in Piece /\ piece.n = n
    BY <1>5, <2>1
  <2>3. pieces \in Seq(Piece)
    BY <1>1, <2>2
  <2>4. entry \in Entry /\ entry.n = n /\ entry.pieces = pieces
    <3> HIDE DEF pieces
    <3> QED BY <1>3, <2>3 DEF Entry
  <2>5. InSequence(rec, pieces, shown[s])
    <3> HIDE DEF piece
    <3> QED BY <1>8, <2>1, <2>2
  <2>6. shown'[s] = Append(shown[s], entry)
    <3> HIDE DEF pieces
    <3> QED BY <1>6, <2>1
  <2>7. IsSegment(rec[entry.n])
    <3> HIDE DEF entry, rec
    <3> QED BY <1>3, <2>1, <2>4
  <2> HIDE DEF entry, pieces, rec
  <2>8. InSequence(rec, <<>>, Append(shown[s], entry))
    BY <1>1, <2>4, <2>5, <2>7, SequenceMerge
  <2> QED BY <1>2, <2>1, <2>6, <2>8
<1>11. ASSUME NEW start \in Nat, start <= d.len, ~ IsSegment(d),
              Show(s, <<Slice(s, d, start)>>), chunk' = chunk
       PROVE  InSequence(received'[s], chunk'[s], shown'[s])
  <2> DEFINE piece == Slice(s, d, start)
             entry == [n |-> n, pieces |-> <<piece>>]
  <2>1. piece \in Piece
    BY <1>1, <1>11, SliceOK
  <2>2. entry \in Entry /\ entry.n = n
    <3> HIDE DEF piece
    <3> QED BY <1>3, <2>1 DEF Entry
  <2>3. shown'[s] = Append(shown[s], entry)
    BY <1>6, <1>11
  <2>4. InSequence(rec, chunk[s], shown[s])
    BY <1>1, <1>11, SequencePlain
  <2>5. ~ IsSegment(rec[entry.n])
    <3> HIDE DEF entry, rec
    <3> QED BY <1>3, <1>11, <2>2
  <2> HIDE DEF entry, rec
  <2>6. InSequence(rec, chunk[s], Append(shown[s], entry))
    BY <1>1, <2>2, <2>4, <2>5, SequenceEntry
  <2> QED BY <1>2, <1>11, <2>3, <2>6
<1>12. CASE ShowPlain(s, d)
  <2>1. /\ HeaderLength(d.word) \in Nat /\ HeaderLength(d.word) <= d.len
        /\ ~ IsSegment(d)
    BY <1>4, <1>12, ParsedInside DEF ShowPlain, IsSegment
  <2> QED BY <1>11, <1>12, <2>1 DEF ShowPlain
<1>13. CASE ShowFallback(s, d)
  <2>1. MinSize \in Nat /\ MinSize <= d.len /\ ~ IsSegment(d)
    BY <1>4, <1>13 DEF ShowFallback, IsSegment, MinSize
  <2> QED BY <1>11, <1>13, <2>1 DEF ShowFallback
<1>14. ~ CountOnly(s, d)
  BY <1>2 DEF CountOnly
<1> QED BY <1>7, <1>9, <1>10, <1>12, <1>13, <1>14 DEF Receive

LEMMA NextSegmentsInOrder ==
    UdpInv /\ SegmentsInOrder /\ [Next]_vars => SegmentsInOrder'
<1> SUFFICES ASSUME UdpInv, SegmentsInOrder, [Next]_vars,
                    NEW o \in Sockets, running'[o], ~ performance_mode'
             PROVE  InSequence(received'[o], chunk'[o], shown'[o])
  BY DEF SegmentsInOrder
<1>1. CASE UNCHANGED vars
  BY <1>1 DEF vars, SegmentsInOrder
<1>2. ASSUME NEW s \in Sockets, Stop(s)
      PROVE  InSequence(received'[o], chunk'[o], shown'[o])
  <2>1. /\ o # s /\ running[o] /\ ~ performance_mode
        /\ received'[o] = received[o] /\ chunk'[o] = chunk[o] /\ shown'[o] = shown[o]
    BY <1>2 DEF Stop, UdpInv, TypeOK
  <2> QED BY <2>1 DEF SegmentsInOrder
<1>3. ASSUME NEW s \in Sockets, NEW d \in Datagram, Receive(s, d)
      PROVE  InSequence(received'[o], chunk'[o], shown'[o])
  <2>1. Arrive(s, d)
    BY <1>3 DEF Receive, CountOnly, KeepSegment, LastSegment, ShowPlain, ShowFallback,
                Ignore, Process
  <2>2. running[o] /\ ~ performance_mode
    BY <2>1 DEF Arrive
  <2>3. InSequence(received[o], chunk[o], shown[o])
    BY <2>2 DEF SegmentsInOrder
  <2>4. CASE o = s
    BY <1>3, <2>1, <2>2, <2>3, <2>4, ReceiveInSequence DEF Process
  <2>5. CASE o # s
    <3>1. received'[o] = received[o]
      BY <2>1, <2>5 DEF Arrive, UdpInv, TypeOK
    <3>2. chunk'[o] = chunk[o] /\ shown'[o] = shown[o]
      BY <1>3, <2>5 DEF Receive, CountOnly, KeepSegment, LastSegment, ShowPlain,
                        ShowFallback, Ignore, Show, UdpInv, TypeOK
    <3> QED BY <2>3, <3>1, <3>2
  <2> QED BY <2>4, <2>5
<1> QED BY <1>1, <1>2, <1>3 DEF Next

\* Every segment a socket receives is used once, in the order of arrival, in
\* a merged message or in the buffer: nothing that arrives between segments
\* makes process_udp_packet drop, repeat or reorder one, while the task runs.
THEOREM SegmentsStayInOrder == Spec => []SegmentsInOrder
<1>1. Init => SegmentsInOrder
  BY DEF Init, SegmentsInOrder, InSequence, Groups, Group, Segments
<1> QED BY <1>1, UdpInvariant, NextSegmentsInOrder, PTL DEF Spec
=============================================================================
