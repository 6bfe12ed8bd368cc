----------------------------- MODULE UdpHeader ------------------------------
(***************************************************************************)
(* The UDP header as the code reads it (src/src-tauri/src/udp_header.rs,   *)
(* parse_udp_header), and as its documentation lays it out.  A datagram is *)
(* its first 16-bit word, its length in bytes and the last-segment bit     *)
(* that its bytes 14 and 15 hold; no other field steers the code.          *)
(***************************************************************************)
EXTENDS Integers

Words == 0 .. 65535

MinSize == 12          \* UDP_HEADER_MIN_SIZE
WithOptionSize == 16   \* UDP_HEADER_WITH_OPTION_SIZE

\* (first_word & 0x0FF0) >> 4
HeaderLength(word) == (word \div 16) % 256

\* The layout in the doc comment of parse_udp_header: version in bits 0-3,
\* ET in bits 4-7, header length in bits 8-15, bit 0 being the highest.
DocumentedLength(word) == word % 256

\* Mutant of ParsesOK: the datagram may end inside its header.
ParsesOKUnchecked(word, len) == len >= MinSize /\ HeaderLength(word) >= MinSize

\* parse_udp_header returns Ok: neither of its early returns is taken.
ParsesOK(word, len) ==
    /\ len >= MinSize
    /\ HeaderLength(word) >= MinSize
    /\ len >= HeaderLength(word)
    /\ HeaderLength(word) > MinSize => len >= WithOptionSize

HasOption(word) == HeaderLength(word) > MinSize

\* Mutant of PayloadSize: every header is taken to have an option.
PayloadSizeFixed(len, start) == len - WithOptionSize

\* extract_payload: where the payload starts and how long it is.
PayloadSize(len, start) == IF start < len THEN len - start ELSE 0

=============================================================================
