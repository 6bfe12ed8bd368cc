--------------------------- MODULE MCUdpListener ----------------------------
(***************************************************************************)
(* Small instances of UdpListener for TLC.                                 *)
(***************************************************************************)
EXTENDS UdpListener

CONSTANTS v4, v6

MCSockets == {v4, v6}
MCModes == BOOLEAN

\* The code reads these as: length 0, so no header; 12, so no option; 16, so
\* an option.  The first is what the layout documented in the source calls
\* version 1, ET 0, header length 12.
MCFirstWords == {16 * 256 + 12, 16 * 256 + 192, 17 * 256}

\* No longer than a header without option; a header, its option and a payload.
MCLengths == {12, 20}

MCSymmetry == Permutations(MCSockets)

=============================================================================
