---------------------------- MODULE MCGuiSession ----------------------------
(***************************************************************************)
(* A small instance of GuiSession for TLC: two starts and one stop, two of *)
(* which may be pending at one time.                                       *)
(***************************************************************************)
EXTENDS GuiSession

MCServers == 1 .. 2
MCCommands == 1 .. 3

\* The page passes one mode or all of them.
MCModeSets == {{"normal"}, {"udp"}}

=============================================================================
