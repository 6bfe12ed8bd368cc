---------------------------- MODULE MCGpbService ----------------------------
(***************************************************************************)
(* A small instance of GpbService for TLC: a device that follows a plan, a *)
(* client that sends anything, and three files, of which one is found only *)
(* as an import of another.                                                *)
(***************************************************************************)
EXTENDS GpbService

CONSTANTS c1, c2

MCClients == {c1, c2}
MCDevices == {c1}
MCModes == BOOLEAN

\* An i32 has 3 bits.  Lengths reach Half, where they count as negative.
MCTotals == {-1, 0, 2, 3}
MCSizes == {1, 3}

\* In two chunks, whole, in one chunk, in two chunks, whole.
MCPlan == <<<<1, 1>>, <<>>, <<3>>, <<1, 1>>, <<>>>>
MCBodies == (0 .. 5) \X (1 .. 2)
MCWild == [total : {-1, 0, 3}, size : MCSizes, body : {<<0, 1>>}]

MCFiles == {"platform", "chip", "insuitoam"}
MCListed == {"platform", "insuitoam"}
MCImports == [platform |-> {"chip"}, chip |-> {}, insuitoam |-> {}]
MCTopLevel == [platform |-> {"components"}, chip |-> {"chip_set"},
               insuitoam |-> {"FlowInfo", "MeasureReport"}]
MCDashed == [s \in {"components", "chip-set", "InSuitOam", "MeasureReport"} |->
                IF s = "chip-set" THEN "chip_set" ELSE s]
MCDirectories == {{"platform", "insuitoam"}, {"insuitoam"}}

Gpb(type, path, rows) ==
    [encoding |-> "gpb", valid |-> TRUE, type |-> type, path |-> path, rows |-> rows]

MCContent ==
    <<Gpb(<<"insuitoam", "MeasureReport">>, <<"InSuitOam", "MeasureReport">>, <<TRUE>>),
      [encoding |-> "json", valid |-> FALSE, path |-> <<"components">>, rows |-> <<>>],
      Gpb(<<"chip", "chip_set">>, <<"chip-set">>, <<FALSE, TRUE>>),
      Gpb(<<"platform", "components">>, <<"components", "MeasureReport">>, <<TRUE, TRUE>>),
      [encoding |-> "none"]>>

=============================================================================
