---------------------------- MODULE ChunkRecords ----------------------------
(***************************************************************************)
(* The fragment assembler of the 2-layer dial-out service                  *)
(* (src/src-tauri/src/chunk.rs): the operators ChunkRecords::add is built  *)
(* from.  The module has no state of its own; Dialout gives every          *)
(* connection one list of records for each sensor path.                    *)
(*                                                                         *)
(* A fragment is identified by the ordinal number n of the message on its  *)
(* connection (client_count of dialout) together with the message itself.  *)
(***************************************************************************)
EXTENDS Integers, Sequences, SequencesExt

CONSTANTS
    NodeMod,     \* node_id and last_node_id are u64: arithmetic is modulo 2^64
    Paths,       \* the sensor paths devices report on
    Totals,      \* the values of total_fragments a device puts in a message
    Bodies,      \* the json_data a message carries
    NoChunk      \* the chunk_msg of a message that has none

ASSUME NodeModAssumption == NodeMod \in Nat /\ NodeMod > 1
ASSUME TotalsAssumption  == Totals \subseteq Nat

ASSUME NoChunkAssumption == NoChunk \notin [total : Totals, node : 0 .. NodeMod - 1]

Nodes == 0 .. NodeMod - 1

\* A DialoutMsg.  chunk_msg is absent or holds total_fragments and node_id;
\* total_size is stored by the code and never read again, so it is left out.
ChunkInfo == [total : Totals, node : Nodes]

Message == [path : Paths, chunk : ChunkInfo \cup {NoChunk}, body : Bodies]

Fragment == [n : Nat, msg : Message]

\* ChunkRecord: total_fragments, last_node_id, json_datas.
Record == [total : Totals, last : Nodes, parts : Seq(Fragment)]

\* ChunkRecord::new
NewRecord(f) == [total |-> f.msg.chunk.total, last |-> f.msg.chunk.node, parts |-> <<f>>]

NextNode(node) == (node + 1) % NodeMod

\* Mutants of Matches: a fragment that comes again, or skips one, is taken;
\* an addition that does not wrap.
MatchesNotBefore(r, node) == r.last <= node
MatchesUnwrapped(r, node) == r.last + 1 = node

\* ChunkRecord::matches.  The release build's u64 addition wraps.
Matches(r, node) == NextNode(r.last) = node

\* Mutant of Extend: last_node_id is counted up instead of stored.
ExtendCounting(r, f) == [r EXCEPT !.last = @ + 1, !.parts = Append(@, f)]

\* ChunkRecord::add
Extend(r, f) == [r EXCEPT !.last = f.msg.chunk.node, !.parts = Append(@, f)]

\* Mutant of IsComplete: one fragment too many is waited for.
IsCompleteLate(r) == r.total < Len(r.parts)

\* ChunkRecord::is_complete
IsComplete(r) == r.total = Len(r.parts)

\* record_list.iter().position(|r| r.matches(nid)) = Some(k), or None.
FirstMatch(list, node, k) ==
    /\ Matches(list[k], node)
    /\ \A j \in 1 .. k - 1 : ~ Matches(list[j], node)

NoMatch(list, node) == \A k \in 1 .. Len(list) : ~ Matches(list[k], node)

\* Mutants of RemoveRecord: the record is read and left where it is; the last
\* one takes its place (Vec::swap_remove).
KeepRecord(list, k) == list
SwapRemoveRecord(list, k) == Front([list EXCEPT ![k] = Last(list)])

\* Vec::remove, which keeps the order of the records that stay.
RemoveRecord(list, k) == RemoveAt(list, k)

=============================================================================
