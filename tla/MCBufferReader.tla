--------------------------- MODULE MCBufferReader ---------------------------
(* Instances of BufferReader for TLC: one record is larger than a segment. *)
EXTENDS BufferReader
Mixed == [r \in Recs |-> <<1, 1, 6, 1>>[r]]
Flood == [r \in Recs |-> <<1, 1, 1, 1, 6>>[r]]
=============================================================================
