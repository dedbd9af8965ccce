----------------------------- MODULE MCSha256Stream ----------------------------
(***************************************************************************)
(* Sha256Stream with blocks of eight bytes, a length of two, and pieces of *)
(* any length that fits into a message of up to two blocks and a byte:     *)
(* every way to end before, at and behind the edge of a block, and before, *)
(* at and behind the last place that leaves room for the length.           *)
(***************************************************************************)
EXTENDS Sha256Stream

MCPieces == 0 .. 17
=============================================================================
