----------------------------- MODULE MCAlgorithms -----------------------------
(***************************************************************************)
(* Bytes with each bit set and clear, and temperatures around 0 degrees,   *)
(* of which the highest sets a bit of either byte.                         *)
(***************************************************************************)
EXTENDS Algorithms

MCBytes == {0, 1, 128, 165, 255}
MCRaws == -24 .. 24 \cup {271, 2000}
=============================================================================
