------------------------------ MODULE MCSearch ------------------------------
(***************************************************************************)
(* Search on a small array, with code points on both sides of each length  *)
(* boundary, and its refinement of SearchText.                             *)
(***************************************************************************)
EXTENDS SearchRefinement

(* The first and the last code point of each encoded length. *)
MCCodepoint == {1, 127, 128, 2047, 2048, 65535, 65536, 1114111}
=============================================================================
