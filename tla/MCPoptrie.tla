------------------------------ MODULE MCPoptrie ------------------------------
(***************************************************************************)
(* Model-checking wrapper for Poptrie: the next-hop handles are only       *)
(* stored in FIB entries and compared, so any permutation of them maps     *)
(* behaviours to behaviours.                                               *)
(***************************************************************************)
EXTENDS Poptrie, TLC

HandleSymmetry == Permutations(Handles)

=============================================================================
