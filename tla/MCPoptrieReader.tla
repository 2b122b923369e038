---------------------------- MODULE MCPoptrieReader ----------------------------
(***************************************************************************)
(* Model-checking wrapper for PoptrieReader, with the handle symmetry of   *)
(* MCPoptrie.                                                              *)
(***************************************************************************)
EXTENDS PoptrieReader, TLC

ReaderHandleSymmetry == Permutations(Handles)

=============================================================================
