------------------------------ MODULE MCFcache ------------------------------
(***************************************************************************)
(* Instance of Fcache for TLC.                                             *)
(***************************************************************************)
EXTENDS Fcache, TLC

Interchangeable == Permutations(Node) \cup Permutations(Value)
=============================================================================
