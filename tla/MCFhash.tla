------------------------------- MODULE MCFhash -------------------------------
(***************************************************************************)
(* Instance of Fhash for TLC.  Three keys that share an index in a table   *)
(* of one, two of which share one in a table of two or three.              *)
(***************************************************************************)
EXTENDS Fhash, TLC

CONSTANTS k1, k2, k3

MCHash == k1 :> 0 @@ k2 :> 2 @@ k3 :> 3

Interchangeable == Permutations(Value) \cup Permutations(Iter)
=============================================================================
