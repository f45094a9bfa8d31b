----------------------------- MODULE MCFevTmsvc -----------------------------
(* A second of two milliseconds of two nanoseconds: small enough for a     *)
(* timer to live across seconds, with every carry there is.                *)
EXTENDS FevTmsvc, TLC

Interchangeable == Permutations(Timer)
=============================================================================
