------------------------------- MODULE MCFlog -------------------------------
(***************************************************************************)
(* Instances of Flog for TLC.  Threads and files are interchangeable in    *)
(* the runs that check invariants only.                                    *)
(***************************************************************************)
EXTENDS Flog, TLC

Interchangeable == Permutations(User) \cup Permutations(File)
=============================================================================
