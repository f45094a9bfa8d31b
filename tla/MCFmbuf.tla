------------------------------- MODULE MCFmbuf -------------------------------
(***************************************************************************)
(* Instance of Fmbuf for TLC.                                              *)
(***************************************************************************)
EXTENDS Fmbuf
=============================================================================
