----------------------------- MODULE MCFmbufSpsc -----------------------------
(***************************************************************************)
(* Instance of FmbufSpsc for TLC.                                          *)
(***************************************************************************)
EXTENDS FmbufSpsc
=============================================================================
