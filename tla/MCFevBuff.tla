----------------------------- MODULE MCFevBuff -----------------------------
(* Instances of FevBuff: buffers of two bytes, requests of up to four.     *)
EXTENDS FevBuff
=============================================================================
