------------------------------- MODULE MCFev -------------------------------
(* Descriptors 0, whose number a fresh firelist is full of, and 1, which   *)
(* has no read callback, like the socket of an asynchronous connect.       *)
EXTENDS Fev

MCHandlers == [fd \in FD |-> IF fd = 0 THEN {{"pread", "pwrite"}} ELSE {{"pwrite"}}]
=============================================================================
