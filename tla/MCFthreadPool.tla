--------------------------- MODULE MCFthreadPool ---------------------------
(***************************************************************************)
(* Instance of FthreadPool for TLC: pools of one to three workers with     *)
(* queues of two messages, six calls of fthpool_post_task.                 *)
(***************************************************************************)
EXTENDS FthreadPool
=============================================================================
