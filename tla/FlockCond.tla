----------------------------- MODULE FlockCond -----------------------------
(***************************************************************************)
(* flock_cond_t of flock.c: a counter guarded by a mutex and a pthread     *)
(* condition.  A value is [count, asleep], where asleep holds the threads  *)
(* blocked in pthread_cond_wait that nothing has woken yet.                *)
(*                                                                         *)
(* Each operator is one critical section of _mutex.  A thread gives the    *)
(* mutex up inside flock_cond_wait only by falling asleep, and evaluates   *)
(* the loop condition again when it has been woken.                        *)
(***************************************************************************)
EXTENDS Naturals

flock_cond_init == [count |-> 0, asleep |-> {}]

\* flock_cond_wait: while _count is 0 the thread sleeps, then it takes one.
CanTake(c) == c.count # 0

Take(c) == [c EXCEPT !.count = @ - 1]

Sleep(c, t) == [c EXCEPT !.asleep = @ \cup {t}]

\* POSIX: pthread_cond_wait may return without a signal.
WakeUp(c, t) == [c EXCEPT !.asleep = @ \ {t}]

\* POSIX: pthread_cond_signal unblocks at least one sleeping thread if there is
\* one.  The set holds what may be left of the sleeping threads.
pthread_cond_signal(asleep) ==
  IF asleep = {} THEN {{}} ELSE (SUBSET asleep) \ {asleep}

\* (Mutant: the counter is taken for what the condition remembers.)
flock_cond_signal_NoCount(c) ==
  { [c EXCEPT !.asleep = a] : a \in pthread_cond_signal(c.asleep) }

\* (Mutant: the test is the wrong way round.)
flock_cond_signal_Negated(c) ==
  { [count |-> c.count + 1, asleep |-> a] :
      a \in IF c.count # 0 THEN pthread_cond_signal(c.asleep) ELSE {c.asleep} }

\* flock_cond_signal: the condition is signalled only when _count is 0.
flock_cond_signal(c) ==
  { [count |-> c.count + 1, asleep |-> a] :
      a \in IF c.count = 0 THEN pthread_cond_signal(c.asleep) ELSE {c.asleep} }
=============================================================================
