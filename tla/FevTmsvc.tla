------------------------------ MODULE FevTmsvc ------------------------------
(***************************************************************************)
(* The timer service: fev_timer_service.c with its single linked list of   *)
(* timers (fev_tmsvc_sl_mod.c), driven by a periodic timerfd               *)
(* (fev_timer.c) or by fev_tmsvc_process.                                  *)
(*                                                                         *)
(* A pass (_process) reads the clock once, takes the nodes off timer_list  *)
(* one by one, runs the callbacks of those that are due, puts what goes on *)
(* into backup_list and finally swaps the two lists.  A callback may add,  *)
(* delete and reset timers and may start a pass of its own: the passes in  *)
(* progress are a stack of frames.                                         *)
(*                                                                         *)
(* Time is counted in nanoseconds, of which NS_PER_MS make a millisecond;  *)
(* a start time is a timespec, and what the code computes with it is kept, *)
(* the tv_nsec that nobody normalises included.                            *)
(***************************************************************************)
EXTENDS Integers, Sequences, SequencesExt

CONSTANTS Timer,           \* the ftimer_nodes
          NoTimer,         \* a frame that runs no callback
          NS_PER_MS, MS_PER_SECOND,
          Delays, Intervals,   \* what timers are added with, in milliseconds
          MaxClock,        \* bound: when the model's time ends
          MaxDepth         \* bound: passes within passes

ASSUME FevTmsvcAssumption == /\ NoTimer \notin Timer
                             /\ NS_PER_MS \in Nat \ {0} /\ MS_PER_SECOND \in Nat \ {0}
                             /\ Delays \subseteq Nat /\ Intervals \subseteq Nat
                             /\ MaxClock \in Nat /\ MaxDepth \in Nat

VARIABLES
  clock,                    \* CLOCK_MONOTONIC
  node,                     \* the ftimer_nodes, Freed when not allocated
  timer_list, backup_list,
  stack,                    \* the passes in progress, the innermost last
  expired,                  \* the service's timerfd is readable
  alive                     \* the service exists

vars == <<clock, node, timer_list, backup_list, stack, expired, alive>>

NS_PER_SECOND == MS_PER_SECOND * NS_PER_MS

Timespec(ns) == [sec |-> ns \div NS_PER_SECOND, nsec |-> ns % NS_PER_SECOND]
Now == Timespec(clock)

\* The reference: the nanosecond a timespec stands for, normalised or not, and
\* when a timer is due.
Ns(ts) == ts.sec * NS_PER_SECOND + ts.nsec
Due(n) == Ns(n.start) + n.expiration * NS_PER_MS

\* A signed division in C truncates toward zero.
CDiv(a, b) == IF a >= 0 THEN a \div b ELSE -((-a) \div b)

TIMEMS(ts) == ts.sec * MS_PER_SECOND + ts.nsec \div NS_PER_MS

Freed == [start |-> Timespec(0), interval |-> 0, expiration |-> 0, valid |-> FALSE,
          live |-> FALSE]
Live == {t \in Timer : node[t].live}
Valid == {t \in Timer : node[t].valid}

\* The lists (fdlist.c) are sequences of nodes.
fdlist_create == <<>>
fdlist_push(list, t) == Append(list, t)
fdlist_pop(list) == Tail(list)

\* _init of the list module, and the service around it.
InitLists == timer_list = fdlist_create /\ backup_list = fdlist_create

Init == /\ clock = 0
        /\ node = [t \in Timer |-> Freed]
        /\ InitLists
        /\ stack = <<>> /\ expired = FALSE /\ alive = TRUE

-----------------------------------------------------------------------------
(* Operations on timers.                                                   *)

\* fev_tmsvc_timer_add with _add: at the tail of timer_list, during a pass too.
\* (Mutant: at the tail of the list of those that are done.)
Add_Backup(t, delay, interval) ==
  /\ node' = [node EXCEPT ![t] = [start |-> Now, interval |-> interval,
                                  expiration |-> delay, valid |-> TRUE, live |-> TRUE]]
  /\ backup_list' = fdlist_push(backup_list, t)
  /\ UNCHANGED timer_list

Add(t, delay, interval) ==
  /\ node' = [node EXCEPT ![t] = [start |-> Now, interval |-> interval,
                                  expiration |-> delay, valid |-> TRUE, live |-> TRUE]]
  /\ timer_list' = fdlist_push(timer_list, t)
  /\ UNCHANGED backup_list

\* History: what a pass still has to fire no longer includes t.
Settled(t) == [i \in DOMAIN stack |-> [stack[i] EXCEPT !.owes = @ \ {t}]]

\* fev_tmsvc_timer_del: the node stays where it is until a pass finds it.
Del(t) == /\ node' = [node EXCEPT ![t].valid = FALSE]
          /\ stack' = Settled(t)

fev_tmsvc_timer_add(t, delay, interval) ==
  /\ alive /\ ~node[t].live
  /\ Add(t, delay, interval)
  /\ UNCHANGED <<clock, stack, expired, alive>>

fev_tmsvc_timer_del(t) == /\ node[t].valid
                          /\ Del(t)
                          /\ UNCHANGED <<clock, timer_list, backup_list, expired, alive>>

\* fev_tmsvc_timer_reset, and resetn with another expiration.
fev_tmsvc_timer_resetn(t, expiration) ==
  /\ node[t].live
  /\ node' = [node EXCEPT ![t].start = Now, ![t].expiration = expiration]
  /\ stack' = Settled(t)
  /\ UNCHANGED <<clock, timer_list, backup_list, expired, alive>>

\* fev_tmsvc_top: the valid node of timer_list that is due first, by milliseconds,
\* the one nearer to the head of two.
DueMs(t) == TIMEMS(node[t].start) + node[t].expiration
fev_tmsvc_top ==
  LET I == {i \in DOMAIN timer_list : node[timer_list[i]].valid}
      D(i) == DueMs(timer_list[i])
  IN  IF I = {} THEN NoTimer
      ELSE timer_list[CHOOSE i \in I : \A j \in I : D(i) < D(j) \/ (D(i) = D(j) /\ i <= j)]

-----------------------------------------------------------------------------
(* A pass.                                                                 *)

\* fev_tmmod_timeout.
\* (Mutant: the nanoseconds are not looked at when the seconds differ.)
fev_tmmod_timeout_Coarse(n, now) ==
  LET diff_sec  == now.sec - n.start.sec
      diff_nsec == now.nsec - n.start.nsec
  IN  /\ diff_sec >= 0 /\ ~(diff_sec = 0 /\ diff_nsec < 0)
      /\ diff_sec * MS_PER_SECOND >= n.expiration

fev_tmmod_timeout(n, now) ==
  LET diff_sec  == now.sec - n.start.sec
      diff_nsec == now.nsec - n.start.nsec
      diff_ms   == diff_sec * MS_PER_SECOND + CDiv(diff_nsec, NS_PER_MS)
  IN  /\ diff_sec >= 0 /\ ~(diff_sec = 0 /\ diff_nsec < 0)
      /\ diff_ms >= n.expiration

Top == stack[Len(stack)]

\* _process_expired reads the clock.  owes: the timers that are due by then, in the
\* frame of the outermost pass (history).  lag: how long after it was due the running
\* callback was called (history).
Running == {stack[i].cur : i \in DOMAIN stack}
Begin(frames) ==
  stack' = Append(frames, [now |-> Now, cur |-> NoTimer, lag |-> 0,
                           owes |-> {t \in Valid : frames = <<>> /\ Due(node[t]) <= clock}])

\* timer_svc_callback, out of fev_on_timer.
OnTimer == /\ alive /\ stack = <<>> /\ expired
           /\ expired' = FALSE
           /\ Begin(stack)
           /\ UNCHANGED <<clock, node, timer_list, backup_list, alive>>

InApp == stack # <<>> => Top.cur # NoTimer

\* Called by the program, from a callback too.
fev_tmsvc_process == /\ alive /\ InApp /\ Len(stack) < MaxDepth
                     /\ Begin(stack)
                     /\ UNCHANGED <<clock, node, timer_list, backup_list, expired, alive>>

InPass == stack # <<>> /\ Top.cur = NoTimer

\* _destroy_timer.
Destroy(t) == node' = [node EXCEPT ![t] = Freed]

\* The loop of _process: the head of timer_list is released, called or kept.
PassStep ==
  LET t == Head(timer_list)
  IN  /\ InPass /\ timer_list # <<>>
      /\ timer_list' = fdlist_pop(timer_list)
      /\ \/ /\ ~node[t].valid
            /\ Destroy(t)
            /\ UNCHANGED <<stack, backup_list>>
         \/ /\ node[t].valid /\ fev_tmmod_timeout(node[t], Top.now)
            /\ stack' = [Settled(t) EXCEPT ![Len(stack)].cur = t,
                                           ![Len(stack)].lag = Ns(Top.now) - Due(node[t])]
            /\ UNCHANGED <<node, backup_list>>
         \/ /\ node[t].valid /\ ~fev_tmmod_timeout(node[t], Top.now)
            /\ backup_list' = fdlist_push(backup_list, t)
            /\ UNCHANGED <<node, stack>>
      /\ UNCHANGED <<clock, expired, alive>>

\* The callback returns: a timer with an interval starts over, as of when it should
\* have been called and by its interval; another one is released.
Rescheduled(n) ==
  [n EXCEPT !.expiration = n.interval,
            !.start = [sec  |-> @.sec + n.interval \div MS_PER_SECOND,
                       nsec |-> @.nsec + ((n.interval * NS_PER_MS) % NS_PER_SECOND)]]

CallbackReturns ==
  LET t == Top.cur
  IN  /\ stack # <<>> /\ t # NoTimer
      /\ stack' = [stack EXCEPT ![Len(stack)].cur = NoTimer, ![Len(stack)].lag = 0]
      /\ IF node[t].interval > 0
         THEN /\ node' = [node EXCEPT ![t] = Rescheduled(@)]
              /\ backup_list' = fdlist_push(backup_list, t)
         ELSE Destroy(t) /\ UNCHANGED backup_list
      /\ UNCHANGED <<clock, timer_list, expired, alive>>

\* timer_list is empty: the lists are swapped and the pass ends.
\* (Mutants: one list is assigned to both; the lists are not swapped.)
SwapLists_Both == timer_list' = backup_list /\ UNCHANGED backup_list

SwapLists_Not == UNCHANGED <<timer_list, backup_list>>

SwapLists == timer_list' = backup_list /\ backup_list' = timer_list

PassEnd == /\ InPass /\ timer_list = <<>>
           /\ SwapLists
           /\ stack' = Front(stack)
           /\ UNCHANGED <<clock, node, expired, alive>>

-----------------------------------------------------------------------------
\* _destroy of the list module: the nodes of both lists and the lists.
DestroyLists ==
  /\ node' = [t \in Timer |-> IF t \in ToSet(timer_list \o backup_list) THEN Freed ELSE node[t]]
  /\ timer_list' = <<>> /\ backup_list' = <<>>

\* The timerfd goes first.
fev_tmsvc_destroy == /\ alive /\ stack = <<>>
                     /\ alive' = FALSE /\ expired' = FALSE
                     /\ DestroyLists
                     /\ UNCHANGED <<clock, stack>>

\* External: time passes, and the timerfd expires with it.
Tick == /\ clock < MaxClock
        /\ clock' = clock + 1
        /\ expired' = alive
        /\ UNCHANGED <<node, timer_list, backup_list, stack, alive>>

App == /\ InApp
       /\ \E t \in Timer :
            \/ \E d \in Delays, i \in Intervals : fev_tmsvc_timer_add(t, d, i)
            \/ fev_tmsvc_timer_del(t)
            \/ \E e \in Delays : fev_tmsvc_timer_resetn(t, e)

Pass == OnTimer \/ PassStep \/ CallbackReturns \/ PassEnd

Next == App \/ fev_tmsvc_process \/ Pass \/ fev_tmsvc_destroy \/ Tick

Spec == Init /\ [][Next]_vars

-----------------------------------------------------------------------------
(* Properties.                                                             *)

\* Type invariant; only the innermost pass is not in a callback.
TypeOK ==
  /\ clock \in 0..MaxClock
  /\ \A t \in Timer : /\ node[t].start.sec \in Nat /\ node[t].start.nsec \in Nat
                      /\ node[t].interval \in Intervals \cup {0}
                      /\ node[t].expiration \in Delays \cup Intervals \cup {0}
                      /\ node[t].valid => node[t].live
  /\ timer_list \in Seq(Timer) /\ backup_list \in Seq(Timer)
  /\ Len(stack) <= MaxDepth
  /\ \A i \in DOMAIN stack : /\ stack[i].cur \in Timer \cup {NoTimer}
                             /\ stack[i].owes \subseteq Timer
                             /\ i < Len(stack) => stack[i].cur # NoTimer
  /\ expired \in BOOLEAN /\ alive \in BOOLEAN

\* Every node that is allocated is in exactly one place, one of the lists or a
\* callback, and a node that was released is nowhere: no timer gets lost, is
\* called twice or is freed under a pass, whatever callbacks do to the lists.
Queued == timer_list \o backup_list
Called == [i \in {j \in DOMAIN stack : stack[j].cur # NoTimer} |-> stack[i].cur]
OnePlace == /\ IsInjective(Queued) /\ IsInjective(Called)
            /\ ToSet(Queued) \cap Range(Called) = {}
            /\ ToSet(Queued) \cup Range(Called) = Live

\* No callback is called a whole millisecond before its timer is due, although the
\* start time of a periodic timer is not normalised.
NotEarly == \A i \in DOMAIN stack : stack[i].lag > -NS_PER_MS

\* A pass that is not inside another fires every timer that was due when the pass
\* read the clock, except those that were deleted or reset meanwhile: what callbacks
\* add, delete or process on their own hides no timer from the pass around them.
\* (A pass inside another does not: it does not see what the other one has put into
\* backup_list already.)
PassComplete == InPass /\ Len(stack) = 1 /\ timer_list = <<>> => Top.owes = {}

\* Between passes fev_tmsvc_top finds the timer that is due first, to the
\* millisecond, and finds one whenever there is one.
TopIsFirst ==
  stack = <<>> =>
     IF Valid = {} THEN fev_tmsvc_top = NoTimer
     ELSE /\ fev_tmsvc_top \in Valid
          /\ \A t \in Valid : Due(node[fev_tmsvc_top]) < Due(node[t]) + NS_PER_MS
=============================================================================
