---------------------------- MODULE FthreadPool ----------------------------
(***************************************************************************)
(* fthread_pool.c: one thread posts tasks round robin into the queues of   *)
(* the workers; a worker sleeps on its own flock_cond_t and empties its    *)
(* queue when it is woken.                                                 *)
(*                                                                         *)
(* A queue is an fmbuf shared without a lock by the poster and one worker. *)
(* Messages have one size and FmbufSpsc shows that such a buffer hands     *)
(* bytes over in order, each push at once, so a queue is a bounded         *)
(* sequence of messages here.  The steps another thread can come in        *)
(* between are the push and the signal of fthpool_post_task, and the wait, *)
(* each pop and each task of base_work.                                    *)
(*                                                                         *)
(* fthpool_post_task and fthpool_add_thread are called by one thread: the  *)
(* statics curr_post, curr_num and th_id are not guarded.  The caller adds *)
(* as many threads as it announced before it posts: the code indexes       *)
(* pth_pool with max_num and not with curr_num.                            *)
(***************************************************************************)
EXTENDS FlockCond, Sequences

CONSTANTS MaxThreads,   \* bound on the argument of fthpool_init
          MaxQueue,     \* messages a queue holds: TH_QUEUE_BUF_SIZE / sizeof
          MaxTasks,     \* bound: calls of fthpool_post_task
          MaxFails      \* bound: calls of pthread_create that fail

ASSUME PoolAssumption == /\ MaxThreads \in Nat \ {0}
                         /\ MaxQueue \in Nat \ {0}
                         /\ MaxTasks \in Nat
                         /\ MaxFails \in Nat

VARIABLES max_num, curr_num, curr_post, th_id,   \* the statics
          cond, queue,      \* thread_data of each worker, by index in pth_pool
          wpc, msg,         \* worker: where it is, and the message it popped
          ppc,              \* poster: "idle" or "signal"
          calls,            \* calls of fthpool_post_task; call i posts task i
          given, ran        \* history: the tasks put into a queue, and run

vars == <<max_num, curr_num, curr_post, th_id, cond, queue, wpc, msg, ppc,
          calls, given, ran>>
statics == <<max_num, curr_num, curr_post, th_id>>
history == <<calls, given, ran>>

Slot == 0..(MaxThreads - 1)       \* indexes of pth_pool
Task == 1..MaxTasks
Added == 0..(curr_num - 1)        \* the workers that exist

Init == /\ max_num = 0 /\ curr_num = 0 /\ curr_post = 0 /\ th_id = 0
        /\ cond = [w \in Slot |-> flock_cond_init]
        /\ queue = [w \in Slot |-> <<>>]
        /\ wpc = [w \in Slot |-> "none"]
        /\ msg = [w \in Slot |-> 0]
        /\ ppc = "idle"
        /\ calls = 0
        /\ given = [w \in Slot |-> <<>>]
        /\ ran = [w \in Slot |-> <<>>]

-----------------------------------------------------------------------------
(* The owner of the pool.                                                  *)

\* A second call returns at once (g_th_pool is set), and so does one with 0.
fthpool_init(num) ==
  /\ max_num = 0 /\ num > 0
  /\ max_num' = num
  /\ UNCHANGED <<curr_num, curr_post, th_id, cond, queue, wpc, msg, ppc>>
  /\ UNCHANGED history

fthpool_add_thread ==
  /\ curr_num < max_num
  /\ wpc' = [wpc EXCEPT ![curr_num] = "wait"]
  /\ curr_num' = curr_num + 1
  /\ th_id' = th_id + 1
  /\ UNCHANGED <<max_num, curr_post, cond, queue, msg, ppc>>
  /\ UNCHANGED history

\* pthread_create fails: the id has been used, nothing else is kept.
AddThreadFails ==
  /\ curr_num < max_num /\ th_id - curr_num < MaxFails
  /\ th_id' = th_id + 1
  /\ UNCHANGED <<max_num, curr_num, curr_post, cond, queue, wpc, msg, ppc>>
  /\ UNCHANGED history

\* The worker a call of fthpool_post_task turns to.
NextPost == IF curr_post + 1 < max_num THEN curr_post + 1 ELSE 0

\* (Mutant: fmbuf_push is not asked whether there is room.)
Full_Never(w) == FALSE

Full(w) == Len(queue[w]) >= MaxQueue

PostPush ==
  /\ ppc = "idle" /\ calls < MaxTasks
  /\ max_num > 0 /\ curr_num = max_num
  /\ ~Full(NextPost)
  /\ curr_post' = NextPost
  /\ calls' = calls + 1
  /\ queue' = [queue EXCEPT ![NextPost] = Append(@, calls + 1)]
  /\ given' = [given EXCEPT ![NextPost] = Append(@, calls + 1)]
  /\ ppc' = "signal"
  /\ UNCHANGED <<max_num, curr_num, th_id, cond, wpc, msg, ran>>

\* The call returns 1: the queue is full.  curr_post has moved on all the same.
PostFull ==
  /\ ppc = "idle" /\ calls < MaxTasks
  /\ max_num > 0 /\ curr_num = max_num
  /\ Full(NextPost)
  /\ curr_post' = NextPost
  /\ calls' = calls + 1
  /\ UNCHANGED <<max_num, curr_num, th_id, cond, queue, wpc, msg, ppc, given, ran>>

PostSignal ==
  /\ ppc = "signal"
  /\ \E c \in flock_cond_signal(cond[curr_post]) :
       cond' = [cond EXCEPT ![curr_post] = c]
  /\ ppc' = "idle"
  /\ UNCHANGED statics /\ UNCHANGED <<queue, wpc, msg>> /\ UNCHANGED history

-----------------------------------------------------------------------------
(* base_work of worker w.  No message with ev = TH_RELEASE is ever pushed. *)

\* The worker holds cond._mutex: it has called flock_cond_wait, or has been
\* woken inside it.
InWait(w) == wpc[w] = "wait" /\ w \notin cond[w].asleep

WaitReturns(w) ==
  /\ InWait(w) /\ CanTake(cond[w])
  /\ cond' = [cond EXCEPT ![w] = Take(@)]
  /\ wpc' = [wpc EXCEPT ![w] = "pop"]
  /\ UNCHANGED statics /\ UNCHANGED <<queue, msg, ppc>> /\ UNCHANGED history

WaitSleeps(w) ==
  /\ InWait(w) /\ ~CanTake(cond[w])
  /\ cond' = [cond EXCEPT ![w] = Sleep(@, w)]
  /\ UNCHANGED statics /\ UNCHANGED <<queue, wpc, msg, ppc>> /\ UNCHANGED history

SpuriousWakeUp(w) ==
  /\ w \in cond[w].asleep
  /\ cond' = [cond EXCEPT ![w] = WakeUp(@, w)]
  /\ UNCHANGED statics /\ UNCHANGED <<queue, wpc, msg, ppc>> /\ UNCHANGED history

\* (Mutant: the message stays in the queue.)
PopTask_Keeps(w) ==
  /\ wpc[w] = "pop" /\ queue[w] # <<>>
  /\ msg' = [msg EXCEPT ![w] = Head(queue[w])]
  /\ wpc' = [wpc EXCEPT ![w] = "run"]
  /\ UNCHANGED queue
  /\ UNCHANGED statics /\ UNCHANGED <<cond, ppc>> /\ UNCHANGED history

PopTask(w) ==
  /\ wpc[w] = "pop" /\ queue[w] # <<>>
  /\ msg' = [msg EXCEPT ![w] = Head(queue[w])]
  /\ queue' = [queue EXCEPT ![w] = Tail(@)]
  /\ wpc' = [wpc EXCEPT ![w] = "run"]
  /\ UNCHANGED statics /\ UNCHANGED <<cond, ppc>> /\ UNCHANGED history

PopNothing(w) ==
  /\ wpc[w] = "pop" /\ queue[w] = <<>>
  /\ wpc' = [wpc EXCEPT ![w] = "wait"]
  /\ UNCHANGED statics /\ UNCHANGED <<cond, queue, msg, ppc>> /\ UNCHANGED history

RunTask(w) ==
  /\ wpc[w] = "run"
  /\ ran' = [ran EXCEPT ![w] = Append(@, msg[w])]
  /\ wpc' = [wpc EXCEPT ![w] = "pop"]
  /\ UNCHANGED statics /\ UNCHANGED <<cond, queue, msg, ppc, calls, given>>

base_work(w) == \/ WaitReturns(w) \/ WaitSleeps(w)
                \/ PopTask(w) \/ PopNothing(w) \/ RunTask(w)

-----------------------------------------------------------------------------
Next == \/ \E num \in 1..MaxThreads : fthpool_init(num)
        \/ fthpool_add_thread \/ AddThreadFails
        \/ PostPush \/ PostFull \/ PostSignal
        \/ \E w \in Slot : base_work(w) \/ SpuriousWakeUp(w)

Spec == Init /\ [][Next]_vars

\* The operating system runs every worker that can run, tasks return, and a
\* poster that has pushed goes on to signal.  Nothing makes the owner post, and
\* no spurious wakeup is counted on.
Fairness == /\ WF_vars(PostSignal)
            /\ \A w \in Slot : WF_vars(base_work(w))

FairSpec == Spec /\ Fairness

-----------------------------------------------------------------------------
(* Properties.                                                             *)

CondType == [count : Nat, asleep : SUBSET Slot]

\* Type invariant: every index into pth_pool is one of an added thread when it is
\* used, no queue exceeds its buffer.
TypeOK ==
  /\ max_num \in 0..MaxThreads /\ curr_num \in 0..max_num
  /\ curr_post \in Slot /\ th_id \in Nat
  /\ cond \in [Slot -> CondType]
  /\ queue \in [Slot -> Seq(Nat)] /\ \A w \in Slot : Len(queue[w]) <= MaxQueue
  /\ wpc \in [Slot -> {"none", "wait", "pop", "run"}]
  /\ msg \in [Slot -> Nat]
  /\ ppc \in {"idle", "signal"} /\ (ppc = "signal" => curr_post \in Added)
  /\ calls \in 0..MaxTasks
  /\ given \in [Slot -> Seq(Nat)] /\ ran \in [Slot -> Seq(Nat)]

\* Every task fthpool_post_task put into a queue is run once, by the worker it
\* was put before and in the order of the posts: what a worker was given is what
\* it ran, the task it has popped, and its queue.
InHand(w) == IF wpc[w] = "run" THEN <<msg[w]>> ELSE <<>>

TasksInOrder == \A w \in Slot : given[w] = ran[w] \o InHand(w) \o queue[w]

\* A worker never sleeps on a task: when it is asleep in flock_cond_wait and its
\* queue holds something, the poster has pushed and is about to signal it.  The
\* push comes before the signal and the counter remembers signals nobody waited
\* for, so no interleaving of the two threads loses the wakeup.
Owed(w) == ppc = "signal" /\ curr_post = w

WakeOwed == \A w \in Slot : w \in cond[w].asleep /\ queue[w] # <<>> => Owed(w)

\* Every task that got into a queue is run in the end.
AllTasksRun == \A w \in Slot : \A k \in 1..MaxTasks :
                 Len(given[w]) >= k ~> Len(ran[w]) >= k
=============================================================================
