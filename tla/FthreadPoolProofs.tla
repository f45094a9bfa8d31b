------------------------- MODULE FthreadPoolProofs -------------------------
(***************************************************************************)
(* Proofs about the pool of threads (FthreadPool, whose specification is   *)
(* Spec), for any number of workers, any queue length and any number of    *)
(* tasks, and about the buffer its queues are (FmbufSpsc, SSpec), for      *)
(* every size and every number of bytes: two threads that share an fmbuf   *)
(* without a lock neither lose nor overwrite a byte.                       *)
(***************************************************************************)
EXTENDS FthreadPool, FmbufSpsc, FmbufMathProofs, SequenceTheorems, TLAPS

USE DEF Slot

\* What is needed of a flock_cond_t: only the worker it belongs to ever sleeps on
\* it, it does so inside flock_cond_wait, and then the counter is 0.  This is
\* where one waiter per condition matters: a signal that finds the counter
\* positive wakes nobody.
SleepOK == \A w \in Slot : /\ cond[w].asleep \subseteq {w}
                           /\ w \in cond[w].asleep => wpc[w] = "wait" /\ cond[w].count = 0

\* A worker on its way to sleep has a signal left to take for what is queued.
Covered == \A w \in Slot : wpc[w] = "wait" /\ queue[w] # <<>>
                             => cond[w].count > 0 \/ Owed(w)

\* Threads that have not been added have nothing.
Untouched == \A w \in Slot : w >= curr_num => queue[w] = <<>> /\ wpc[w] = "none"

IInv == TypeOK /\ SleepOK /\ Covered /\ Untouched

\* A signal counts, and leaves nobody but sleepers asleep.
LEMMA SignalFacts ==
  ASSUME NEW S, NEW c \in [count : Nat, asleep : SUBSET S],
         NEW d \in flock_cond_signal(c)
  PROVE  /\ d \in [count : Nat, asleep : SUBSET S]
         /\ d.count = c.count + 1
         /\ d.asleep \subseteq c.asleep
<1>1. PICK a \in IF c.count = 0 THEN pthread_cond_signal(c.asleep) ELSE {c.asleep} :
        d = [count |-> c.count + 1, asleep |-> a]
  BY DEF flock_cond_signal
<1>2. a \subseteq c.asleep
  BY <1>1 DEF pthread_cond_signal
<1>3. d.count = c.count + 1 /\ d.asleep = a
  BY <1>1
<1>4. d \in [count : Nat, asleep : SUBSET S]
  BY <1>1, <1>2
<1> QED  BY <1>2, <1>3, <1>4

\* With the counter at 0 and one thread asleep, a signal wakes it.
LEMMA SignalWakes ==
  ASSUME NEW c, NEW w, c.asleep \subseteq {w}, c.count = 0,
         NEW d \in flock_cond_signal(c)
  PROVE  d.asleep = {}
<1>1. PICK a \in pthread_cond_signal(c.asleep) :
        d = [count |-> c.count + 1, asleep |-> a]
  BY DEF flock_cond_signal
<1>2. a \subseteq c.asleep /\ (c.asleep # {} => a # c.asleep)
  BY <1>1 DEF pthread_cond_signal
<1>3. d.asleep = a
  BY <1>1
<1> QED  BY <1>2, <1>3

\* The type invariant holds initially.
LEMMA TypeInit == Init => TypeOK
BY PoolAssumption DEF Init, TypeOK, CondType, flock_cond_init, Added

\* Every step keeps the type invariant.
LEMMA TypeStep == TypeOK /\ Untouched /\ [Next]_vars => TypeOK'
<1> SUFFICES ASSUME TypeOK, Untouched, [Next]_vars  PROVE TypeOK'
  OBVIOUS
<1> USE PoolAssumption
<1>1. CASE \E num \in 1..MaxThreads : fthpool_init(num)
  BY <1>1, SMTT(60) DEF TypeOK, fthpool_init, history, Added
<1>2. CASE fthpool_add_thread
  BY <1>2, SMTT(60) DEF TypeOK, fthpool_add_thread, history, Added
<1>3. CASE AddThreadFails
  BY <1>3 DEF TypeOK, AddThreadFails, history, Added
<1>4. CASE PostPush
  <2>1. NextPost \in Slot /\ NextPost \in Added /\ NextPost \in 0..(curr_num - 1)
    BY <1>4 DEF TypeOK, PostPush, NextPost, Added
  <2>2. queue' \in [Slot -> Seq(Nat)] /\ given' \in [Slot -> Seq(Nat)]
    BY <1>4, <2>1, SMTT(60) DEF TypeOK, PostPush
  <2>3. \A w \in Slot : Len(queue'[w]) <= MaxQueue
    BY <1>4, <2>1, SMTT(60) DEF TypeOK, PostPush, Full
  <2>4. UNCHANGED <<max_num, curr_num, th_id, cond, wpc, msg, ran>>
        /\ curr_post' = NextPost /\ ppc' = "signal" /\ calls' \in 0..MaxTasks
    BY <1>4 DEF PostPush, TypeOK
  <2> QED  BY <2>1, <2>2, <2>3, <2>4 DEF TypeOK, Added
<1>5. CASE PostFull
  BY <1>5 DEF TypeOK, PostFull, NextPost, Added
<1>6. CASE PostSignal
  <2>1. PICK c \in flock_cond_signal(cond[curr_post]) :
          cond' = [cond EXCEPT ![curr_post] = c]
    BY <1>6 DEF PostSignal
  <2>2. cond[curr_post] \in [count : Nat, asleep : SUBSET Slot]
    BY DEF TypeOK, CondType
  <2>3. c \in CondType
    BY ONLY <2>1, <2>2, SignalFacts, Zenon DEF CondType
  <2>4. cond' \in [Slot -> CondType]
    BY <2>1, <2>3 DEF TypeOK
  <2> QED  BY <1>6, <2>4 DEF TypeOK, PostSignal, statics, history, Added
<1>7. ASSUME NEW w \in Slot, base_work(w) \/ SpuriousWakeUp(w)  PROVE TypeOK'
  <2>0. cond[w] \in CondType /\ cond[w].count \in Nat
    BY DEF TypeOK, CondType
  <2>1. CASE WaitReturns(w)
    <3>1. Take(cond[w]) \in CondType
      BY <2>0, <2>1 DEF WaitReturns, CanTake, Take, CondType
    <3> QED  BY <2>1, <3>1 DEF TypeOK, WaitReturns, statics, history, Added
  <2>2. CASE WaitSleeps(w)
    <3>1. Sleep(cond[w], w) \in CondType
      BY <2>0 DEF Sleep, CondType
    <3> QED  BY <2>2, <3>1 DEF TypeOK, WaitSleeps, statics, history, Added
  <2>3. CASE SpuriousWakeUp(w)
    <3>1. WakeUp(cond[w], w) \in CondType
      BY <2>0 DEF WakeUp, CondType
    <3> QED  BY <2>3, <3>1 DEF TypeOK, SpuriousWakeUp, statics, history, Added
  <2>4. CASE PopTask(w)
    <3>1. Head(queue[w]) \in Nat /\ Tail(queue[w]) \in Seq(Nat)
          /\ Len(Tail(queue[w])) <= MaxQueue
      <4>1. queue[w] \in Seq(Nat) /\ queue[w] # <<>> /\ Len(queue[w]) <= MaxQueue
        BY <2>4 DEF TypeOK, PopTask
      <4> QED  BY ONLY <4>1, HeadTailProperties, LenProperties, PoolAssumption
    <3> QED  BY <2>4, <3>1 DEF TypeOK, PopTask, statics, history, Added
  <2>5. CASE PopNothing(w)
    BY <2>5 DEF TypeOK, PopNothing, statics, history, Added
  <2>6. CASE RunTask(w)
    BY <2>6, SMTT(60) DEF TypeOK, RunTask, statics, Added
  <2> QED  BY <1>7, <2>1, <2>2, <2>3, <2>4, <2>5, <2>6 DEF base_work
<1>8. CASE UNCHANGED vars
  BY <1>8 DEF TypeOK, vars, Added
<1> QED  BY <1>1, <1>2, <1>3, <1>4, <1>5, <1>6, <1>7, <1>8 DEF Next

\* The sleepers, the covered queues and the untouched slots: one step each.
LEMMA SleepStep == IInv /\ [Next]_vars => SleepOK'
<1> SUFFICES ASSUME IInv, [Next]_vars  PROVE SleepOK'
  OBVIOUS
<1> USE PoolAssumption
<1>0. TypeOK /\ SleepOK /\ cond \in [Slot -> CondType] /\ wpc \in [Slot -> {"none", "wait", "pop", "run"}]
  BY DEF IInv, TypeOK
<1>1. CASE fthpool_add_thread
  BY <1>0, <1>1, ZenonT(60) DEF SleepOK, fthpool_add_thread, IInv, Untouched, TypeOK
<1>2. CASE UNCHANGED <<cond, wpc>>
  BY <1>0, <1>2 DEF SleepOK
<1>3. CASE PostSignal
  <2>1. PICK c \in flock_cond_signal(cond[curr_post]) :
          cond' = [cond EXCEPT ![curr_post] = c]
    BY <1>3 DEF PostSignal
  <2>2. curr_post \in Slot /\ cond[curr_post] \in [count : Nat, asleep : SUBSET Slot]
    BY <1>0 DEF TypeOK, CondType
  <2>3. c.asleep \subseteq cond[curr_post].asleep
    BY ONLY <2>1, <2>2, SignalFacts, Zenon
  <2>4. ASSUME cond[curr_post].count = 0  PROVE c.asleep = {}
    <3>1. cond[curr_post].asleep \subseteq {curr_post}
      BY <1>0, <2>2 DEF SleepOK
    <3> QED  BY ONLY <2>1, <2>4, <3>1, SignalWakes, Zenon
  <2>5. ASSUME cond[curr_post].count # 0  PROVE c.asleep = {}
    <3>1. cond[curr_post].asleep = {}
      BY <1>0, <2>2, <2>5 DEF SleepOK
    <3> QED  BY <2>3, <3>1
  <2>6. c.asleep = {}
    BY <2>4, <2>5
  <2> QED  BY <1>0, <1>3, <2>1, <2>2, <2>6 DEF SleepOK, PostSignal
<1>4. ASSUME NEW w \in Slot, base_work(w) \/ SpuriousWakeUp(w)  PROVE SleepOK'
  <2>0. cond[w] \in CondType
    BY <1>0
  <2>1. CASE WaitReturns(w)
    BY <1>0, <2>0, <2>1 DEF SleepOK, WaitReturns, InWait, Take, CondType
  <2>2. CASE WaitSleeps(w)
    BY <1>0, <2>0, <2>2 DEF SleepOK, WaitSleeps, InWait, Sleep, CanTake, CondType
  <2>3. CASE SpuriousWakeUp(w)
    BY <1>0, <2>0, <2>3 DEF SleepOK, SpuriousWakeUp, WakeUp, CondType
  <2>4. CASE PopTask(w) \/ PopNothing(w) \/ RunTask(w)
    BY <1>0, <2>0, <2>4 DEF SleepOK, PopTask, PopNothing, RunTask
  <2> QED  BY <1>4, <2>1, <2>2, <2>3, <2>4 DEF base_work
<1> QED  BY <1>1, <1>2, <1>3, <1>4
         DEF Next, fthpool_init, AddThreadFails, PostPush, PostFull, vars

\* A queue gains a message only together with a signal that is owed, and a worker
\* goes back to wait only when its queue is empty.
LEMMA CoveredStep == IInv /\ [Next]_vars => Covered'
<1> SUFFICES ASSUME IInv, [Next]_vars  PROVE Covered'
  OBVIOUS
<1> USE PoolAssumption
<1>0. TypeOK /\ Covered /\ Untouched /\ cond \in [Slot -> CondType]
      /\ wpc \in [Slot -> {"none", "wait", "pop", "run"}] /\ curr_post \in Slot /\ curr_num \in Nat
  BY DEF IInv, TypeOK
<1>1. CASE fthpool_add_thread
  BY <1>0, <1>1 DEF Covered, fthpool_add_thread, Untouched, Owed
<1>2. CASE UNCHANGED <<cond, wpc, queue, ppc, curr_post>>
  BY <1>0, <1>2 DEF Covered, Owed
<1>3. CASE PostPush
  BY <1>0, <1>3 DEF Covered, PostPush, Owed, TypeOK
<1>4. CASE PostFull
  BY <1>0, <1>4 DEF Covered, PostFull, Owed
<1>5. CASE PostSignal
  <2>1. PICK c \in flock_cond_signal(cond[curr_post]) :
          cond' = [cond EXCEPT ![curr_post] = c]
    BY <1>5 DEF PostSignal
  <2>2. cond[curr_post] \in [count : Nat, asleep : SUBSET Slot]
    BY <1>0 DEF CondType
  <2>3. c.count > 0
    <3>1. c.count = cond[curr_post].count + 1
      BY ONLY <2>1, <2>2, SignalFacts, Zenon
    <3> QED  BY <2>2, <3>1
  <2> QED  BY <1>0, <1>5, <2>1, <2>3 DEF Covered, PostSignal, statics, Owed
<1>6. ASSUME NEW w \in Slot, base_work(w) \/ SpuriousWakeUp(w)  PROVE Covered'
  <2>0. cond[w] \in CondType
    BY <1>0
  <2>1. CASE WaitReturns(w)
    BY <1>0, <2>1 DEF Covered, WaitReturns, statics, Owed
  <2>2. CASE WaitSleeps(w)
    BY <1>0, <2>0, <2>2 DEF Covered, WaitSleeps, Sleep, CondType, statics, Owed
  <2>3. CASE SpuriousWakeUp(w)
    BY <1>0, <2>0, <2>3 DEF Covered, SpuriousWakeUp, WakeUp, CondType, statics, Owed
  <2>4. CASE PopTask(w)
    BY <1>0, <2>4 DEF Covered, PopTask, statics, Owed, TypeOK
  <2>5. CASE PopNothing(w)
    BY <1>0, <2>5 DEF Covered, PopNothing, statics, Owed
  <2>6. CASE RunTask(w)
    BY <1>0, <2>6 DEF Covered, RunTask, statics, Owed
  <2> QED  BY <1>6, <2>1, <2>2, <2>3, <2>4, <2>5, <2>6 DEF base_work
<1> QED  BY <1>1, <1>2, <1>3, <1>4, <1>5, <1>6
         DEF Next, fthpool_init, AddThreadFails, vars

\* Posting and working touch only threads that have been added.
LEMMA UntouchedStep == IInv /\ [Next]_vars => Untouched'
<1> SUFFICES ASSUME IInv, [Next]_vars  PROVE Untouched'
  OBVIOUS
<1> USE PoolAssumption
<1>0. TypeOK /\ Untouched /\ SleepOK /\ wpc \in [Slot -> {"none", "wait", "pop", "run"}]
      /\ curr_num \in Nat /\ max_num \in Nat /\ curr_post \in Slot
      /\ queue \in [Slot -> Seq(Nat)]
  BY DEF IInv, TypeOK
<1>1. CASE fthpool_add_thread
  BY <1>0, <1>1, SMTT(60) DEF Untouched, fthpool_add_thread
<1>2. CASE UNCHANGED <<queue, wpc, curr_num>>
  BY <1>0, <1>2 DEF Untouched
<1>3. CASE PostPush
  <2>1. NextPost < curr_num /\ NextPost \in Slot
    BY <1>0, <1>3 DEF PostPush, NextPost, TypeOK
  <2>2. \A w \in Slot : w >= curr_num => queue'[w] = queue[w]
    BY <1>0, <1>3, <2>1 DEF PostPush
  <2> QED  BY <1>0, <1>3, <2>2 DEF Untouched, PostPush
<1>4. ASSUME NEW w \in Slot, base_work(w)  PROVE Untouched'
  BY <1>0, <1>4, ZenonT(60) DEF Untouched, base_work, WaitReturns, WaitSleeps, InWait,
                    PopTask, PopNothing, RunTask, statics, TypeOK
<1> QED  BY <1>1, <1>2, <1>3, <1>4
         DEF Next, fthpool_init, AddThreadFails, PostFull, PostSignal,
             SpuriousWakeUp, statics, vars

\* The inductive invariant holds initially and is kept by every step.
LEMMA Induction == Spec => []IInv
<1>1. Init => IInv
  <2>1. Init => SleepOK /\ Covered /\ Untouched
    BY DEF Init, SleepOK, Covered, Untouched, flock_cond_init
  <2> QED  BY <2>1, TypeInit DEF IInv
<1>2. IInv /\ [Next]_vars => IInv'
  BY TypeStep, SleepStep, CoveredStep, UntouchedStep DEF IInv
<1> QED  BY <1>1, <1>2, PTL DEF Spec

\* FthreadPool keeps its types: fthpool_post_task never writes past a queue and
\* uses only slots of pth_pool that fthpool_add_thread has filled.
THEOREM TypeCorrect == Spec => []TypeOK
<1>1. IInv => TypeOK
  BY DEF IInv
<1> QED  BY <1>1, Induction, PTL

\* No interleaving of fthpool_post_task and base_work loses a wakeup, for any
\* number of workers.
THEOREM NoLostWakeup == Spec => []WakeOwed
<1>1. IInv => WakeOwed
  <2> SUFFICES ASSUME IInv, NEW w \in Slot, w \in cond[w].asleep, queue[w] # <<>>
               PROVE  Owed(w)
    BY DEF WakeOwed
  <2>1. wpc[w] = "wait" /\ cond[w].count = 0
    BY DEF IInv, SleepOK
  <2> QED  BY <2>1 DEF IInv, Covered
<1> QED  BY <1>1, Induction, PTL

-----------------------------------------------------------------------------
\* Appending to the last part appends to the whole.
LEMMA AppendLast ==
  ASSUME NEW r \in Seq(Nat), NEW h \in Seq(Nat), NEW q \in Seq(Nat), NEW e \in Nat
  PROVE  Append(r \o h \o q, e) = r \o h \o Append(q, e)
<1> DEFINE T == Nat
<1>0. r \in Seq(T) /\ h \in Seq(T) /\ q \in Seq(T) /\ e \in T
  OBVIOUS
<1> HIDE DEF T
<1>1. r \o h \in Seq(T) /\ <<e>> \in Seq(T) /\ r \o h \o q \in Seq(T)
  BY ONLY <1>0, ConcatProperties
<1>2. Append(r \o h \o q, e) = (r \o h \o q) \o <<e>>
  BY ONLY <1>0, <1>1, AppendIsConcat, Zenon
<1>3. (r \o h \o q) \o <<e>> = (r \o h) \o (q \o <<e>>)
  <2> DEFINE a == r \o h
             b == <<e>>
  <2>1. a \in Seq(T) /\ q \in Seq(T) /\ b \in Seq(T)
    BY ONLY <1>0, <1>1
  <2> HIDE DEF a, b
  <2>2. \A x, y, z \in Seq(T) : (x \o y) \o z = x \o (y \o z)
    BY ONLY ConcatAssociative, SMTT(60)
  <2>3. (a \o q) \o b = a \o (q \o b)
    BY ONLY <2>1, <2>2, Zenon
  <2> QED  BY ONLY <2>3 DEF a, b
<1>4. Append(q, e) = q \o <<e>>
  BY ONLY <1>0, AppendIsConcat, Zenon
<1> QED  BY ONLY <1>2, <1>3, <1>4, Zenon

\* A message on its way from the queue into the worker's hands.
LEMMA HeadMoves ==
  ASSUME NEW S, NEW r \in Seq(S), NEW q \in Seq(S), q # <<>>
  PROVE  r \o <<>> \o q = r \o <<Head(q)>> \o Tail(q)
<1>1. Head(q) \in S /\ Tail(q) \in Seq(S) /\ <<Head(q)>> \in Seq(S) /\ r \in Seq(S)
  BY HeadTailProperties
<1>2. <<Head(q)>> \o Tail(q) = q
  BY <1>1, HeadTailProperties, ConcatProperties
<1>3. r \o <<Head(q)>> \o Tail(q) = r \o (<<Head(q)>> \o Tail(q))
  BY ONLY <1>1, ConcatAssociative
<1>4. r \o <<>> = r
  BY ConcatEmptySeq
<1> QED  BY <1>2, <1>3, <1>4

\* Every step keeps what a worker was given equal to what it ran, has in hand and
\* has queued.
LEMMA OrderStep == IInv /\ TasksInOrder /\ [Next]_vars => TasksInOrder'
<1> SUFFICES ASSUME TypeOK, Untouched, TasksInOrder, [Next]_vars, NEW v \in Slot
             PROVE  given'[v] = ran'[v] \o InHand(v)' \o queue'[v]
  BY DEF TasksInOrder, IInv
<1>0. /\ given[v] = ran[v] \o InHand(v) \o queue[v]
      /\ ran[v] \in Seq(Nat) /\ queue[v] \in Seq(Nat) /\ InHand(v) \in Seq(Nat)
      /\ given[v] \in Seq(Nat)
  <2>1. given[v] = ran[v] \o InHand(v) \o queue[v]
    BY DEF TasksInOrder
  <2>2. msg[v] \in Nat /\ ran[v] \in Seq(Nat) /\ queue[v] \in Seq(Nat) /\ given[v] \in Seq(Nat)
    BY DEF TypeOK
  <2>3. InHand(v) \in Seq(Nat)
    BY <2>2 DEF InHand
  <2> QED  BY <2>1, <2>2, <2>3
<1>1. CASE UNCHANGED <<given[v], ran[v], wpc[v], msg[v], queue[v]>>
  BY <1>0, <1>1 DEF InHand
<1>2. CASE fthpool_add_thread
  <2>1. (wpc'[v] # "run" /\ wpc[v] # "run") \/ wpc'[v] = wpc[v]
    BY <1>2 DEF fthpool_add_thread, TypeOK, Untouched
  <2>2. UNCHANGED <<given, ran, queue, msg>>
    BY <1>2 DEF fthpool_add_thread, history
  <2> QED  BY <1>0, <2>1, <2>2 DEF InHand
<1>3. CASE PostPush
  <2>1. CASE v = NextPost
    <3> DEFINE t == calls + 1
    <3>1. /\ given'[v] = Append(given[v], t) /\ queue'[v] = Append(queue[v], t)
          /\ ran'[v] = ran[v] /\ InHand(v)' = InHand(v) /\ t \in Nat
      BY <1>3, <2>1 DEF PostPush, InHand, TypeOK
    <3> HIDE DEF t
    <3>2. Append(ran[v] \o InHand(v) \o queue[v], t)
            = ran[v] \o InHand(v) \o Append(queue[v], t)
      <4>1. ran[v] \in Seq(Nat) /\ InHand(v) \in Seq(Nat)
            /\ queue[v] \in Seq(Nat) /\ t \in Nat
        BY <1>0, <3>1
      <4> DEFINE r == ran[v]
                 h == InHand(v)
                 q == queue[v]
      <4>2. r \in Seq(Nat) /\ h \in Seq(Nat) /\ q \in Seq(Nat) /\ t \in Nat
        BY ONLY <4>1
      <4> HIDE DEF r, h, q
      <4>3. \A x, y, z \in Seq(Nat), n \in Nat :
              Append(x \o y \o z, n) = x \o y \o Append(z, n)
        BY ONLY AppendLast
      <4>4. Append(r \o h \o q, t) = r \o h \o Append(q, t)
        BY ONLY <4>2, <4>3, ZenonT(60)
      <4> QED  BY ONLY <4>4 DEF r, h, q
    <3> QED  BY ONLY <1>0, <3>1, <3>2, Zenon
  <2>2. CASE v # NextPost
    BY <1>0, <1>3, <2>2 DEF PostPush, InHand, TypeOK
  <2> QED  BY <2>1, <2>2
<1>4. CASE \E w \in Slot : base_work(w) \/ SpuriousWakeUp(w)
  <2>1. PICK w \in Slot : base_work(w) \/ SpuriousWakeUp(w)
    BY <1>4
  <2>2. CASE WaitReturns(w)
    BY <1>0, <2>2 DEF WaitReturns, InWait, history, InHand, TypeOK
  <2>3. CASE WaitSleeps(w) \/ SpuriousWakeUp(w)
    BY <1>0, <2>3 DEF WaitSleeps, SpuriousWakeUp, history, InHand
  <2>4. CASE PopTask(w)
    <3>1. CASE v = w
      <4>1. /\ given'[v] = given[v] /\ ran'[v] = ran[v] /\ queue[v] # <<>>
            /\ InHand(v) = <<>> /\ InHand(v)' = <<Head(queue[v])>>
            /\ queue'[v] = Tail(queue[v])
        BY <2>4, <3>1 DEF PopTask, history, InHand, TypeOK
      <4> QED  BY ONLY <1>0, <4>1, HeadMoves, ZenonT(60)
    <3>2. CASE v # w
      BY <1>0, <2>4, <3>2 DEF PopTask, history, InHand, TypeOK
    <3> QED  BY <3>1, <3>2
  <2>5. CASE PopNothing(w)
    BY <1>0, <2>5 DEF PopNothing, history, InHand, TypeOK
  <2>6. CASE RunTask(w)
    <3>1. CASE v = w
      <4>1. /\ given'[v] = given[v] /\ queue'[v] = queue[v]
            /\ ran'[v] = Append(ran[v], msg[v]) /\ msg[v] \in Nat
            /\ InHand(v) = <<msg[v]>> /\ InHand(v)' = <<>>
        BY <2>6, <3>1 DEF RunTask, InHand, TypeOK
      <4>2. ran'[v] = ran[v] \o <<msg[v]>> /\ ran'[v] \in Seq(Nat)
        <5>1. ran'[v] = ran[v] \o <<msg[v]>> BY ONLY <1>0, <4>1, AppendIsConcat
        <5>2. ran'[v] \in Seq(Nat) BY ONLY <1>0, <4>1, AppendProperties
        <5> QED  BY <5>1, <5>2
      <4>3. ran'[v] \o <<>> = ran'[v]
        BY ONLY <4>2, ConcatEmptySeq, Zenon
      <4> QED  BY ONLY <1>0, <4>1, <4>2, <4>3, Zenon
    <3>2. CASE v # w
      BY <1>0, <2>6, <3>2 DEF RunTask, InHand, TypeOK
    <3> QED  BY <3>1, <3>2
  <2> QED  BY <2>1, <2>2, <2>3, <2>4, <2>5, <2>6 DEF base_work
<1> QED  BY <1>1, <1>2, <1>3, <1>4
         DEF Next, fthpool_init, AddThreadFails, PostFull, PostSignal, history, vars

\* Every accepted task is run at most once, by the worker it was posted to and in
\* the order of the posts.
THEOREM RunsInOrder == Spec => []TasksInOrder
<1>1. Init => TasksInOrder
  BY ConcatEmptySeq DEF Init, TasksInOrder, InHand
<1> QED  BY <1>1, OrderStep, Induction, PTL DEF Spec

-----------------------------------------------------------------------------
(* Two threads and one buffer: the inductive invariant.                    *)

\* What the producer has copied and not published yet.
Copied == IF pushpc = "store" THEN pn ELSE 0

\* The bytes from the head on, published or only copied, are the next of the stream.
Ahead == \A i \in 1..(MBUF_USED(head, tail, Size) + Copied) :
            buf[Cell(head, i, Size)] = Popped + i

\* The room that a push has found is still there: only the producer takes it.
PushHasRoom == pushpc # "idle" => /\ pn \in 1..Size
                                  /\ pn <= MBUF_FREE(head, tail, Size)
                                  /\ sent + pn <= MaxSent

\* The bytes that a pop has found are still there: only the consumer takes them.
PopHasBytes == /\ poppc # "idle" => cn \in 1..Size /\ cn <= MBUF_USED(head, tail, Size)
               /\ poppc = "store" => cn <= Len(rcvd)

InOrder == \A i \in 1..Len(rcvd) : rcvd[i] = i

Balance == Popped + MBUF_USED(head, tail, Size) = sent

SIInv == STypeOK /\ Balance /\ Ahead /\ PushHasRoom /\ PopHasBytes /\ InOrder

-----------------------------------------------------------------------------
\* What the invariant says about the numbers involved.
LEMMA Facts ==
  ASSUME SIInv
  PROVE  /\ Size \in Nat /\ head \in 0..Size /\ tail \in 0..Size
         /\ MBUF_USED(head, tail, Size) \in 0..Size
         /\ MBUF_FREE(head, tail, Size) \in 0..Size
         /\ MBUF_USED(head, tail, Size) + MBUF_FREE(head, tail, Size) = Size
         /\ buf \in Memory(Size, 0..MaxSent) /\ MaxSent \in Nat
         /\ rcvd \in Seq(0..MaxSent) /\ Len(rcvd) \in Nat
         /\ sent \in 0..MaxSent /\ pn \in Nat /\ cn \in Nat
         /\ Popped \in Nat
<1>1. /\ Size \in Nat /\ head \in 0..Size /\ tail \in 0..Size
      /\ buf \in Memory(Size, 0..MaxSent) /\ MaxSent \in Nat
      /\ rcvd \in Seq(0..MaxSent)
      /\ sent \in 0..MaxSent /\ pn \in Nat /\ cn \in Nat
  BY SpscAssumption DEF SIInv, STypeOK, Memory
<1>2. Len(rcvd) \in Nat BY <1>1, LenProperties
<1>3. Popped \in Nat BY <1>1, <1>2 DEF SIInv, Popped, PopHasBytes
<1>. QED BY <1>1, <1>2, <1>3, UsedFree

\* The invariant implies what the runs check.
LEMMA SIInvImplies ==
  ASSUME SIInv
  PROVE  StreamIntact /\ UnreadKept
<1>. DEFINE u == MBUF_USED(head, tail, Size)
            r == ReadBytes(buf, head, u, Size)
            e == [i \in 1..u |-> Popped + i]
<1>1. /\ Size \in Nat /\ head \in 0..Size /\ u \in 0..Size /\ u \in Nat
      /\ buf \in Memory(Size, 0..MaxSent) /\ MaxSent \in Nat
      /\ Len(rcvd) \in Nat /\ sent \in 0..MaxSent /\ cn \in Nat /\ Popped \in Nat
  BY Facts
<1>2. Popped + u = sent BY DEF SIInv, Balance
<1>. HIDE DEF u
<1>3. StreamIntact
  <2>1. Len(rcvd) <= sent
    BY <1>1, <1>2 DEF SIInv, Popped, PopHasBytes, u
  <2>. QED BY <2>1 DEF StreamIntact, SIInv, InOrder
<1>4. r = e
  <2>1. r \in Block(u, 0..MaxSent) /\ \A i \in 1..u : r[i] = buf[Cell(head, i, Size)]
    BY <1>1, ReadIsSeq
  <2>2. \A i \in 1..u : Popped + i \in 0..MaxSent BY <1>1, <1>2
  <2>3. e \in Block(u, 0..MaxSent) BY <2>2 DEF Block
  <2>4. \A i \in 1..u : buf[Cell(head, i, Size)] = Popped + i
    <3>1. Copied \in Nat BY Facts DEF Copied
    <3>2. \A i \in 1..u : i \in 1..(u + Copied) BY <1>1, <3>1
    <3>. QED BY <3>2 DEF SIInv, Ahead, u
  <2>5. \A i \in 1..u : r[i] = e[i] BY <2>1, <2>4
  <2>. HIDE DEF r, e
  <2>. QED BY <1>1, <2>1, <2>3, <2>5, SameFunction
<1>. QED BY <1>2, <1>3, <1>4 DEF UnreadKept, u

-----------------------------------------------------------------------------
\* The empty buffer satisfies the invariant.
LEMMA SInitInv == SInit => SIInv
<1>. SUFFICES ASSUME SInit PROVE SIInv OBVIOUS
<1>1. rcvd = <<>> /\ Len(rcvd) = 0 /\ rcvd \in Seq(0..MaxSent) BY EmptySeq DEF SInit
<1>2. MBUF_USED(head, tail, Size) = 0 BY SpscAssumption DEF SInit, MBUF_USED
<1>3. STypeOK BY <1>1, SpscAssumption DEF SInit, STypeOK
<1>4. Balance BY <1>1, <1>2 DEF SInit, Balance, Popped
<1>5. Ahead BY <1>2 DEF SInit, Ahead, Copied
<1>6. PushHasRoom /\ PopHasBytes BY DEF SInit, PushHasRoom, PopHasBytes
<1>7. InOrder BY <1>1 DEF InOrder
<1>. QED BY <1>3, <1>4, <1>5, <1>6, <1>7 DEF SIInv

\* fmbuf_push looks for room; what it finds is what the invariant asks for.
LEMMA PushCallInv ==
  ASSUME SIInv, NEW n \in 1..Size, PushCall(n)
  PROVE  SIInv'
<1>1. n \in Nat /\ n \in 0..Size /\ Size \in Nat BY Facts
<1>2. /\ UNCHANGED <<head, tail, buf, sent, poppc, cn, rcvd>>
      /\ pn' = n /\ pushpc = "idle" /\ sent + n <= MaxSent
      /\ (pushpc' = "copy" /\ MBUF_FREE(head, tail, Size) >= n) \/ pushpc' = "idle"
  BY DEF PushCall, cvars, Room
<1>3. STypeOK' BY <1>1, <1>2 DEF SIInv, STypeOK
<1>4. Balance' BY <1>2 DEF SIInv, Balance, Popped
<1>5. Ahead' BY <1>2 DEF SIInv, Ahead, Popped, Copied
<1>6. PushHasRoom' BY <1>1, <1>2, Facts DEF PushHasRoom
<1>7. PopHasBytes' /\ InOrder' BY <1>2 DEF SIInv, PopHasBytes, InOrder
<1>. QED BY <1>3, <1>4, <1>5, <1>6, <1>7 DEF SIInv

\* The copy of a push goes to free cells: what is between head and tail stays, and
\* the new bytes continue it.
LEMMA PushCopyInv ==
  ASSUME SIInv, PushCopy
  PROVE  SIInv'
<1>. DEFINE u == MBUF_USED(head, tail, Size)
            b2 == PushStore(buf, tail, Data, Size)
<1>1. /\ UNCHANGED <<head, tail, pn, sent, poppc, cn, rcvd>>
      /\ pushpc = "copy" /\ pushpc' = "store" /\ buf' = b2
  BY DEF PushCopy, cvars
<1>2. /\ pn \in 1..Size /\ pn <= MBUF_FREE(head, tail, Size) /\ sent + pn <= MaxSent
      /\ pn \in Nat
  BY <1>1, Facts DEF SIInv, PushHasRoom
<1>3. /\ Size \in Nat /\ head \in 0..Size /\ tail \in 0..Size /\ u \in 0..Size
      /\ buf \in Memory(Size, 0..MaxSent) /\ MaxSent \in Nat /\ sent \in 0..MaxSent
      /\ Popped \in Nat
  BY Facts
<1>3a. /\ MBUF_FREE(head, tail, Size) \in 0..Size
       /\ u + MBUF_FREE(head, tail, Size) = Size
  BY Facts
<1>4. Data \in Block(pn, 0..MaxSent) /\ \A i \in 1..pn : Data[i] = sent + i
  <2>1. \A i \in 1..pn : sent + i \in 0..MaxSent BY <1>2, <1>3
  <2>. QED BY <2>1 DEF Data, Block
<1>5. b2 \in Memory(Size, 0..MaxSent) BY <1>2, <1>3, <1>4, PushCells
<1>6. ReadBytes(b2, head, u + pn, Size) = ReadBytes(buf, head, u, Size) \o Data
  BY <1>2, <1>3, <1>4, PushAppends
<1>. HIDE DEF u, b2
<1>7. STypeOK' BY <1>1, <1>5 DEF SIInv, STypeOK, Memory
<1>8. Balance' BY <1>1 DEF SIInv, Balance, Popped
<1>9. Ahead'
  <2>. DEFINE w  == u + pn
              r1 == ReadBytes(buf, head, u, Size)
              r2 == ReadBytes(b2, head, w, Size)
  <2>1. w \in 0..Size /\ w \in Nat /\ u \in Nat /\ w = u + pn BY <1>2, <1>3, <1>3a
  <2>2. r1 \in Block(u, 0..MaxSent) /\ \A i \in 1..u : r1[i] = buf[Cell(head, i, Size)]
    <3>1. r1 \in Block(u, 0..MaxSent) BY <1>3, ReadIsSeq
    <3>2. \A i \in 1..u : r1[i] = buf[Cell(head, i, Size)] BY <1>3, ReadIsSeq
    <3>. QED BY <3>1, <3>2
  <2>. HIDE DEF w
  <2>3. \A i \in 1..w : r2[i] = b2[Cell(head, i, Size)] BY ReadAt
  <2>. HIDE DEF r1, r2
  <2>4. r1 \in Seq(0..MaxSent) /\ Len(r1) = u BY <2>1, <2>2, FunctionIsSeq
  <2>5. Data \in Seq(0..MaxSent) /\ Len(Data) = pn BY <1>2, <1>4, FunctionIsSeq
  <2>6. \A i \in 1..(u + pn) : (r1 \o Data)[i] = IF i <= u THEN r1[i] ELSE Data[i - u]
    BY <2>4, <2>5, ConcatProperties
  <2>7. Popped + u = sent /\ \A i \in 1..u : buf[Cell(head, i, Size)] = Popped + i
    BY <1>1, <2>1 DEF SIInv, Balance, Ahead, Copied, u
  <2>8. ASSUME NEW i \in 1..w PROVE b2[Cell(head, i, Size)] = Popped + i
    <3>1. b2[Cell(head, i, Size)] = (r1 \o Data)[i] BY <1>6, <2>3 DEF r1, r2, w
    <3>2. CASE i <= u
      <4>1. i \in 1..u /\ i \in 1..(u + pn) BY <2>1, <3>2
      <4>2. (r1 \o Data)[i] = r1[i] BY <2>6, <3>2, <4>1
      <4>. QED BY <2>2, <2>7, <3>1, <4>1, <4>2
    <3>3. CASE ~(i <= u)
      <4>1. i - u \in 1..pn /\ sent + (i - u) = Popped + i BY <1>2, <1>3, <2>1, <2>7, <3>3 DEF w
      <4>2. (r1 \o Data)[i] = Data[i - u] BY <2>6, <3>3 DEF w
      <4>. QED BY <1>4, <3>1, <4>1, <4>2
    <3>. QED BY <3>2, <3>3
  <2>. QED BY <1>1, <2>8 DEF Ahead, Copied, Popped, u, w
<1>10. PushHasRoom' BY <1>1 DEF SIInv, PushHasRoom
<1>11. PopHasBytes' /\ InOrder' BY <1>1 DEF SIInv, PopHasBytes, InOrder
<1>. QED BY <1>7, <1>8, <1>9, <1>10, <1>11 DEF SIInv

\* Publishing the tail makes the copied bytes part of the content.
LEMMA PushPublishInv ==
  ASSUME SIInv, PushPublish
  PROVE  SIInv'
<1>. DEFINE u == MBUF_USED(head, tail, Size)
<1>1. /\ UNCHANGED <<head, buf, pn, poppc, cn, rcvd>>
      /\ pushpc = "store" /\ pushpc' = "idle"
      /\ tail' = PushTail(tail, pn, Size) /\ sent' = sent + pn
  BY DEF PushPublish, cvars
<1>2. /\ pn \in 1..Size /\ pn <= MBUF_FREE(head, tail, Size) /\ sent + pn <= MaxSent
      /\ pn \in Nat
  BY <1>1, Facts DEF SIInv, PushHasRoom
<1>3. /\ Size \in Nat /\ head \in 0..Size /\ tail \in 0..Size /\ u \in 0..Size
      /\ MaxSent \in Nat /\ sent \in 0..MaxSent /\ Popped \in Nat /\ cn \in Nat
  BY Facts
<1>4. tail' \in 0..Size /\ MBUF_USED(head, tail', Size) = u + pn
  BY <1>1, <1>2, <1>3 DEF PushTail, fmbuf_tail_free, MBUF_USED, MBUF_FREE
<1>5. sent' \in 0..MaxSent BY <1>1, <1>2, <1>3
<1>. HIDE DEF u
<1>6. STypeOK' BY <1>1, <1>4, <1>5 DEF SIInv, STypeOK
<1>7. Balance' BY <1>1, <1>2, <1>3, <1>4, SMTT(60) DEF SIInv, Balance, Popped, u
<1>8. Ahead'
  <2>1. Popped' = Popped /\ Copied = pn /\ Copied' = 0 BY <1>1 DEF Popped, Copied
  <2>2. MBUF_USED(head', tail', Size) + Copied' = u + Copied
    BY <1>1, <1>2, <1>3, <1>4, <2>1
  <2>. QED BY <1>1, <2>1, <2>2 DEF SIInv, Ahead, u
<1>9. PushHasRoom' BY <1>1 DEF PushHasRoom
<1>10. PopHasBytes' BY <1>1, <1>2, <1>3, <1>4 DEF SIInv, PopHasBytes, u
<1>11. InOrder' BY <1>1 DEF SIInv, InOrder
<1>. QED BY <1>6, <1>7, <1>8, <1>9, <1>10, <1>11 DEF SIInv

\* fmbuf_pop looks for bytes; what it finds is what the invariant asks for.
LEMMA PopCallInv ==
  ASSUME SIInv, NEW n \in 1..Size, PopCall(n)
  PROVE  SIInv'
<1>1. n \in Nat /\ n \in 0..Size /\ Size \in Nat BY Facts
<1>2. /\ UNCHANGED <<head, tail, buf, rcvd, pushpc, pn, sent>>
      /\ cn' = n /\ poppc = "idle"
      /\ (poppc' = "copy" /\ n <= MBUF_USED(head, tail, Size)) \/ poppc' = "idle"
  BY DEF PopCall, pvars, Ready
<1>3. STypeOK' BY <1>1, <1>2 DEF SIInv, STypeOK
<1>4. Balance' BY <1>2 DEF SIInv, Balance, Popped
<1>5. Ahead' BY <1>2 DEF SIInv, Ahead, Popped, Copied
<1>6. PushHasRoom' /\ InOrder' BY <1>2 DEF SIInv, PushHasRoom, InOrder
<1>7. PopHasBytes' BY <1>2 DEF PopHasBytes
<1>. QED BY <1>3, <1>4, <1>5, <1>6, <1>7 DEF SIInv

\* The copy of a pop appends the next bytes of the stream.
LEMMA PopCopyInv ==
  ASSUME SIInv, PopCopy
  PROVE  SIInv'
<1>. DEFINE u == MBUF_USED(head, tail, Size)
            r == ReadBytes(buf, head, cn, Size)
            k == Len(rcvd)
<1>1. /\ UNCHANGED <<head, tail, buf, cn, pushpc, pn, sent>>
      /\ poppc = "copy" /\ poppc' = "store" /\ rcvd' = rcvd \o r
  BY DEF PopCopy, pvars
<1>2. cn \in 1..Size /\ cn <= u /\ cn \in Nat /\ cn \in 0..Size
  BY <1>1, Facts DEF SIInv, PopHasBytes
<1>3. /\ Size \in Nat /\ head \in 0..Size /\ tail \in 0..Size /\ u \in 0..Size
      /\ buf \in Memory(Size, 0..MaxSent) /\ MaxSent \in Nat
      /\ rcvd \in Seq(0..MaxSent) /\ k \in Nat /\ Copied \in Nat
  BY Facts DEF Copied
<1>4. Popped = k BY <1>1 DEF Popped
<1>5. r \in Block(cn, 0..MaxSent) /\ \A i \in 1..cn : r[i] = buf[Cell(head, i, Size)]
  BY <1>2, <1>3, ReadIsSeq
<1>6. \A i \in 1..cn : r[i] = k + i
  <2>1. \A i \in 1..cn : i \in 1..(u + Copied) BY <1>2, <1>3
  <2>. QED BY <1>4, <1>5, <2>1 DEF SIInv, Ahead
<1>. HIDE DEF r, u
<1>7. r \in Seq(0..MaxSent) /\ Len(r) = cn BY <1>2, <1>5, FunctionIsSeq
<1>8. /\ rcvd' \in Seq(0..MaxSent) /\ Len(rcvd') = k + cn
      /\ \A i \in 1..(k + cn) : rcvd'[i] = IF i <= k THEN rcvd[i] ELSE r[i - k]
  BY <1>1, <1>3, <1>7, ConcatProperties
<1>9. Popped' = Popped BY <1>1, <1>2, <1>3, <1>4, <1>8 DEF Popped
<1>10. STypeOK' BY <1>1, <1>8 DEF SIInv, STypeOK
<1>11. Balance' BY <1>1, <1>9 DEF SIInv, Balance
<1>12. Ahead' BY <1>1, <1>9 DEF SIInv, Ahead, Copied
<1>13. PushHasRoom' BY <1>1 DEF SIInv, PushHasRoom
<1>14. PopHasBytes' BY <1>1, <1>2, <1>3, <1>8 DEF PopHasBytes, u
<1>15. InOrder'
  <2>1. ASSUME NEW i \in 1..(k + cn) PROVE rcvd'[i] = i
    <3>1. CASE i <= k
      <4>1. i \in 1..k BY <1>3, <3>1
      <4>2. rcvd'[i] = rcvd[i] BY <1>8, <3>1
      <4>. QED BY <4>1, <4>2 DEF SIInv, InOrder
    <3>2. CASE ~(i <= k)
      <4>1. i - k \in 1..cn /\ k + (i - k) = i BY <1>2, <1>3, <3>2
      <4>2. rcvd'[i] = r[i - k] BY <1>8, <3>2
      <4>. QED BY <1>6, <4>1, <4>2
    <3>. QED BY <3>1, <3>2
  <2>. QED BY <1>8, <2>1 DEF InOrder
<1>. QED BY <1>10, <1>11, <1>12, <1>13, <1>14, <1>15 DEF SIInv

\* Publishing the head gives the cells of the popped bytes back; what is left
\* follows the new head.
LEMMA PopPublishInv ==
  ASSUME SIInv, PopPublish
  PROVE  SIInv'
<1>. DEFINE u == MBUF_USED(head, tail, Size)
            f == MBUF_FREE(head, tail, Size)
<1>1. /\ UNCHANGED <<tail, buf, cn, rcvd, pushpc, pn, sent>>
      /\ poppc = "store" /\ poppc' = "idle"
      /\ head' = PopHead(head, cn, Size)
  BY DEF PopPublish, pvars
<1>2. cn \in 1..Size /\ cn <= u /\ cn \in Nat /\ cn <= Len(rcvd)
  BY <1>1, Facts DEF SIInv, PopHasBytes
<1>3. /\ Size \in Nat /\ head \in 0..Size /\ tail \in 0..Size /\ u \in 0..Size
      /\ f \in 0..Size /\ u + f = Size /\ Len(rcvd) \in Nat /\ pn \in Nat
      /\ sent \in 0..MaxSent /\ MaxSent \in Nat
  BY Facts
<1>4. head' \in 0..Size BY <1>1, <1>2, <1>3, PopHeadType
<1>5. MBUF_USED(head', tail, Size) = u - cn
  BY <1>1, <1>2, <1>3 DEF PopHead, MBUF_USED
<1>6. MBUF_FREE(head', tail, Size) = f + cn
  <2>1. MBUF_USED(head', tail, Size) + MBUF_FREE(head', tail, Size) = Size
        /\ MBUF_FREE(head', tail, Size) \in 0..Size
    BY <1>3, <1>4, UsedFree
  <2>. QED BY <1>2, <1>3, <1>5, <2>1
<1>7. Copied' = Copied /\ Copied \in Nat /\ Copied <= f
  BY <1>1, <1>3 DEF SIInv, PushHasRoom, Copied
<1>8. Popped = Len(rcvd) - cn /\ Popped' = Len(rcvd) BY <1>1 DEF Popped
<1>9. \A i \in 1..(u - cn + Copied) : /\ cn + i \in 1..(u + Copied)
                                      /\ Cell(head', i, Size) = Cell(head, cn + i, Size)
  BY <1>1, <1>2, <1>3, <1>7 DEF Cell, PopHead
<1>10. STypeOK' BY <1>1, <1>4 DEF SIInv, STypeOK
<1>. HIDE DEF u, f
<1>11. Balance'
  <2>1. Popped + u = sent BY DEF SIInv, Balance, u
  <2>2. Popped' + (u - cn) = sent BY <1>2, <1>3, <1>8, <2>1
  <2>. QED BY <1>1, <1>5, <2>2 DEF Balance
<1>12. Ahead'
  <2>1. \A i \in 1..(u + Copied) : buf[Cell(head, i, Size)] = Popped + i
    BY DEF SIInv, Ahead, u
  <2>2. ASSUME NEW i \in 1..(u - cn + Copied)
        PROVE  buf[Cell(head', i, Size)] = Popped' + i
    <3>1. buf[Cell(head', i, Size)] = Popped + (cn + i) BY <1>9, <2>1
    <3>2. Popped + (cn + i) = Popped' + i BY <1>2, <1>3, <1>7, <1>8
    <3>. QED BY <3>1, <3>2
  <2>. QED BY <1>1, <1>5, <1>7, <2>2 DEF Ahead
<1>13. PushHasRoom' BY <1>1, <1>2, <1>3, <1>6 DEF SIInv, PushHasRoom, f
<1>14. PopHasBytes' BY <1>1 DEF PopHasBytes
<1>15. InOrder' BY <1>1 DEF SIInv, InOrder
<1>. QED BY <1>10, <1>11, <1>12, <1>13, <1>14, <1>15 DEF SIInv

\* Every step of either thread keeps the invariant.
LEMMA SInductive == SIInv /\ [SNext]_svars => SIInv'
<1>. SUFFICES ASSUME SIInv, [SNext]_svars PROVE SIInv' OBVIOUS
<1>1. CASE UNCHANGED svars
  BY <1>1 DEF svars, SIInv, STypeOK, Balance, Ahead, PushHasRoom, PopHasBytes, InOrder,
              Popped, Copied
<1>2. CASE SNext
  BY <1>2, PushCallInv, PushCopyInv, PushPublishInv, PopCallInv, PopCopyInv, PopPublishInv
     DEF SNext
<1>. QED BY <1>1, <1>2

-----------------------------------------------------------------------------
\* The stream passes intact: the consumer gets the bytes of fmbuf_push in order,
\* each once, and none before it has been pushed, whatever the interleaving.
THEOREM StreamPasses == SSpec => []StreamIntact
<1>1. SIInv => StreamIntact BY SIInvImplies
<1>. QED BY <1>1, SInitInv, SInductive, PTL DEF SSpec

\* Between head and tail are, at every moment, the bytes that have been pushed and
\* not yet popped: neither thread's fmbuf call touches what the other works on.
THEOREM NothingOverwritten == SSpec => []UnreadKept
<1>1. SIInv => UnreadKept BY SIInvImplies
<1>. QED BY <1>1, SInitInv, SInductive, PTL DEF SSpec
=============================================================================
