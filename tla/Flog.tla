-------------------------------- MODULE Flog --------------------------------
(***************************************************************************)
(* The asynchronous logger of flog.c.  A logging thread numbers a message  *)
(* (last_aid, one counter per file), puts it into its own buffer and       *)
(* writes to its eventfd; one fetcher thread waits for the eventfds with   *)
(* epoll, empties the buffers and writes the messages of each file in the  *)
(* order of their numbers (curr_aid).  A thread that ends leaves a         *)
(* THREAD_QUIT message behind and the fetcher frees its data.  At exit the *)
(* fetcher is told to stop and is joined.                                  *)
(*                                                                         *)
(* flog_writef publishes a message with one store of the buffer's tail,    *)
(* flog_write piece by piece.  A formatted message carries the length its  *)
(* text would have had, also when the text was cut, so it may be longer    *)
(* than what was checked for.                                              *)
(*                                                                         *)
(* A buffer is a sequence of messages, with the position of its tail:      *)
(* FmbufSpsc shows that the fmbuf between the two threads is one.  What a  *)
(* line costs on disk (flush, rolling) does not come back to this          *)
(* protocol.  Behaviours end with a fault when the tail is moved past the  *)
(* memory that is free, or the fetcher's temporary buffer overrun.         *)
(***************************************************************************)
EXTENDS Naturals, Sequences, FiniteSets

CONSTANTS User,      \* threads that log
          File,      \* asynchronous loggers (flog_create with FLOG_F_ASYNC)
          NoUser,    \* the fetcher is in nobody's buffer
          BufSize,   \* g_log->buffer_size
          MaxLen,    \* max_msg_len: what flog_writef asks for before it formats
          TmpLen,    \* LOG_MAX_LEN_PER_MSG, as the size of the fetcher's tmp_buf
          Lens,      \* what messages take in a buffer, as their length says
          MaxMsgs    \* bound: messages numbered

ASSUME FlogAssumption == /\ NoUser \notin User
                         /\ BufSize \in Nat /\ MaxLen \in Nat \ {0} /\ TmpLen \in Nat
                         /\ Lens \subseteq Nat \ {0}
                         /\ MaxMsgs \in Nat

VARIABLES
  last_aid, curr_aid,        \* of each flog_file_t
  th,                        \* thread_data_t: "none", "live" or "freed"
  buf, free, tail,           \* its plog_buf: the messages, fmbuf_free, and the tail
  efd,                       \* whether its eventfd is readable
  upc, umsg,                 \* a logging thread: pc and message being filled
  threads,                   \* g_log->threads
  running,                   \* g_log->is_fetcher_running
  fpc, cur,                  \* the fetcher: pc, and whose buffer it is in
  todo, scan,                \* events and threads still to be looked at
  nums, round, total,        \* nums > 0, round_processed > 0, total_processed > 0
  mpc,                       \* the thread that calls exit
  fault,                     \* memory was overrun
  wrote,                     \* history: a file's messages as they were numbered
  out,                       \* history: those handed to write(2)
  lost                       \* history: the numbers that will not be

vars == <<last_aid, curr_aid, th, buf, free, tail, efd, upc, umsg, threads, running,
          fpc, cur, todo, scan, nums, round, total, mpc, fault, wrote, out, lost>>
rounds == <<todo, scan, nums, round, total>>
fetcher == <<fpc, cur, rounds, threads, curr_aid, out>>
plog_buf == <<buf, free, tail>>
thread == <<th, plog_buf, efd>>
exit == <<running, mpc>>
losses == <<fault, lost>>
user == <<last_aid, upc, umsg, wrote, losses>>

Message == [id : {"FETCH_MSG"}, f : File, aid : Nat, len : Lens, by : User]
Quit == [id |-> "THREAD_QUIT", len |-> 1]

Init == /\ last_aid = [f \in File |-> 0] /\ curr_aid = [f \in File |-> 0]
        /\ th = [u \in User |-> "none"]
        /\ buf = [u \in User |-> <<>>] /\ free = [u \in User |-> BufSize]
        /\ tail = [u \in User |-> 0]
        /\ efd = [u \in User |-> FALSE]
        /\ upc = [u \in User |-> "idle"] /\ umsg = [u \in User |-> Quit]
        /\ threads = {} /\ running = FALSE
        /\ fpc = "start" /\ cur = NoUser /\ todo = {} /\ scan = {}
        /\ nums = FALSE /\ round = FALSE /\ total = FALSE
        /\ mpc = "run"
        /\ fault = FALSE /\ lost = [f \in File |-> {}]
        /\ wrote = [f \in File |-> <<>>] /\ out = [f \in File |-> <<>>]

-----------------------------------------------------------------------------
(* The ring behind a buffer: BufSize + 1 cells, used from head to tail.    *)

Cells == BufSize + 1
head(u) == (tail[u] + free[u] + 1) % Cells

\* (Mutant: the message gets in front of the others.)
Push_Front(u, m) == /\ buf' = [buf EXCEPT ![u] = <<m>> \o @]
                    /\ free' = [free EXCEPT ![u] = @ - m.len]
                    /\ tail' = [tail EXCEPT ![u] = (@ + m.len) % Cells]

\* fmbuf_push of one message with room for it, or fmbuf_tail_seek over one filled in
\* place.
Push(u, m) == /\ buf' = [buf EXCEPT ![u] = Append(@, m)]
              /\ free' = [free EXCEPT ![u] = @ - m.len]
              /\ tail' = [tail EXCEPT ![u] = (@ + m.len) % Cells]

Pop(u) == /\ buf' = [buf EXCEPT ![u] = Tail(@)]
          /\ free' = [free EXCEPT ![u] = @ + buf[u][1].len]
          /\ UNCHANGED tail

\* The cells behind the tail that can be filled in place.
tail_free_size(u) == IF tail[u] < head(u) THEN free[u] ELSE BufSize - tail[u]
-----------------------------------------------------------------------------
(* A logging thread.  A process that has exited has none.                  *)

At(u, pc) == upc[u] = pc /\ mpc # "exited" /\ ~fault
Goto(u, pc) == upc' = [upc EXCEPT ![u] = pc]

\* eventfd_write(th_data->efd, 1)
Notify(u) == efd' = [efd EXCEPT ![u] = th[u] = "live"]

Numbered == {n \in File \X (1..MaxMsgs) : n[2] <= last_aid[n[1]]}

\* What flog_write and flog_writef begin with: the first call creates the thread's
\* data, and the message gets its number.  Without the room that is asked for, the
\* call reports BUFFER_FULL and drops the message without a number, which changes
\* nothing.
Number(u, f, len) ==
  LET m == [id |-> "FETCH_MSG", f |-> f, aid |-> last_aid[f] + 1, len |-> len, by |-> u]
  IN  /\ Cardinality(Numbered) < MaxMsgs
      /\ th' = [th EXCEPT ![u] = "live"]
      /\ last_aid' = [last_aid EXCEPT ![f] = @ + 1]
      /\ umsg' = [umsg EXCEPT ![u] = m]
      /\ wrote' = [wrote EXCEPT ![f] = Append(@, m)]
      /\ UNCHANGED <<plog_buf, efd, losses>> /\ UNCHANGED fetcher /\ UNCHANGED exit

\* flog_writef, and flog_vwritef.  The room for a message of the maximum length is
\* checked; then the text is formatted, in place if that much is free at the tail,
\* and its length is taken as vsnprintf returned it.
\* (Mutant: any room will do.)
HasRoom_Some(u) == free[u] >= 1

HasRoom(u) == free[u] >= MaxLen

flog_writef(u, f, len) ==
  /\ At(u, "idle")
  /\ HasRoom(u)
  /\ Number(u, f, len)
  /\ Goto(u, IF tail_free_size(u) >= MaxLen THEN "seek" ELSE "push")

\* fmbuf_tail_seek has no bounds: past the free cells it leaves no buffer to speak of.
WritefSeek(u) ==
  /\ At(u, "seek")
  /\ umsg[u].len <= tail_free_size(u)
  /\ Push(u, umsg[u]) /\ umsg' = [umsg EXCEPT ![u] = Quit]
  /\ Goto(u, "notify")
  /\ UNCHANGED <<th, efd, last_aid, wrote, losses>> /\ UNCHANGED fetcher /\ UNCHANGED exit

WritefSeekPast(u) ==
  /\ At(u, "seek")
  /\ umsg[u].len > tail_free_size(u)
  /\ fault' = TRUE
  /\ UNCHANGED <<last_aid, upc, umsg, wrote, lost>>
  /\ UNCHANGED thread /\ UNCHANGED fetcher /\ UNCHANGED exit

\* The result of fmbuf_push is not looked at.
WritefPush(u) ==
  LET m == umsg[u]
  IN  /\ At(u, "push")
      /\ \/ m.len <= free[u] /\ Push(u, m) /\ UNCHANGED lost
         \/ /\ m.len > free[u]
            /\ UNCHANGED plog_buf /\ lost' = [lost EXCEPT ![m.f] = @ \cup {m.aid}]
      /\ umsg' = [umsg EXCEPT ![u] = Quit]
      /\ Goto(u, "notify")
      /\ UNCHANGED <<th, efd, last_aid, wrote, fault>> /\ UNCHANGED fetcher /\ UNCHANGED exit

\* flog_write: a text that is too long is cut before its length is taken.  The head
\* of the message is pushed first; of the three pushes that follow, the fetcher can
\* tell only whether the last one is done.  (A text of length 0 is not modelled.)
flog_write(u, f, len) ==
  /\ At(u, "idle")
  /\ len <= MaxLen /\ free[u] >= len
  /\ Number(u, f, len)
  /\ Goto(u, "head")

WritePushHead(u) ==
  /\ At(u, "head")
  /\ Push(u, umsg[u]) /\ umsg' = [umsg EXCEPT ![u] = Quit]
  /\ Goto(u, "rest")
  /\ UNCHANGED <<th, efd, last_aid, wrote, losses>> /\ UNCHANGED fetcher /\ UNCHANGED exit

WritePushRest(u) ==
  /\ At(u, "rest")
  /\ Goto(u, "notify")
  /\ UNCHANGED <<last_aid, umsg, wrote, losses>>
  /\ UNCHANGED thread /\ UNCHANGED fetcher /\ UNCHANGED exit

WriteNotify(u) ==
  /\ At(u, "notify")
  /\ Notify(u)
  /\ Goto(u, "idle")
  /\ UNCHANGED <<th, plog_buf, last_aid, umsg, wrote, losses>>
  /\ UNCHANGED fetcher /\ UNCHANGED exit

\* _user_thread_destroy.  The result of the push is not looked at: without a free
\* byte there is no message.
QuitPush(u) ==
  /\ At(u, "idle") /\ th[u] = "live"
  /\ IF free[u] >= Quit.len THEN Push(u, Quit) ELSE UNCHANGED plog_buf
  /\ Goto(u, "quit")
  /\ UNCHANGED <<th, efd, last_aid, umsg, wrote, losses>> /\ UNCHANGED fetcher /\ UNCHANGED exit

\* The thread data may be gone by now; what the write does then is not modelled.
QuitNotify(u) ==
  /\ At(u, "quit")
  /\ Notify(u)
  /\ Goto(u, "gone")
  /\ UNCHANGED <<th, plog_buf, last_aid, umsg, wrote, losses>>
  /\ UNCHANGED fetcher /\ UNCHANGED exit

-----------------------------------------------------------------------------
(* _log_fetcher: the loop around epoll_wait.                               *)

FetcherStart ==
  /\ fpc = "start"
  /\ running' = TRUE
  /\ fpc' = "wait"
  /\ UNCHANGED <<cur, threads, curr_aid, out, mpc>>
  /\ UNCHANGED rounds /\ UNCHANGED thread /\ UNCHANGED user

Ready == {u \in User : efd[u]}

\* epoll_wait returns every readable eventfd, or none after its timeout.
EpollWait ==
  /\ fpc = "wait"
  /\ fpc' = "active"
  /\ todo' = Ready /\ nums' = (Ready # {})
  /\ UNCHANGED <<cur, scan, round, total, threads, curr_aid, out>>
  /\ UNCHANGED thread /\ UNCHANGED user /\ UNCHANGED exit

\* The next event: register the thread, read its eventfd, process its buffer.
ActiveThread(u) ==
  /\ fpc = "active" /\ cur = NoUser /\ u \in todo
  /\ todo' = todo \ {u}
  /\ threads' = threads \cup {u}
  /\ efd' = [efd EXCEPT ![u] = FALSE]
  /\ cur' = u
  /\ UNCHANGED <<fpc, scan, nums, round, total, curr_aid, out, th, plog_buf>>
  /\ UNCHANGED user /\ UNCHANGED exit

ActiveEnd ==
  /\ fpc = "active" /\ cur = NoUser /\ todo = {}
  /\ fpc' = "scan"
  /\ scan' = threads /\ round' = FALSE /\ total' = FALSE
  /\ UNCHANGED <<cur, todo, nums, threads, curr_aid, out>>
  /\ UNCHANGED thread /\ UNCHANGED user /\ UNCHANGED exit

ScanThread(u) ==
  /\ fpc = "scan" /\ cur = NoUser /\ u \in scan
  /\ scan' = scan \ {u}
  /\ cur' = u
  /\ UNCHANGED <<fpc, todo, nums, round, total, threads, curr_aid, out>>
  /\ UNCHANGED thread /\ UNCHANGED user /\ UNCHANGED exit

\* (Mutant: one pass over the threads and no more.)
AnotherRound_Never == FALSE

AnotherRound == round

ScanEnd ==
  /\ fpc = "scan" /\ cur = NoUser /\ scan = {}
  /\ total' = (total \/ round)
  /\ round' = FALSE
  /\ IF AnotherRound THEN scan' = threads /\ UNCHANGED fpc
                     ELSE fpc' = "check" /\ UNCHANGED scan
  /\ UNCHANGED <<cur, todo, nums, threads, curr_aid, out>>
  /\ UNCHANGED thread /\ UNCHANGED user /\ UNCHANGED exit

LoopCheck ==
  /\ fpc = "check"
  /\ fpc' = IF running \/ nums \/ total THEN "wait" ELSE "done"
  /\ UNCHANGED <<cur, threads, curr_aid, out>>
  /\ UNCHANGED rounds /\ UNCHANGED thread /\ UNCHANGED user /\ UNCHANGED exit

-----------------------------------------------------------------------------
(* _log_async_process(cur): one message per step.                          *)

First == buf[cur][1]

\* (Mutant: messages are written as they come.)
InTurn_Any == TRUE

\* (Mutant: compared with the last number instead of the next one.)
InTurn_OffByOne == First.aid = curr_aid[First.f]

\* The message has the number after the last one taken for its file.
InTurn == First.aid = curr_aid[First.f] + 1

\* The buffer is empty, or its first message has to wait for another thread's.
ProcessEnd ==
  /\ cur # NoUser
  /\ buf[cur] # <<>> => First # Quit /\ ~InTurn
  /\ cur' = NoUser
  /\ UNCHANGED <<fpc, threads, curr_aid, out>>
  /\ UNCHANGED rounds /\ UNCHANGED thread /\ UNCHANGED user /\ UNCHANGED exit

\* What fmbuf_used shows of the first message: all of it, or the head alone.
Whole == upc[cur] = "rest" => Len(buf[cur]) > 1

\* It runs over the end of the ring, so that fmbuf_rawget has to copy it.
Wraps == head(cur) + First.len > Cells

Turn == curr_aid' = [curr_aid EXCEPT ![First.f] = @ + 1]

\* The message is handed to write(2); if that fails it is dropped all the same.
\* Only what is processed in a scan is counted.
Fetched ==
  /\ Whole /\ (Wraps => First.len <= TmpLen)
  /\ Turn
  /\ out' = [out EXCEPT ![First.f] = Append(@, First)]
  /\ Pop(cur)
  /\ round' = (round \/ fpc = "scan")
  /\ UNCHANGED <<fpc, cur, todo, scan, nums, total, threads, th, efd>>
  /\ UNCHANGED user /\ UNCHANGED exit

\* fmbuf_rawget finds less than the message: its turn is over, and it stays first.
NotThere ==
  /\ ~Whole
  /\ Turn
  /\ lost' = [lost EXCEPT ![First.f] = @ \cup {First.aid}]
  /\ cur' = NoUser
  /\ UNCHANGED <<fpc, threads, out, last_aid, upc, umsg, wrote, fault>>
  /\ UNCHANGED rounds /\ UNCHANGED thread /\ UNCHANGED exit

\* fmbuf_rawget copies more than tmp_buf holds.
TmpOverrun ==
  /\ Whole /\ Wraps /\ First.len > TmpLen
  /\ fault' = TRUE
  /\ UNCHANGED <<last_aid, upc, umsg, wrote, lost>>
  /\ UNCHANGED fetcher /\ UNCHANGED thread /\ UNCHANGED exit

_log_pto_fetch_msg ==
  /\ cur # NoUser /\ buf[cur] # <<>> /\ First # Quit /\ InTurn
  /\ Fetched \/ NotThere \/ TmpOverrun

\* (Mutant: the thread stays in g_log->threads.)
Unregister_Forgotten == UNCHANGED threads

Unregister == threads' = threads \ {cur}

_log_pto_thread_quit ==
  /\ cur # NoUser /\ buf[cur] # <<>> /\ First = Quit
  /\ Pop(cur)
  /\ th' = [th EXCEPT ![cur] = "freed"]
  /\ efd' = [efd EXCEPT ![cur] = FALSE]
  /\ Unregister
  /\ cur' = NoUser
  /\ UNCHANGED <<fpc, curr_aid, out>>
  /\ UNCHANGED rounds /\ UNCHANGED user /\ UNCHANGED exit

_log_fetcher ==
  /\ ~fault
  /\ \/ FetcherStart \/ EpollWait
     \/ \E u \in User : ActiveThread(u) \/ ScanThread(u)
     \/ ActiveEnd \/ ScanEnd \/ LoopCheck
     \/ ProcessEnd \/ _log_pto_fetch_msg \/ _log_pto_thread_quit

-----------------------------------------------------------------------------
(* _process_exit.                                                          *)

ExitCall ==
  /\ mpc = "run" /\ ~fault
  /\ running' = FALSE
  /\ mpc' = "join"
  /\ UNCHANGED fetcher /\ UNCHANGED thread /\ UNCHANGED user

ExitJoin ==
  /\ mpc = "join" /\ fpc = "done" /\ ~fault
  /\ mpc' = "exited"
  /\ UNCHANGED <<running>>
  /\ UNCHANGED fetcher /\ UNCHANGED thread /\ UNCHANGED user

-----------------------------------------------------------------------------
UserStep(u) == \/ WritefSeek(u) \/ WritefSeekPast(u) \/ WritefPush(u)
               \/ WritePushHead(u) \/ WritePushRest(u)
               \/ WriteNotify(u) \/ QuitNotify(u)

Next == \/ \E u \in User :
              \/ \E f \in File, len \in Lens : flog_writef(u, f, len) \/ flog_write(u, f, len)
              \/ QuitPush(u) \/ UserStep(u)
        \/ _log_fetcher
        \/ ExitCall \/ ExitJoin

Spec == Init /\ [][Next]_vars

\* The fetcher runs, and a thread that is inside a call gets to its end.  Nothing
\* makes a thread log, end or exit.
Fairness == /\ WF_vars(_log_fetcher)
            /\ \A u \in User : WF_vars(UserStep(u))

FairSpec == Spec /\ Fairness

-----------------------------------------------------------------------------
(* Properties.                                                             *)

\* Type invariant.
TypeOK ==
  /\ last_aid \in [File -> 0..MaxMsgs] /\ curr_aid \in [File -> 0..MaxMsgs]
  /\ th \in [User -> {"none", "live", "freed"}]
  /\ buf \in [User -> Seq(Message \cup {Quit})]
  /\ free \in [User -> 0..BufSize] /\ tail \in [User -> 0..BufSize]
  /\ efd \in [User -> BOOLEAN]
  /\ upc \in [User -> {"idle", "seek", "push", "head", "rest", "notify", "quit", "gone"}]
  /\ umsg \in [User -> Message \cup {Quit}]
  /\ threads \subseteq User /\ running \in BOOLEAN
  /\ fpc \in {"start", "wait", "active", "scan", "check", "done"}
  /\ cur \in User \cup {NoUser} /\ todo \subseteq User /\ scan \subseteq User
  /\ nums \in BOOLEAN /\ round \in BOOLEAN /\ total \in BOOLEAN
  /\ mpc \in {"run", "join", "exited"} /\ fault \in BOOLEAN
  /\ wrote \in [File -> Seq(Message)] /\ out \in [File -> Seq(Message)]
  /\ lost \in [File -> SUBSET Nat]

\* A file gets its messages in the order in which the log calls numbered them,
\* across all threads, none twice, and none left out but those whose content was
\* not there when their turn came (ChangeLog, 0.9.8: "Log the content sequentially").
Sequential ==
  \A f \in File :
    /\ \A i \in 1..Len(out[f]) : /\ out[f][i].aid \in 1..curr_aid[f]
                                 /\ out[f][i] = wrote[f][out[f][i].aid]
    /\ \A i, j \in 1..Len(out[f]) : i < j => out[f][i].aid < out[f][j].aid
    /\ \A k \in 1..curr_aid[f] : k \in lost[f] \/ \E i \in 1..Len(out[f]) : out[f][i].aid = k

\* A message that has a number and has not had its turn is in the hands of its
\* thread or in a buffer that has not been freed: the fetcher never frees the data
\* of a thread with messages still in it.  The exception is a message that did not
\* fit into what was left of its buffer, and that is a formatted one that was longer
\* than the room that had been checked for.
InHand(u) == upc[u] \in {"seek", "push", "head"}

Held(m) == \/ InHand(m.by) /\ umsg[m.by] = m
           \/ th[m.by] = "live" /\ \E i \in 1..Len(buf[m.by]) : buf[m.by][i] = m

NoneLost ==
  \A f \in File : \A k \in (curr_aid[f] + 1)..Len(wrote[f]) :
    LET m == wrote[f][k] IN IF k \in lost[f] THEN m.len > MaxLen ELSE Held(m)

\* What the fetcher holds pointers to has not been freed: the events of this
\* round, the threads of this scan, the thread being processed.
NoDangling == \A u \in todo \cup scan \cup threads \cup ({cur} \ {NoUser}) : th[u] = "live"

\* What holds as long as no message was lost: neither a formatted one that was too
\* long, nor one of flog_write that was looked at too early.
Lossless == \A f \in File : lost[f] = {}

\* When the fetcher goes to sleep in epoll_wait, and when it ends, every buffer that
\* has a message first whose turn it is belongs to a thread whose eventfd is readable
\* or which is about to write to it: nothing is left to wait for the timeout, and at
\* exit only what was announced after the last look at the eventfds is left behind.
Waiting(u) == th[u] = "live" /\ buf[u] # <<>> /\ ~efd[u] /\ upc[u] \notin {"rest", "notify", "quit"}

NothingStuck ==
  fpc \in {"wait", "done"} /\ Lossless
    => \A u \in User : Waiting(u) =>
         buf[u][1] # Quit /\ buf[u][1].aid # curr_aid[buf[u][1].f] + 1

\* Turns never wait for each other in a circle: while a numbered message is
\* missing from its file and no thread is about to push one, some buffer has a
\* message first whose turn it is, also when threads write to several files.
NoCircle ==
  Lossless /\ (\E f \in File : curr_aid[f] < last_aid[f]) /\ (\A u \in User : ~InHand(u))
    => \E u \in User : /\ th[u] = "live" /\ buf[u] # <<>> /\ buf[u][1] # Quit
                      /\ buf[u][1].aid = curr_aid[buf[u][1].f] + 1

\* Unless the process exits, every message that got a number reaches its file, as
\* long as none is lost on the way and no memory overrun.
InFile(f, k) == /\ k <= Len(wrote[f])
                /\ \E i \in 1..Len(out[f]) : out[f][i] = wrote[f][k]
Over == mpc # "run" \/ fault \/ ~Lossless

Delivered == \A f \in File : \A k \in 1..MaxMsgs : last_aid[f] >= k ~> InFile(f, k) \/ Over

\* In the same way the data of a thread that has ended is freed once its THREAD_QUIT
\* message is in the buffer.
Released == \A u \in User : th[u] = "live" /\ (\E i \in 1..Len(buf[u]) : buf[u][i] = Quit)
                              ~> th[u] = "freed" \/ Over
=============================================================================
