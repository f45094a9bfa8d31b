------------------------------ MODULE FevConn ------------------------------
(***************************************************************************)
(* Asynchronous connects (fev_conn.c): the composition of the event loop   *)
(* and of a timer service of its own.  A connect in progress has a         *)
(* conn_info, a socket registered for writing and a one-shot timer;        *)
(* whichever of the two events comes first reports to the caller.          *)
(*                                                                         *)
(* A timer is named after its connection.  The event loop is what Fev      *)
(* shows of it: one round handles a snapshot of ready descriptors in any   *)
(* order and passes over those that were removed since the round began.    *)
(*                                                                         *)
(* on_connect frees the conn_info and leaves its timer armed: the timer    *)
(* of an answered connect is called with the freed memory.  What is found  *)
(* there is what was left, what another connect has put there, or neither. *)
(* Behaviours end with the last, and where memory is freed twice: fault.   *)
(***************************************************************************)
EXTENDS FevTmsvc, FiniteSets

CONSTANT FD                \* descriptors for sockets

Conn == Timer
NoConn == NoTimer

VARIABLES
  info,                    \* the conn_info: "none", "live" or "freed"
  fd,                      \* conn_info->fd
  mem,                     \* whose conn_info the memory that a connection was given holds
  sock,                    \* kernel: the state of a descriptor
  reg,                     \* fevents: the connection whose on_connect is registered
  fired,                   \* the firelist
  events,                  \* what is left of the round, "none" outside of fev_poll
  running,                 \* the connection whose conn_cb runs
  ret,                     \* what fev_conn returned: 1 as long as it was not called
  told,                    \* history: what conn_cb was called with, and by whom
  fault                    \* the heap or the program is broken

conns == <<info, fd, mem, sock, reg, fired, running, ret, told, fault>>
timers == <<clock, node, timer_list, backup_list, stack, expired, alive>>
cvars == <<conns, events, timers>>

NoRound == {"none"}
TimerFd == "timerfd"

CInit == /\ Init
         /\ info = [c \in Conn |-> "none"]
         /\ fd = [c \in Conn |-> CHOOSE f \in FD : TRUE] /\ mem = [c \in Conn |-> c]
         /\ sock = [f \in FD |-> "closed"] /\ reg = [f \in FD |-> NoConn]
         /\ fired = {} /\ events = NoRound /\ running = NoConn
         /\ ret = [c \in Conn |-> 1] /\ told = [c \in Conn |-> <<>>]
         /\ fault = FALSE

-----------------------------------------------------------------------------
(* fev_conn, called outside of fev_poll or from a conn_cb.                 *)

CInApp == alive /\ (running # NoConn \/ (events = NoRound /\ stack = <<>>))

Returns(c, r) == ret' = [ret EXCEPT ![c] = r]
Tell(c, result) == told' = [told EXCEPT ![c] = Append(@, result)]
SetSock(f, s) == sock' = [sock EXCEPT ![f] = s]

\* fnet_conn_async fails: without a socket, or with one that nobody closes.
ConnError(c) ==
  /\ \/ UNCHANGED sock
     \/ \E f \in FD : sock[f] = "closed" /\ SetSock(f, "leaked")
  /\ Returns(c, -1)
  /\ UNCHANGED <<info, fd, mem, reg, fired, running, told>> /\ UNCHANGED timers

\* It connects at once: conn_cb is called from fev_conn.
ConnNow(c, f) ==
  /\ SetSock(f, "user") /\ Tell(c, "ok") /\ Returns(c, 0)
  /\ UNCHANGED <<info, fd, mem, reg, fired, running>> /\ UNCHANGED timers

\* calloc: new memory, or that of a conn_info which was freed.
Calloc(c) == \/ UNCHANGED mem
             \/ \E d \in Conn : /\ info[d] = "freed"
                               /\ mem' = [e \in Conn |-> IF mem[e] = d THEN c ELSE mem[e]]

\* It is in progress: conn_info, timer and registration are made.
\* (Mutant: the timer is left out.)
ConnPending_NoTimer(c, f, timeout) ==
  /\ Calloc(c)
  /\ info' = [info EXCEPT ![c] = "live"] /\ fd' = [fd EXCEPT ![c] = f]
  /\ SetSock(f, "connecting")
  /\ reg' = [reg EXCEPT ![f] = c] /\ Returns(c, 0)
  /\ UNCHANGED <<fired, running, told>> /\ UNCHANGED timers

ConnPending(c, f, timeout) ==
  /\ Calloc(c)
  /\ info' = [info EXCEPT ![c] = "live"] /\ fd' = [fd EXCEPT ![c] = f]
  /\ SetSock(f, "connecting")
  /\ Add(c, timeout, 0)
  /\ reg' = [reg EXCEPT ![f] = c] /\ Returns(c, 0)
  /\ UNCHANGED <<fired, running, told, clock, stack, expired, alive>>

\* fev_reg_event fails: what was made is undone, the timer node by marking it only.
\* (Mutant: the timer is left armed.)
ConnNoReg_Armed(c, f, timeout) ==
  /\ Calloc(c)
  /\ info' = [info EXCEPT ![c] = "freed"] /\ fd' = [fd EXCEPT ![c] = f]
  /\ Add(c, timeout, 0)
  /\ Returns(c, -1)
  /\ UNCHANGED <<sock, reg, fired, running, told, clock, stack, expired, alive>>

ConnNoReg(c, f, timeout) ==
  /\ Calloc(c)
  /\ info' = [info EXCEPT ![c] = "freed"] /\ fd' = [fd EXCEPT ![c] = f]
  /\ node' = [node EXCEPT ![c] = [start |-> Now, interval |-> 0, expiration |-> timeout,
                                  valid |-> FALSE, live |-> TRUE]]
  /\ timer_list' = fdlist_push(timer_list, c)
  /\ Returns(c, -1)
  /\ UNCHANGED <<sock, reg, fired, running, told, clock, backup_list, stack, expired, alive>>

\* A connect is started only when its timeout is within the time that is modelled.
fev_conn(c) ==
  /\ CInApp /\ ret[c] = 1
  /\ \/ ConnError(c)
     \/ \E f \in FD, timeout \in Delays :
          /\ sock[f] = "closed" /\ clock + timeout * NS_PER_MS <= MaxClock
          /\ ConnNow(c, f) \/ ConnPending(c, f, timeout) \/ ConnNoReg(c, f, timeout)
  /\ UNCHANGED <<events, fault>>

\* External: the caller closes a socket it was handed, unless a timer has closed it.
UserClose(f) == /\ CInApp /\ sock[f] = "user"
                /\ SetSock(f, "closed")
                /\ UNCHANGED <<info, fd, mem, reg, fired, running, ret, told, fault, events>>
                /\ UNCHANGED timers

\* External: the connect completes or is refused.
Arrives(f) == /\ sock[f] = "connecting"
              /\ SetSock(f, "up") \/ SetSock(f, "refused")
              /\ UNCHANGED <<info, fd, mem, reg, fired, running, ret, told, fault, events>>
              /\ UNCHANGED timers

-----------------------------------------------------------------------------
(* A round of fev_poll.                                                    *)

Ready == {f \in FD : reg[f] # NoConn /\ sock[f] \in {"up", "refused"}}
         \cup (IF expired THEN {TimerFd} ELSE {})

fev_poll == /\ alive /\ events = NoRound /\ stack = <<>> /\ running = NoConn
            /\ fired' = {}
            /\ events' = Ready
            /\ UNCHANGED <<info, fd, mem, sock, reg, running, ret, told, fault>> /\ UNCHANGED timers

InLoop == events # NoRound /\ stack = <<>> /\ running = NoConn

PollReturns == /\ events = {} /\ stack = <<>> /\ running = NoConn
               /\ events' = NoRound
               /\ UNCHANGED conns /\ UNCHANGED timers

Skip(f) == /\ InLoop /\ f \in events \cap fired
           /\ events' = events \ {f}
           /\ UNCHANGED conns /\ UNCHANGED timers

\* fev_del_event of conn_info->fd.
\* (Mutant: the event stays registered.)
Unregister_Not(f) == UNCHANGED <<reg, fired>>

Unregister(f) == /\ reg' = [reg EXCEPT ![f] = NoConn]
                 /\ fired' = IF reg[f] = NoConn THEN fired ELSE fired \cup {f}

\* on_connect, up to the call of conn_cb.
on_connect(f) ==
  LET c == reg[f]
  IN  /\ InLoop /\ f \in (events \cap FD) \ fired /\ c # NoConn
      /\ events' = events \ {f}
      /\ Unregister(f)
      /\ \/ sock[f] = "refused" /\ SetSock(f, "closed") /\ Tell(c, "failed")
         \/ sock[f] = "up" /\ SetSock(f, "user") /\ Tell(c, "ok")
      /\ running' = c
      /\ UNCHANGED <<info, fd, mem, ret, fault>> /\ UNCHANGED timers

\* free(conn_info), which both callbacks end with.  A second time it is the end:
\* the allocator aborts, or another owner of the memory loses it.
\* (Mutant: it is not freed.)
Free_Not(c) == UNCHANGED <<info, fault>>

Free(c) == /\ info' = [info EXCEPT ![c] = "freed"]
           /\ fault' = (info[c] = "freed")

\* conn_cb returns to on_connect, which frees the conn_info and leaves the timer.
OnConnectReturns ==
  /\ running # NoConn /\ stack = <<>>
  /\ Free(running)
  /\ running' = NoConn
  /\ UNCHANGED <<fd, mem, sock, reg, fired, ret, told, events>> /\ UNCHANGED timers

\* fev_on_timer: one pass after the other as long as the timerfd has expired again.
TimerPass == /\ InLoop /\ TimerFd \in events
             /\ OnTimer
             /\ UNCHANGED conns /\ UNCHANGED events

TimerDone == /\ InLoop /\ TimerFd \in events /\ ~expired
             /\ events' = events \ {TimerFd}
             /\ UNCHANGED conns /\ UNCHANGED timers

ServicePass == /\ PassStep \/ PassEnd
               /\ UNCHANGED conns /\ UNCHANGED events

\* on_timer, up to the call of conn_cb, with the conn_info that is now at the address
\* the timer was given: its own, live or as it was when it was freed, or another's.
on_timer(c) ==
  LET d == mem[c]
  IN  /\ stack # <<>> /\ Top.cur = c /\ running = NoConn
      /\ Unregister(fd[d]) /\ SetSock(fd[d], "closed")
      /\ Tell(d, IF info[d] = "freed" THEN "late" ELSE "timeout")
      /\ running' = d
      /\ UNCHANGED <<info, fd, mem, ret, fault, events>> /\ UNCHANGED timers

\* Something else has overwritten the freed conn_info: descriptor, callback and argument
\* are what they happen to be.
OnTimerAstray(c) ==
  /\ stack # <<>> /\ Top.cur = c /\ running = NoConn
  /\ info[mem[c]] = "freed"
  /\ fault' = TRUE
  /\ UNCHANGED <<info, fd, mem, sock, reg, fired, running, ret, told, events>>
  /\ UNCHANGED timers

OnTimerReturns ==
  /\ running # NoConn /\ stack # <<>>
  /\ Free(running)
  /\ running' = NoConn
  /\ CallbackReturns
  /\ UNCHANGED <<fd, mem, sock, reg, fired, ret, told, events>>

\* fev_conn_module_unload, out of fev_destroy.
fev_conn_module_unload == /\ events = NoRound /\ running = NoConn
                          /\ fev_tmsvc_destroy
                          /\ UNCHANGED conns /\ UNCHANGED events

TimePasses == Tick /\ UNCHANGED conns /\ UNCHANGED events

Poll == \/ fev_poll \/ PollReturns
        \/ \E f \in FD : Skip(f) \/ on_connect(f)
        \/ TimerPass \/ TimerDone \/ ServicePass
        \/ \E c \in Conn : on_timer(c) \/ OnTimerAstray(c)
        \/ OnConnectReturns \/ OnTimerReturns

CNext == /\ ~fault
         /\ \/ \E c \in Conn : fev_conn(c)
            \/ \E f \in FD : UserClose(f) \/ Arrives(f)
            \/ Poll \/ TimePasses \/ fev_conn_module_unload

CSpec == CInit /\ [][CNext]_cvars

\* The program polls on, its callbacks return, and time does not stand still.
CFairSpec == CSpec /\ WF_cvars(~fault /\ Poll) /\ WF_cvars(~fault /\ TimePasses)

-----------------------------------------------------------------------------
(* Properties.                                                             *)

\* What conn_cb is called with by a callback that has a live conn_info, or by fev_conn.
Proper == {"ok", "failed", "timeout"}

\* Type invariant.
CTypeOK == /\ TypeOK
           /\ info \in [Conn -> {"none", "live", "freed"}]
           /\ fd \in [Conn -> FD] /\ mem \in [Conn -> Conn]
           /\ sock \in [FD -> {"closed", "connecting", "up", "refused", "user", "leaked"}]
           /\ reg \in [FD -> Conn \cup {NoConn}]
           /\ fired \subseteq FD /\ events \subseteq FD \cup {TimerFd} \cup NoRound
           /\ running \in Conn \cup {NoConn}
           /\ ret \in [Conn -> {-1, 0, 1}]
           /\ told \in [Conn -> Seq(Proper \cup {"late"})]
           /\ fault \in BOOLEAN

\* The callback of a late timer runs: the conn_info it reports about was freed before.
Late == running # NoConn /\ info[running] = "freed"

\* Whoever waits for an answer is watched by both of its guards: the conn_info that
\* is live and not being reported has its own open socket, registered for it, and, until
\* the module is unloaded, a valid timer in the service; and no event is registered
\* with a conn_info that is gone.  Only a late timer, with the descriptor of an answered
\* connect, can take a socket and its registration from another connection, and then the
\* heap does not outlive its callback.
Guarded ==
  /\ \A c \in Conn : info[c] = "live" /\ running # c
                       => /\ alive => node[c].valid
                          /\ \/ fault \/ Late
                             \/ /\ reg[fd[c]] = c
                                /\ sock[fd[c]] \in {"connecting", "up", "refused"}
  /\ \A f \in FD : reg[f] # NoConn => info[reg[f]] = "live" /\ fd[reg[f]] = f

\* conn_cb is called at most once for a connect in progress and never for one that
\* fev_conn refused, though socket and timer may both be ready in one round and the
\* descriptor may have a new owner in the same round.  All that may come in addition is
\* one call of a late timer that finds a freed conn_info as it was left, a refused
\* connect's included, and it is the last call.
Reports(r) == {<<>>} \cup CASE r = 0  -> {<<x>> : x \in Proper} \cup {<<x, "late">> : x \in Proper}
                           [] r = -1 -> {<<"late">>}
                           [] OTHER  -> {}
LateIsLast == \A c \in Conn : told[c] \in Reports(ret[c])

\* The timer of a connect that fev_conn gave up never runs.
GivenUp == \A c \in Conn : ret[c] = -1 => c \notin Running

\* A caller that is told to wait for the callback gets it: an answer of the socket
\* or the timeout, unless the program is broken before or the module is unloaded.
Answered == \A c \in Conn : ret[c] = 0 ~> (told[c] # <<>> \/ fault \/ ~alive)
=============================================================================
