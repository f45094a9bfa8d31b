-------------------------------- MODULE Fev --------------------------------
(***************************************************************************)
(* The event loop: fev.c over fev_epoll.c.  fev_poll takes a snapshot of   *)
(* ready descriptors from epoll_wait and runs their callbacks one after    *)
(* the other; a callback may register, change, remove, close and reopen    *)
(* any descriptor, those of events that are still to come included.  A     *)
(* descriptor that is removed goes into the firelist, a sparse set that is *)
(* emptied when the next poll begins, and the rest of the round passes its *)
(* event over.                                                             *)
(*                                                                         *)
(* Whose event it is, is kept with the event: its registration may be gone *)
(* or replaced by the time it is handled.  The kernel is modelled from how *)
(* the code uses it: a descriptor leaves the interest list when it is      *)
(* closed.  A call that returns an error and changes nothing (one for a    *)
(* closed descriptor, a registration on top of another) is not a step.     *)
(***************************************************************************)
EXTENDS Naturals, Sequences, FiniteSets

CONSTANTS max_ev_size,   \* descriptors 0 .. max_ev_size - 1, length of the firelist
          Handlers       \* for each descriptor, the sets of callbacks it is registered with

FD == 0..max_ev_size - 1
Mask == {"READ", "WRITE"}
Event == Mask \cup {"ERROR"}
Owner == {"live", "removed", "closed"}   \* what became of an event's registration

ASSUME FevAssumption == /\ max_ev_size \in Nat \ {0}
                        /\ Handlers \in [FD -> SUBSET SUBSET {"pread", "pwrite"}]

VARIABLES
  mask, fire_idx,        \* of each fev_event
  cbs,                   \* its callbacks that are not NULL
  firelist, fire_num,
  epoll,                 \* kernel: the interest list, {} for a descriptor not on it
  pc,                    \* where the thread is: "idle", or a point of fev_poll
  events,                \* what epoll_wait returned and is still to be handled
  call,                  \* the event whose callback runs
  removed                \* history: taken out with fev_del_event since the last clear

table == <<mask, fire_idx, cbs, firelist, fire_num, removed>>
vars == <<table, epoll, pc, events, call>>

NoCall == [fd |-> 0, ev |-> {}, reg |-> "live", was |-> "live", late |-> FALSE]

\* fev_create: calloc leaves a firelist of zeros and every fire_idx 0.
Init == /\ mask = [fd \in FD |-> {}] /\ fire_idx = [fd \in FD |-> 0]
        /\ cbs = [fd \in FD |-> {}]
        /\ firelist = [i \in FD |-> 0] /\ fire_num = 0
        /\ epoll = [fd \in FD |-> {}]
        /\ pc = "idle" /\ events = <<>> /\ call = NoCall
        /\ removed = {}

-----------------------------------------------------------------------------
(* The firelist.  Nothing checks that fire_num is in the array: the model  *)
(* ends where one removal too many would write past it.                    *)

\* (Mutant: the place is not noted.)
_fev_add_firelist_NoIdx(fd) == /\ fire_num < max_ev_size
                               /\ firelist' = [firelist EXCEPT ![fire_num] = fd]
                               /\ fire_num' = fire_num + 1
                               /\ UNCHANGED fire_idx

_fev_add_firelist(fd) == /\ fire_num < max_ev_size
                         /\ firelist' = [firelist EXCEPT ![fire_num] = fd]
                         /\ fire_idx' = [fire_idx EXCEPT ![fd] = fire_num]
                         /\ fire_num' = fire_num + 1

\* (Mutant: every descriptor passes.)
_fev_is_fired_Never(fd) == FALSE

_fev_is_fired(fd) == /\ fire_idx[fd] < fire_num
                     /\ firelist[fire_idx[fd]] = fd

\* (Mutant: the list is kept.)
_fev_clear_firelist_Not == UNCHANGED <<fire_num, removed>>

_fev_clear_firelist == fire_num' = 0 /\ removed' = {}

-----------------------------------------------------------------------------
(* What a program calls, outside of fev_poll, from a prepoll hook and from *)
(* the callbacks.                                                          *)

InRound == pc \in {"pread", "pwrite"}
InApp == pc \in {"idle", "prepoll"} \/ InRound

\* History: the registration that the events of fd belong to, those still to be
\* handled and that of the running callback, is "removed" or its descriptor "closed".
Orphan(fd, how) ==
  /\ events' = [i \in DOMAIN events |->
                  IF events[i].fd = fd /\ events[i].reg = "live"
                  THEN [events[i] EXCEPT !.reg = how] ELSE events[i]]
  /\ call' = IF InRound /\ call.fd = fd /\ call.reg = "live"
             THEN [call EXCEPT !.reg = how] ELSE call

\* fev_state_addevent: EPOLL_CTL_ADD, which wants a descriptor that is not there
\* yet, or EPOLL_CTL_MOD, which fails when it is not there, with the merged mask.
\* (Mutant: the old mask is forgotten.)
fev_state_addevent_NoMerge(fd, m) ==
  /\ mask[fd] = {} <=> epoll[fd] = {}
  /\ epoll' = [epoll EXCEPT ![fd] = m]
  /\ mask' = [mask EXCEPT ![fd] = @ \cup m]

fev_state_addevent(fd, m) ==
  /\ mask[fd] = {} <=> epoll[fd] = {}
  /\ epoll' = [epoll EXCEPT ![fd] = mask[fd] \cup m]
  /\ mask' = [mask EXCEPT ![fd] = @ \cup m]

fev_reg_event(fd, m, h) ==
  /\ InApp
  /\ m # {} /\ mask[fd] = {}
  /\ fev_state_addevent(fd, m)
  /\ cbs' = [cbs EXCEPT ![fd] = h]
  /\ UNCHANGED <<fire_idx, firelist, fire_num, removed, pc, events, call>>

fev_add_event(fd, m) ==
  /\ InApp
  /\ m # {} /\ mask[fd] # {} /\ mask[fd] # m
  /\ fev_state_addevent(fd, m)
  /\ UNCHANGED <<fire_idx, cbs, firelist, fire_num, removed, pc, events, call>>

\* fev_state_delevent: the mask is taken down whether or not epoll_ctl succeeds;
\* EPOLL_CTL_DEL or EPOLL_CTL_MOD of a descriptor that was closed fails.
Watched(fd) == epoll[fd] # {}
fev_state_delevent(fd, m) ==
  /\ mask' = [mask EXCEPT ![fd] = @ \ m]
  /\ epoll' = [epoll EXCEPT ![fd] = IF Watched(fd) THEN mask[fd] \ m ELSE {}]

\* The firelist gets a descriptor with nothing left when epoll_ctl has succeeded.
fev_del_event(fd, m) ==
  /\ InApp
  /\ m # {} /\ mask[fd] # {}
  /\ fev_state_delevent(fd, m)
  /\ IF Watched(fd) /\ mask[fd] \subseteq m
     THEN /\ _fev_add_firelist(fd)
          /\ removed' = removed \cup {fd} /\ Orphan(fd, "removed")
     ELSE UNCHANGED <<firelist, fire_idx, fire_num, removed, events, call>>
  /\ UNCHANGED <<cbs, pc>>

\* External: close(2) of a registered descriptor; "many library maybe close fd
\* first" (fev_epoll.c).  Before or after its registration it changes nothing here.
Close(fd) == /\ InApp /\ epoll[fd] # {}
             /\ epoll' = [epoll EXCEPT ![fd] = {}]
             /\ Orphan(fd, "closed")
             /\ UNCHANGED table /\ UNCHANGED pc

\* The tables and the epoll instance are released.
fev_destroy == /\ pc = "idle"
               /\ pc' = "destroyed"
               /\ epoll' = [fd \in FD |-> {}] /\ mask' = [fd \in FD |-> {}]
               /\ UNCHANGED <<fire_idx, cbs, firelist, fire_num, removed, events, call>>

-----------------------------------------------------------------------------
(* fev_poll.  in_processing is pc # "idle": a call from a hook or callback *)
(* returns -2.  The prepoll hooks run before epoll_wait; the postpoll      *)
(* hooks run after in_processing is reset, as "idle".                      *)

fev_poll == /\ pc = "idle"
            /\ _fev_clear_firelist
            /\ pc' = "prepoll"
            /\ UNCHANGED <<mask, fire_idx, cbs, firelist, epoll, events, call>>

\* What epoll_wait may report of a descriptor on the list: an error or hangup is
\* reported unasked, and what else is reported with it changes nothing.
Reports(fd) == IF epoll[fd] = {} THEN {}
               ELSE ((SUBSET epoll[fd]) \ {{}}) \cup {{"ERROR"}}

\* epoll_wait reports the descriptors of fds, in that order; none after a timeout
\* or a signal.
EpollWait(fds) ==
  /\ pc = "prepoll"
  /\ \E es \in [DOMAIN fds -> SUBSET Event] :
       /\ \A i \in DOMAIN fds : es[i] \in Reports(fds[i])
       /\ events' = [i \in DOMAIN fds |-> [fd |-> fds[i], ev |-> es[i], reg |-> "live"]]
  /\ pc' = "next"
  /\ UNCHANGED table /\ UNCHANGED <<epoll, call>>

Orders == UNION {{s \in [1..n -> FD] : \A i, j \in 1..n : s[i] = s[j] => i = j}
                  : n \in 0..max_ev_size}

\* Whether the callback cb, which is for r, is run for an event ev of fd.
Wanted(fd, ev, cb, r) == /\ cb \in cbs[fd]
                         /\ r \in mask[fd] \cap ev \/ "ERROR" \in ev

Run(cb, e, late) ==
  /\ pc' = cb
  /\ call' = [fd |-> e.fd, ev |-> e.ev, reg |-> e.reg, was |-> e.reg, late |-> late]

Skip == pc' = "next" /\ call' = NoCall

\* The next event of the round: passed over when its descriptor is in the
\* firelist, else its read callback is run, or its write callback, or neither.
ToRead(e) == ~_fev_is_fired(e.fd) /\ Wanted(e.fd, e.ev, "pread", "READ")
ToWrite(e) == ~_fev_is_fired(e.fd) /\ ~ToRead(e) /\ Wanted(e.fd, e.ev, "pwrite", "WRITE")

NextEvent ==
  LET e == Head(events)
  IN  /\ pc = "next" /\ events # <<>>
      /\ events' = Tail(events)
      /\ \/ ToRead(e) /\ Run("pread", e, FALSE)
         \/ ToWrite(e) /\ Run("pwrite", e, FALSE)
         \/ ~ToRead(e) /\ ~ToWrite(e) /\ Skip
      /\ UNCHANGED table /\ UNCHANGED epoll

\* The read callback returns.  An error is told once; else the write callback is
\* next, by the table as it is now.
ReadReturns ==
  /\ pc = "pread"
  /\ IF "ERROR" \notin call.ev /\ Wanted(call.fd, call.ev, "pwrite", "WRITE")
     THEN Run("pwrite", call, TRUE)
     ELSE Skip
  /\ UNCHANGED table /\ UNCHANGED <<epoll, events>>

WriteReturns == /\ pc = "pwrite" /\ Skip
                /\ UNCHANGED table /\ UNCHANGED <<epoll, events>>

PollReturns == /\ pc = "next" /\ events = <<>>
               /\ pc' = "idle"
               /\ UNCHANGED table /\ UNCHANGED <<epoll, events, call>>

-----------------------------------------------------------------------------
App == \E fd \in FD : \/ Close(fd)
                      \/ \E m \in SUBSET Mask :
                           \/ \E h \in Handlers[fd] : fev_reg_event(fd, m, h)
                           \/ fev_add_event(fd, m) \/ fev_del_event(fd, m)

Poll == \/ fev_poll
        \/ \E fds \in Orders : EpollWait(fds)
        \/ NextEvent \/ ReadReturns \/ WriteReturns \/ PollReturns

Next == App \/ Poll \/ fev_destroy

Spec == Init /\ [][Next]_vars

\* A program that calls fev_poll again and again, whose callbacks return, and a
\* kernel that goes on reporting a descriptor which stays readable.
FairSpec ==
  /\ Spec /\ WF_vars(Poll)
  /\ \A fd \in FD : SF_vars(/\ \E fds \in Orders : EpollWait(fds)
                            /\ \E i \in DOMAIN events' : /\ events'[i].fd = fd
                                                         /\ "READ" \in events'[i].ev)

-----------------------------------------------------------------------------
(* Properties.                                                             *)

\* Type invariant.
TypeOK == /\ mask \in [FD -> SUBSET Mask] /\ epoll \in [FD -> SUBSET Mask]
          /\ fire_idx \in [FD -> FD] /\ firelist \in [FD -> FD]
          /\ fire_num \in 0..max_ev_size
          /\ cbs \in [FD -> SUBSET {"pread", "pwrite"}]
          /\ removed \subseteq FD
          /\ pc \in {"idle", "prepoll", "next", "pread", "pwrite", "destroyed"}
          /\ events \in Seq([fd : FD, ev : (SUBSET Event) \ {{}}, reg : Owner])
          /\ call \in [fd : FD, ev : SUBSET Event, reg : Owner, was : Owner, late : BOOLEAN]

\* _fev_is_fired is true of exactly the descriptors that fev_del_event has taken
\* out since the last poll began, although neither the firelist nor the fire_idx of
\* a descriptor is ever cleaned: what earlier rounds left in them does not count,
\* and a descriptor that was removed twice is still found.
FiredExactly == \A fd \in FD : _fev_is_fired(fd) <=> fd \in removed

\* What the kernel watches a descriptor for is what fev has noted in its mask,
\* whatever is registered, widened, narrowed, closed and registered again.
InterestAgrees == \A fd \in FD : epoll[fd] # {} => mask[fd] = epoll[fd]

\* A callback never gets the event of a registration that fev_del_event has taken
\* out, be it that nobody is registered any more or that the descriptor has its next
\* owner by now.  Two ways around the firelist are left: a descriptor closed before
\* fev_del_event, which then does not list it, and a read callback that replaces its
\* own registration, after which fev_state_poll runs the new write callback without
\* another look at the firelist.
NoStaleCall == InRound /\ ~call.late => call.was # "removed"

\* A readable descriptor is not starved: removed and registered again, it is passed
\* over in that round only.
NotStarved ==
  \A fd \in FD : <>[](pc # "destroyed" /\ "READ" \in epoll[fd] /\ "pread" \in cbs[fd])
                   => []<>(pc = "pread" /\ call.fd = fd)
=============================================================================
