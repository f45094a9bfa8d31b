------------------------------ MODULE FevProofs ------------------------------
(***************************************************************************)
(* Proofs about Fev for any number of descriptors and any callbacks.       *)
(***************************************************************************)
EXTENDS Fev, SequenceTheorems, TLAPS

EventRec == [fd : FD, ev : (SUBSET Event) \ {{}}, reg : Owner]
CallRec == [fd : FD, ev : SUBSET Event, reg : Owner, was : Owner, late : BOOLEAN]

\* What NoStaleCall needs of the events that are still to come: one whose
\* registration was removed is the event of a descriptor that was removed in this
\* round, and outside of a round there are none.
StaleListed == \A i \in DOMAIN events :
                 events[i].reg = "removed" => events[i].fd \in removed

NoneBetween == pc \in {"idle", "prepoll", "destroyed"} => events = <<>>

IInv == TypeOK /\ FiredExactly /\ InterestAgrees /\ StaleListed /\ NoneBetween /\ NoStaleCall

-----------------------------------------------------------------------------
(* The operators the actions are built from.                               *)

\* Marking the events of a descriptor changes no event's descriptor, and takes a
\* registration only from "live" to how it ended.
LEMMA OrphanFacts ==
  ASSUME TypeOK, NEW fd \in FD, NEW how \in {"removed", "closed"}, Orphan(fd, how)
  PROVE  /\ events' \in Seq(EventRec) /\ call' \in CallRec
         /\ DOMAIN events' = DOMAIN events /\ Len(events') = Len(events)
         /\ \A i \in DOMAIN events :
              /\ events'[i].fd = events[i].fd
              /\ \/ events'[i].reg = events[i].reg
                 \/ events'[i].reg = how /\ events[i].fd = fd
         /\ call'.was = call.was /\ call'.late = call.late
<1>1. events \in Seq(EventRec) /\ call \in CallRec
  BY DEF TypeOK, EventRec, CallRec
<1>2. events' = [i \in 1..Len(events) |->
                  IF events[i].fd = fd /\ events[i].reg = "live"
                  THEN [events[i] EXCEPT !.reg = how] ELSE events[i]]
  BY <1>1 DEF Orphan
<1>3. \A i \in 1..Len(events) : events[i] \in EventRec
  BY <1>1
<1>4. \A i \in 1..Len(events) :
        /\ events'[i] \in EventRec
        /\ events'[i].fd = events[i].fd
        /\ \/ events'[i].reg = events[i].reg
           \/ events'[i].reg = how /\ events[i].fd = fd
  BY <1>2, <1>3 DEF EventRec, Owner
<1>5. events' \in Seq(EventRec) /\ DOMAIN events' = DOMAIN events /\ Len(events') = Len(events)
  BY <1>1, <1>2, <1>4
<1>6. call' \in CallRec /\ call'.was = call.was /\ call'.late = call.late
  BY <1>1 DEF Orphan, CallRec, Owner
<1> QED  BY <1>1, <1>4, <1>5, <1>6

\* fd is the only descriptor that _fev_add_firelist makes fired: nothing that was
\* listed is lost, and a stale fire_idx that happens to be the place it writes to
\* finds fd there.
LEMMA AddFires ==
  ASSUME TypeOK, FiredExactly, NEW fd \in FD, _fev_add_firelist(fd),
         removed' = removed \cup {fd}
  PROVE  /\ FiredExactly'
         /\ firelist' \in [FD -> FD] /\ fire_idx' \in [FD -> FD]
         /\ fire_num' \in 0..max_ev_size
<1>1. fire_num \in FD /\ fire_num' = fire_num + 1 /\ fire_num \in Nat
  BY FevAssumption DEF TypeOK, _fev_add_firelist, FD
<1>2. firelist' = [firelist EXCEPT ![fire_num] = fd]
      /\ fire_idx' = [fire_idx EXCEPT ![fd] = fire_num]
  BY DEF _fev_add_firelist
<1>3. firelist' \in [FD -> FD] /\ fire_idx' \in [FD -> FD]
  BY <1>1, <1>2 DEF TypeOK
<1>4. ASSUME NEW x \in FD  PROVE _fev_is_fired(x)' <=> x \in removed'
  <2>1. CASE x = fd
    BY <1>1, <1>2, <2>1 DEF TypeOK, _fev_is_fired
  <2>2. CASE x # fd
    <3>1. fire_idx'[x] = fire_idx[x] /\ fire_idx[x] \in FD /\ fire_idx[x] \in Nat
      BY <1>2, <2>2 DEF TypeOK, FD
    <3>2. fire_idx[x] # fire_num => firelist'[fire_idx[x]] = firelist[fire_idx[x]]
      BY <1>2, <3>1 DEF TypeOK
    <3>3. firelist'[fire_num] = fd
      BY <1>1, <1>2 DEF TypeOK
    <3>4. _fev_is_fired(x)' <=> _fev_is_fired(x)
      BY <1>1, <2>2, <3>1, <3>2, <3>3 DEF _fev_is_fired
    <3> QED  BY <2>2, <3>4 DEF FiredExactly
  <2> QED  BY <2>1, <2>2
<1>5. fire_num' \in 0..max_ev_size
  BY <1>1, FevAssumption DEF _fev_add_firelist, FD
<1> QED  BY <1>3, <1>4, <1>5 DEF FiredExactly

-----------------------------------------------------------------------------
(* Type correctness.                                                       *)

\* The type invariant holds initially.
LEMMA TypeInit == Init => TypeOK
BY FevAssumption DEF Init, TypeOK, NoCall, Owner, FD

\* What a callback is called with is an event of a descriptor.
LEMMA RunType ==
  ASSUME NEW e, e.fd \in FD, e.ev \in SUBSET Event, e.reg \in Owner,
         NEW cb \in {"pread", "pwrite"}, NEW late \in BOOLEAN, Run(cb, e, late)
  PROVE  call' \in CallRec /\ pc' \in {"pread", "pwrite"}
BY DEF Run, CallRec

\* A round that passes to the next event runs no callback.
LEMMA SkipType == Skip => call' \in CallRec /\ pc' = "next"
<1>1. 0 \in FD
  BY FevAssumption DEF FD
<1> QED  BY <1>1 DEF Skip, NoCall, CallRec, Owner

\* The next event is passed over or handed to one callback, and to none when its
\* descriptor is in the firelist.
LEMMA NextCases ==
  ASSUME NextEvent
  PROVE  /\ Skip \/ Run("pread", Head(events), FALSE) \/ Run("pwrite", Head(events), FALSE)
         /\ _fev_is_fired(Head(events).fd) => Skip
BY DEF NextEvent, ToRead, ToWrite

\* Every step keeps the type invariant.
LEMMA TypeStep == TypeOK /\ FiredExactly /\ [Next]_vars => TypeOK'
<1> SUFFICES ASSUME TypeOK, FiredExactly, [Next]_vars  PROVE TypeOK'
  OBVIOUS
<1> USE DEF EventRec, CallRec
<1>1. ASSUME NEW fd \in FD, NEW m \in SUBSET Mask, NEW h \in Handlers[fd],
             fev_reg_event(fd, m, h)
      PROVE  TypeOK'
  <2>1. h \in SUBSET {"pread", "pwrite"}
    BY <1>1, FevAssumption
  <2> QED  BY <1>1, <2>1 DEF TypeOK, fev_reg_event, fev_state_addevent
<1>2. ASSUME NEW fd \in FD, NEW m \in SUBSET Mask, fev_add_event(fd, m)  PROVE TypeOK'
  BY <1>2 DEF TypeOK, fev_add_event, fev_state_addevent
<1>3. ASSUME NEW fd \in FD, NEW m \in SUBSET Mask, fev_del_event(fd, m)  PROVE TypeOK'
  <2>1. mask' \in [FD -> SUBSET Mask] /\ epoll' \in [FD -> SUBSET Mask] /\ UNCHANGED <<cbs, pc>>
    BY <1>3 DEF TypeOK, fev_del_event, fev_state_delevent
  <2>2. CASE Watched(fd) /\ mask[fd] \subseteq m
    <3>1. _fev_add_firelist(fd) /\ removed' = removed \cup {fd} /\ Orphan(fd, "removed")
      BY <1>3, <2>2 DEF fev_del_event
    <3>2. events' \in Seq(EventRec) /\ call' \in CallRec
      BY <3>1, OrphanFacts, Zenon
    <3>3. firelist' \in [FD -> FD] /\ fire_idx' \in [FD -> FD] /\ fire_num' \in 0..max_ev_size
      BY <3>1, AddFires, Zenon
    <3> QED  BY <2>1, <3>1, <3>2, <3>3 DEF TypeOK
  <2>3. CASE ~(Watched(fd) /\ mask[fd] \subseteq m)
    BY <1>3, <2>1, <2>3 DEF TypeOK, fev_del_event
  <2> QED  BY <2>2, <2>3
<1>4. ASSUME NEW fd \in FD, Close(fd)  PROVE TypeOK'
  <2>1. events' \in Seq(EventRec) /\ call' \in CallRec
    BY <1>4, OrphanFacts, Zenon DEF Close
  <2> QED  BY <1>4, <2>1 DEF TypeOK, Close, table
<1>5. CASE fev_destroy
  BY <1>5 DEF TypeOK, fev_destroy
<1>6. CASE fev_poll
  BY <1>6, FevAssumption DEF TypeOK, fev_poll, _fev_clear_firelist
<1>7. ASSUME NEW fds \in Orders, EpollWait(fds)  PROVE TypeOK'
  <2>1. PICK n \in 0..max_ev_size : fds \in [1..n -> FD]
    BY <1>7 DEF Orders
  <2>2. PICK es \in [DOMAIN fds -> SUBSET Event] :
          /\ \A i \in DOMAIN fds : es[i] \in Reports(fds[i])
          /\ events' = [i \in DOMAIN fds |-> [fd |-> fds[i], ev |-> es[i], reg |-> "live"]]
    BY <1>7 DEF EpollWait
  <2>3. \A i \in 1..n : es[i] \in (SUBSET Event) \ {{}}
    BY <2>1, <2>2 DEF Reports, Event
  <2>4. \A i \in 1..n : [fd |-> fds[i], ev |-> es[i], reg |-> "live"] \in EventRec
    BY <2>1, <2>3 DEF Owner
  <2>5. events' = [i \in 1..n |-> [fd |-> fds[i], ev |-> es[i], reg |-> "live"]]
    BY <2>1, <2>2
  <2>6. events' \in Seq(EventRec)
    <3> HIDE DEF EventRec
    <3>1. n \in Nat /\ events' \in [1..n -> EventRec]
      BY <2>1, <2>4, <2>5, FevAssumption
    <3> QED  BY <3>1
  <2> QED  BY <1>7, <2>6 DEF TypeOK, EpollWait, table
<1>8. CASE NextEvent
  <2>1. events \in Seq(EventRec) /\ events # <<>> /\ events' = Tail(events)
    BY <1>8 DEF TypeOK, NextEvent
  <2>2. Head(events) \in EventRec /\ events' \in Seq(EventRec)
    <3> HIDE DEF EventRec
    <3> QED  BY <2>1, HeadTailProperties
  <2>3. call' \in CallRec /\ pc' \in {"next", "pread", "pwrite"}
    <3> DEFINE e == Head(events)
    <3>1. e.fd \in FD /\ e.ev \in SUBSET Event /\ e.reg \in Owner
      BY <2>2
    <3> HIDE DEF e
    <3>2. Skip \/ Run("pread", e, FALSE) \/ Run("pwrite", e, FALSE)
      BY <1>8, NextCases DEF e
    <3> QED  BY <3>1, <3>2, RunType, SkipType, Zenon
  <2> QED  BY <1>8, <2>2, <2>3 DEF TypeOK, NextEvent, table
<1>9. CASE ReadReturns
  <2>1. call.fd \in FD /\ call.ev \in SUBSET Event /\ call.reg \in Owner
    BY DEF TypeOK
  <2>2. Run("pwrite", call, TRUE) \/ Skip
    BY <1>9 DEF ReadReturns
  <2>3. call' \in CallRec /\ pc' \in {"next", "pread", "pwrite"}
    BY <2>1, <2>2, RunType, SkipType, Zenon
  <2> QED  BY <1>9, <2>3 DEF TypeOK, ReadReturns, table
<1>10. CASE WriteReturns
  <2>1. call' \in CallRec /\ pc' = "next"
    BY <1>10, SkipType DEF WriteReturns
  <2> QED  BY <1>10, <2>1 DEF TypeOK, WriteReturns, table
<1>11. CASE PollReturns
  BY <1>11 DEF TypeOK, PollReturns, table
<1>12. CASE UNCHANGED vars
  BY <1>12 DEF TypeOK, vars, table
<1> QED  BY <1>1, <1>2, <1>3, <1>4, <1>5, <1>6, <1>7, <1>8, <1>9, <1>10, <1>11, <1>12
         DEF Next, App, Poll

-----------------------------------------------------------------------------
(* The invariant, one lemma for each part.                                 *)

\* Only the removal of a descriptor and the beginning of a round touch the firelist.
LEMMA FiredStep == TypeOK /\ FiredExactly /\ [Next]_vars => FiredExactly'
<1> SUFFICES ASSUME TypeOK, FiredExactly, [Next]_vars  PROVE FiredExactly'
  OBVIOUS
<1>1. CASE UNCHANGED <<firelist, fire_idx, fire_num, removed>>
  BY <1>1 DEF FiredExactly, _fev_is_fired
<1>2. ASSUME NEW fd \in FD, NEW m \in SUBSET Mask, fev_del_event(fd, m)  PROVE FiredExactly'
  <2>1. CASE Watched(fd) /\ mask[fd] \subseteq m
    <3>1. _fev_add_firelist(fd) /\ removed' = removed \cup {fd}
      BY <1>2, <2>1 DEF fev_del_event
    <3> QED  BY <3>1, AddFires, Zenon
  <2>2. CASE ~(Watched(fd) /\ mask[fd] \subseteq m)
    BY <1>1, <1>2, <2>2 DEF fev_del_event
  <2> QED  BY <2>1, <2>2
<1>3. CASE fev_poll
  <2>1. fire_num' = 0 /\ removed' = {} /\ fire_idx' = fire_idx
    BY <1>3 DEF fev_poll, _fev_clear_firelist
  <2>2. \A fd \in FD : fire_idx[fd] \in Nat
    BY DEF TypeOK, FD
  <2> QED  BY <2>1, <2>2 DEF FiredExactly, _fev_is_fired
<1> QED  BY <1>1, <1>2, <1>3
         DEF Next, App, Poll, vars, table, fev_reg_event, fev_add_event, Close, fev_destroy,
             EpollWait, NextEvent, ReadReturns, WriteReturns, PollReturns

\* Masks and the interest list change together.
LEMMA InterestStep == TypeOK /\ InterestAgrees /\ [Next]_vars => InterestAgrees'
<1> SUFFICES ASSUME TypeOK, InterestAgrees, [Next]_vars  PROVE InterestAgrees'
  OBVIOUS
<1>1. CASE UNCHANGED <<mask, epoll>>
  BY <1>1 DEF InterestAgrees
<1>2. ASSUME NEW fd \in FD, NEW m \in SUBSET Mask, fev_state_addevent(fd, m)
      PROVE  InterestAgrees'
  BY <1>2 DEF TypeOK, InterestAgrees, fev_state_addevent
<1>3. ASSUME NEW fd \in FD, NEW m \in SUBSET Mask, fev_state_delevent(fd, m)
      PROVE  InterestAgrees'
  BY <1>3 DEF TypeOK, InterestAgrees, fev_state_delevent, Watched
<1>4. ASSUME NEW fd \in FD, Close(fd)  PROVE InterestAgrees'
  BY <1>4 DEF TypeOK, InterestAgrees, Close, table
<1>5. CASE fev_destroy
  BY <1>5 DEF InterestAgrees, fev_destroy
<1> QED  BY <1>1, <1>2, <1>3, <1>4, <1>5
         DEF Next, App, Poll, vars, table, fev_reg_event, fev_add_event, fev_del_event,
             fev_poll, EpollWait, NextEvent, ReadReturns, WriteReturns, PollReturns

\* An event becomes stale when its descriptor is listed; the list is cleared only
\* when no events are left.
LEMMA StaleStep ==
  TypeOK /\ StaleListed /\ NoneBetween /\ [Next]_vars => StaleListed' /\ NoneBetween'
<1> SUFFICES ASSUME TypeOK, StaleListed, NoneBetween, [Next]_vars
             PROVE  StaleListed' /\ NoneBetween'
  OBVIOUS
<1>0. events \in Seq(EventRec)
  BY DEF TypeOK, EventRec
<1>1. CASE UNCHANGED <<events, removed, pc>>
  BY <1>1 DEF StaleListed, NoneBetween
<1>2. ASSUME NEW fd \in FD, NEW how \in {"removed", "closed"}, Orphan(fd, how), pc' = pc,
             removed \subseteq removed', how = "removed" => fd \in removed'
      PROVE  StaleListed' /\ NoneBetween'
  <2>1. /\ events' \in Seq(EventRec)
        /\ DOMAIN events' = DOMAIN events /\ Len(events') = Len(events)
        /\ \A i \in DOMAIN events :
             /\ events'[i].fd = events[i].fd
             /\ \/ events'[i].reg = events[i].reg
                \/ events'[i].reg = how /\ events[i].fd = fd
    BY <1>2, OrphanFacts, Zenon
  <2>2. StaleListed'
    BY <1>2, <2>1 DEF StaleListed
  <2>3. events = <<>> => events' = <<>>
    BY <1>0, <2>1, EmptySeq
  <2> QED  BY <1>2, <2>2, <2>3 DEF NoneBetween
<1>3. ASSUME NEW fd \in FD, NEW m \in SUBSET Mask, fev_del_event(fd, m)
      PROVE  StaleListed' /\ NoneBetween'
  <2>1. CASE Watched(fd) /\ mask[fd] \subseteq m
    BY <1>2, <1>3, <2>1 DEF fev_del_event
  <2>2. CASE ~(Watched(fd) /\ mask[fd] \subseteq m)
    BY <1>1, <1>3, <2>2 DEF fev_del_event
  <2> QED  BY <2>1, <2>2
<1>4. ASSUME NEW fd \in FD, Close(fd)  PROVE StaleListed' /\ NoneBetween'
  BY <1>2, <1>4 DEF Close, table
<1>5. CASE fev_poll
  BY <1>5 DEF StaleListed, NoneBetween, fev_poll
<1>6. ASSUME NEW fds \in Orders, EpollWait(fds)  PROVE StaleListed' /\ NoneBetween'
  <2>1. \A i \in DOMAIN events' : events'[i].reg = "live"
    BY <1>6 DEF EpollWait
  <2> QED  BY <1>6, <2>1 DEF StaleListed, NoneBetween, EpollWait
<1>7. CASE NextEvent
  <2>1. events # <<>> /\ events' = Tail(events) /\ removed' = removed
    BY <1>7 DEF NextEvent, table
  <2>2. \A i \in DOMAIN events' : i + 1 \in DOMAIN events /\ events'[i] = events[i + 1]
    BY <1>0, <2>1, HeadTailProperties
  <2>3. pc' \in {"next", "pread", "pwrite"}
    BY <1>7 DEF NextEvent, Skip, Run
  <2> QED  BY <2>1, <2>2, <2>3 DEF StaleListed, NoneBetween
<1>8. CASE ReadReturns \/ WriteReturns
  BY <1>8 DEF StaleListed, NoneBetween, ReadReturns, WriteReturns, Run, Skip, table
<1>9. CASE PollReturns \/ fev_destroy
  BY <1>9 DEF StaleListed, NoneBetween, PollReturns, fev_destroy, table
<1> QED  BY <1>1, <1>3, <1>4, <1>5, <1>6, <1>7, <1>8, <1>9
         DEF Next, App, Poll, vars, table, fev_reg_event, fev_add_event

\* A callback is chosen for an event whose descriptor is not in the firelist, so its
\* registration was not removed.
LEMMA CallStep == IInv /\ [Next]_vars => NoStaleCall'
<1> SUFFICES ASSUME IInv, [Next]_vars  PROVE NoStaleCall'
  OBVIOUS
<1>0. TypeOK /\ FiredExactly /\ StaleListed /\ NoStaleCall
      /\ events \in Seq(EventRec)
  BY DEF IInv, TypeOK, EventRec
<1>1. CASE pc' = pc /\ call'.was = call.was /\ call'.late = call.late
  BY <1>0, <1>1 DEF NoStaleCall, InRound
<1>2. CASE pc' \notin {"pread", "pwrite"}
  BY <1>2 DEF NoStaleCall, InRound
<1>3. ASSUME NEW fd \in FD, NEW how \in {"removed", "closed"}, Orphan(fd, how), pc' = pc
      PROVE  NoStaleCall'
  BY <1>0, <1>1, <1>3, OrphanFacts, Zenon
<1>4. ASSUME NEW fd \in FD, NEW m \in SUBSET Mask, fev_del_event(fd, m)  PROVE NoStaleCall'
  BY <1>1, <1>3, <1>4 DEF fev_del_event
<1>5. ASSUME NEW fd \in FD, Close(fd)  PROVE NoStaleCall'
  BY <1>3, <1>5 DEF Close
<1>6. CASE NextEvent
  <2>1. events # <<>> /\ 1 \in DOMAIN events /\ Head(events) = events[1]
        /\ Head(events) \in EventRec
    BY <1>0, <1>6, HeadTailProperties, EmptySeq DEF NextEvent
  <2>2. Head(events).reg = "removed" => _fev_is_fired(Head(events).fd)
    <3>1. Head(events).fd \in FD
      BY <2>1 DEF EventRec
    <3> QED  BY <1>0, <2>1, <3>1 DEF StaleListed, FiredExactly
  <2>3. CASE Skip
    BY <1>2, <2>3 DEF Skip
  <2>4. CASE ~_fev_is_fired(Head(events).fd)
             /\ (Run("pread", Head(events), FALSE) \/ Run("pwrite", Head(events), FALSE))
    BY <2>2, <2>4 DEF Run, NoStaleCall
  <2> QED  BY <1>6, <2>3, <2>4, NextCases
<1>7. CASE ReadReturns
  <2>1. CASE Skip
    BY <1>2, <2>1 DEF Skip
  <2>2. CASE Run("pwrite", call, TRUE)
    BY <2>2 DEF Run, NoStaleCall
  <2> QED  BY <1>7, <2>1, <2>2 DEF ReadReturns
<1>8. CASE UNCHANGED <<pc, call>>
  BY <1>1, <1>8
<1>9. CASE WriteReturns \/ PollReturns \/ fev_destroy \/ fev_poll \/ \E fds \in Orders : EpollWait(fds)
  BY <1>2, <1>9 DEF WriteReturns, Skip, PollReturns, fev_destroy, fev_poll, EpollWait
<1> QED  BY <1>4, <1>5, <1>6, <1>7, <1>8, <1>9
         DEF Next, App, Poll, vars, fev_reg_event, fev_add_event

\* The inductive invariant.
LEMMA Inductive == Spec => []IInv
<1>1. Init => IInv
  <2> SUFFICES ASSUME Init  PROVE IInv
    OBVIOUS
  <2>1. TypeOK
    BY TypeInit
  <2>2. FiredExactly
    BY FevAssumption DEF Init, FiredExactly, _fev_is_fired, FD
  <2>3. InterestAgrees /\ StaleListed /\ NoneBetween /\ NoStaleCall
    BY DEF Init, InterestAgrees, StaleListed, NoneBetween, NoStaleCall, InRound
  <2> QED  BY <2>1, <2>2, <2>3 DEF IInv
<1>2. IInv /\ [Next]_vars => IInv'
  BY TypeStep, FiredStep, InterestStep, StaleStep, CallStep DEF IInv
<1> QED  BY <1>1, <1>2, PTL DEF Spec

-----------------------------------------------------------------------------
\* The firelist of fev.c, which is never cleaned, tells exactly the descriptors that
\* were removed since the last poll began, for a table of any size.
THEOREM FirelistExact == Spec => []FiredExactly
BY Inductive, PTL DEF IInv

\* For any number of descriptors, epoll watches a registered descriptor for what
\* fev has in its mask.
THEOREM MasksAgree == Spec => []InterestAgrees
BY Inductive, PTL DEF IInv

\* For any number of descriptors and events in a round, the callback that
\* fev_state_poll chooses for an event never serves a registration that fev_del_event
\* has removed.
THEOREM NoStaleCallback == Spec => []NoStaleCall
BY Inductive, PTL DEF IInv
=============================================================================
