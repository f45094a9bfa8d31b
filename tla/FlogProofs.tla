----------------------------- MODULE FlogProofs -----------------------------
(***************************************************************************)
(* Proofs about Flog, for every set of threads and files, every buffer     *)
(* size and all lengths of messages.  Four invariants are proved one after *)
(* the other, each with the help of those before it: Places (where the     *)
(* fetcher is and whose data it may use), Numbers (where a numbered        *)
(* message is), Times (in which order the messages were numbered) and      *)
(* Watched (that the fetcher has yet to look at what it can deliver).      *)
(***************************************************************************)
EXTENDS Flog, Integers, SequenceTheorems, WellFoundedInduction, TLAPS

Entry == Message \cup {Quit}

-----------------------------------------------------------------------------
(* Messages and sequences.                                                 *)

\* A numbered message is not THREAD_QUIT, and what it is made of.
LEMMA Entries ==
  /\ Quit \in Entry
  /\ \A m \in Entry : m # Quit => m \in Message
  /\ \A m \in Message : m \in Entry /\ m # Quit /\ m.f \in File /\ m.aid \in Nat /\ m.by \in User
  /\ \A m \in Entry : m.len \in Nat
<1>1. \A m \in Message : m # Quit
  <2>1. \A m \in Message : m.id = "FETCH_MSG" BY DEF Message
  <2>2. Quit.id = "THREAD_QUIT" BY DEF Quit
  <2>. QED BY <2>1, <2>2
<1>2. \A m \in Message : m.f \in File /\ m.aid \in Nat /\ m.by \in User /\ m.len \in Nat
  BY FlogAssumption DEF Message
<1>3. Quit.len \in Nat BY DEF Quit
<1>. QED BY <1>1, <1>2, <1>3 DEF Entry

\* The message that Number makes.
LEMMA NewMessage ==
  ASSUME NEW u \in User, NEW f \in File, NEW k \in Nat, NEW n \in Lens
  PROVE  LET m == [id |-> "FETCH_MSG", f |-> f, aid |-> k, len |-> n, by |-> u]
         IN  m \in Message /\ m.f = f /\ m.aid = k /\ m.by = u
BY DEF Message

\* The places of a sequence after Append, and after its first element is taken.
LEMMA Appended ==
  ASSUME NEW X, NEW s \in Seq(X), NEW e \in X
  PROVE  /\ Append(s, e) \in Seq(X) /\ Len(s) \in Nat /\ Len(Append(s, e)) = Len(s) + 1
         /\ \A i \in 1..Len(s) : Append(s, e)[i] = s[i]
         /\ Append(s, e)[Len(s) + 1] = e
<1>1. /\ Append(s, e) \in Seq(X) /\ Len(Append(s, e)) = Len(s) + 1
      /\ \A i \in 1..Len(s) : Append(s, e)[i] = s[i]
      /\ Append(s, e)[Len(s) + 1] = e
  BY AppendProperties
<1>2. Len(s) \in Nat BY LenProperties
<1>. QED BY <1>1, <1>2

\* What fmbuf_pop leaves: the queue without its first entry.
LEMMA Popped ==
  ASSUME NEW X, NEW s \in Seq(X), s # <<>>
  PROVE  /\ Tail(s) \in Seq(X) /\ Len(s) \in Nat /\ Len(s) >= 1 /\ Len(Tail(s)) = Len(s) - 1
         /\ s[1] \in X
         /\ \A i \in 1..Len(Tail(s)) : i + 1 \in 1..Len(s) /\ Tail(s)[i] = s[i + 1]
<1>1. Len(s) \in Nat /\ Len(s) # 0 BY LenProperties, EmptySeq
<1>2. /\ Tail(s) \in Seq(X) /\ Len(Tail(s)) = Len(s) - 1
      /\ \A i \in 1..Len(Tail(s)) : Tail(s)[i] = s[i + 1]
  BY HeadTailProperties
<1>3. s[1] \in X BY <1>1, ElementOfSeq
<1>. QED BY <1>1, <1>2, <1>3

\* The empty queue, and a queue that is not.
LEMMA Empty ==
  ASSUME NEW X
  PROVE  /\ <<>> \in Seq(X) /\ Len(<<>>) = 0
         /\ \A s \in Seq(X) : Len(s) \in Nat /\ (s # <<>> => Len(s) >= 1 /\ s[1] \in X)
<1>1. <<>> \in Seq(X) /\ Len(<<>>) = 0 BY EmptySeq
<1>2. ASSUME NEW s \in Seq(X), s # <<>> PROVE Len(s) >= 1 /\ s[1] \in X BY <1>2, Popped
<1>3. \A s \in Seq(X) : Len(s) \in Nat BY LenProperties
<1>. QED BY <1>1, <1>2, <1>3

\* A set of natural numbers has a least one.
LEMMA Least ==
  ASSUME NEW T, T \subseteq Nat, T # {}
  PROVE  \E x \in T : \A y \in T : x <= y
<1>. DEFINE R == OpToRel(<, Nat)
<1>1. IsWellFoundedOn(R, Nat) BY NatLessThanWellFounded, Zenon
<1>2. \A x, y \in Nat : y < x => <<y, x>> \in R BY DEF OpToRel
<1>. HIDE DEF R
<1>3. PICK x \in T : \A y \in T : ~(<<y, x>> \in R) BY <1>1, WFMin
<1>4. ASSUME NEW y \in T PROVE x <= y
  <2>1. x \in Nat /\ y \in Nat /\ ~(<<y, x>> \in R) BY <1>3
  <2>2. ~(y < x) BY <1>2, <2>1
  <2>. QED BY <2>1, <2>2
<1>. QED BY <1>4

-----------------------------------------------------------------------------
(* What the steps do.                                                       *)

\* The variables that a logging thread leaves to the fetcher.
others == <<fpc, cur, todo, scan, round, threads, curr_aid, out>>

\* A log call begins: the message is numbered.
Begins(u, f, len) ==
  /\ upc[u] = "idle"
  /\ \E pc \in {"seek", "push", "head"} : /\ upc' = [upc EXCEPT ![u] = pc]
                                          /\ pc = "push" => free[u] >= MaxLen
  /\ th' = [th EXCEPT ![u] = "live"]
  /\ last_aid' = [last_aid EXCEPT ![f] = @ + 1]
  /\ LET m == [id |-> "FETCH_MSG", f |-> f, aid |-> last_aid[f] + 1, len |-> len, by |-> u]
     IN  /\ umsg' = [umsg EXCEPT ![u] = m]
         /\ wrote' = [wrote EXCEPT ![f] = Append(@, m)]
  /\ UNCHANGED <<buf, free, efd, lost, others>>

\* The message gets into the buffer.
Fills(u) ==
  /\ InHand(u)
  /\ buf' = [buf EXCEPT ![u] = Append(@, umsg[u])]
  /\ free' = [free EXCEPT ![u] = @ - umsg[u].len]
  /\ umsg' = [umsg EXCEPT ![u] = Quit]
  /\ \E pc \in {"rest", "notify"} : upc' = [upc EXCEPT ![u] = pc]
  /\ UNCHANGED <<th, efd, last_aid, wrote, lost, others>>

\* It does not fit, and is lost.
Drops(u) ==
  /\ upc[u] = "push"
  /\ umsg[u].len > free[u]
  /\ lost' = [lost EXCEPT ![umsg[u].f] = @ \cup {umsg[u].aid}]
  /\ umsg' = [umsg EXCEPT ![u] = Quit]
  /\ upc' = [upc EXCEPT ![u] = "notify"]
  /\ UNCHANGED <<buf, free, th, efd, last_aid, wrote, others>>

\* The thread ends.
Ends(u) ==
  /\ upc[u] = "idle" /\ th[u] = "live"
  /\ upc' = [upc EXCEPT ![u] = "quit"]
  /\ \/ /\ buf' = [buf EXCEPT ![u] = Append(@, Quit)]
        /\ free' = [free EXCEPT ![u] = @ - Quit.len]
     \/ UNCHANGED <<buf, free>>
  /\ UNCHANGED <<umsg, th, efd, last_aid, wrote, lost, others>>

\* What is left of a call once the message is in the buffer.
Goes(u) ==
  /\ \/ upc[u] = "rest" /\ upc' = [upc EXCEPT ![u] = "notify"] /\ efd' = efd
     \/ /\ \/ upc[u] = "notify" /\ upc' = [upc EXCEPT ![u] = "idle"]
           \/ upc[u] = "quit" /\ upc' = [upc EXCEPT ![u] = "gone"]
        /\ efd' = [efd EXCEPT ![u] = (th[u] = "live")]
  /\ UNCHANGED <<buf, free, umsg, th, last_aid, wrote, lost, others>>

\* The steps of a thread are of these kinds, or a fault.
LEMMA UserKinds ==
  ASSUME NEW u \in User
  PROVE  /\ \A f \in File, len \in Lens :
              flog_writef(u, f, len) \/ flog_write(u, f, len) => Begins(u, f, len)
         /\ WritefSeek(u) \/ WritefPush(u) \/ WritePushHead(u) => Fills(u) \/ Drops(u)
         /\ QuitPush(u) => Ends(u)
         /\ WritePushRest(u) \/ WriteNotify(u) \/ QuitNotify(u) => Goes(u)
<1>. USE DEF fetcher, rounds, others, At, Goto, losses, plog_buf, thread, exit
<1>1. ASSUME NEW f \in File, NEW len \in Lens, flog_writef(u, f, len) PROVE Begins(u, f, len)
  <2>. DEFINE p == IF tail_free_size(u) >= MaxLen THEN "seek" ELSE "push"
  <2>1. p \in {"seek", "push", "head"} /\ upc' = [upc EXCEPT ![u] = p] /\ free[u] >= MaxLen
    BY <1>1 DEF flog_writef, HasRoom
  <2>. HIDE DEF p
  <2>. QED BY <1>1, <2>1, Zenon DEF flog_writef, Number, Begins
<1>2. ASSUME NEW f \in File, NEW len \in Lens, flog_write(u, f, len) PROVE Begins(u, f, len)
  BY <1>2 DEF flog_write, Number, Begins
<1>3. WritefSeek(u) => Fills(u) BY DEF WritefSeek, Push, Fills, InHand
<1>4. WritePushHead(u) => Fills(u) BY DEF WritePushHead, Push, Fills, InHand
<1>5. WritefPush(u) => Fills(u) \/ Drops(u) BY DEF WritefPush, Push, Fills, Drops, InHand
<1>6. QuitPush(u) => Ends(u) BY DEF QuitPush, Push, Ends
<1>7. WritePushRest(u) \/ WriteNotify(u) \/ QuitNotify(u) => Goes(u)
  BY DEF WritePushRest, WriteNotify, QuitNotify, Notify, Goes
<1>. QED BY <1>1, <1>2, <1>3, <1>4, <1>5, <1>6, <1>7

\* The fetcher takes a message for its file, or gives up one that is not all there.
Takes ==
  /\ cur # NoUser /\ buf[cur] # <<>> /\ First # Quit /\ InTurn
  /\ curr_aid' = [curr_aid EXCEPT ![First.f] = @ + 1]
  /\ out' = [out EXCEPT ![First.f] = Append(@, First)]
  /\ Pop(cur)
  /\ round' = (round \/ fpc = "scan")
  /\ UNCHANGED <<umsg, upc, th, efd, last_aid, wrote, lost, fpc, cur, todo, scan, threads>>

GivesUp ==
  /\ cur # NoUser /\ buf[cur] # <<>> /\ First # Quit /\ InTurn
  /\ curr_aid' = [curr_aid EXCEPT ![First.f] = @ + 1]
  /\ lost' = [lost EXCEPT ![First.f] = @ \cup {First.aid}]
  /\ cur' = NoUser
  /\ UNCHANGED <<buf, free, umsg, upc, th, efd, last_aid, wrote, fpc, todo, scan, round, threads,
                  out>>

\* No action of its own: the steps that only end a behaviour in a fault, and those
\* of the exit handler.
Aside == UNCHANGED <<last_aid, curr_aid, th, buf, free, efd, upc, umsg, threads, fpc, cur,
                     todo, scan, round, wrote, out, lost>>

\* The steps of _log_pto_fetch_msg are of these kinds, and which steps are aside.
LEMMA OtherKinds ==
  /\ _log_pto_fetch_msg => Takes \/ GivesUp \/ Aside
  /\ \A u \in User : WritefSeekPast(u) => Aside
  /\ ExitCall \/ ExitJoin \/ UNCHANGED vars => Aside
<1>. USE DEF fetcher, rounds, thread, user, exit, losses, plog_buf
<1>1. _log_pto_fetch_msg /\ Fetched => Takes BY DEF _log_pto_fetch_msg, Fetched, Turn, Takes
<1>2. _log_pto_fetch_msg /\ NotThere => GivesUp BY DEF _log_pto_fetch_msg, NotThere, Turn, GivesUp
<1>3. TmpOverrun => Aside BY DEF TmpOverrun, Aside
<1>4. \A u \in User : WritefSeekPast(u) => Aside BY DEF WritefSeekPast, Aside
<1>5. ExitCall \/ ExitJoin \/ UNCHANGED vars => Aside BY DEF ExitCall, ExitJoin, vars, Aside
<1>. QED BY <1>1, <1>2, <1>3, <1>4, <1>5 DEF _log_pto_fetch_msg

-----------------------------------------------------------------------------
(* The first invariant: where the fetcher is and whose data it may use.     *)

\* The bounds of free, which say how many bytes the buffers hold, are not needed.
Types ==
  /\ last_aid \in [File -> Nat] /\ curr_aid \in [File -> Nat]
  /\ th \in [User -> {"none", "live", "freed"}]
  /\ buf \in [User -> Seq(Entry)] /\ free \in [User -> Int]
  /\ efd \in [User -> BOOLEAN]
  /\ upc \in [User -> {"idle", "seek", "push", "head", "rest", "notify", "quit", "gone"}]
  /\ umsg \in [User -> Entry]
  /\ threads \subseteq User /\ todo \subseteq User /\ scan \subseteq User
  /\ cur \in User \cup {NoUser}
  /\ wrote \in [File -> Seq(Message)] /\ out \in [File -> Seq(Message)]
  /\ lost \in [File -> SUBSET Nat]

\* A thread without data has nothing in its buffer and no readable eventfd; one in
\* the middle of a log call has data, and one whose data is freed has ended.
Data ==
  \A u \in User : /\ th[u] # "live" => buf[u] = <<>> /\ efd[u] = FALSE
                  /\ InHand(u) \/ upc[u] \in {"rest", "notify"} => th[u] = "live"
                  /\ th[u] = "freed" => upc[u] \in {"quit", "gone"}
                  /\ InHand(u) => umsg[u] \in Message

\* THREAD_QUIT is the last thing a thread pushes.
QuitLast ==
  \A u \in User : \A i \in 1..Len(buf[u]) :
    buf[u][i] = Quit => i = Len(buf[u]) /\ upc[u] \in {"quit", "gone"}

\* The thread being processed is not among those still to be looked at, in the
\* events of the round or in the scan, so freeing it leaves no pointer behind.
Phases ==
  /\ fpc # "active" => todo = {}
  /\ fpc # "scan" => scan = {}
  /\ cur # NoUser => fpc \in {"active", "scan"} /\ cur \notin todo /\ cur \notin scan
  /\ fpc = "start" => threads = {}

Places == Types /\ Data /\ QuitLast /\ Phases /\ NoDangling

\* Nobody has written yet.
LEMMA PlacesInit == Init => Places
<1>. SUFFICES ASSUME Init PROVE Places OBVIOUS
<1>1. Types
  <2>1. <<>> \in Seq(Entry) /\ <<>> \in Seq(Message) /\ Quit \in Entry BY Empty, Entries
  <2>2. BufSize \in Int BY FlogAssumption
  <2>. QED BY <2>1, <2>2, SMT DEF Init, Types
<1>2. Data BY DEF Init, Data, InHand
<1>3. QuitLast BY Empty DEF Init, QuitLast
<1>4. Phases BY DEF Init, Phases
<1>5. NoDangling BY DEF Init, NoDangling
<1>. QED BY <1>1, <1>2, <1>3, <1>4, <1>5 DEF Places

\* A log call begins.
LEMMA PlacesBegins ==
  ASSUME Places, NEW u \in User, NEW f \in File, NEW len \in Lens, Begins(u, f, len)
  PROVE  Places'
<1>. DEFINE m == [id |-> "FETCH_MSG", f |-> f, aid |-> last_aid[f] + 1, len |-> len, by |-> u]
<1>1. /\ upc[u] = "idle"
      /\ th' = [th EXCEPT ![u] = "live"]
      /\ last_aid' = [last_aid EXCEPT ![f] = @ + 1]
      /\ umsg' = [umsg EXCEPT ![u] = m]
      /\ wrote' = [wrote EXCEPT ![f] = Append(@, m)]
      /\ UNCHANGED <<buf, free, efd, lost, fpc, cur, todo, scan, threads, curr_aid, out>>
  BY DEF Begins, others
<1>0. PICK pc \in {"seek", "push", "head"} : upc' = [upc EXCEPT ![u] = pc] BY DEF Begins
<1>2. Types BY DEF Places
<1>3. m \in Message /\ m \in Entry
  <2>1. last_aid[f] + 1 \in Nat BY <1>2 DEF Types
  <2>. QED BY <2>1, NewMessage, Entries
<1>. HIDE DEF m
<1>4. Types'
  <2>1. Append(wrote[f], m) \in Seq(Message) BY <1>2, <1>3, Appended DEF Types
  <2>2. upc' \in [User -> {"idle", "seek", "push", "head", "rest", "notify", "quit", "gone"}]
    BY <1>0, <1>2 DEF Types
  <2>3. last_aid' \in [File -> Nat] /\ th' \in [User -> {"none", "live", "freed"}]
    BY <1>1, <1>2 DEF Types
  <2>4. umsg' \in [User -> Entry] BY <1>1, <1>2, <1>3 DEF Types
  <2>5. wrote' \in [File -> Seq(Message)] BY <1>1, <1>2, <2>1 DEF Types
  <2>. QED BY <1>1, <1>2, <2>2, <2>3, <2>4, <2>5 DEF Types
<1>5. Data'
  <2>1. /\ th'[u] = "live" /\ umsg'[u] = m /\ upc'[u] \in {"seek", "push", "head"}
        /\ \A v \in User : v # u => th'[v] = th[v] /\ umsg'[v] = umsg[v] /\ upc'[v] = upc[v]
    BY <1>0, <1>1, <1>2 DEF Types
  <2>. QED BY <1>1, <1>3, <2>1 DEF Places, Data, InHand
<1>6. QuitLast' BY <1>0, <1>1, <1>2 DEF Places, QuitLast, Types
<1>7. Phases' BY <1>1 DEF Places, Phases
<1>8. NoDangling' BY <1>1, <1>2 DEF Places, NoDangling, Types
<1>. QED BY <1>4, <1>5, <1>6, <1>7, <1>8 DEF Places

\* A push by u, of a message or of THREAD_QUIT.
LEMMA PlacesPush ==
  ASSUME Places, NEW u \in User, NEW m \in Entry, th[u] = "live",
         upc[u] = "idle" \/ InHand(u),
         buf' = [buf EXCEPT ![u] = Append(@, m)], free' = [free EXCEPT ![u] = @ - m.len],
         NEW pc \in {"rest", "notify", "quit"}, upc' = [upc EXCEPT ![u] = pc],
         m = Quit => pc = "quit",
         umsg' = umsg \/ umsg' = [umsg EXCEPT ![u] = Quit],
         UNCHANGED <<th, efd, last_aid, wrote, lost, fpc, cur, todo, scan, threads, curr_aid, out>>
  PROVE  Places'
<1>1. Types BY DEF Places
<1>2. buf[u] \in Seq(Entry) /\ buf'[u] = Append(buf[u], m) BY <1>1 DEF Types
<1>3. /\ buf'[u] \in Seq(Entry) /\ Len(buf[u]) \in Nat /\ Len(buf'[u]) = Len(buf[u]) + 1
      /\ \A i \in 1..Len(buf[u]) : buf'[u][i] = buf[u][i]
      /\ buf'[u][Len(buf[u]) + 1] = m
  BY <1>2, Appended
<1>4. \A v \in User : v # u => buf'[v] = buf[v] /\ upc'[v] = upc[v] /\ umsg'[v] = umsg[v]
  BY <1>1 DEF Types
<1>5. upc'[u] = pc BY <1>1 DEF Types
<1>6. Types'
  <2>1. umsg' \in [User -> Entry]
    <3>1. umsg \in [User -> Entry] /\ Quit \in Entry BY <1>1, Entries DEF Types
    <3>2. [umsg EXCEPT ![u] = Quit] \in [User -> Entry] BY ONLY <3>1
    <3>. QED BY <3>1, <3>2
  <2>2. upc' \in [User -> {"idle", "seek", "push", "head", "rest", "notify", "quit", "gone"}]
    BY <1>1 DEF Types
  <2>3. buf' \in [User -> Seq(Entry)] BY <1>1, <1>2, <1>3 DEF Types
  <2>4. free' \in [User -> Int]
    <3>1. free[u] - m.len \in Int BY <1>1, Entries DEF Types
    <3>. QED BY <1>1, <3>1 DEF Types
  <2>. QED BY <1>1, <2>1, <2>2, <2>3, <2>4 DEF Types
<1>7. Data' BY <1>4, <1>5 DEF Places, Data, InHand
<1>8. QuitLast'
  <2>1. ASSUME NEW v \in User, NEW i \in 1..Len(buf'[v]), buf'[v][i] = Quit
        PROVE  i = Len(buf'[v]) /\ upc'[v] \in {"quit", "gone"}
    <3>1. CASE v # u BY <1>4, <2>1, <3>1 DEF Places, QuitLast
    <3>2. CASE v = u
      <4>1. \A k \in 1..Len(buf[u]) : buf[u][k] # Quit BY DEF Places, QuitLast, InHand
      <4>2. i \notin 1..Len(buf[u]) BY <1>3, <2>1, <3>2, <4>1
      <4>3. i = Len(buf[u]) + 1 BY <1>3, <2>1, <3>2, <4>2
      <4>. QED BY <1>3, <1>5, <2>1, <3>2, <4>3
    <3>. QED BY <3>1, <3>2
  <2>. QED BY <2>1 DEF QuitLast
<1>9. Phases' BY DEF Places, Phases
<1>10. NoDangling' BY DEF Places, NoDangling
<1>. QED BY <1>6, <1>7, <1>8, <1>9, <1>10 DEF Places

\* A log call puts the message it has numbered into its buffer.
LEMMA PlacesFills ==
  ASSUME Places, NEW u \in User, Fills(u)
  PROVE  Places'
<1>1. umsg[u] \in Message /\ th[u] = "live" /\ InHand(u)
  BY DEF Places, Data, Fills
<1>2. umsg[u] \in Entry /\ umsg[u] # Quit BY <1>1, Entries
<1>3. PICK pc \in {"rest", "notify"} : upc' = [upc EXCEPT ![u] = pc] BY DEF Fills
<1>. DEFINE m == umsg[u]
<1>4. /\ buf' = [buf EXCEPT ![u] = Append(@, m)] /\ free' = [free EXCEPT ![u] = @ - m.len]
      /\ umsg' = [umsg EXCEPT ![u] = Quit]
      /\ UNCHANGED <<th, efd, last_aid, wrote, lost, fpc, cur, todo, scan, threads, curr_aid, out>>
  BY DEF Fills, others
<1>5. m \in Entry /\ m # Quit /\ pc \in {"rest", "notify", "quit"} BY <1>2
<1>. HIDE DEF m
<1>. QED BY <1>1, <1>3, <1>4, <1>5, PlacesPush

\* A step of u that leaves the buffer alone.
LEMMA PlacesStays ==
  ASSUME Places, NEW u \in User,
         upc[u] \notin {"quit", "gone"} \/ upc'[u] \in {"quit", "gone"},
         NEW pc \in {"idle", "notify", "quit", "gone"}, upc' = [upc EXCEPT ![u] = pc],
         pc = "notify" => th[u] = "live", th[u] = "freed" => pc \in {"quit", "gone"},
         umsg' = umsg \/ umsg' = [umsg EXCEPT ![u] = Quit],
         efd' = efd \/ efd' = [efd EXCEPT ![u] = (th[u] = "live")],
         lost' \in [File -> SUBSET Nat],
         UNCHANGED <<buf, free, th, last_aid, wrote, fpc, cur, todo, scan, threads, curr_aid, out>>
  PROVE  Places'
<1>1. Types BY DEF Places
<1>2. /\ upc'[u] = pc
      /\ \A v \in User : v # u => /\ upc'[v] = upc[v] /\ umsg'[v] = umsg[v]
                                  /\ efd'[v] = efd[v]
      /\ efd'[u] = efd[u] \/ efd'[u] = (th[u] = "live")
  BY <1>1 DEF Types
<1>3. Types'
  <2>1. umsg' \in [User -> Entry]
    <3>1. umsg \in [User -> Entry] /\ Quit \in Entry BY <1>1, Entries DEF Types
    <3>2. [umsg EXCEPT ![u] = Quit] \in [User -> Entry] BY ONLY <3>1
    <3>. QED BY <3>1, <3>2
  <2>2. efd' \in [User -> BOOLEAN] BY <1>1 DEF Types
  <2>3. upc' \in [User -> {"idle", "seek", "push", "head", "rest", "notify", "quit", "gone"}]
    BY <1>1 DEF Types
  <2>. QED BY <1>1, <2>1, <2>2, <2>3 DEF Types
<1>4. Data'
  <2>1. ASSUME NEW v \in User
        PROVE  /\ th'[v] # "live" => buf'[v] = <<>> /\ efd'[v] = FALSE
               /\ InHand(v)' \/ upc'[v] \in {"rest", "notify"} => th'[v] = "live"
               /\ th'[v] = "freed" => upc'[v] \in {"quit", "gone"}
               /\ InHand(v)' => umsg'[v] \in Message
    <3>1. CASE v = u BY <1>2, <3>1 DEF Places, Data, InHand
    <3>2. CASE v # u BY <1>2, <3>2 DEF Places, Data, InHand
    <3>. QED BY <3>1, <3>2
  <2>. QED BY <2>1 DEF Data
<1>5. QuitLast' BY <1>2 DEF Places, QuitLast
<1>6. Phases' BY DEF Places, Phases
<1>7. NoDangling' BY DEF Places, NoDangling
<1>. QED BY <1>3, <1>4, <1>5, <1>6, <1>7 DEF Places

\* The message that is lost stays in no buffer.
LEMMA PlacesDrops ==
  ASSUME Places, NEW u \in User, Drops(u)
  PROVE  Places'
<1>1. Types /\ umsg[u] \in Message /\ th[u] = "live"
  BY DEF Places, Data, Drops, InHand
<1>2. umsg[u].f \in File /\ umsg[u].aid \in Nat BY <1>1, Entries
<1>. DEFINE m == umsg[u]
<1>3. lost' = [lost EXCEPT ![m.f] = @ \cup {m.aid}] /\ m.f \in File /\ m.aid \in Nat
  BY <1>2 DEF Drops
<1>4. lost' \in [File -> SUBSET Nat]
  <2>. HIDE DEF m
  <2>1. lost[m.f] \cup {m.aid} \in SUBSET Nat BY <1>1, <1>3 DEF Types
  <2>. QED BY <1>1, <1>3, <2>1 DEF Types
<1>5. /\ upc[u] = "push" /\ upc' = [upc EXCEPT ![u] = "notify"]
      /\ umsg' = [umsg EXCEPT ![u] = Quit] /\ efd' = efd
      /\ UNCHANGED <<buf, free, th, last_aid, wrote, fpc, cur, todo, scan, threads, curr_aid, out>>
  BY DEF Drops, others
<1>. QED BY <1>1, <1>4, <1>5, PlacesStays

\* A thread that ends announces it.
LEMMA PlacesEnds ==
  ASSUME Places, NEW u \in User, Ends(u)
  PROVE  Places'
<1>1. /\ upc[u] = "idle" /\ th[u] = "live"
      /\ upc' = [upc EXCEPT ![u] = "quit"]
      /\ UNCHANGED <<umsg, th, efd, last_aid, wrote, lost, fpc, cur, todo, scan, threads, curr_aid,
                      out>>
  BY DEF Ends, others
<1>2. CASE /\ buf' = [buf EXCEPT ![u] = Append(@, Quit)]
           /\ free' = [free EXCEPT ![u] = @ - Quit.len]
  BY <1>1, <1>2, PlacesPush, Entries
<1>3. CASE UNCHANGED <<buf, free>>
  <2>1. lost' \in [File -> SUBSET Nat] BY <1>1 DEF Places, Types
  <2>. QED BY <1>1, <1>3, <2>1, PlacesStays
<1>. QED BY <1>2, <1>3 DEF Ends

\* The end of a push, and the writes to the eventfd.
LEMMA PlacesGoes ==
  ASSUME Places, NEW u \in User, Goes(u)
  PROVE  Places'
<1>1. UNCHANGED <<buf, free, umsg, th, last_aid, wrote, lost, fpc, cur, todo, scan, threads,
                  curr_aid, out>>
  BY DEF Goes, others
<1>2. Types /\ lost' \in [File -> SUBSET Nat] BY <1>1 DEF Places, Types
<1>3. CASE upc[u] = "rest" /\ upc' = [upc EXCEPT ![u] = "notify"] /\ efd' = efd
  <2>1. th[u] = "live" BY <1>3 DEF Places, Data
  <2>. QED BY <1>1, <1>2, <1>3, <2>1, PlacesStays
<1>4. CASE /\ upc[u] = "notify" /\ upc' = [upc EXCEPT ![u] = "idle"]
           /\ efd' = [efd EXCEPT ![u] = (th[u] = "live")]
  <2>1. th[u] = "live" BY <1>4 DEF Places, Data
  <2>. QED BY <1>1, <1>2, <1>4, <2>1, PlacesStays
<1>5. CASE /\ upc[u] = "quit" /\ upc' = [upc EXCEPT ![u] = "gone"]
           /\ efd' = [efd EXCEPT ![u] = (th[u] = "live")]
  <2>1. upc'[u] = "gone" BY <1>2, <1>5 DEF Types
  <2>. QED BY <1>1, <1>2, <1>5, <2>1, PlacesStays
<1>. QED BY <1>3, <1>4, <1>5 DEF Goes

\* The fetcher goes on without touching a message.
LEMMA PlacesMove ==
  ASSUME Places,
         \/ FetcherStart \/ EpollWait \/ ActiveEnd \/ ScanEnd \/ LoopCheck \/ ProcessEnd
         \/ \E u \in User : ActiveThread(u) \/ ScanThread(u)
  PROVE  Places'
<1>. USE DEF fetcher, rounds, thread, user, plog_buf, losses
<1>1. UNCHANGED <<buf, free, umsg, upc, th, last_aid, wrote, lost, curr_aid, out>>
  BY DEF FetcherStart, EpollWait, ActiveEnd, ScanEnd, LoopCheck, ProcessEnd,
         ActiveThread, ScanThread
<1>2. \/ efd' = efd
      \/ \E u \in User : efd' = [efd EXCEPT ![u] = FALSE]
  BY DEF FetcherStart, EpollWait, ActiveEnd, ScanEnd, LoopCheck, ProcessEnd,
         ActiveThread, ScanThread
<1>3. Types BY DEF Places
<1>4. /\ threads' \subseteq User /\ todo' \subseteq User /\ scan' \subseteq User
      /\ cur' \in User \cup {NoUser}
      /\ Phases'
      /\ NoDangling'
  <2>. USE <1>3 DEF Places, Types, Phases, NoDangling
  <2>1. CASE FetcherStart BY <2>1 DEF FetcherStart
  <2>2. CASE EpollWait BY <2>2 DEF EpollWait, Ready, Data
  <2>3. CASE ActiveEnd BY <2>3 DEF ActiveEnd
  <2>4. CASE ScanEnd BY <2>4 DEF ScanEnd
  <2>5. CASE LoopCheck BY <2>5 DEF LoopCheck
  <2>6. CASE ProcessEnd BY <2>6 DEF ProcessEnd
  <2>7. ASSUME NEW u \in User, ActiveThread(u)
        PROVE  /\ threads' \subseteq User /\ todo' \subseteq User /\ scan' \subseteq User
               /\ cur' \in User \cup {NoUser}
               /\ Phases'
               /\ NoDangling'
    BY <2>7 DEF ActiveThread
  <2>8. ASSUME NEW u \in User, ScanThread(u)
        PROVE  /\ threads' \subseteq User /\ todo' \subseteq User /\ scan' \subseteq User
               /\ cur' \in User \cup {NoUser}
               /\ Phases'
               /\ NoDangling'
    BY <2>8 DEF ScanThread
  <2>. QED BY <2>1, <2>2, <2>3, <2>4, <2>5, <2>6, <2>7, <2>8
<1>5. Types' BY <1>1, <1>2, <1>3, <1>4 DEF Types
<1>6. Data' BY <1>1, <1>2, <1>3 DEF Places, Data, Types, InHand
<1>7. QuitLast' BY <1>1 DEF Places, QuitLast
<1>. QED BY <1>4, <1>5, <1>6, <1>7 DEF Places

\* The first message of cur is taken out of its buffer.
LEMMA PopEffect ==
  ASSUME Places, cur # NoUser, buf[cur] # <<>>, Pop(cur)
  PROVE  /\ cur \in User /\ First \in Entry
         /\ buf' \in [User -> Seq(Entry)] /\ free' \in [User -> Int]
         /\ \A v \in User : v # cur => buf'[v] = buf[v]
         /\ \A v \in User : free'[v] >= free[v]
         /\ Len(buf[cur]) \in Nat /\ Len(buf[cur]) >= 1
         /\ Len(buf'[cur]) = Len(buf[cur]) - 1
         /\ \A i \in 1..Len(buf'[cur]) : /\ i + 1 \in 1..Len(buf[cur])
                                         /\ buf'[cur][i] = buf[cur][i + 1]
<1>1. Types /\ cur \in User BY DEF Places, Types
<1>2. /\ buf' = [buf EXCEPT ![cur] = Tail(@)]
      /\ free' = [free EXCEPT ![cur] = @ + buf[cur][1].len]
  BY DEF Pop
<1>3. buf[cur] \in Seq(Entry) /\ buf'[cur] = Tail(buf[cur]) BY <1>1, <1>2 DEF Types
<1>4. /\ Tail(buf[cur]) \in Seq(Entry)
      /\ Len(buf[cur]) \in Nat /\ Len(buf[cur]) >= 1
      /\ Len(Tail(buf[cur])) = Len(buf[cur]) - 1
      /\ buf[cur][1] \in Entry
      /\ \A i \in 1..Len(Tail(buf[cur])) : /\ i + 1 \in 1..Len(buf[cur])
                                          /\ Tail(buf[cur])[i] = buf[cur][i + 1]
  BY <1>3, Popped
<1>5. buf' \in [User -> Seq(Entry)] BY <1>1, <1>2, <1>3, <1>4 DEF Types
<1>6. \A v \in User : v # cur => buf'[v] = buf[v] BY <1>1, <1>2 DEF Types
<1>7. free' \in [User -> Int] /\ \A v \in User : free'[v] >= free[v]
  <2>1. buf[cur][1].len \in Nat /\ free[cur] \in Int BY <1>1, <1>4, Entries DEF Types
  <2>. DEFINE n == buf[cur][1].len
  <2>2. free' = [free EXCEPT ![cur] = @ + n] BY <1>2
  <2>. HIDE DEF n
  <2>3. n \in Nat BY <2>1 DEF n
  <2>4. free \in [User -> Int] BY <1>1 DEF Types
  <2>. QED BY <1>1, <2>1, <2>2, <2>3, <2>4
<1>. QED BY <1>1, <1>3, <1>4, <1>5, <1>6, <1>7 DEF First

\* The fetcher takes the next message of its file out of a buffer.
LEMMA PlacesTakes ==
  ASSUME Places, Takes
  PROVE  Places'
<1>1. /\ cur # NoUser /\ buf[cur] # <<>> /\ First # Quit /\ Pop(cur)
      /\ curr_aid' = [curr_aid EXCEPT ![First.f] = @ + 1]
      /\ out' = [out EXCEPT ![First.f] = Append(@, First)]
      /\ UNCHANGED <<umsg, upc, th, efd, last_aid, wrote, lost, fpc, cur, todo, scan, threads>>
  BY DEF Takes
<1>2. Types BY DEF Places
<1>3. /\ cur \in User /\ First \in Entry
      /\ buf' \in [User -> Seq(Entry)] /\ free' \in [User -> Int]
      /\ \A v \in User : v # cur => buf'[v] = buf[v]
      /\ Len(buf[cur]) \in Nat /\ Len(buf[cur]) >= 1
      /\ Len(buf'[cur]) = Len(buf[cur]) - 1
      /\ \A i \in 1..Len(buf'[cur]) : i + 1 \in 1..Len(buf[cur]) /\ buf'[cur][i] = buf[cur][i + 1]
  BY <1>1, PopEffect
<1>4. First \in Message /\ First.f \in File BY <1>1, <1>3, Entries
<1>5. Types'
  <2>1. out[First.f] \in Seq(Message) BY <1>2, <1>4 DEF Types
  <2>2. Append(out[First.f], First) \in Seq(Message) BY <1>4, <2>1, Appended
  <2>3. out' \in [File -> Seq(Message)] BY <1>1, <1>2, <1>4, <2>2 DEF Types
  <2>4. curr_aid' \in [File -> Nat] BY <1>1, <1>2, <1>4 DEF Types
  <2>. QED BY <1>1, <1>2, <1>3, <2>3, <2>4 DEF Types
<1>6. Data'
  <2>1. \A v \in User : buf'[v] = buf[v] \/ th[v] = "live"
    BY <1>1, <1>3 DEF Places, Data
  <2>. QED BY <1>1, <2>1 DEF Places, Data, InHand
<1>7. QuitLast'
  <2>1. ASSUME NEW v \in User, NEW i \in 1..Len(buf'[v]), buf'[v][i] = Quit
        PROVE  i = Len(buf'[v]) /\ upc'[v] \in {"quit", "gone"}
    <3>1. CASE v # cur BY <1>1, <1>3, <2>1, <3>1 DEF Places, QuitLast
    <3>2. CASE v = cur
      <4>1. i + 1 \in 1..Len(buf[cur]) /\ buf[cur][i + 1] = Quit BY <1>3, <2>1, <3>2
      <4>2. i + 1 = Len(buf[cur]) /\ upc[cur] \in {"quit", "gone"}
        BY <1>3, <4>1 DEF Places, QuitLast
      <4>. QED BY <1>1, <1>3, <3>2, <4>2
    <3>. QED BY <3>1, <3>2
  <2>. QED BY <2>1 DEF QuitLast
<1>8. Phases' BY <1>1 DEF Places, Phases
<1>9. NoDangling' BY <1>1 DEF Places, NoDangling
<1>. QED BY <1>5, <1>6, <1>7, <1>8, <1>9 DEF Places

\* The fetcher gives up a message that is not all there, and leaves it where it is.
LEMMA PlacesGivesUp ==
  ASSUME Places, GivesUp
  PROVE  Places' /\ First \in Message /\ ~Lossless'
<1>1. /\ cur # NoUser /\ buf[cur] # <<>> /\ First # Quit
      /\ curr_aid' = [curr_aid EXCEPT ![First.f] = @ + 1]
      /\ lost' = [lost EXCEPT ![First.f] = @ \cup {First.aid}]
      /\ cur' = NoUser
      /\ UNCHANGED <<buf, free, umsg, upc, th, efd, last_aid, wrote, fpc, todo, scan, threads, out>>
  BY DEF GivesUp
<1>2. Types /\ cur \in User BY <1>1 DEF Places, Types
<1>3. First \in Message /\ First.f \in File /\ First.aid \in Nat
  <2>1. buf[cur] \in Seq(Entry) BY <1>2 DEF Types
  <2>2. First \in Entry BY <1>1, <2>1, Empty DEF First
  <2>. QED BY <1>1, <2>2, Entries
<1>. DEFINE m == First
<1>4. /\ m \in Message /\ m.f \in File /\ m.aid \in Nat
      /\ curr_aid' = [curr_aid EXCEPT ![m.f] = @ + 1]
      /\ lost' = [lost EXCEPT ![m.f] = @ \cup {m.aid}]
  BY <1>1, <1>3
<1>. HIDE DEF m
<1>5. Types' /\ ~Lossless'
  <2>1. lost[m.f] \cup {m.aid} \in SUBSET Nat BY <1>2, <1>4 DEF Types
  <2>2. lost' \in [File -> SUBSET Nat] BY <1>2, <1>4, <2>1 DEF Types
  <2>3. curr_aid' \in [File -> Nat] BY <1>2, <1>4 DEF Types
  <2>4. m.aid \in lost'[m.f] BY <1>2, <1>4 DEF Types
  <2>. QED BY <1>1, <1>2, <1>4, <2>2, <2>3, <2>4 DEF Types, Lossless
<1>6. Data' BY <1>1 DEF Places, Data, InHand
<1>7. QuitLast' BY <1>1 DEF Places, QuitLast
<1>8. Phases' BY <1>1 DEF Places, Phases
<1>9. NoDangling' BY <1>1 DEF Places, NoDangling
<1>. QED BY <1>3, <1>5, <1>6, <1>7, <1>8, <1>9 DEF Places

\* The data is freed: THREAD_QUIT was all there was in the buffer.
LEMMA PlacesQuit ==
  ASSUME Places, _log_pto_thread_quit
  PROVE  Places' /\ Len(buf[cur]) = 1 /\ upc[cur] \in {"quit", "gone"}
<1>1. /\ cur # NoUser /\ buf[cur] # <<>> /\ First = Quit /\ Pop(cur)
      /\ th' = [th EXCEPT ![cur] = "freed"] /\ efd' = [efd EXCEPT ![cur] = FALSE]
      /\ threads' = threads \ {cur} /\ cur' = NoUser
      /\ UNCHANGED <<umsg, upc, last_aid, wrote, lost, fpc, todo, scan, curr_aid, out>>
  BY DEF _log_pto_thread_quit, user, rounds, losses, Unregister
<1>2. Types BY DEF Places
<1>3. /\ cur \in User
      /\ buf' \in [User -> Seq(Entry)] /\ free' \in [User -> Int]
      /\ \A v \in User : v # cur => buf'[v] = buf[v]
      /\ Len(buf[cur]) \in Nat /\ Len(buf[cur]) >= 1
      /\ Len(buf'[cur]) = Len(buf[cur]) - 1
  BY <1>1, PopEffect
<1>4. Len(buf[cur]) = 1 /\ upc[cur] \in {"quit", "gone"}
  <2>1. 1 \in 1..Len(buf[cur]) /\ buf[cur][1] = Quit BY <1>1, <1>3 DEF First
  <2>. QED BY <1>3, <2>1 DEF Places, QuitLast
<1>5. buf'[cur] = <<>> BY <1>3, <1>4, Empty
<1>6. Types' BY <1>1, <1>2, <1>3 DEF Types
<1>7. Data'
  <2>1. /\ th'[cur] = "freed" /\ efd'[cur] = FALSE
        /\ \A v \in User : v # cur => th'[v] = th[v] /\ efd'[v] = efd[v]
    BY <1>1, <1>2, <1>3 DEF Types
  <2>. QED BY <1>1, <1>3, <1>4, <1>5, <2>1 DEF Places, Data, InHand
<1>8. QuitLast'
  <2>1. ASSUME NEW v \in User, NEW i \in 1..Len(buf'[v]), buf'[v][i] = Quit
        PROVE  i = Len(buf'[v]) /\ upc'[v] \in {"quit", "gone"}
    <3>1. v # cur BY <1>3, <1>4
    <3>2. buf'[v] = buf[v] /\ upc'[v] = upc[v] BY <1>1, <1>3, <3>1
    <3>. QED BY <2>1, <3>2 DEF Places, QuitLast
  <2>. QED BY <2>1 DEF QuitLast
<1>9. Phases' BY <1>1 DEF Places, Phases
<1>10. NoDangling' BY <1>1, <1>2, <1>3 DEF Places, NoDangling, Phases, Types
<1>. QED BY <1>4, <1>6, <1>7, <1>8, <1>9, <1>10 DEF Places

\* The exit handler touches nothing of this.
LEMMA PlacesAside == Places /\ Aside => Places'
BY DEF Places, Types, Data, InHand, QuitLast, Phases, NoDangling, Aside

\* Every step keeps Places.
LEMMA PlacesNext == Places /\ [Next]_vars => Places'
<1>. SUFFICES ASSUME Places, [Next]_vars PROVE Places' OBVIOUS
<1>1. CASE UNCHANGED vars BY <1>1, OtherKinds, PlacesAside
<1>2. CASE Next
  BY <1>2, UserKinds, OtherKinds, PlacesBegins, PlacesFills, PlacesDrops, PlacesEnds, PlacesGoes,
     PlacesMove, PlacesTakes, PlacesGivesUp, PlacesQuit, PlacesAside
  DEF Next, UserStep, _log_fetcher
<1>. QED BY <1>1, <1>2

\* What the fetcher still points to (the events of this round, the threads of this
\* scan, g_log->threads and the thread being processed) has not been freed: a
\* thread's data is freed only when THREAD_QUIT is all that is left of it.
THEOREM NothingFreedInUse == Spec => []NoDangling
<1>1. Places => NoDangling BY DEF Places
<1>. QED BY <1>1, PlacesInit, PlacesNext, PTL DEF Spec

-----------------------------------------------------------------------------
(* The second invariant: where a numbered message is.                       *)

\* wrote[f] has the messages 1, 2, 3, ... of f.
Named ==
  \A f \in File : /\ Len(wrote[f]) = last_aid[f]
                  /\ \A k \in 1..last_aid[f] : wrote[f][k].f = f /\ wrote[f][k].aid = k

\* The message m of thread u is one that has been numbered.
Known(m, u) == /\ m.aid \in 1..last_aid[m.f] /\ m = wrote[m.f][m.aid] /\ m.by = u

\* What is in the buffers and in the hands of the threads was numbered there.
Genuine ==
  \A u \in User : /\ \A i \in 1..Len(buf[u]) : buf[u][i] # Quit => Known(buf[u][i], u)
                  /\ InHand(u) => Known(umsg[u], u)

\* The file has those of the first curr_aid messages that are not lost.
Prefix == /\ Sequential
          /\ \A f \in File : curr_aid[f] <= last_aid[f] /\ lost[f] \subseteq 1..last_aid[f]

\* The others are held, or were too long.
Rest == \A f \in File : \A k \in 1..last_aid[f] :
          k > curr_aid[f] => IF k \in lost[f] THEN wrote[f][k].len > MaxLen
                                              ELSE Held(wrote[f][k])

\* The room that was checked for is there until the message is pushed.
Room == \A u \in User : upc[u] = "push" => free[u] >= MaxLen

Numbers == Named /\ Genuine /\ Prefix /\ Rest /\ Room

\* The steps that neither number nor move a message.
Quiet == /\ UNCHANGED <<last_aid, curr_aid, wrote, out, lost, buf, free, th, umsg>>
         /\ \A u \in User : /\ InHand(u)' <=> InHand(u)
                            /\ upc'[u] = "push" => upc[u] = "push"

\* A step numbers a message, pushes or drops it, pops, gives up, or is quiet.
LEMMA Kinds ==
  ASSUME Types, [Next]_vars
  PROVE  \/ \E u \in User, f \in File, len \in Lens : Begins(u, f, len)
         \/ \E u \in User : Fills(u) \/ Drops(u) \/ Ends(u)
         \/ Takes \/ GivesUp \/ _log_pto_thread_quit
         \/ Quiet
<1>1. Aside => Quiet BY DEF Aside, Quiet, InHand
<1>2. ASSUME NEW u \in User, Goes(u) PROVE Quiet
  <2>1. PICK pc \in {"notify", "idle", "gone"} : upc' = [upc EXCEPT ![u] = pc]
    BY <1>2 DEF Goes
  <2>2. /\ upc'[u] = pc /\ upc[u] \in {"rest", "notify", "quit"}
        /\ \A v \in User : v # u => upc'[v] = upc[v]
    BY <1>2, <2>1 DEF Goes, Types
  <2>. QED BY <1>2, <2>2 DEF Goes, others, Quiet, InHand
<1>3. CASE \/ FetcherStart \/ EpollWait \/ ActiveEnd \/ ScanEnd \/ LoopCheck \/ ProcessEnd
           \/ \E u \in User : ActiveThread(u) \/ ScanThread(u)
  <2>. USE DEF fetcher, rounds, thread, user, plog_buf, losses
  <2>. QED
    BY <1>3 DEF FetcherStart, EpollWait, ActiveEnd, ScanEnd, LoopCheck, ProcessEnd,
                ActiveThread, ScanThread, Quiet, InHand
<1>4. CASE UNCHANGED vars BY <1>1, <1>4, OtherKinds
<1>5. CASE Next BY <1>1, <1>2, <1>3, <1>5, UserKinds, OtherKinds DEF Next, UserStep, _log_fetcher
<1>. QED BY <1>4, <1>5

\* What a push does to the buffers, wherever it comes from.
LEMMA PushEffect ==
  ASSUME Types, NEW u \in User, NEW m \in Entry, buf' = [buf EXCEPT ![u] = Append(@, m)]
  PROVE  /\ \A v \in User : v # u => buf'[v] = buf[v]
         /\ Len(buf[u]) \in Nat /\ Len(buf'[u]) = Len(buf[u]) + 1
         /\ \A i \in 1..Len(buf[u]) : buf'[u][i] = buf[u][i]
         /\ buf'[u][Len(buf[u]) + 1] = m
<1>1. buf[u] \in Seq(Entry) /\ buf'[u] = Append(buf[u], m) BY DEF Types
<1>2. \A v \in User : v # u => buf'[v] = buf[v] BY DEF Types
<1>. QED BY <1>1, <1>2, Appended

\* What is in a buffer, in somebody's hands, and in wrote.
LEMMA Contents ==
  ASSUME Places, NEW u \in User
  PROVE  /\ Len(buf[u]) \in Nat
         /\ \A i \in 1..Len(buf[u]) : buf[u][i] # Quit => buf[u][i] \in Message
         /\ InHand(u) => umsg[u] \in Message
<1>1. buf[u] \in Seq(Entry) BY DEF Places, Types
<1>2. \A i \in 1..Len(buf[u]) : buf[u][i] \in Entry BY <1>1, ElementOfSeq
<1>3. Len(buf[u]) \in Nat BY <1>1, LenProperties
<1>4. InHand(u) => umsg[u] \in Message BY DEF Places, Data
<1>. QED BY <1>2, <1>3, <1>4, Entries

\* A number that was given out stands for a message of some thread.
LEMMA Wrote ==
  ASSUME Places, Named, NEW f \in File, NEW k \in 1..last_aid[f]
  PROVE  wrote[f][k] \in Message /\ wrote[f][k].by \in User
<1>1. wrote[f] \in Seq(Message) /\ Len(wrote[f]) = last_aid[f] BY DEF Places, Types, Named
<1>2. wrote[f][k] \in Message BY <1>1, ElementOfSeq
<1>. QED BY <1>2, Entries

\* No number has been given out.
LEMMA NumbersInit == Init => Numbers
<1>. SUFFICES ASSUME Init PROVE Numbers OBVIOUS
<1>1. \A f \in File : /\ last_aid[f] = 0 /\ curr_aid[f] = 0
                      /\ Len(wrote[f]) = 0 /\ Len(out[f]) = 0
  BY Empty DEF Init
<1>2. \A u \in User : upc[u] = "idle" /\ Len(buf[u]) = 0 BY Empty DEF Init
<1>3. Named BY <1>1 DEF Named
<1>4. Genuine
  <2>1. ASSUME NEW u \in User, NEW i \in 1..Len(buf[u]) PROVE FALSE BY <1>2
  <2>2. \A u \in User : ~InHand(u) BY <1>2 DEF InHand
  <2>. QED BY <2>1, <2>2, Zenon DEF Genuine
<1>5. Prefix
  <2>1. \A f \in File : lost[f] = {} BY DEF Init
  <2>. QED BY <1>1, <2>1 DEF Prefix, Sequential
<1>6. Rest BY <1>1 DEF Rest
<1>7. Room BY <1>2 DEF Room
<1>. QED BY <1>3, <1>4, <1>5, <1>6, <1>7 DEF Numbers

\* What a log call does to the numbers.
LEMMA BeginsEffect ==
  ASSUME Places, Named, NEW u \in User, NEW f \in File, NEW len \in Lens, Begins(u, f, len)
  PROVE  /\ upc[u] = "idle" /\ InHand(u)' /\ th'[u] = "live"
         /\ \A v \in User : v # u => upc'[v] = upc[v] /\ umsg'[v] = umsg[v] /\ th'[v] = th[v]
         /\ last_aid[f] \in Nat /\ last_aid'[f] = last_aid[f] + 1
         /\ \A g \in File : g # f => last_aid'[g] = last_aid[g] /\ wrote'[g] = wrote[g]
         /\ \A k \in 1..last_aid[f] : wrote'[f][k] = wrote[f][k]
         /\ Len(wrote'[f]) = last_aid[f] + 1
         /\ wrote'[f][last_aid[f] + 1] = umsg'[u]
         /\ umsg'[u] \in Message
         /\ umsg'[u].f = f /\ umsg'[u].aid = last_aid[f] + 1 /\ umsg'[u].by = u
         /\ UNCHANGED <<buf, free, lost, curr_aid, out>>
<1>. DEFINE m == [id |-> "FETCH_MSG", f |-> f, aid |-> last_aid[f] + 1, len |-> len, by |-> u]
<1>0. PICK pc \in {"seek", "push", "head"} : upc' = [upc EXCEPT ![u] = pc] BY DEF Begins
<1>1. /\ upc[u] = "idle"
      /\ th' = [th EXCEPT ![u] = "live"]
      /\ last_aid' = [last_aid EXCEPT ![f] = @ + 1]
      /\ umsg' = [umsg EXCEPT ![u] = m]
      /\ wrote' = [wrote EXCEPT ![f] = Append(@, m)]
      /\ UNCHANGED <<buf, free, lost, curr_aid, out>>
  BY DEF Begins, others
<1>2. Types BY DEF Places
<1>3. last_aid[f] \in Nat /\ last_aid[f] + 1 \in Nat BY <1>2 DEF Types
<1>4. m \in Message /\ m.f = f /\ m.aid = last_aid[f] + 1 /\ m.by = u BY <1>3, NewMessage
<1>. HIDE DEF m
<1>5. /\ upc'[u] = pc /\ th'[u] = "live" /\ umsg'[u] = m
      /\ \A v \in User : v # u => upc'[v] = upc[v] /\ umsg'[v] = umsg[v] /\ th'[v] = th[v]
  BY <1>0, <1>1, <1>2 DEF Types
<1>6. /\ last_aid'[f] = last_aid[f] + 1 /\ wrote'[f] = Append(wrote[f], m)
      /\ wrote[f] \in Seq(Message) /\ Len(wrote[f]) = last_aid[f]
      /\ \A g \in File : g # f => last_aid'[g] = last_aid[g] /\ wrote'[g] = wrote[g]
  BY <1>1, <1>2 DEF Types, Named
<1>7. /\ Len(Append(wrote[f], m)) = last_aid[f] + 1
      /\ \A k \in 1..last_aid[f] : Append(wrote[f], m)[k] = wrote[f][k]
      /\ Append(wrote[f], m)[last_aid[f] + 1] = m
  BY <1>4, <1>6, Appended
<1>8. InHand(u)' BY <1>5 DEF InHand
<1>. QED BY <1>1, <1>3, <1>4, <1>5, <1>6, <1>7, <1>8

\* Another thread's message stays in its hands, or not, when u takes a step.
LEMMA InHandOf ==
  ASSUME NEW v \in User, upc'[v] = upc[v]
  PROVE  InHand(v)' <=> InHand(v)
BY DEF InHand

\* A log call draws the next number of the file.
LEMMA NumbersBegins ==
  ASSUME Places, Numbers, NEW u \in User, NEW f \in File, NEW len \in Lens, Begins(u, f, len)
  PROVE  Numbers'
<1>1. /\ upc[u] = "idle" /\ InHand(u)' /\ th'[u] = "live"
      /\ \A v \in User : v # u => upc'[v] = upc[v] /\ umsg'[v] = umsg[v] /\ th'[v] = th[v]
      /\ last_aid[f] \in Nat /\ last_aid'[f] = last_aid[f] + 1
      /\ \A g \in File : g # f => last_aid'[g] = last_aid[g] /\ wrote'[g] = wrote[g]
      /\ \A k \in 1..last_aid[f] : wrote'[f][k] = wrote[f][k]
      /\ Len(wrote'[f]) = last_aid[f] + 1
      /\ wrote'[f][last_aid[f] + 1] = umsg'[u]
      /\ umsg'[u] \in Message
      /\ umsg'[u].f = f /\ umsg'[u].aid = last_aid[f] + 1 /\ umsg'[u].by = u
      /\ UNCHANGED <<buf, free, lost, curr_aid, out>>
  BY BeginsEffect DEF Numbers
<1>2. last_aid \in [File -> Nat] /\ curr_aid \in [File -> Nat] BY DEF Places, Types
<1>3. \A g \in File : \A k \in 1..last_aid'[g] :
        k \in 1..last_aid[g] \/ (g = f /\ k = last_aid[f] + 1)
  BY <1>1, <1>2
<1>4. \A g \in File : \A k \in 1..last_aid[g] :
        k \in 1..last_aid'[g] /\ wrote'[g][k] = wrote[g][k]
  <2>1. ASSUME NEW g \in File, NEW k \in 1..last_aid[g]
        PROVE  k \in 1..last_aid'[g] /\ wrote'[g][k] = wrote[g][k]
    <3>1. CASE g = f
      <4>1. k \in 1..last_aid'[f] BY <1>1, <3>1
      <4>2. wrote'[f][k] = wrote[f][k] BY <1>1, <3>1
      <4>. QED BY <3>1, <4>1, <4>2
    <3>2. CASE g # f
      <4>1. last_aid'[g] = last_aid[g] /\ wrote'[g] = wrote[g] BY <1>1, <3>2
      <4>. QED BY <4>1
    <3>. QED BY <3>1, <3>2
  <2>. QED BY <2>1
<1>5. Named'
  <2>1. ASSUME NEW g \in File PROVE Len(wrote'[g]) = last_aid'[g]
    BY <1>1 DEF Numbers, Named
  <2>2. ASSUME NEW g \in File, NEW k \in 1..last_aid'[g]
        PROVE  wrote'[g][k].f = g /\ wrote'[g][k].aid = k
    <3>1. CASE k \in 1..last_aid[g] BY <1>4, <3>1 DEF Numbers, Named
    <3>2. CASE g = f /\ k = last_aid[f] + 1 BY <1>1, <3>2
    <3>. QED BY <1>3, <3>1, <3>2
  <2>. QED BY <2>1, <2>2 DEF Named
<1>7. Genuine'
  <2>1. Known(umsg[u], u)' BY <1>1 DEF Known
  <2>2. ASSUME NEW v \in User, NEW i \in 1..Len(buf'[v]), buf'[v][i] # Quit
        PROVE  Known(buf[v][i], v)'
    <3>1. buf[v][i] \in Message /\ Known(buf[v][i], v)
      BY <1>1, <2>2, Contents DEF Numbers, Genuine
    <3>. QED BY <1>1, <1>4, <3>1, Entries DEF Known
  <2>3. ASSUME NEW v \in User, v # u, InHand(v)' PROVE Known(umsg[v], v)'
    <3>1. umsg[v] \in Message /\ Known(umsg[v], v)
      BY <1>1, <2>3, InHandOf, Contents DEF Numbers, Genuine
    <3>. QED BY <1>1, <1>4, <2>3, <3>1, Entries DEF Known
  <2>. QED BY <2>1, <2>2, <2>3 DEF Genuine
<1>8. Prefix'
  <2>1. \A g \in File : curr_aid[g] <= last_aid'[g] /\ lost[g] \subseteq 1..last_aid'[g]
    <3>1. ASSUME NEW g \in File
          PROVE  curr_aid[g] <= last_aid'[g] /\ lost[g] \subseteq 1..last_aid'[g]
      <4>1. curr_aid[g] <= last_aid[g] /\ lost[g] \subseteq 1..last_aid[g] BY DEF Numbers, Prefix
      <4>2. /\ last_aid[g] \in Nat /\ curr_aid[g] \in Nat /\ last_aid'[g] \in Nat
            /\ last_aid[g] <= last_aid'[g]
        BY <1>1, <1>2
      <4>3. 1..last_aid[g] \subseteq 1..last_aid'[g] BY <1>4
      <4>. QED BY <4>1, <4>2, <4>3
    <3>. QED BY <3>1
  <2>2. Sequential'
    <3>1. Sequential /\ \A g \in File : \A k \in 1..curr_aid[g] : k \in 1..last_aid[g]
      BY <1>2 DEF Numbers, Prefix
    <3>2. \A g \in File : \A k \in 1..curr_aid[g] : wrote'[g][k] = wrote[g][k]
      BY <1>4, <3>1
    <3>3. ASSUME NEW g \in File
          PROVE  /\ \A i \in 1..Len(out[g]) : /\ out[g][i].aid \in 1..curr_aid[g]
                                              /\ out[g][i] = wrote'[g][out[g][i].aid]
                 /\ \A i, j \in 1..Len(out[g]) : i < j => out[g][i].aid < out[g][j].aid
                 /\ \A k \in 1..curr_aid[g] :
                      k \in lost[g] \/ \E i \in 1..Len(out[g]) : out[g][i].aid = k
      BY <3>1, <3>2 DEF Sequential
    <3>. QED BY <1>1, <3>3 DEF Sequential
  <2>. QED BY <1>1, <2>1, <2>2 DEF Prefix
<1>9. Rest'
  <2>1. ASSUME NEW g \in File, NEW k \in 1..last_aid'[g], k > curr_aid'[g]
        PROVE  IF k \in lost'[g] THEN wrote'[g][k].len > MaxLen ELSE Held(wrote[g][k])'
    <3>1. CASE k \in 1..last_aid[g]
      <4>0. PICK w : w = wrote[g][k] OBVIOUS
      <4>1. w.by \in User /\ w = wrote'[g][k]
        BY <1>4, <3>1, <4>0, Wrote DEF Numbers
      <4>2. IF k \in lost[g] THEN w.len > MaxLen ELSE Held(w)
        BY <1>1, <2>1, <3>1, <4>0 DEF Numbers, Rest
      <4>3. ASSUME Held(w) PROVE Held(w)' BY <1>1, <4>1, <4>3, InHandOf DEF Held, InHand
      <4>. QED BY <1>1, <4>1, <4>2, <4>3
    <3>2. CASE g = f /\ k = last_aid[f] + 1 /\ k \notin lost[f] BY <1>1, <3>2 DEF Held
    <3>3. last_aid[f] + 1 \notin lost[f] BY <1>1 DEF Numbers, Prefix
    <3>. QED BY <1>3, <3>1, <3>2, <3>3
  <2>. QED BY <2>1 DEF Rest
<1>10. Room'
  <2>1. upc'[u] = "push" => free[u] >= MaxLen
    BY DEF Begins, Places, Types
  <2>. QED BY <1>1, <2>1 DEF Numbers, Room
<1>. QED BY <1>5, <1>7, <1>8, <1>9, <1>10 DEF Numbers

\* A push, seen from the messages that are held.
LEMMA NumbersPush ==
  ASSUME Places, Numbers, NEW u \in User, NEW m \in Entry, th[u] = "live",
         buf' = [buf EXCEPT ![u] = Append(@, m)], free' = [free EXCEPT ![u] = @ - m.len],
         InHand(u) => m = umsg[u],
         m # Quit => Known(m, u),
         ~InHand(u)', \A v \in User : v # u => upc'[v] = upc[v] /\ umsg'[v] = umsg[v],
         UNCHANGED <<th, last_aid, wrote, lost, curr_aid, out>>
  PROVE  Numbers'
<1>1. /\ \A v \in User : v # u => buf'[v] = buf[v]
      /\ Len(buf[u]) \in Nat /\ Len(buf'[u]) = Len(buf[u]) + 1
      /\ \A i \in 1..Len(buf[u]) : buf'[u][i] = buf[u][i]
      /\ buf'[u][Len(buf[u]) + 1] = m
  BY PushEffect DEF Places
<1>2. Named' BY DEF Numbers, Named
<1>3. Prefix' BY DEF Numbers, Prefix, Sequential
<1>4. Genuine'
  <2>1. ASSUME NEW v \in User, NEW i \in 1..Len(buf'[v]), buf'[v][i] # Quit
        PROVE  Known(buf[v][i], v)'
    <3>1. Known(buf'[v][i], v)
      <4>1. CASE v # u BY <1>1, <2>1, <4>1 DEF Numbers, Genuine
      <4>2. CASE v = u /\ i = Len(buf[u]) + 1 BY <1>1, <2>1, <4>2
      <4>3. CASE v = u /\ i \in 1..Len(buf[u])
        BY <1>1, <2>1, <4>3 DEF Numbers, Genuine
      <4>. QED BY <1>1, <4>1, <4>2, <4>3
    <3>. QED BY <3>1 DEF Known
  <2>2. ASSUME NEW v \in User, InHand(v)' PROVE Known(umsg[v], v)'
    <3>1. v # u /\ InHand(v) BY <2>2, InHandOf
    <3>. QED BY <3>1 DEF Numbers, Genuine, Known
  <2>. QED BY <2>1, <2>2 DEF Genuine
<1>5. Rest'
  <2>1. ASSUME NEW g \in File, NEW k \in 1..last_aid'[g], k > curr_aid'[g]
        PROVE  IF k \in lost'[g] THEN wrote'[g][k].len > MaxLen ELSE Held(wrote[g][k])'
    <3>0. PICK w : w = wrote[g][k] OBVIOUS
    <3>1. /\ IF k \in lost[g] THEN w.len > MaxLen ELSE Held(w)
          /\ w.by \in User /\ w = wrote'[g][k]
      BY <2>1, <3>0, Wrote DEF Numbers, Rest
    <3>2. ASSUME Held(w) PROVE Held(w)'
      <4>1. CASE w.by # u BY <1>1, <3>1, <3>2, <4>1, InHandOf DEF Held
      <4>2. CASE w.by = u /\ InHand(u) /\ umsg[u] = w
        <5>1. Len(buf[u]) + 1 \in 1..Len(buf'[u]) BY <1>1
        <5>. QED BY <1>1, <3>1, <4>2, <5>1 DEF Held
      <4>3. CASE w.by = u /\ \E i \in 1..Len(buf[u]) : buf[u][i] = w
        <5>1. PICK i \in 1..Len(buf[u]) : buf[u][i] = w BY <4>3
        <5>2. i \in 1..Len(buf'[u]) /\ buf'[u][i] = w BY <1>1, <5>1
        <5>. QED BY <3>1, <4>3, <5>2 DEF Held
      <4>. QED BY <3>1, <3>2, <4>1, <4>2, <4>3, SMTT(60) DEF Held
    <3>. QED BY <3>1, <3>2
  <2>. QED BY <2>1 DEF Rest
<1>6. Room'
  <2>1. \A v \in User : v # u => free'[v] = free[v] BY DEF Places, Types
  <2>2. upc'[u] # "push" BY DEF InHand
  <2>. QED BY <2>1, <2>2 DEF Numbers, Room
<1>. QED BY <1>2, <1>3, <1>4, <1>5, <1>6 DEF Numbers

\* What a thread pushes has been numbered, and is in its hands no longer.
LEMMA FillsEffect ==
  ASSUME Places, NEW u \in User, Fills(u)
  PROVE  /\ InHand(u) /\ umsg[u] \in Message /\ umsg[u] \in Entry /\ th[u] = "live"
         /\ buf' = [buf EXCEPT ![u] = Append(@, umsg[u])]
         /\ free' = [free EXCEPT ![u] = @ - umsg[u].len]
         /\ ~InHand(u)'
         /\ \A v \in User : v # u => upc'[v] = upc[v] /\ umsg'[v] = umsg[v]
         /\ UNCHANGED <<th, last_aid, wrote, lost, curr_aid, out>>
<1>1. InHand(u) /\ umsg[u] \in Message /\ th[u] = "live" BY DEF Fills, Places, Data
<1>2. PICK pc \in {"rest", "notify"} : upc' = [upc EXCEPT ![u] = pc] BY DEF Fills
<1>3. umsg' = [umsg EXCEPT ![u] = Quit] BY DEF Fills
<1>4. /\ upc'[u] = pc
      /\ \A v \in User : v # u => upc'[v] = upc[v] /\ umsg'[v] = umsg[v]
  BY <1>2, <1>3 DEF Places, Types
<1>5. ~InHand(u)' BY <1>4 DEF InHand
<1>. QED BY <1>1, <1>4, <1>5, Entries DEF Fills, others

\* The numbered message moves into the buffer.
LEMMA NumbersFills ==
  ASSUME Places, Numbers, NEW u \in User, Fills(u)
  PROVE  Numbers'
<1>. DEFINE m == umsg[u]
<1>1. /\ InHand(u) /\ m \in Entry /\ th[u] = "live"
      /\ buf' = [buf EXCEPT ![u] = Append(@, m)]
      /\ free' = [free EXCEPT ![u] = @ - m.len]
      /\ ~InHand(u)'
      /\ \A v \in User : v # u => upc'[v] = upc[v] /\ umsg'[v] = umsg[v]
      /\ UNCHANGED <<th, last_aid, wrote, lost, curr_aid, out>>
  BY FillsEffect
<1>2. Known(m, u) /\ m = umsg[u] BY <1>1 DEF Numbers, Genuine
<1>. HIDE DEF m
<1>. QED BY <1>1, <1>2, NumbersPush

\* The message that does not fit was longer than what was checked for.
LEMMA NumbersDrops ==
  ASSUME Places, Numbers, NEW u \in User, Drops(u)
  PROVE  Numbers' /\ ~Lossless'
<1>. DEFINE m == umsg[u]
<1>1. InHand(u) BY DEF Drops, InHand
<1>2. /\ m \in Message /\ Known(m, u) /\ m.f \in File /\ m.aid \in Nat /\ m.len \in Nat
      /\ m = umsg[u]
  BY <1>1, Contents, Entries DEF Numbers, Genuine
<1>3. m.aid \in 1..last_aid[m.f] /\ m = wrote[m.f][m.aid] /\ m.by = u BY <1>2 DEF Known
<1>4. m.len > MaxLen
  <2>1. free[u] >= MaxLen /\ m.len > free[u] BY DEF Drops, Numbers, Room
  <2>2. free[u] \in Int /\ MaxLen \in Int BY FlogAssumption DEF Places, Types
  <2>. QED BY <1>2, <2>1, <2>2
<1>. HIDE DEF m
<1>5. /\ lost' = [lost EXCEPT ![m.f] = @ \cup {m.aid}]
      /\ umsg' = [umsg EXCEPT ![u] = Quit]
      /\ upc' = [upc EXCEPT ![u] = "notify"]
      /\ UNCHANGED <<buf, free, th, last_aid, wrote, curr_aid, out>>
  BY <1>2 DEF Drops, others
<1>6. /\ lost'[m.f] = lost[m.f] \cup {m.aid}
      /\ \A g \in File : g # m.f => lost'[g] = lost[g]
      /\ upc'[u] = "notify"
      /\ \A v \in User : v # u => upc'[v] = upc[v] /\ umsg'[v] = umsg[v]
  BY <1>2, <1>5 DEF Places, Types
<1>7. ~InHand(u)' BY <1>6 DEF InHand
<1>8. Named' BY <1>5 DEF Numbers, Named
<1>9. Genuine'
  <2>1. \A v \in User : \A i \in 1..Len(buf[v]) : buf[v][i] # Quit => Known(buf[v][i], v)
    BY DEF Numbers, Genuine
  <2>2. ASSUME NEW v \in User, InHand(v)' PROVE Known(umsg'[v], v)
    BY <1>6, <1>7, <2>2, InHandOf DEF Numbers, Genuine
  <2>. QED BY <1>5, <2>1, <2>2 DEF Genuine, Known
<1>10. Prefix'
  <2>1. \A g \in File : lost[g] \subseteq lost'[g] BY <1>6
  <2>2. \A g \in File : curr_aid[g] <= last_aid[g] /\ lost'[g] \subseteq 1..last_aid[g]
    BY <1>3, <1>6 DEF Numbers, Prefix
  <2>3. Sequential' BY <1>5, <2>1 DEF Numbers, Prefix, Sequential
  <2>. QED BY <1>5, <2>2, <2>3 DEF Prefix
<1>11. Rest'
  <2>1. ASSUME NEW g \in File, NEW k \in 1..last_aid'[g], k > curr_aid'[g]
        PROVE  IF k \in lost'[g] THEN wrote'[g][k].len > MaxLen ELSE Held(wrote[g][k])'
    <3>0. PICK w : w = wrote[g][k] OBVIOUS
    <3>1. /\ IF k \in lost[g] THEN w.len > MaxLen ELSE Held(w)
          /\ w.by \in User /\ w = wrote'[g][k] /\ w.f = g /\ w.aid = k
      BY <1>5, <2>1, <3>0, Wrote DEF Numbers, Rest, Named
    <3>2. CASE g = m.f /\ k = m.aid BY <1>3, <1>4, <1>6, <3>0, <3>1, <3>2
    <3>3. CASE ~(g = m.f /\ k = m.aid)
      <4>1. k \in lost'[g] <=> k \in lost[g] BY <1>6, <3>3
      <4>2. w # m BY <3>1, <3>3
      <4>3. ASSUME Held(w) PROVE Held(w)'
        <5>1. CASE w.by = u BY <1>2, <1>5, <3>1, <4>2, <4>3, <5>1 DEF Held
        <5>2. CASE w.by # u BY <1>5, <1>6, <3>1, <4>3, <5>2, InHandOf DEF Held
        <5>. QED BY <5>1, <5>2
      <4>. QED BY <3>1, <4>1, <4>3
    <3>. QED BY <3>2, <3>3
  <2>. QED BY <2>1 DEF Rest
<1>12. Room' BY <1>5, <1>6 DEF Numbers, Room
<1>13. ~Lossless' BY <1>2, <1>6 DEF Lossless
<1>. QED BY <1>8, <1>9, <1>10, <1>11, <1>12, <1>13 DEF Numbers

\* A step that leaves the messages where they are.
LEMMA NumbersQuiet == Places /\ Numbers /\ Quiet => Numbers'
<1>. SUFFICES ASSUME Places, Numbers, Quiet PROVE Numbers' OBVIOUS
<1>1. Named' BY DEF Numbers, Named, Quiet
<1>2. Prefix' BY DEF Numbers, Prefix, Sequential, Quiet
<1>3. Genuine' BY DEF Numbers, Genuine, Known, Quiet
<1>4. Rest'
  <2>1. ASSUME NEW g \in File, NEW k \in 1..last_aid'[g], k > curr_aid'[g]
        PROVE  IF k \in lost'[g] THEN wrote'[g][k].len > MaxLen ELSE Held(wrote[g][k])'
    <3>1. /\ IF k \in lost[g] THEN wrote[g][k].len > MaxLen ELSE Held(wrote[g][k])
          /\ wrote[g][k].by \in User
      BY <2>1, Wrote DEF Numbers, Rest, Quiet
    <3>. QED BY <3>1 DEF Held, Quiet
  <2>. QED BY <2>1 DEF Rest
<1>5. Room' BY DEF Numbers, Room, Quiet
<1>. QED BY <1>1, <1>2, <1>3, <1>4, <1>5 DEF Numbers

\* A thread that ends holds no message.
LEMMA EndsEffect ==
  ASSUME Places, NEW u \in User, Ends(u)
  PROVE  /\ th[u] = "live" /\ ~InHand(u) /\ ~InHand(u)'
         /\ \A v \in User : v # u => upc'[v] = upc[v] /\ umsg'[v] = umsg[v]
         /\ UNCHANGED <<th, last_aid, wrote, lost, curr_aid, out>>
         /\ \/ /\ buf' = [buf EXCEPT ![u] = Append(@, Quit)]
               /\ free' = [free EXCEPT ![u] = @ - Quit.len]
            \/ Quiet
<1>1. /\ upc[u] = "idle" /\ th[u] = "live" /\ upc' = [upc EXCEPT ![u] = "quit"]
      /\ UNCHANGED <<umsg, th, last_aid, wrote, lost, curr_aid, out>>
  BY DEF Ends, others
<1>2. upc'[u] = "quit" /\ \A v \in User : v # u => upc'[v] = upc[v] BY <1>1 DEF Places, Types
<1>3. ~InHand(u) /\ ~InHand(u)' BY <1>1, <1>2 DEF InHand
<1>4. UNCHANGED <<buf, free>> => Quiet BY <1>1, <1>2, <1>3, InHandOf DEF Quiet
<1>. QED BY <1>1, <1>2, <1>3, <1>4 DEF Ends

\* THREAD_QUIT follows the messages of its thread.
LEMMA NumbersEnds ==
  ASSUME Places, Numbers, NEW u \in User, Ends(u)
  PROVE  Numbers'
BY EndsEffect, NumbersPush, NumbersQuiet, Entries

\* The message written is the next one of its file.
LEMMA TakesEffect ==
  ASSUME Places, Numbers, Takes
  PROVE  /\ cur \in User /\ First \in Message /\ First.f \in File
         /\ First.aid = curr_aid[First.f] + 1 /\ Known(First, cur)
         /\ curr_aid[First.f] \in Nat /\ curr_aid'[First.f] = curr_aid[First.f] + 1
         /\ \A g \in File : g # First.f => curr_aid'[g] = curr_aid[g] /\ out'[g] = out[g]
         /\ Len(out'[First.f]) = Len(out[First.f]) + 1 /\ Len(out[First.f]) \in Nat
         /\ \A k \in 1..Len(out[First.f]) : out'[First.f][k] = out[First.f][k]
         /\ out'[First.f][Len(out[First.f]) + 1] = First
         /\ \A v \in User : v # cur => buf'[v] = buf[v]
         /\ Len(buf[cur]) \in Nat /\ Len(buf[cur]) >= 1
         /\ Len(buf'[cur]) = Len(buf[cur]) - 1
         /\ \A i \in 1..Len(buf'[cur]) : /\ i + 1 \in 1..Len(buf[cur])
                                         /\ buf'[cur][i] = buf[cur][i + 1]
         /\ \A v \in User : free'[v] >= free[v]
         /\ UNCHANGED <<umsg, upc, th, last_aid, wrote, lost>>
<1>1. /\ cur # NoUser /\ buf[cur] # <<>> /\ First # Quit /\ InTurn /\ Pop(cur)
      /\ curr_aid' = [curr_aid EXCEPT ![First.f] = @ + 1]
      /\ out' = [out EXCEPT ![First.f] = Append(@, First)]
      /\ UNCHANGED <<umsg, upc, th, last_aid, wrote, lost>>
  BY DEF Takes
<1>2. /\ cur \in User /\ First \in Entry /\ \A v \in User : free'[v] >= free[v]
      /\ \A v \in User : v # cur => buf'[v] = buf[v]
      /\ Len(buf[cur]) \in Nat /\ Len(buf[cur]) >= 1
      /\ Len(buf'[cur]) = Len(buf[cur]) - 1
      /\ \A i \in 1..Len(buf'[cur]) : i + 1 \in 1..Len(buf[cur]) /\ buf'[cur][i] = buf[cur][i + 1]
  BY <1>1, PopEffect
<1>3. First \in Message /\ First.f \in File BY <1>1, <1>2, Entries
<1>4. First.aid = curr_aid[First.f] + 1 BY <1>1 DEF InTurn
<1>5. Known(First, cur)
  <2>1. 1 \in 1..Len(buf[cur]) /\ buf[cur][1] # Quit BY <1>1, <1>2 DEF First
  <2>. QED BY <1>2, <2>1 DEF Numbers, Genuine, First
<1>. DEFINE g == First.f
            m == First
<1>6. curr_aid[g] \in Nat /\ out[g] \in Seq(Message) BY <1>3 DEF Places, Types
<1>7. /\ curr_aid'[g] = curr_aid[g] + 1 /\ out'[g] = Append(out[g], m)
      /\ \A h \in File : h # g => curr_aid'[h] = curr_aid[h] /\ out'[h] = out[h]
  BY <1>1, <1>3 DEF Places, Types
<1>8. /\ Len(Append(out[g], m)) = Len(out[g]) + 1 /\ Len(out[g]) \in Nat
      /\ \A k \in 1..Len(out[g]) : Append(out[g], m)[k] = out[g][k]
      /\ Append(out[g], m)[Len(out[g]) + 1] = m
  BY <1>3, <1>6, Appended
<1>. QED BY <1>1, <1>2, <1>3, <1>4, <1>5, <1>6, <1>7, <1>8

\* The message whose turn it is moves into its file.
LEMMA NumbersTakes ==
  ASSUME Places, Numbers, Takes
  PROVE  Numbers'
<1>. DEFINE m == First
            g == m.f
<1>1. /\ cur \in User /\ m \in Message /\ g \in File
      /\ m.aid = curr_aid[g] + 1 /\ Known(m, cur)
      /\ curr_aid[g] \in Nat /\ curr_aid'[g] = curr_aid[g] + 1
      /\ \A h \in File : h # g => curr_aid'[h] = curr_aid[h] /\ out'[h] = out[h]
      /\ Len(out'[g]) = Len(out[g]) + 1 /\ Len(out[g]) \in Nat
      /\ \A k \in 1..Len(out[g]) : out'[g][k] = out[g][k]
      /\ out'[g][Len(out[g]) + 1] = m
      /\ \A v \in User : v # cur => buf'[v] = buf[v]
      /\ Len(buf[cur]) \in Nat /\ Len(buf[cur]) >= 1
      /\ Len(buf'[cur]) = Len(buf[cur]) - 1
      /\ \A i \in 1..Len(buf'[cur]) : i + 1 \in 1..Len(buf[cur]) /\ buf'[cur][i] = buf[cur][i + 1]
      /\ \A v \in User : free'[v] >= free[v]
      /\ UNCHANGED <<umsg, upc, th, last_aid, wrote, lost>>
  BY TakesEffect
<1>2. m = buf[cur][1] BY DEF First
<1>. HIDE DEF m
<1>3. Named' BY <1>1 DEF Numbers, Named
<1>4. Genuine'
  <2>1. ASSUME NEW v \in User, NEW i \in 1..Len(buf'[v]), buf'[v][i] # Quit
        PROVE  Known(buf[v][i], v)'
    <3>1. Known(buf'[v][i], v)
      <4>1. CASE v # cur BY <1>1, <2>1, <4>1 DEF Numbers, Genuine
      <4>2. CASE v = cur BY <1>1, <2>1, <4>2 DEF Numbers, Genuine
      <4>. QED BY <4>1, <4>2
    <3>. QED BY <1>1, <3>1 DEF Known
  <2>2. ASSUME NEW v \in User, InHand(v)' PROVE Known(umsg[v], v)'
    BY <1>1, <2>2, InHandOf DEF Numbers, Genuine, Known
  <2>. QED BY <2>1, <2>2 DEF Genuine
<1>5. Prefix'
  <2>1. /\ curr_aid[g] + 1 \in 1..last_aid[g] /\ wrote[g][curr_aid[g] + 1] = m
        /\ \A h \in File : last_aid[h] \in Nat /\ curr_aid[h] \in Nat
    BY <1>1 DEF Known, Places, Types
  <2>2. \A h \in File : curr_aid'[h] <= last_aid'[h] /\ lost'[h] \subseteq 1..last_aid'[h]
    BY <1>1, <2>1 DEF Numbers, Prefix
  <2>3. ASSUME NEW h \in File
        PROVE  /\ \A i \in 1..Len(out'[h]) : /\ out'[h][i].aid \in 1..curr_aid'[h]
                                             /\ out'[h][i] = wrote'[h][out'[h][i].aid]
               /\ \A i, j \in 1..Len(out'[h]) : i < j => out'[h][i].aid < out'[h][j].aid
               /\ \A k \in 1..curr_aid'[h] :
                    k \in lost'[h] \/ \E i \in 1..Len(out'[h]) : out'[h][i].aid = k
    <3>1. /\ \A i \in 1..Len(out[h]) : /\ out[h][i].aid \in 1..curr_aid[h]
                                       /\ out[h][i] = wrote[h][out[h][i].aid]
          /\ \A i, j \in 1..Len(out[h]) : i < j => out[h][i].aid < out[h][j].aid
          /\ \A k \in 1..curr_aid[h] :
               k \in lost[h] \/ \E i \in 1..Len(out[h]) : out[h][i].aid = k
      BY DEF Numbers, Prefix, Sequential
    <3>2. CASE h # g BY <1>1, <3>1, <3>2
    <3>3. CASE h = g
      <4>. DEFINE n == Len(out[g])
      <4>1. /\ n \in Nat /\ Len(out'[g]) = n + 1 /\ out'[g][n + 1] = m
            /\ \A i \in 1..n : out'[g][i] = out[g][i]
        BY <1>1
      <4>2. \A i \in 1..n : out[g][i].aid \in 1..curr_aid[g] BY <3>1, <3>3
      <4>3. \A i, j \in 1..n : i < j => out[g][i].aid < out[g][j].aid BY <3>1, <3>3
      <4>4. \A k \in 1..curr_aid[g] : k \in lost[g] \/ \E i \in 1..n : out[g][i].aid = k
        BY <3>1, <3>3
      <4>5. \A i \in 1..n : out[g][i] = wrote[g][out[g][i].aid] BY <3>1, <3>3
      <4>. HIDE DEF n
      <4>6. \A i \in 1..(n + 1) : i \in 1..n \/ i = n + 1 BY <4>1
      <4>7. \A k \in 1..curr_aid'[g] : k \in 1..curr_aid[g] \/ k = curr_aid[g] + 1 BY <1>1
      <4>8. ASSUME NEW i \in 1..Len(out'[g])
            PROVE  /\ out'[g][i].aid \in 1..curr_aid'[g]
                   /\ out'[g][i] = wrote'[g][out'[g][i].aid]
        <5>1. CASE i \in 1..n
          <6>1. out'[g][i] = out[g][i] /\ out[g][i].aid \in 1..curr_aid[g] BY <4>1, <4>2, <5>1
          <6>2. curr_aid[g] \in Nat /\ curr_aid'[g] = curr_aid[g] + 1 /\ wrote' = wrote BY <1>1
          <6>3. out[g][i].aid \in 1..curr_aid'[g] BY <6>1, <6>2
          <6>. QED BY <4>5, <5>1, <6>1, <6>2, <6>3
        <5>2. CASE i = n + 1 BY <1>1, <2>1, <4>1, <5>2
        <5>. QED BY <4>1, <4>6, <5>1, <5>2
      <4>9. ASSUME NEW i \in 1..Len(out'[g]), NEW j \in 1..Len(out'[g]), i < j
            PROVE  out'[g][i].aid < out'[g][j].aid
        <5>1. i \in 1..n BY <4>1, <4>9
        <5>2. CASE j \in 1..n BY <4>1, <4>3, <4>9, <5>1, <5>2
        <5>3. CASE j = n + 1
          <6>1. out'[g][i] = out[g][i] /\ out[g][i].aid \in 1..curr_aid[g] BY <4>1, <4>2, <5>1
          <6>2. curr_aid[g] \in Nat /\ out'[g][j].aid = curr_aid[g] + 1 BY <1>1, <4>1, <5>3
          <6>. QED BY <6>1, <6>2
        <5>. QED BY <4>1, <4>6, <5>2, <5>3
      <4>10. ASSUME NEW k \in 1..curr_aid'[g]
             PROVE  k \in lost'[g] \/ \E i \in 1..Len(out'[g]) : out'[g][i].aid = k
        <5>1. CASE k \in 1..curr_aid[g]
          <6>1. CASE k \in lost[g] BY <1>1, <6>1
          <6>2. CASE \E i \in 1..n : out[g][i].aid = k
            <7>1. PICK i \in 1..n : out[g][i].aid = k BY <6>2
            <7>2. i \in 1..Len(out'[g]) /\ out'[g][i].aid = k BY <4>1, <7>1
            <7>. QED BY <7>2
          <6>. QED BY <4>4, <5>1, <6>1, <6>2
        <5>2. CASE k = curr_aid[g] + 1
          <6>1. n + 1 \in 1..Len(out'[g]) /\ out'[g][n + 1].aid = k BY <1>1, <4>1, <5>2
          <6>. QED BY <6>1
        <5>. QED BY <4>7, <5>1, <5>2
      <4>. QED BY <3>3, <4>8, <4>9, <4>10
    <3>. QED BY <3>2, <3>3
  <2>4. Sequential' BY <2>3 DEF Sequential
  <2>. QED BY <2>2, <2>4 DEF Prefix
<1>6. Rest'
  <2>1. ASSUME NEW h \in File, NEW k \in 1..last_aid'[h], k > curr_aid'[h]
        PROVE  IF k \in lost'[h] THEN wrote'[h][k].len > MaxLen ELSE Held(wrote[h][k])'
    <3>0. PICK w : w = wrote[h][k] OBVIOUS
    <3>1. k \in 1..last_aid[h] /\ k > curr_aid[h] /\ (h = g => k # curr_aid[g] + 1)
      <4>1. k \in 1..last_aid[h] BY <1>1, <2>1
      <4>2. CASE h = g BY <1>1, <2>1, <4>1, <4>2
      <4>3. CASE h # g BY <1>1, <2>1, <4>1, <4>3
      <4>. QED BY <4>1, <4>2, <4>3
    <3>2. /\ IF k \in lost[h] THEN w.len > MaxLen ELSE Held(w)
          /\ w.by \in User /\ w = wrote'[h][k] /\ w.f = h /\ w.aid = k
      BY <1>1, <3>0, <3>1, Wrote DEF Numbers, Rest, Named
    <3>3. w # m BY <1>1, <3>1, <3>2
    <3>4. ASSUME Held(w) PROVE Held(w)'
      <4>1. CASE InHand(w.by) /\ umsg[w.by] = w BY <1>1, <3>2, <4>1, InHandOf DEF Held
      <4>2. CASE th[w.by] = "live" /\ \E i \in 1..Len(buf[w.by]) : buf[w.by][i] = w
        <5>1. CASE w.by # cur BY <1>1, <3>2, <4>2, <5>1, ZenonT(60) DEF Held
        <5>2. CASE w.by = cur
          <6>1. PICK i \in 1..Len(buf[cur]) : buf[cur][i] = w BY <4>2, <5>2
          <6>2. i # 1 BY <1>2, <3>3, <6>1
          <6>3. i - 1 \in 1..Len(buf'[cur]) /\ (i - 1) + 1 = i BY <1>1, <6>2
          <6>4. buf'[cur][i - 1] = w BY <1>1, <6>1, <6>3
          <6>. QED BY <1>1, <3>2, <4>2, <5>2, <6>3, <6>4 DEF Held
        <5>. QED BY <5>1, <5>2
      <4>. QED BY <3>4, <4>1, <4>2 DEF Held
    <3>. QED BY <1>1, <3>2, <3>4
  <2>. QED BY <2>1 DEF Rest
<1>7. Room'
  <2>1. \A v \in User : free[v] \in Int /\ free'[v] \in Int /\ MaxLen \in Int
    <3>1. free' \in [User -> Int] BY PopEffect DEF Takes
    <3>. QED BY <3>1, FlogAssumption DEF Places, Types
  <2>2. \A v \in User : free'[v] >= free[v] BY <1>1
  <2>3. ASSUME NEW v \in User, upc'[v] = "push" PROVE free'[v] >= MaxLen
    <3>1. free[v] >= MaxLen BY <1>1, <2>3 DEF Numbers, Room
    <3>. QED BY <2>1, <2>2, <3>1
  <2>. QED BY <2>3 DEF Room
<1>. QED BY <1>3, <1>4, <1>5, <1>6, <1>7 DEF Numbers

\* The message that is given up has had its turn, and stays where it was.
LEMMA NumbersGivesUp ==
  ASSUME Places, Numbers, GivesUp
  PROVE  Numbers'
<1>. DEFINE m == First
<1>1. /\ cur \in User /\ m \in Message /\ Known(m, cur) /\ m.aid = curr_aid[m.f] + 1
  <2>1. cur \in User /\ cur # NoUser /\ buf[cur] # <<>> /\ First # Quit /\ InTurn
    BY DEF GivesUp, Places, Types
  <2>2. buf[cur] \in Seq(Entry) /\ Len(buf[cur]) \in Nat BY <2>1, Contents DEF Places, Types
  <2>3. Len(buf[cur]) # 0 BY <2>1, <2>2, EmptySeq
  <2>4. 1 \in 1..Len(buf[cur]) BY <2>2, <2>3
  <2>. QED BY <2>1, <2>4, Contents DEF First, InTurn, Numbers, Genuine
<1>2. m.f \in File /\ m.aid \in Nat /\ m.aid \in 1..last_aid[m.f] BY <1>1, Entries DEF Known
<1>3. /\ curr_aid' = [curr_aid EXCEPT ![m.f] = @ + 1]
      /\ lost' = [lost EXCEPT ![m.f] = @ \cup {m.aid}]
      /\ UNCHANGED <<buf, free, umsg, upc, th, last_aid, wrote, out>>
  BY DEF GivesUp
<1>. DEFINE g == m.f
<1>. HIDE DEF m
<1>4. /\ curr_aid[g] \in Nat /\ curr_aid'[g] = curr_aid[g] + 1 /\ g \in File
      /\ lost'[g] = lost[g] \cup {curr_aid[g] + 1} /\ curr_aid[g] + 1 \in 1..last_aid[g]
      /\ \A h \in File : h # g => curr_aid'[h] = curr_aid[h] /\ lost'[h] = lost[h]
      /\ \A h \in File : curr_aid[h] \in Nat /\ last_aid[h] \in Nat
  BY <1>1, <1>2, <1>3 DEF Places, Types
<1>. HIDE DEF g
<1>5. Named' BY <1>3 DEF Numbers, Named
<1>6. Genuine'
  <2>1. \A v \in User : InHand(v)' <=> InHand(v) BY <1>3, InHandOf
  <2>. QED BY <1>3, <2>1 DEF Numbers, Genuine, Known
<1>7. Prefix'
  <2>1. \A h \in File : curr_aid'[h] <= last_aid'[h] /\ lost'[h] \subseteq 1..last_aid'[h]
    BY <1>3, <1>4 DEF Numbers, Prefix
  <2>2. ASSUME NEW h \in File
        PROVE  /\ \A i \in 1..Len(out[h]) : /\ out[h][i].aid \in 1..curr_aid'[h]
                                            /\ out[h][i] = wrote[h][out[h][i].aid]
               /\ \A i, j \in 1..Len(out[h]) : i < j => out[h][i].aid < out[h][j].aid
               /\ \A k \in 1..curr_aid'[h] :
                    k \in lost'[h] \/ \E i \in 1..Len(out[h]) : out[h][i].aid = k
    <3>1. /\ \A i \in 1..Len(out[h]) : /\ out[h][i].aid \in 1..curr_aid[h]
                                       /\ out[h][i] = wrote[h][out[h][i].aid]
          /\ \A i, j \in 1..Len(out[h]) : i < j => out[h][i].aid < out[h][j].aid
          /\ \A k \in 1..curr_aid[h] :
               k \in lost[h] \/ \E i \in 1..Len(out[h]) : out[h][i].aid = k
      BY DEF Numbers, Prefix, Sequential
    <3>2. CASE h # g BY <1>4, <3>1, <3>2
    <3>3. CASE h = g
      <4>1. \A k \in 1..curr_aid'[g] : k \in 1..curr_aid[g] \/ k \in lost'[g] BY <1>4
      <4>2. \A i \in 1..Len(out[g]) : out[g][i].aid \in 1..curr_aid'[g] BY <1>4, <3>1, <3>3
      <4>3. lost[g] \subseteq lost'[g] BY <1>4
      <4>. QED BY <3>1, <3>3, <4>1, <4>2, <4>3
    <3>. QED BY <3>2, <3>3
  <2>3. Sequential' BY <1>3, <2>2 DEF Sequential
  <2>. QED BY <2>1, <2>3 DEF Prefix
<1>8. Rest'
  <2>1. ASSUME NEW h \in File, NEW k \in 1..last_aid'[h], k > curr_aid'[h]
        PROVE  IF k \in lost'[h] THEN wrote'[h][k].len > MaxLen ELSE Held(wrote[h][k])'
    <3>1. k \in 1..last_aid[h] /\ k > curr_aid[h] /\ (k \in lost'[h] <=> k \in lost[h])
      <4>1. k \in 1..last_aid[h] /\ k \in Nat BY <1>3, <1>4, <2>1
      <4>2. CASE h = g BY <1>4, <2>1, <4>1, <4>2
      <4>3. CASE h # g BY <1>4, <2>1, <4>1, <4>3
      <4>. QED BY <4>1, <4>2, <4>3
    <3>2. /\ IF k \in lost[h] THEN wrote[h][k].len > MaxLen ELSE Held(wrote[h][k])
          /\ wrote[h][k].by \in User
      BY <3>1, Wrote DEF Numbers, Rest
    <3>. QED BY <1>3, <3>1, <3>2, InHandOf DEF Held
  <2>. QED BY <2>1 DEF Rest
<1>9. Room' BY <1>3 DEF Numbers, Room
<1>. QED BY <1>5, <1>6, <1>7, <1>8, <1>9 DEF Numbers


\* The data of a thread is freed when no message is left in it.
LEMMA NumbersQuit ==
  ASSUME Places, Numbers, _log_pto_thread_quit
  PROVE  Numbers'
<1>1. /\ cur # NoUser /\ buf[cur] # <<>> /\ First = Quit /\ Pop(cur)
      /\ th' = [th EXCEPT ![cur] = "freed"]
      /\ UNCHANGED <<umsg, upc, last_aid, wrote, lost, curr_aid, out>>
  BY DEF _log_pto_thread_quit, user, losses
<1>2. Len(buf[cur]) = 1 /\ upc[cur] \in {"quit", "gone"} BY PlacesQuit
<1>3. /\ cur \in User /\ Len(buf'[cur]) = Len(buf[cur]) - 1
      /\ \A v \in User : v # cur => buf'[v] = buf[v]
      /\ free' \in [User -> Int] /\ \A v \in User : free'[v] >= free[v]
  BY <1>1, PopEffect
<1>4. \A v \in User : v # cur => th'[v] = th[v] BY <1>1, <1>3 DEF Places, Types
<1>5. Named' BY <1>1 DEF Numbers, Named
<1>6. Prefix' BY <1>1 DEF Numbers, Prefix, Sequential
<1>7. Genuine'
  <2>1. ASSUME NEW v \in User, NEW i \in 1..Len(buf'[v]), buf'[v][i] # Quit
        PROVE  Known(buf[v][i], v)'
    <3>1. v # cur BY <1>2, <1>3
    <3>. QED BY <1>1, <1>3, <2>1, <3>1 DEF Numbers, Genuine, Known
  <2>2. ASSUME NEW v \in User, InHand(v)' PROVE Known(umsg[v], v)'
    BY <1>1, <2>2, InHandOf DEF Numbers, Genuine, Known
  <2>. QED BY <2>1, <2>2 DEF Genuine
<1>8. Rest'
  <2>1. ASSUME NEW h \in File, NEW k \in 1..last_aid'[h], k > curr_aid'[h]
        PROVE  IF k \in lost'[h] THEN wrote'[h][k].len > MaxLen ELSE Held(wrote[h][k])'
    <3>0. PICK w : w = wrote[h][k] OBVIOUS
    <3>1. /\ IF k \in lost[h] THEN w.len > MaxLen ELSE Held(w)
          /\ w.by \in User /\ w = wrote'[h][k] /\ w \in Message
      BY <1>1, <2>1, <3>0, Wrote DEF Numbers, Rest
    <3>2. ASSUME Held(w) PROVE Held(w)'
      <4>1. w.by # cur
        <5>1. buf[cur][1] = Quit /\ w # Quit BY <1>1, <3>1, Entries DEF First
        <5>2. \A i \in 1..Len(buf[cur]) : i = 1 BY <1>2
        <5>3. ~InHand(cur) BY <1>2 DEF InHand
        <5>. QED BY <3>1, <3>2, <5>1, <5>2, <5>3 DEF Held
      <4>. QED BY <1>1, <1>3, <1>4, <3>1, <3>2, <4>1, InHandOf DEF Held
    <3>. QED BY <1>1, <3>1, <3>2
  <2>. QED BY <2>1 DEF Rest
<1>9. Room'
  <2>1. \A v \in User : free[v] \in Int /\ free'[v] \in Int /\ MaxLen \in Int
    BY <1>3, FlogAssumption DEF Places, Types
  <2>2. ASSUME NEW v \in User, upc'[v] = "push" PROVE free'[v] >= MaxLen
    <3>1. free[v] >= MaxLen /\ free'[v] >= free[v] BY <1>1, <1>3, <2>2 DEF Numbers, Room
    <3>. QED BY <2>1, <3>1
  <2>. QED BY <2>2 DEF Room
<1>. QED BY <1>5, <1>6, <1>7, <1>8, <1>9 DEF Numbers

\* Every step keeps Numbers.
LEMMA NumbersNext == Places /\ Numbers /\ [Next]_vars => Numbers'
<1>. SUFFICES ASSUME Places, Numbers, [Next]_vars PROVE Numbers' OBVIOUS
<1>1. Types BY DEF Places
<1>. QED BY <1>1, Kinds, NumbersBegins, NumbersFills, NumbersDrops, NumbersEnds, NumbersTakes,
            NumbersGivesUp, NumbersQuit, NumbersQuiet

\* Places and Numbers hold in every behaviour.
LEMMA NumbersAlways == Spec => [](Places /\ Numbers)
BY PlacesInit, PlacesNext, NumbersInit, NumbersNext, PTL DEF Spec

\* A file gets its messages in the order in which the log calls numbered them,
\* across any number of threads, none twice, and none left out but those whose
\* content was not there when their turn came.
THEOREM FilesInOrder == Spec => []Sequential
<1>1. Numbers => Sequential BY DEF Numbers, Prefix
<1>. QED BY <1>1, NumbersAlways, PTL

\* A message that has a number and has not had its turn is still held, by its thread
\* or by a buffer that has not been freed, however threads end and start; if its
\* push failed, it was longer than the room checked for.
THEOREM MessagesHeld == Spec => []NoneLost
<1>1. Places /\ Numbers => NoneLost
  <2>. SUFFICES ASSUME Places, Numbers, NEW f \in File,
                       NEW k \in (curr_aid[f] + 1)..Len(wrote[f])
                PROVE  IF k \in lost[f] THEN wrote[f][k].len > MaxLen ELSE Held(wrote[f][k])
    BY DEF NoneLost
  <2>1. Len(wrote[f]) = last_aid[f] /\ curr_aid[f] \in Nat /\ last_aid[f] \in Nat
    BY DEF Places, Types, Numbers, Named
  <2>2. k \in 1..last_aid[f] /\ k > curr_aid[f] BY <2>1
  <2>. QED BY <2>2 DEF Numbers, Rest
<1>. QED BY <1>1, NumbersAlways, PTL

-----------------------------------------------------------------------------
(* The third invariant: the numbers were given out one after the other.     *)

When(t, m) == t[m.f][m.aid]

\* t gives every number the time at which it was given out, before n: the numbers of
\* a file and the messages of a buffer are in the order of time, and the message
\* a thread is about to push is later than those in its buffer.
Ordered(t, n) ==
  /\ \A f \in File : \A k \in 1..last_aid[f] : t[f][k] < n
  /\ \A f \in File : \A j, k \in 1..last_aid[f] : j < k => t[f][j] < t[f][k]
  /\ \A u \in User : \A i, j \in 1..Len(buf[u]) :
       i < j /\ buf[u][j] # Quit => When(t, buf[u][i]) < When(t, buf[u][j])
  /\ \A u \in User : InHand(u) =>
       \A i \in 1..Len(buf[u]) : When(t, buf[u][i]) < When(t, umsg[u])

\* What is in a buffer, or about to be pushed, has not had its turn.
Ahead ==
  \A u \in User : /\ \A i \in 1..Len(buf[u]) :
                       buf[u][i] # Quit => buf[u][i].aid > curr_aid[buf[u][i].f]
                  /\ InHand(u) => umsg[u].aid > curr_aid[umsg[u].f]

Clock == [File -> [Nat -> Nat]]
Times == (Lossless => Ahead) /\ \E t \in Clock, n \in Nat : Ordered(t, n)

\* Any clock will do before the first message.
LEMMA TimesInit == Init => Times
<1>. SUFFICES ASSUME Init PROVE Times OBVIOUS
<1>1. \A f \in File : last_aid[f] = 0 BY DEF Init
<1>2. \A u \in User : upc[u] = "idle" /\ Len(buf[u]) = 0 BY Empty DEF Init
<1>3. \A u \in User : ~InHand(u) /\ \A i \in 1..Len(buf[u]) : FALSE
  <2>1. ASSUME NEW u \in User, NEW i \in 1..Len(buf[u]) PROVE FALSE BY <1>2
  <2>2. \A u \in User : ~InHand(u) BY <1>2 DEF InHand
  <2>. QED BY <2>1, <2>2, Zenon
<1>4. \A f \in File : \A k \in 1..last_aid[f] : FALSE BY <1>1
<1>5. Ahead BY <1>3, Zenon DEF Ahead
<1>. DEFINE t == [f \in File |-> [k \in Nat |-> 0]]
<1>6. t \in Clock /\ 0 \in Nat BY DEF Clock
<1>. HIDE DEF t
<1>7. Ordered(t, 0) BY <1>3, <1>4, Zenon DEF Ordered
<1>. QED BY <1>5, <1>6, <1>7 DEF Times

\* Before a THREAD_QUIT there are only messages, and only messages before a push.
LEMMA OnlyMessages ==
  ASSUME Places, Numbers, NEW u \in User, NEW i \in 1..Len(buf[u]),
         \/ \E j \in 1..Len(buf[u]) : i < j
         \/ upc[u] \notin {"quit", "gone"}
  PROVE  /\ buf[u][i] # Quit /\ buf[u][i] \in Message /\ Known(buf[u][i], u)
         /\ buf[u][i].f \in File /\ buf[u][i].aid \in 1..last_aid[buf[u][i].f]
<1>1. Len(buf[u]) \in Nat BY Contents
<1>2. buf[u][i] # Quit BY <1>1 DEF Places, QuitLast
<1>3. buf[u][i] \in Message /\ Known(buf[u][i], u)
  BY <1>2, Contents DEF Numbers, Genuine
<1>. QED BY <1>2, <1>3, Entries DEF Known

\* The message that is numbered now is the latest.
LEMMA TimesBegins ==
  ASSUME Places, Numbers, Times, NEW u \in User, NEW f \in File, NEW len \in Lens,
         Begins(u, f, len)
  PROVE  Times'
<1>1. /\ upc[u] = "idle" /\ InHand(u)'
      /\ \A v \in User : v # u => upc'[v] = upc[v] /\ umsg'[v] = umsg[v]
      /\ last_aid[f] \in Nat /\ last_aid'[f] = last_aid[f] + 1
      /\ \A g \in File : g # f => last_aid'[g] = last_aid[g]
      /\ umsg'[u].f = f /\ umsg'[u].aid = last_aid[f] + 1
      /\ UNCHANGED <<buf, lost, curr_aid>>
  BY BeginsEffect DEF Numbers
<1>2. last_aid \in [File -> Nat] /\ curr_aid \in [File -> Nat] BY DEF Places, Types
<1>3. Lossless' => Ahead'
  <2>1. curr_aid[f] <= last_aid[f] BY DEF Numbers, Prefix
  <2>2. last_aid[f] + 1 > curr_aid[f] BY <1>2, <2>1
  <2>. SUFFICES ASSUME Lossless' PROVE Ahead' OBVIOUS
  <2>0. Ahead BY <1>1 DEF Times, Lossless
  <2>3. ASSUME NEW v \in User, NEW i \in 1..Len(buf'[v]), buf'[v][i] # Quit
        PROVE  buf'[v][i].aid > curr_aid'[buf'[v][i].f]
    BY <1>1, <2>0, <2>3 DEF Ahead
  <2>4. ASSUME NEW v \in User, InHand(v)' PROVE umsg'[v].aid > curr_aid'[umsg'[v].f]
    <3>1. CASE v = u BY <1>1, <2>2, <3>1
    <3>2. CASE v # u BY <1>1, <2>0, <2>4, <3>2, InHandOf DEF Ahead
    <3>. QED BY <3>1, <3>2
  <2>. QED BY <2>3, <2>4 DEF Ahead
<1>4. PICK t \in Clock, n \in Nat : Ordered(t, n) BY DEF Times
<1>5. PICK s \in Clock :
        /\ s[f][last_aid[f] + 1] = n
        /\ \A g \in File : \A k \in 1..last_aid[g] : s[g][k] = t[g][k]
        /\ \A g \in File : \A k \in Nat : t[g][k] \in Nat /\ s[g][k] \in Nat
  <2>. DEFINE r == [g \in File |->
                     [k \in Nat |-> IF g = f /\ k = last_aid[f] + 1 THEN n ELSE t[g][k]]]
  <2>1. \A g \in File : \A k \in Nat :
          /\ t[g][k] \in Nat
          /\ r[g][k] = IF g = f /\ k = last_aid[f] + 1 THEN n ELSE t[g][k]
    BY DEF Clock
  <2>2. r \in Clock BY <2>1 DEF Clock
  <2>3. last_aid[f] + 1 \in Nat BY <1>1
  <2>4. r[f][last_aid[f] + 1] = n BY <2>1, <2>3
  <2>. HIDE DEF r
  <2>5. \A g \in File : \A k \in 1..last_aid[g] :
          k \in Nat /\ ~(g = f /\ k = last_aid[f] + 1)
    BY <1>1, <1>2
  <2>6. \A g \in File : \A k \in 1..last_aid[g] : r[g][k] = t[g][k]
    BY <2>1, <2>5
  <2>7. \A g \in File : \A k \in Nat : r[g][k] \in Nat BY <2>1
  <2>. QED BY <2>1, <2>2, <2>4, <2>6, <2>7
<1>6. \A g \in File : \A k \in 1..last_aid'[g] :
        k \in 1..last_aid[g] \/ (g = f /\ k = last_aid[f] + 1)
  BY <1>1, <1>2
<1>7. ASSUME NEW g \in File, NEW k \in 1..last_aid'[g] PROVE s[g][k] < n + 1
  <2>1. CASE k \in 1..last_aid[g]
    <3>1. s[g][k] = t[g][k] /\ s[g][k] \in Nat BY <1>2, <1>5, <2>1
    <3>2. t[g][k] < n BY <1>2, <1>4, <2>1 DEF Ordered
    <3>3. n \in Nat OBVIOUS
    <3>. QED BY ONLY <3>1, <3>2, <3>3
  <2>2. CASE g = f /\ k = last_aid[f] + 1 BY <1>5, <2>2
  <2>. QED BY <1>6, <2>1, <2>2
<1>8. ASSUME NEW g \in File, NEW j \in 1..last_aid'[g], NEW k \in 1..last_aid'[g], j < k
      PROVE  s[g][j] < s[g][k]
  <2>1. CASE k \in 1..last_aid[g]
    <3>1. j \in 1..last_aid[g] BY <1>2, <1>8, <2>1
    <3>. QED BY <1>4, <1>5, <1>8, <2>1, <3>1 DEF Ordered
  <2>2. CASE g = f /\ k = last_aid[f] + 1
    <3>1. j \in 1..last_aid[g] BY <1>1, <1>8, <2>2
    <3>. QED BY <1>4, <1>5, <2>2, <3>1 DEF Ordered
  <2>. QED BY <1>6, <2>1, <2>2
<1>9. ASSUME NEW v \in User, NEW i \in 1..Len(buf[v]), NEW j \in 1..Len(buf[v]),
             i < j, buf[v][j] # Quit
      PROVE  When(s, buf[v][i]) < When(s, buf[v][j])
  <2>1. buf[v][i].f \in File /\ buf[v][i].aid \in 1..last_aid[buf[v][i].f]
    BY <1>9, OnlyMessages
  <2>2. buf[v][j].f \in File /\ buf[v][j].aid \in 1..last_aid[buf[v][j].f]
    BY <1>9, Contents, Entries DEF Numbers, Genuine, Known
  <2>3. When(t, buf[v][i]) < When(t, buf[v][j]) BY <1>4, <1>9 DEF Ordered
  <2>. QED BY <1>5, <2>1, <2>2, <2>3 DEF When
<1>10. ASSUME NEW v \in User, InHand(v)', NEW i \in 1..Len(buf[v])
       PROVE  When(s, buf[v][i]) < When(s, umsg'[v])
  <2>1. upc[v] \notin {"quit", "gone"} BY <1>1, <1>10 DEF InHand
  <2>2. buf[v][i].f \in File /\ buf[v][i].aid \in 1..last_aid[buf[v][i].f]
    BY <2>1, OnlyMessages
  <2>3. CASE v = u
    <3>1. When(t, buf[v][i]) < n BY <1>4, <2>2 DEF Ordered, When
    <3>. QED BY <1>1, <1>5, <2>2, <2>3, <3>1, ZenonT(60) DEF When
  <2>4. CASE v # u
    <3>1. InHand(v) /\ umsg'[v] = umsg[v] BY <1>1, <1>10, <2>4, InHandOf
    <3>2. umsg[v].f \in File /\ umsg[v].aid \in 1..last_aid[umsg[v].f]
      BY <3>1, Contents, Entries DEF Numbers, Genuine, Known
    <3>3. When(t, buf[v][i]) < When(t, umsg[v]) BY <1>4, <3>1 DEF Ordered
    <3>. QED BY <1>5, <2>2, <3>1, <3>2, <3>3, ZenonT(60) DEF When
  <2>. QED BY <2>3, <2>4
<1>11. /\ \A v \in User : \A i, j \in 1..Len(buf'[v]) :
            i < j /\ buf'[v][j] # Quit => When(s, buf'[v][i]) < When(s, buf'[v][j])
       /\ \A v \in User : InHand(v)' =>
            \A i \in 1..Len(buf'[v]) : When(s, buf'[v][i]) < When(s, umsg'[v])
  BY <1>1, <1>9, <1>10
<1>12. Ordered(s, n + 1)' BY <1>7, <1>8, <1>11 DEF Ordered, When
<1>. QED BY <1>3, <1>12 DEF Times

\* A push, by which the message a thread holds becomes the last of its buffer.
LEMMA TimesPush ==
  ASSUME Places, Numbers, Times, NEW u \in User, NEW m \in Entry,
         buf' = [buf EXCEPT ![u] = Append(@, m)],
         m = Quit \/ (InHand(u) /\ m = umsg[u]),
         ~InHand(u)', \A v \in User : v # u => upc'[v] = upc[v] /\ umsg'[v] = umsg[v],
         UNCHANGED <<last_aid, lost, curr_aid>>
  PROVE  Times'
<1>1. /\ \A v \in User : v # u => buf'[v] = buf[v]
      /\ Len(buf[u]) \in Nat /\ Len(buf'[u]) = Len(buf[u]) + 1
      /\ \A i \in 1..Len(buf[u]) : buf'[u][i] = buf[u][i]
      /\ buf'[u][Len(buf[u]) + 1] = m
  BY PushEffect DEF Places
<1>2. Lossless' => Ahead'
  <2>. SUFFICES ASSUME Lossless' PROVE Ahead' OBVIOUS
  <2>0. Ahead BY DEF Times, Lossless
  <2>1. ASSUME NEW v \in User, NEW i \in 1..Len(buf'[v]), buf'[v][i] # Quit
        PROVE  buf'[v][i].aid > curr_aid'[buf'[v][i].f]
    <3>1. CASE v # u BY <1>1, <2>0, <2>1, <3>1 DEF Ahead
    <3>2. CASE v = u /\ i \in 1..Len(buf[u]) BY <1>1, <2>0, <2>1, <3>2 DEF Ahead
    <3>3. CASE v = u /\ i = Len(buf[u]) + 1 BY <1>1, <2>0, <2>1, <3>3 DEF Ahead
    <3>. QED BY <1>1, <3>1, <3>2, <3>3
  <2>2. ASSUME NEW v \in User, InHand(v)' PROVE umsg'[v].aid > curr_aid'[umsg'[v].f]
    <3>1. v # u /\ InHand(v) BY <2>2, InHandOf
    <3>. QED BY <2>0, <3>1 DEF Ahead
  <2>. QED BY <2>1, <2>2 DEF Ahead
<1>3. PICK t \in Clock, n \in Nat : Ordered(t, n) BY DEF Times
<1>4. ASSUME NEW v \in User, NEW i \in 1..Len(buf'[v]), NEW j \in 1..Len(buf'[v]),
             i < j, buf'[v][j] # Quit
      PROVE  When(t, buf'[v][i]) < When(t, buf'[v][j])
  <2>1. CASE v # u BY <1>1, <1>3, <1>4, <2>1 DEF Ordered
  <2>2. CASE v = u
    <3>1. i \in 1..Len(buf[u]) /\ buf'[u][i] = buf[u][i] BY <1>1, <1>4, <2>2
    <3>2. CASE j \in 1..Len(buf[u]) BY <1>1, <1>3, <1>4, <2>2, <3>1, <3>2 DEF Ordered
    <3>3. CASE j = Len(buf[u]) + 1
      <4>1. InHand(u) /\ buf'[u][j] = umsg[u] BY <1>1, <1>4, <2>2, <3>3
      <4>2. When(t, buf[u][i]) < When(t, umsg[u]) BY <1>3, <3>1, <4>1 DEF Ordered
      <4>. QED BY <2>2, <3>1, <4>1, <4>2
    <3>. QED BY <1>1, <2>2, <3>2, <3>3
  <2>. QED BY <2>1, <2>2
<1>5. ASSUME NEW v \in User, InHand(v)', NEW i \in 1..Len(buf'[v])
      PROVE  When(t, buf'[v][i]) < When(t, umsg'[v])
  <2>1. v # u /\ InHand(v) BY <1>5, InHandOf
  <2>. QED BY <1>1, <1>3, <1>5, <2>1 DEF Ordered
<1>6. Ordered(t, n)'
  <2>1. /\ \A f \in File : \A k \in 1..last_aid'[f] : t[f][k] < n
        /\ \A f \in File : \A j, k \in 1..last_aid'[f] : j < k => t[f][j] < t[f][k]
    BY <1>3 DEF Ordered
  <2>. QED BY <1>4, <1>5, <2>1, SMTT(60) DEF Ordered, When
<1>. QED BY <1>2, <1>6 DEF Times

\* Quiet steps change no time.
LEMMA TimesQuiet == Places /\ Times /\ Quiet => Times'
<1>. SUFFICES ASSUME Places, Times, Quiet PROVE Times' OBVIOUS
<1>1. Lossless' => Ahead' BY DEF Times, Ahead, Lossless, Quiet
<1>2. PICK t \in Clock, n \in Nat : Ordered(t, n) BY DEF Times
<1>3. Ordered(t, n)' BY <1>2 DEF Ordered, When, Quiet
<1>. QED BY <1>1, <1>3 DEF Times

\* A message enters a buffer behind the earlier ones of its thread.
LEMMA TimesPushes ==
  ASSUME Places, Numbers, Times, NEW u \in User, Fills(u) \/ Ends(u)
  PROVE  Times'
<1>1. CASE Fills(u) BY <1>1, FillsEffect, TimesPush
<1>2. CASE Ends(u) BY <1>2, EndsEffect, TimesPush, TimesQuiet, Entries
<1>. QED BY <1>1, <1>2

\* A message that is lost leaves the others in their order.
LEMMA TimesDrops ==
  ASSUME Places, Numbers, Times, NEW u \in User, Drops(u)
  PROVE  Times'
<1>1. ~Lossless' BY NumbersDrops
<1>2. /\ upc' = [upc EXCEPT ![u] = "notify"] /\ umsg' = [umsg EXCEPT ![u] = Quit]
      /\ UNCHANGED <<buf, last_aid>>
  BY DEF Drops
<1>3. /\ upc'[u] = "notify"
      /\ \A v \in User : v # u => upc'[v] = upc[v] /\ umsg'[v] = umsg[v]
  BY <1>2 DEF Places, Types
<1>4. ASSUME NEW v \in User, InHand(v)' PROVE InHand(v) /\ umsg'[v] = umsg[v]
  BY <1>3, <1>4, InHandOf DEF InHand
<1>5. PICK t \in Clock, n \in Nat : Ordered(t, n) BY DEF Times
<1>6. Ordered(t, n)' BY <1>2, <1>4, <1>5 DEF Ordered, When
<1>. QED BY <1>1, <1>6 DEF Times

\* So does one that is given up.
LEMMA TimesGivesUp ==
  ASSUME Places, Times, GivesUp
  PROVE  Times'
<1>1. ~Lossless' BY PlacesGivesUp
<1>2. UNCHANGED <<buf, last_aid, upc, umsg>> BY DEF GivesUp
<1>3. PICK t \in Clock, n \in Nat : Ordered(t, n) BY DEF Times
<1>4. Ordered(t, n)' BY <1>2, <1>3 DEF Ordered, When, InHand
<1>. QED BY <1>1, <1>4 DEF Times

\* The first message of a buffer is taken, and the others move up.
LEMMA TimesTakes ==
  ASSUME Places, Numbers, Times, Takes
  PROVE  Times'
<1>. DEFINE m == First
            g == m.f
<1>1. /\ cur \in User /\ m \in Message /\ g \in File
      /\ m.aid = curr_aid[g] + 1 /\ Known(m, cur)
      /\ curr_aid[g] \in Nat /\ curr_aid'[g] = curr_aid[g] + 1
      /\ \A h \in File : h # g => curr_aid'[h] = curr_aid[h]
      /\ \A v \in User : v # cur => buf'[v] = buf[v]
      /\ Len(buf[cur]) \in Nat /\ Len(buf[cur]) >= 1
      /\ Len(buf'[cur]) = Len(buf[cur]) - 1
      /\ \A i \in 1..Len(buf'[cur]) : i + 1 \in 1..Len(buf[cur]) /\ buf'[cur][i] = buf[cur][i + 1]
      /\ UNCHANGED <<umsg, upc, last_aid, lost>>
  BY TakesEffect
<1>2. m = buf[cur][1] BY DEF First
<1>3. PICK t \in Clock, n \in Nat : Ordered(t, n) BY DEF Times
<1>4. \A x \in Message : When(t, x) \in Nat BY Entries DEF When, Clock
<1>. HIDE DEF m
<1>5. ASSUME NEW x \in Message, NEW v \in User, Known(x, v), x # m,
             x.aid > curr_aid[x.f]
      PROVE  x.aid > curr_aid'[x.f]
  <2>1. x.f \in File /\ x.aid \in Nat BY Entries
  <2>2. CASE x.f # g BY <1>1, <1>5, <2>1, <2>2
  <2>3. CASE x.f = g
    <3>1. x.aid # m.aid BY <1>1, <1>5, <2>3 DEF Known
    <3>. QED BY <1>1, <1>5, <2>1, <2>3, <3>1
  <2>. QED BY <2>2, <2>3
<1>6. Lossless' => Ahead'
  <2>. SUFFICES ASSUME Lossless' PROVE Ahead' OBVIOUS
  <2>0. Ahead BY <1>1 DEF Times, Lossless
  <2>1. ASSUME NEW v \in User, NEW i \in 1..Len(buf'[v]), buf'[v][i] # Quit
        PROVE  buf'[v][i].aid > curr_aid'[buf'[v][i].f]
    <3>1. CASE v # cur
      <4>. DEFINE x == buf[v][i]
      <4>1. /\ x = buf'[v][i] /\ x \in Message /\ Known(x, v) /\ x.aid > curr_aid[x.f]
        BY <1>1, <2>0, <2>1, <3>1, Contents DEF Numbers, Genuine, Ahead
      <4>2. x # m BY <1>1, <3>1, <4>1 DEF Known
      <4>. HIDE DEF x
      <4>. QED BY <1>5, <4>1, <4>2
    <3>2. CASE v = cur
      <4>. DEFINE x == buf[cur][i + 1]
      <4>1. i + 1 \in 1..Len(buf[cur]) /\ 1 \in 1..Len(buf[cur]) /\ 1 < i + 1
        BY <1>1, <3>2
      <4>2. /\ x = buf'[v][i] /\ x # Quit BY <1>1, <2>1, <3>2
      <4>3. x \in Message /\ Known(x, cur) /\ x.aid > curr_aid[x.f]
        BY <1>1, <2>0, <4>1, <4>2, Contents DEF Numbers, Genuine, Ahead
      <4>4. When(t, m) < When(t, x) BY <1>1, <1>2, <1>3, <4>1, <4>2 DEF Ordered
      <4>. HIDE DEF x
      <4>5. x # m BY <1>1, <1>4, <4>4
      <4>. QED BY <1>1, <1>5, <4>2, <4>3, <4>5
    <3>. QED BY <3>1, <3>2
  <2>2. ASSUME NEW v \in User, InHand(v)' PROVE umsg'[v].aid > curr_aid'[umsg'[v].f]
    <3>. DEFINE x == umsg[v]
    <3>1. /\ InHand(v) /\ x = umsg'[v] /\ x \in Message /\ Known(x, v)
          /\ x.aid > curr_aid[x.f]
      BY <1>1, <2>0, <2>2, InHandOf, Contents DEF Numbers, Genuine, Ahead
    <3>2. CASE v # cur
      <4>1. x # m BY <1>1, <3>1, <3>2 DEF Known
      <4>. HIDE DEF x
      <4>. QED BY <1>5, <3>1, <4>1
    <3>3. CASE v = cur
      <4>1. 1 \in 1..Len(buf[cur]) BY <1>1
      <4>2. When(t, m) < When(t, x) BY <1>1, <1>2, <1>3, <3>1, <3>3, <4>1 DEF Ordered
      <4>. HIDE DEF x
      <4>3. x # m BY <1>1, <1>4, <4>2
      <4>. QED BY <1>5, <3>1, <4>3
    <3>. QED BY <3>2, <3>3
  <2>. QED BY <2>1, <2>2 DEF Ahead
<1>7. ASSUME NEW v \in User, NEW i \in 1..Len(buf'[v]), NEW j \in 1..Len(buf'[v]),
             i < j, buf'[v][j] # Quit
      PROVE  When(t, buf'[v][i]) < When(t, buf'[v][j])
  <2>1. CASE v # cur BY <1>1, <1>3, <1>7, <2>1 DEF Ordered
  <2>2. CASE v = cur
    <3>1. /\ i + 1 \in 1..Len(buf[cur]) /\ buf'[cur][i] = buf[cur][i + 1]
          /\ j + 1 \in 1..Len(buf[cur]) /\ buf'[cur][j] = buf[cur][j + 1]
          /\ i + 1 < j + 1
      <4>1. i \in 1..Len(buf'[cur]) /\ j \in 1..Len(buf'[cur]) BY <1>7, <2>2
      <4>2. \A k \in 1..Len(buf'[cur]) :
              k + 1 \in 1..Len(buf[cur]) /\ buf'[cur][k] = buf[cur][k + 1]
        BY <1>1
      <4>. QED BY ONLY <1>7, <4>1, <4>2
    <3>. QED BY <1>1, <1>3, <1>7, <2>2, <3>1 DEF Ordered
  <2>. QED BY <2>1, <2>2
<1>8. ASSUME NEW v \in User, InHand(v)', NEW i \in 1..Len(buf'[v])
      PROVE  When(t, buf'[v][i]) < When(t, umsg'[v])
  <2>0. InHand(v) BY <1>1, <1>8, InHandOf
  <2>1. CASE v # cur BY <1>1, <1>3, <1>8, <2>0, <2>1 DEF Ordered
  <2>2. CASE v = cur
    <3>1. i + 1 \in 1..Len(buf[cur]) /\ buf'[cur][i] = buf[cur][i + 1] BY <1>1, <2>2
    <3>. QED BY <1>1, <1>3, <1>8, <2>0, <2>2, <3>1 DEF Ordered
  <2>. QED BY <2>1, <2>2
<1>9. Ordered(t, n)'
  <2>1. /\ \A f \in File : \A k \in 1..last_aid'[f] : t[f][k] < n
        /\ \A f \in File : \A j, k \in 1..last_aid'[f] : j < k => t[f][j] < t[f][k]
    BY <1>1, <1>3 DEF Ordered
  <2>. QED BY <1>7, <1>8, <2>1 DEF Ordered, When
<1>. QED BY <1>6, <1>9 DEF Times

\* The data of a thread is freed: no time changes.
LEMMA TimesQuit ==
  ASSUME Places, Numbers, Times, _log_pto_thread_quit
  PROVE  Times'
<1>1. /\ cur # NoUser /\ buf[cur] # <<>> /\ Pop(cur)
      /\ UNCHANGED <<umsg, upc, last_aid, lost, curr_aid>>
  BY DEF _log_pto_thread_quit, user, losses
<1>2. Len(buf[cur]) = 1 /\ upc[cur] \in {"quit", "gone"} BY PlacesQuit
<1>3. /\ cur \in User /\ Len(buf'[cur]) = Len(buf[cur]) - 1
      /\ \A v \in User : v # cur => buf'[v] = buf[v]
  BY <1>1, PopEffect
<1>4. \A i \in 1..Len(buf'[cur]) : FALSE BY <1>2, <1>3
<1>5. \A v \in User : (\E i \in 1..Len(buf'[v]) : TRUE) => buf'[v] = buf[v] BY <1>3, <1>4
<1>6. Lossless' => Ahead'
  <2>. SUFFICES ASSUME Lossless' PROVE Ahead' OBVIOUS
  <2>0. Ahead BY <1>1 DEF Times, Lossless
  <2>1. ASSUME NEW v \in User, NEW i \in 1..Len(buf'[v]), buf'[v][i] # Quit
        PROVE  buf'[v][i].aid > curr_aid'[buf'[v][i].f]
    BY <1>1, <1>5, <2>0, <2>1 DEF Ahead
  <2>2. ASSUME NEW v \in User, InHand(v)' PROVE umsg'[v].aid > curr_aid'[umsg'[v].f]
    BY <1>1, <2>0, <2>2, InHandOf DEF Ahead
  <2>. QED BY <2>1, <2>2 DEF Ahead
<1>7. PICK t \in Clock, n \in Nat : Ordered(t, n) BY DEF Times
<1>8. Ordered(t, n)'
  <2>1. /\ \A f \in File : \A k \in 1..last_aid'[f] : t[f][k] < n
        /\ \A f \in File : \A j, k \in 1..last_aid'[f] : j < k => t[f][j] < t[f][k]
    BY <1>1, <1>7 DEF Ordered
  <2>2. ASSUME NEW v \in User, NEW i \in 1..Len(buf'[v]), NEW j \in 1..Len(buf'[v]),
               i < j, buf'[v][j] # Quit
        PROVE  When(t, buf'[v][i]) < When(t, buf'[v][j])
    BY <1>5, <1>7, <2>2 DEF Ordered
  <2>3. ASSUME NEW v \in User, InHand(v)', NEW i \in 1..Len(buf'[v])
        PROVE  When(t, buf'[v][i]) < When(t, umsg'[v])
    BY <1>1, <1>5, <1>7, <2>3, InHandOf DEF Ordered
  <2>. QED BY <2>1, <2>2, <2>3 DEF Ordered, When
<1>. QED BY <1>6, <1>8 DEF Times

\* Every step keeps Times.
LEMMA TimesNext == Places /\ Numbers /\ Times /\ [Next]_vars => Times'
<1>. SUFFICES ASSUME Places, Numbers, Times, [Next]_vars PROVE Times' OBVIOUS
<1>1. Types BY DEF Places
<1>. QED BY <1>1, Kinds, TimesBegins, TimesPushes, TimesDrops, TimesTakes, TimesGivesUp,
            TimesQuit, TimesQuiet

\* Turns never wait for each other in a circle, whatever files the threads write
\* to, as long as no message is lost: of the messages that are missing from their
\* files the one numbered first is the first of its buffer, and the next one of its
\* file.
THEOREM NeverACircle == Spec => []NoCircle
<1>1. Places /\ Numbers /\ Times => NoCircle
  <2>. SUFFICES ASSUME Places, Numbers, Times, Lossless,
                       NEW f0 \in File, curr_aid[f0] < last_aid[f0],
                       \A u \in User : ~InHand(u)
                PROVE  \E u \in User : /\ th[u] = "live" /\ buf[u] # <<>> /\ buf[u][1] # Quit
                                       /\ buf[u][1].aid = curr_aid[buf[u][1].f] + 1
    BY DEF NoCircle
  <2>1. last_aid \in [File -> Nat] /\ curr_aid \in [File -> Nat] BY DEF Places, Types
  <2>2. PICK t \in Clock, n \in Nat : Ordered(t, n) BY DEF Times
  <2>3. \A f \in File : \A k \in 1..last_aid[f] : t[f][k] \in Nat BY <2>1, <2>2 DEF Clock
  <2>. DEFINE Missing(f) == {k \in 1..last_aid[f] : k > curr_aid[f]}
              T == {x \in Nat : \E f \in File : \E k \in Missing(f) : x = t[f][k]}
  <2>4. curr_aid[f0] + 1 \in Missing(f0) BY <2>1
  <2>5. t[f0][curr_aid[f0] + 1] \in T BY <2>3, <2>4
  <2>6. PICK x \in T : \A y \in T : x <= y
    <3>1. T \subseteq Nat /\ T # {} BY <2>5
    <3>. HIDE DEF T
    <3>. QED BY <3>1, Least
  <2>7a. PICK f \in File : \E k \in Missing(f) : x = t[f][k] BY <2>6
  <2>7. PICK k \in Missing(f) : x = t[f][k] BY <2>7a
  <2>8. \A g \in File : \A j \in Missing(g) : t[f][k] <= t[g][j] BY <2>3, <2>6, <2>7
  <2>9. k \in 1..last_aid[f] /\ k > curr_aid[f] /\ k \in Nat BY <2>7, <2>1
  <2>. HIDE DEF T
  <2>10. k = curr_aid[f] + 1
    <3>1. CASE k # curr_aid[f] + 1
      <4>1. /\ curr_aid[f] + 1 \in 1..last_aid[f] /\ curr_aid[f] + 1 > curr_aid[f]
            /\ curr_aid[f] + 1 < k
        BY <2>1, <2>9, <3>1
      <4>2. t[f][curr_aid[f] + 1] < t[f][k] BY <2>2, <2>9, <4>1 DEF Ordered
      <4>3. t[f][k] <= t[f][curr_aid[f] + 1] BY <2>8, <4>1
      <4>. QED BY <2>3, <2>9, <4>1, <4>2, <4>3
    <3>. QED BY <3>1
  <2>. DEFINE w == wrote[f][k]
              u == w.by
  <2>11. w.f = f /\ w.aid = k /\ w \in Message /\ u \in User /\ Held(w)
    BY <2>9, Wrote DEF Numbers, Named, Rest, Lossless
  <2>. HIDE DEF w
  <2>12. /\ th[u] = "live" /\ \E i \in 1..Len(buf[u]) : buf[u][i] = w
    BY <2>11 DEF Held
  <2>13. PICK i \in 1..Len(buf[u]) : buf[u][i] = w BY <2>12
  <2>14. Len(buf[u]) \in Nat /\ w # Quit BY <2>11, Contents, Entries
  <2>15. i = 1
    <3>1. CASE i # 1
      <4>. DEFINE v == buf[u][1]
      <4>1. 1 \in 1..Len(buf[u]) /\ 1 < i BY <2>13, <2>14, <3>1
      <4>2. v # Quit /\ v.f \in File /\ v.aid \in 1..last_aid[v.f]
        BY <2>11, <2>13, <4>1, OnlyMessages
      <4>3. v.aid > curr_aid[v.f] BY <2>11, <4>1, <4>2 DEF Times, Ahead
      <4>4. When(t, v) < When(t, w) BY <2>2, <2>11, <2>13, <2>14, <4>1 DEF Ordered
      <4>. HIDE DEF v
      <4>5. t[f][k] <= t[v.f][v.aid] BY <2>8, <4>2, <4>3
      <4>. QED BY <2>3, <2>9, <2>11, <4>2, <4>4, <4>5 DEF When
    <3>. QED BY <3>1
  <2>16. buf[u] # <<>> BY <2>13, <2>14, Empty
  <2>. QED BY <2>10, <2>11, <2>12, <2>13, <2>14, <2>15, <2>16
<1>. QED BY <1>1, PlacesInit, PlacesNext, NumbersInit, NumbersNext, TimesInit, TimesNext,
            PTL DEF Spec

-----------------------------------------------------------------------------
(* The fourth invariant: no buffer is overlooked.                           *)

Settled(u) == Waiting(u) => buf[u][1] # Quit /\ buf[u][1].aid # curr_aid[buf[u][1].f] + 1

\* A thread that has not been registered is about to wake up the fetcher; in a scan
\* that has processed nothing so far, the threads already looked at have nothing
\* that could be written; and so has every thread when the scan is over.
Looked ==
  /\ \A u \in User : u \notin threads => ~Waiting(u)
  /\ fpc = "scan" /\ ~round
       => \A u \in threads : u \notin scan /\ u # cur => Settled(u)
  /\ fpc \in {"start", "check", "wait", "done"} => \A u \in User : Settled(u)

Watched == Lossless => Looked

\* There is nothing to watch.
LEMMA WatchedInit == Init => Watched
<1>. SUFFICES ASSUME Init PROVE Watched OBVIOUS
<1>1. \A u \in User : ~Waiting(u) BY DEF Init, Waiting
<1>2. fpc = "start" BY DEF Init
<1>. QED BY <1>1, <1>2 DEF Watched, Looked, Settled

\* A step of thread u that leaves nothing waiting in its buffer that was not.
LEMMA WatchedUser ==
  ASSUME Places, Watched, NEW u \in User,
         UNCHANGED <<lost, curr_aid, threads, scan, cur, fpc, round>>,
         \A v \in User : v # u => buf'[v] = buf[v] /\ efd'[v] = efd[v]
                                  /\ upc'[v] = upc[v] /\ th'[v] = th[v],
         Waiting(u)' => Waiting(u) /\ buf'[u] = buf[u]
  PROVE  Watched'
<1>1. \A v \in User : Waiting(v)' => Waiting(v) /\ buf'[v] = buf[v] BY DEF Waiting
<1>2. \A v \in User : Settled(v) => Settled(v)' BY <1>1 DEF Settled
<1>3. threads \subseteq User BY DEF Places, Types
<1>4. Lossless' => Looked BY DEF Watched, Lossless
<1>. QED BY <1>1, <1>2, <1>3, <1>4 DEF Watched, Looked

\* Whoever puts something into a buffer wakes the fetcher afterwards.
LEMMA WatchedUsers ==
  ASSUME Places, Watched, NEW u \in User,
         \/ \E f \in File, len \in Lens : Begins(u, f, len)
         \/ Fills(u) \/ Ends(u) \/ Goes(u)
  PROVE  Watched'
<1>. USE DEF others
<1>1. UNCHANGED <<lost, curr_aid, threads, scan, cur, fpc, round>>
  BY DEF Begins, Fills, Ends, Goes
<1>2. Types BY DEF Places
<1>3. PICK pc : upc' = [upc EXCEPT ![u] = pc] BY DEF Begins, Fills, Ends, Goes
<1>4. upc'[u] = pc /\ \A v \in User : v # u => upc'[v] = upc[v] BY <1>2, <1>3 DEF Types
<1>5. \A v \in User : v # u => buf'[v] = buf[v] /\ efd'[v] = efd[v] /\ th'[v] = th[v]
  BY <1>2, ZenonT(60) DEF Begins, Fills, Ends, Goes, Types
<1>6. Waiting(u)' => Waiting(u) /\ buf'[u] = buf[u]
  <2>1. ASSUME NEW f \in File, NEW len \in Lens, Begins(u, f, len)
        PROVE  Waiting(u)' => Waiting(u) /\ buf'[u] = buf[u]
    <3>1. upc[u] = "idle" /\ buf' = buf /\ efd' = efd BY <2>1 DEF Begins
    <3>2. th[u] # "live" => buf[u] = <<>> BY DEF Places, Data
    <3>. QED BY <3>1, <3>2 DEF Waiting
  <2>2. CASE Fills(u) \/ Ends(u)
    <3>1. upc'[u] \in {"rest", "notify", "quit"} BY <1>2, <2>2 DEF Fills, Ends, Types
    <3>. QED BY <3>1 DEF Waiting
  <2>3. CASE Goes(u)
    <3>1. CASE upc[u] = "rest" /\ upc' = [upc EXCEPT ![u] = "notify"]
      <4>1. upc'[u] = "notify" BY <1>2, <3>1 DEF Types
      <4>. QED BY <4>1 DEF Waiting
    <3>2. CASE efd' = [efd EXCEPT ![u] = (th[u] = "live")]
      BY <1>2, <2>3, <3>2 DEF Goes, Types, Waiting
    <3>. QED BY <2>3, <3>1, <3>2 DEF Goes
  <2>. QED BY <2>1, <2>2, <2>3
<1>. QED BY <1>1, <1>4, <1>5, <1>6, WatchedUser

\* A step of the fetcher or of exit that leaves the buffers alone.
LEMMA WatchedMove ==
  ASSUME Places, Watched,
         \/ FetcherStart \/ EpollWait \/ ActiveEnd \/ ScanEnd \/ LoopCheck \/ ProcessEnd
         \/ Aside
         \/ \E u \in User : ActiveThread(u) \/ ScanThread(u)
  PROVE  Watched'
<1>. USE DEF fetcher, rounds, thread, user, plog_buf, losses
<1>1. UNCHANGED <<buf, th, upc, curr_aid, lost>>
  BY DEF FetcherStart, EpollWait, ActiveEnd, ScanEnd, LoopCheck, ProcessEnd, Aside,
         ActiveThread, ScanThread
<1>. SUFFICES ASSUME Lossless' PROVE Looked' BY DEF Watched
<1>0. Looked BY <1>1 DEF Watched, Lossless
<1>2. Types /\ Phases /\ threads \subseteq User /\ NoUser \notin User
  BY FlogAssumption DEF Places, Types
<1>3. ASSUME NEW u \in User, ActiveThread(u) PROVE Looked'
  <2>1. /\ fpc' = "active" /\ threads' = threads \cup {u}
        /\ efd' = [efd EXCEPT ![u] = FALSE]
    BY <1>3 DEF ActiveThread
  <2>2. \A v \in User : v # u => (Waiting(v)' <=> Waiting(v))
    BY <1>1, <1>2, <2>1 DEF Waiting, Types
  <2>. QED BY <1>0, <2>1, <2>2 DEF Looked
<1>4. CASE efd' = efd /\ ~(\E u \in User : ActiveThread(u))
  <2>1. \A v \in User : (Waiting(v)' <=> Waiting(v)) /\ (Settled(v)' <=> Settled(v))
    BY <1>1, <1>4 DEF Waiting, Settled
  <2>. USE <1>0, <2>1 DEF Looked
  <2>2. CASE FetcherStart BY <2>2 DEF FetcherStart
  <2>3. CASE EpollWait BY <2>3 DEF EpollWait
  <2>4. CASE ActiveEnd BY <2>4 DEF ActiveEnd
  <2>5. CASE ScanEnd
    <3>1. CASE round BY <2>5, <3>1 DEF ScanEnd, AnotherRound
    <3>2. CASE ~round
      <4>1. /\ fpc = "scan" /\ fpc' = "check" /\ scan = {} /\ cur = NoUser /\ threads' = threads
        BY <2>5, <3>2 DEF ScanEnd, AnotherRound
      <4>2. \A v \in threads : v # cur /\ v \notin scan BY <1>2, <4>1
      <4>3. \A v \in threads : Settled(v) BY <3>2, <4>1, <4>2
      <4>4. \A v \in User : Settled(v) BY <4>3 DEF Settled
      <4>. QED BY <4>1, <4>4
    <3>. QED BY <3>1, <3>2
  <2>6. CASE LoopCheck BY <2>6 DEF LoopCheck
  <2>7. CASE ProcessEnd
    <3>1. /\ cur # NoUser /\ cur' = NoUser /\ cur \in User
          /\ buf[cur] # <<>> => First # Quit /\ ~InTurn
          /\ UNCHANGED <<fpc, threads, scan, round>>
      BY <1>2, <2>7 DEF ProcessEnd, Types
    <3>2. Settled(cur) BY <3>1 DEF Settled, Waiting, First, InTurn
    <3>. QED BY <1>2, <3>1, <3>2
  <2>8. CASE Aside BY <2>8, <1>2 DEF Aside
  <2>9. ASSUME NEW u \in User, ScanThread(u) PROVE Looked'
    <3>1. /\ fpc = "scan" /\ fpc' = "scan" /\ cur = NoUser /\ cur' = u /\ scan' = scan \ {u}
          /\ UNCHANGED <<threads, round>>
      BY <2>9 DEF ScanThread
    <3>. QED BY <1>2, <3>1
  <2>. QED BY <1>4, <2>2, <2>3, <2>4, <2>5, <2>6, <2>7, <2>8, <2>9
<1>5. efd' = efd \/ \E u \in User : ActiveThread(u)
  BY DEF FetcherStart, EpollWait, ActiveEnd, ScanEnd, LoopCheck, ProcessEnd, Aside, ScanThread
<1>. QED BY <1>3, <1>4, <1>5

\* The fetcher goes on with a buffer it has taken something out of.
LEMMA WatchedPops ==
  ASSUME Places, Watched, Takes \/ _log_pto_thread_quit
  PROVE  Watched'
<1>1. cur # NoUser /\ buf[cur] # <<>> /\ Pop(cur) /\ lost' = lost
  BY DEF Takes, _log_pto_thread_quit, user, losses
<1>. SUFFICES ASSUME Lossless' PROVE Looked' BY DEF Watched
<1>0. Looked BY <1>1 DEF Watched, Lossless
<1>2. /\ Types /\ cur \in User /\ fpc \in {"active", "scan"}
      /\ threads \subseteq User /\ NoUser \notin User
  BY <1>1, FlogAssumption DEF Places, Types, Phases
<1>3. \A v \in User : v # cur => buf'[v] = buf[v] BY <1>1, PopEffect
<1>4. CASE Takes
  <2>1. /\ round' = (round \/ fpc = "scan")
        /\ UNCHANGED <<fpc, cur, scan, threads, th, efd, upc>>
    BY <1>4 DEF Takes
  <2>2. \A v \in User : Waiting(v)' => Waiting(v) BY <1>1, <1>3, <2>1 DEF Waiting
  <2>. QED BY <1>0, <1>2, <2>1, <2>2 DEF Looked
<1>5. CASE _log_pto_thread_quit
  <2>1. /\ th' = [th EXCEPT ![cur] = "freed"] /\ efd' = [efd EXCEPT ![cur] = FALSE]
        /\ threads' = threads \ {cur} /\ cur' = NoUser
        /\ UNCHANGED <<fpc, scan, round, upc, curr_aid>>
    BY <1>5 DEF _log_pto_thread_quit, Unregister, rounds, user
  <2>2. \A v \in User : v = cur => ~Waiting(v)'
    <3>1. th'[cur] = "freed" BY <1>2, <2>1 DEF Types
    <3>. QED BY <3>1 DEF Waiting
  <2>3. \A v \in User : v # cur => /\ Waiting(v)' <=> Waiting(v)
                                   /\ Settled(v)' <=> Settled(v)
    BY <1>2, <1>3, <2>1 DEF Waiting, Settled, Types
  <2>4. \A v \in User : v \notin threads' => ~Waiting(v)' BY <1>0, <2>1, <2>2, <2>3 DEF Looked
  <2>5. fpc' = "scan" /\ ~round'
          => \A v \in threads' : v \notin scan' /\ v # cur' => Settled(v)'
    BY <1>0, <1>2, <2>1, <2>3 DEF Looked
  <2>. QED BY <1>2, <2>1, <2>4, <2>5 DEF Looked
<1>. QED BY <1>4, <1>5

\* Every step keeps Watched.
LEMMA WatchedNext == Places /\ Numbers /\ Watched /\ [Next]_vars => Watched'
<1>. SUFFICES ASSUME Places, Numbers, Watched, [Next]_vars PROVE Watched' OBVIOUS
<1>1. ASSUME NEW u \in User, Drops(u) PROVE Watched' BY <1>1, NumbersDrops DEF Watched
<1>2. CASE GivesUp BY <1>2, PlacesGivesUp DEF Watched
<1>3. CASE UNCHANGED vars BY <1>3, OtherKinds, WatchedMove
<1>4. CASE Next
  BY <1>1, <1>2, <1>4, UserKinds, OtherKinds, WatchedUsers, WatchedMove, WatchedPops
  DEF Next, UserStep, _log_fetcher
<1>. QED BY <1>3, <1>4

\* When the fetcher goes to sleep, and when it ends, no buffer has a message first
\* whose turn it is unless the thread's eventfd is readable or about to be: with
\* any number of threads the passes over them end only when nothing can be written.
THEOREM NoMessageStuck == Spec => []NothingStuck
<1>1. Watched => NothingStuck BY DEF Watched, Looked, Settled, NothingStuck
<1>. QED BY <1>1, PlacesInit, PlacesNext, NumbersInit, NumbersNext, WatchedInit, WatchedNext,
            PTL DEF Spec
=============================================================================
