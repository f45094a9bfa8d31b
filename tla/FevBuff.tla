------------------------------ MODULE FevBuff ------------------------------
(***************************************************************************)
(* Buffered socket I/O (fev_buff.c): a read buffer that is filled from the *)
(* socket on demand, and a write buffer for what the socket did not take,  *)
(* both fmbufs that are used as arrays.  The write event of the event loop *)
(* is asked for when there is something to send and given up when there is *)
(* not.                                                                    *)
(*                                                                         *)
(* A byte is its position in the stream it belongs to, counted from 1, and *)
(* 0 where nothing was written.  Buffers are records of what Fmbuf has as  *)
(* variables.  read_cb and error_cb belong to the program: what they call  *)
(* are actions, and nothing is done after they return.  The specification  *)
(* is BSpec: its name and those of its parts leave Spec to the connections.*)
(***************************************************************************)
EXTENDS FmbufMath

CONSTANTS FEV_BUFF_DEFAULT_SIZE,
          MaxLen,          \* bound: the longest read, write or pop that is asked for
          MaxIn, MaxOut    \* bounds: bytes received and bytes written

ASSUME FevBuffAssumption == /\ FEV_BUFF_DEFAULT_SIZE \in Nat /\ MaxLen \in Nat
                            /\ MaxIn \in Nat /\ MaxOut \in Nat

VARIABLES
  live,            \* the fev_buff exists
  rbuf, wbuf,
  mask,            \* what its descriptor is registered for
  pc,              \* "app", or "evbuff_write" inside of its loop
  got,             \* what the last call has copied to its caller
  received,        \* history: bytes the socket has delivered
  popped,          \* history: bytes the program is done with
  written,         \* history: bytes given to fevbuff_write and not refused
  sent,            \* history: what the socket has taken
  overrun          \* history: a copy went beyond the end of a buffer

counts == <<received, popped, written, sent, overrun>>
bvars == <<live, rbuf, wbuf, mask, pc, got, counts>>

Upto(n, k) == [i \in 1..k |-> n + i]      \* the k bytes after position n

-----------------------------------------------------------------------------
(* fmbuf.c, as far as an array goes.                                       *)

fmbuf_create(n) == [size |-> n, head |-> 0, tail |-> 0, mem |-> [k \in 0..n |-> 0]]

fmbuf_used(b) == MBUF_USED(b.head, b.tail, b.size)
fmbuf_free(b) == MBUF_FREE(b.head, b.tail, b.size)
TailFree(b) == fmbuf_tail_free(b.tail, b.size)
Content(b) == ReadBytes(b.mem, b.head, fmbuf_used(b), b.size)

\* (Mutant: the bytes are not moved.)
fmbuf_rewind_NoMove(b) == [b EXCEPT !.head = 0, !.tail = @ - b.head]

fmbuf_rewind(b) == [b EXCEPT !.mem = Move(@, 0, b.head, fmbuf_used(b)),
                             !.head = 0, !.tail = @ - b.head]

\* It only ever grows here.
fmbuf_realloc(b, n) ==
  [b EXCEPT !.size = n,
            !.mem = [k \in 0..n |-> IF k <= b.size THEN b.mem[k] ELSE 0]]

\* memcpy to the tail.  Cells beyond the end are not there.
AtTail(b, d) == [b EXCEPT !.mem = Store(@, b.tail, d)]
Beyond(b, n) == b.tail + n > b.size + 1

-----------------------------------------------------------------------------
BInit == /\ live = FALSE /\ mask = {} /\ pc = "app" /\ got = <<>>
         /\ rbuf = fmbuf_create(FEV_BUFF_DEFAULT_SIZE)
         /\ wbuf = fmbuf_create(FEV_BUFF_DEFAULT_SIZE)
         /\ received = 0 /\ popped = 0 /\ written = 0 /\ sent = <<>> /\ overrun = FALSE

\* With a new connection.  When it cannot be registered everything is released.
fevbuff_new == /\ ~live /\ live' = TRUE
               /\ rbuf' = fmbuf_create(FEV_BUFF_DEFAULT_SIZE)
               /\ wbuf' = fmbuf_create(FEV_BUFF_DEFAULT_SIZE)
               /\ mask' = {"READ"} /\ got' = <<>>
               /\ received' = 0 /\ popped' = 0 /\ written' = 0 /\ sent' = <<>>
               /\ UNCHANGED <<pc, overrun>>

BInApp == live /\ pc = "app"

fevbuff_destroy == /\ BInApp /\ live' = FALSE
                   /\ mask' = mask \ {"READ", "WRITE"} /\ got' = <<>>
                   /\ UNCHANGED <<rbuf, wbuf, pc>> /\ UNCHANGED counts

-----------------------------------------------------------------------------
(* Reading.                                                                *)

\* The read buffer with room for need more bytes, len with those it has.
\* (Mutant: the buffer is rewound and never grows.)
ReadRoom_NoRealloc(b, need, len) == IF need > TailFree(b) THEN fmbuf_rewind(b) ELSE b

ReadRoom(b, need, len) ==
  LET r == fmbuf_rewind(b)
  IN  IF need > TailFree(b)
      THEN IF fmbuf_free(r) < need THEN fmbuf_realloc(r, len) ELSE r
      ELSE b

\* Bytes are copied only to a caller who gives a pbuf.
Copied(b, n, pbuf) == IF pbuf THEN SubSeq(Content(b), 1, n) ELSE <<>>

\* Enough is there: nothing is read.
ReadLocal(len, pbuf) == /\ len <= fmbuf_used(rbuf)
                        /\ got' = Copied(rbuf, len, pbuf)
                        /\ UNCHANGED <<rbuf, received, overrun>>

\* The socket gives n of the bytes that are missing, none when it would block.
ReadSocket(len, pbuf, n) ==
  LET need == len - fmbuf_used(rbuf)
      b    == ReadRoom(rbuf, need, len)
      r    == [AtTail(b, Upto(received, n)) EXCEPT !.tail = @ + n]
      used == fmbuf_used(r)
  IN  /\ need > 0 /\ n <= need /\ received + n <= MaxIn
      /\ rbuf' = r /\ received' = received + n
      /\ overrun' = (overrun \/ Beyond(b, need))
      /\ got' = Copied(r, IF used > len THEN len ELSE used, pbuf)

\* The socket fails or its peer has closed it: error_cb is called.
ReadError(len) ==
  LET need == len - fmbuf_used(rbuf)
      b    == ReadRoom(rbuf, need, len)
  IN  /\ need > 0
      /\ rbuf' = b /\ got' = <<>>
      /\ overrun' = (overrun \/ Beyond(b, need))
      /\ UNCHANGED received

fevbuff_read(len, pbuf) ==
  /\ BInApp
  /\ ReadLocal(len, pbuf) \/ ReadError(len) \/ \E n \in 0..len : ReadSocket(len, pbuf, n)
  /\ UNCHANGED <<live, wbuf, mask, pc, popped, written, sent>>

PopLen(len) == IF fmbuf_used(rbuf) > len THEN len ELSE fmbuf_used(rbuf)

fevbuff_pop(len) ==
  /\ BInApp
  /\ rbuf' = [rbuf EXCEPT !.head = @ + PopLen(len)]
  /\ popped' = popped + PopLen(len)
  /\ got' = <<>>
  /\ UNCHANGED <<live, wbuf, mask, pc, received, written, sent, overrun>>

-----------------------------------------------------------------------------
(* Writing.                                                                *)

WriteRoom(b, len) ==
  LET r == fmbuf_rewind(b)
  IN  IF TailFree(b) < len
      THEN IF TailFree(r) < len THEN fmbuf_realloc(r, len + fmbuf_used(r)) ELSE r
      ELSE b

\* What was not sent goes to the tail of wbuf; the tail stays where it is.  Whether
\* fev_add_event succeeds is not looked at.
fevbuff_cache_data(d) ==
  LET b == WriteRoom(wbuf, Len(d))
  IN  IF d = <<>>
      THEN UNCHANGED <<wbuf, mask, overrun>>
      ELSE /\ wbuf' = AtTail(b, d)
           /\ overrun' = (overrun \/ Beyond(b, Len(d)))
           /\ mask' = mask \cup {"WRITE"} \/ UNCHANGED mask

\* The socket takes n of the bytes, none when it would block, unless bytes are
\* waiting already.
fevbuff_write(len, n) ==
  LET d == Upto(written, len)
  IN  /\ BInApp
      /\ len > 0 /\ written + len <= MaxOut
      /\ fmbuf_used(wbuf) > 0 => n = 0
      /\ sent' = sent \o SubSeq(d, 1, n)
      /\ fevbuff_cache_data(SubSeq(d, n + 1, len))
      /\ written' = written + len
      /\ got' = <<>>
      /\ UNCHANGED <<live, rbuf, pc, received, popped>>

\* The write event: the loop sends until nothing is left or the socket would block.
\* An error calls error_cb.
WriteEvent == /\ BInApp /\ "WRITE" \in mask
              /\ pc' = "evbuff_write"
              /\ UNCHANGED <<live, rbuf, wbuf, mask, got>> /\ UNCHANGED counts

\* fev_write and fmbuf_head_seek, and the ways out of the loop with bytes left.
SendCached ==
  \E n \in 0..fmbuf_used(wbuf) :
    /\ sent' = sent \o SubSeq(Content(wbuf), 1, n)
    /\ wbuf' = [wbuf EXCEPT !.head = @ + n]
    /\ pc' = IF n > 0 THEN pc ELSE "app"
    /\ UNCHANGED mask

\* (Mutant: the event is kept.)
SendDone_Keep == pc' = "app" /\ UNCHANGED <<mask, sent, wbuf>>

SendDone == pc' = "app" /\ mask' = mask \ {"WRITE"} /\ UNCHANGED <<sent, wbuf>>

evbuff_write == /\ pc = "evbuff_write"
                /\ IF fmbuf_used(wbuf) = 0 THEN SendDone ELSE SendCached
                /\ UNCHANGED <<live, rbuf, got, received, popped, written, overrun>>

-----------------------------------------------------------------------------
Lens == 0..MaxLen

BNext == \/ fevbuff_new \/ fevbuff_destroy
         \/ \E len \in Lens : \/ \E pbuf \in BOOLEAN : fevbuff_read(len, pbuf)
                              \/ fevbuff_pop(len)
                              \/ \E n \in 0..len : fevbuff_write(len, n)
         \/ WriteEvent \/ evbuff_write

BSpec == BInit /\ [][BNext]_bvars

\* The program polls, and a socket registered for writing gets writable again.
BFairSpec == BSpec /\ WF_bvars(WriteEvent) /\ WF_bvars(evbuff_write)

-----------------------------------------------------------------------------
(* Properties.                                                             *)

\* Type invariant; a fev_buff that is gone has no event registered.
BTypeOK == /\ live \in BOOLEAN /\ overrun \in BOOLEAN
           /\ \A b \in {rbuf, wbuf} : /\ b.size \in Nat
                                      /\ b.tail \in 0..b.size /\ b.head \in 0..b.tail
                                      /\ b.mem \in [0..b.size -> Nat]
           /\ mask \subseteq {"READ", "WRITE"} /\ (~live => mask = {})
           /\ pc \in {"app", "evbuff_write"}
           /\ got \in Seq(1..MaxIn) /\ sent \in Seq(1..MaxOut)
           /\ received \in 0..MaxIn /\ popped \in 0..MaxIn /\ written \in 0..MaxOut

\* Nothing the program reads is lost, doubled or out of order: the read buffer holds
\* what was received and not popped, and a copy begins with the first byte that was
\* not popped, whatever the buffer was rewound or reallocated for and however little
\* the socket gave at a time.
ReadIntact == live => /\ Content(rbuf) = Upto(popped, received - popped)
                      /\ got = Upto(popped, Len(got))

\* No copy goes beyond the end of a buffer: there is room for what fevbuff_read asks
\* the socket for, and for what fevbuff_write keeps.
InBounds == ~overrun

\* The write event is given up again when there is nothing to send: a writable
\* socket does not keep the event loop busy for good.
WriteEventEnds == "WRITE" \in mask ~> "WRITE" \notin mask

\* What the peer gets is what was written, without a gap: bytes that the socket does
\* not take are cached and sent when the socket can be written ("cache data", "it
\* need to wait for the writing status activitly").
SentInOrder == sent = Upto(0, Len(sent))
=============================================================================
