-------------------------------- MODULE Fmbuf --------------------------------
(***************************************************************************)
(* fmbuf/fmbuf.c used by one thread, as a ring buffer and as an array.     *)
(*                                                                         *)
(* size, head and tail are the fields of struct _mbuf (head and tail as    *)
(* offsets), buf the memory behind them.  ret and got record what the last *)
(* call returned to its caller.                                            *)
(*                                                                         *)
(* fmbuf_alloc, fmbuf_rewind and the seeks take no account of wrapping     *)
(* (fmbuf.h: "it only can be used when the fmbuf as a array"); their       *)
(* guards are the contract that every caller in the repository keeps.      *)
(***************************************************************************)
EXTENDS FmbufMath

CONSTANTS Byte,      \* the values of a byte
          Zero,      \* the byte calloc fills the memory with
          MaxSize    \* bound on the sizes asked for

ASSUME ByteAssumption == Zero \in Byte
ASSUME MaxSizeAssumption == MaxSize \in Nat

VARIABLES size, head, tail, buf, ret, got

vars == <<size, head, tail, buf, ret, got>>

Used == MBUF_USED(head, tail, size)
Free == MBUF_FREE(head, tail, size)

\* The bytes between head and tail, in the order they will be read.
Content == ReadBytes(buf, head, Used, size)

\* The buffer is used as an array: its content does not wrap.
Linear == head <= tail

Bytes(n) == [1..n -> Byte]
Sizes == 0..MaxSize
Amounts == 0..MaxSize + 1      \* one more than fits, for the failing calls

Returns(r, d) == ret' = r /\ got' = d

fmbuf_create(n) == /\ size = n
                   /\ head = 0
                   /\ tail = 0
                   /\ buf = [k \in 0..n |-> Zero]

Init == /\ \E n \in Sizes : fmbuf_create(n)
        /\ ret = 0
        /\ got = <<>>

-----------------------------------------------------------------------------
(* As a ring buffer.                                                       *)

fmbuf_push(d) ==
  \/ /\ Len(d) > 0 /\ Free >= Len(d)
     /\ buf' = PushStore(buf, tail, d, size)
     /\ tail' = PushTail(tail, Len(d), size)
     /\ Returns(0, <<>>)
     /\ UNCHANGED <<size, head>>
  \/ /\ ~(Len(d) > 0 /\ Free >= Len(d))
     /\ Returns(1, <<>>)
     /\ UNCHANGED <<size, head, tail, buf>>

CanRead(n) == n > 0 /\ n <= Used

CannotRead(n) == /\ ~CanRead(n)
                 /\ Returns(1, <<>>)
                 /\ UNCHANGED <<size, head, tail, buf>>

\* fmbuf_pop into a caller's buffer; with a NULL buffer the bytes are dropped.
fmbuf_pop(n) ==
  \/ /\ CanRead(n)
     /\ head' = PopHead(head, n, size)
     /\ Returns(0, ReadBytes(buf, head, n, size))
     /\ UNCHANGED <<size, tail, buf>>
  \/ CannotRead(n)

fmbuf_pop_null(n) ==
  \/ /\ CanRead(n)
     /\ head' = PopHead(head, n, size)
     /\ Returns(0, <<>>)
     /\ UNCHANGED <<size, tail, buf>>
  \/ CannotRead(n)

\* fmbuf_vpop returns a pointer into the buffer when the bytes do not wrap; the
\* caller reads the same bytes either way.
fmbuf_vpop(n) ==
  \/ /\ CanRead(n)
     /\ head' = PopHead(head, n, size)
     /\ Returns(0, ReadBytes(buf, head, n, size))
     /\ UNCHANGED <<size, tail, buf>>
  \/ CannotRead(n)

fmbuf_rawget(n) ==
  \/ /\ CanRead(n)
     /\ Returns(0, ReadBytes(buf, head, n, size))
     /\ UNCHANGED <<size, head, tail, buf>>
  \/ CannotRead(n)

fmbuf_clear == /\ head' = 0 /\ tail' = 0
               /\ Returns(0, <<>>)
               /\ UNCHANGED <<size, buf>>

-----------------------------------------------------------------------------
(* As an array.                                                            *)

\* The cells, the head and the tail that fmbuf_rewind leaves (with nothing
\* before the head all three are what they were).
RewoundBuf == Move(buf, 0, head, Used)
RewoundHead == head - fmbuf_head_free(head)
RewoundTail == tail - fmbuf_head_free(head)

fmbuf_rewind == /\ Linear
                /\ buf' = RewoundBuf /\ head' = RewoundHead /\ tail' = RewoundTail
                /\ Returns(0, <<>>)
                /\ UNCHANGED size

\* fmbuf_alloc makes room by rewinding, whether or not that is then enough.
AllocInPlace(n) == /\ fmbuf_tail_free(tail, size) >= n
                   /\ tail' = tail + n
                   /\ Returns(0, <<>>)
                   /\ UNCHANGED <<head, buf>>

AllocRewound(n) == /\ fmbuf_tail_free(tail, size) < n
                   /\ buf' = RewoundBuf /\ head' = RewoundHead
                   /\ \/ /\ fmbuf_tail_free(RewoundTail, size) >= n
                         /\ tail' = RewoundTail + n
                         /\ Returns(0, <<>>)
                      \/ /\ fmbuf_tail_free(RewoundTail, size) < n
                         /\ tail' = RewoundTail
                         /\ Returns(1, <<>>)

fmbuf_alloc(n) == /\ Linear
                  /\ AllocInPlace(n) \/ AllocRewound(n)
                  /\ UNCHANGED size

\* Seeks.  To the right, the head skips bytes the caller has read in place, and
\* the tail publishes the bytes d the caller has written at it; to the left, the
\* head takes back bytes and the tail withdraws them.
fmbuf_head_seek_right(n) == /\ n <= Used /\ head + n <= size
                            /\ n > 0
                            /\ head' = head + n
                            /\ Returns(0, <<>>)
                            /\ UNCHANGED <<size, tail, buf>>

fmbuf_tail_seek_right(d) == /\ Len(d) > 0
                            /\ Len(d) <= Free /\ tail + Len(d) <= size
                            /\ buf' = Store(buf, tail, d)
                            /\ tail' = tail + Len(d)
                            /\ Returns(0, <<>>)
                            /\ UNCHANGED <<size, head>>

fmbuf_head_seek_left(n) == /\ n <= Free /\ n <= fmbuf_head_free(head)
                           /\ head' = head - n
                           /\ Returns(0, <<>>)
                           /\ UNCHANGED <<size, tail, buf>>

fmbuf_tail_seek_left(n) == /\ n <= Used /\ n <= tail
                           /\ tail' = tail - n
                           /\ Returns(0, <<>>)
                           /\ UNCHANGED <<size, head, buf>>

-----------------------------------------------------------------------------
(* fmbuf_realloc: realloc keeps the cells that fit; new cells hold anything. *)

Grown(n) == {b \in [0..n -> Byte] : \A k \in 0..size : b[k] = buf[k]}
Cut(b, n) == [k \in 0..n |-> b[k]]

LeftUsed == tail
RightUsed == Used - LeftUsed

\* The part before the tail is moved behind the old end when it is the smaller
\* one and fits there, else the part after the head is moved to the new end.
\* (Mutant: the smaller part is moved whether or not it fits.)
MoveLeftPart_Unchecked(inc) == LeftUsed <= RightUsed

MoveLeftPart(inc) == LeftUsed <= RightUsed /\ LeftUsed <= inc

_increase_buf(n) ==
  /\ size' = n
  /\ \E b \in Grown(n) :
       \/ Linear /\ buf' = b /\ UNCHANGED <<head, tail>>
       \/ /\ ~Linear /\ MoveLeftPart(n - size)
          /\ buf' = Move(b, size + 1, 0, LeftUsed)
          /\ tail' = (IF size + 1 + LeftUsed > n THEN 0 ELSE size + 1 + LeftUsed)
          /\ head' = head
       \/ /\ ~Linear /\ ~MoveLeftPart(n - size)
          /\ buf' = Move(b, head + (n - size), head, RightUsed)
          /\ head' = head + (n - size)
          /\ tail' = tail

\* An array is rewound when its tail lies beyond the new size; a wrapped ring
\* gives up at most its free bytes.
_decrease_buf(n) ==
  \/ /\ Linear /\ tail <= n
     /\ size' = n
     /\ buf' = Cut(buf, n)
     /\ UNCHANGED <<head, tail>>
  \/ /\ Linear /\ tail > n
     /\ size' = (IF RewoundTail > n THEN RewoundTail ELSE n)
     /\ buf' = Cut(RewoundBuf, size')
     /\ head' = RewoundHead /\ tail' = RewoundTail
  \/ /\ ~Linear
     /\ LET dec     == size - n
            move_sz == IF Free >= dec THEN dec ELSE Free
        IN  /\ size' = size - move_sz
            /\ buf' = Cut(Move(buf, head - move_sz, head, RightUsed), size')
            /\ head' = head - move_sz
            /\ tail' = tail

fmbuf_realloc(n) == /\ \/ n = size /\ UNCHANGED <<size, head, tail, buf>>
                       \/ n > size /\ _increase_buf(n)
                       \/ n < size /\ _decrease_buf(n)
                    /\ Returns(0, <<>>)

-----------------------------------------------------------------------------
Next == \/ \E n \in Amounts :
             \/ \E d \in Bytes(n) : fmbuf_push(d)
             \/ fmbuf_pop(n)
             \/ fmbuf_pop_null(n)
             \/ fmbuf_vpop(n)
             \/ fmbuf_rawget(n)
             \/ fmbuf_alloc(n)
             \/ fmbuf_head_seek_right(n)
             \/ \E d \in Bytes(n) : fmbuf_tail_seek_right(d)
             \/ fmbuf_head_seek_left(n)
             \/ fmbuf_tail_seek_left(n)
        \/ \E n \in Sizes : fmbuf_realloc(n)
        \/ fmbuf_clear
        \/ fmbuf_rewind

Spec == Init /\ [][Next]_vars

-----------------------------------------------------------------------------
(* Properties.                                                             *)

\* Type invariant: both offsets stay inside the cells, so that every copy the
\* operations make stays inside the memory that fmbuf_create or realloc gave.
TypeOK == /\ size \in Sizes
          /\ head \in 0..size
          /\ tail \in 0..size
          /\ buf \in [0..size -> Byte]
          /\ ret \in {0, 1}
          /\ got \in Seq(Byte)

\* The header comment of fmbuf.c: the buffer is empty exactly when the tail has
\* reached the head, full exactly when the cell after the tail is the head; and
\* what is used and what is free always add up to the size.
EmptyAndFull == /\ Used + Free = size
                /\ (Used = 0) <=> (head = tail)
                /\ (Free = 0) <=> (head = IF tail = size THEN 0 ELSE tail + 1)

\* The fmbuf implements a bounded byte queue: whatever mixture of ring, array,
\* seek and realloc calls is made, bytes come out in the order they went in,
\* none is lost, duplicated or overwritten, a call fails only when the queue is
\* too full or too empty, and fmbuf_realloc gives the larger of the size asked
\* for and the content.
Fifo == INSTANCE ByteFifo WITH q <- Content, cap <- size
ImplementsFifo == Fifo!Spec
=============================================================================
