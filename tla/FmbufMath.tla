------------------------------ MODULE FmbufMath ------------------------------
(***************************************************************************)
(* The pointer arithmetic of fmbuf.  A pointer into the buffer is its      *)
(* offset from MBUF_START; a buffer of size s has the s + 1 cells 0 .. s   *)
(* (one byte is reserved, so that a full buffer differs from an empty one).*)
(* The operators are shared by the sequential module Fmbuf and by          *)
(* FmbufSpsc, where a producer and a consumer thread use one buffer.       *)
(***************************************************************************)
EXTENDS Integers, Sequences

\* Bytes between the head h and the tail t.
MBUF_USED(h, t, s) == IF h <= t THEN t - h ELSE s - (h - t) + 1

\* Bytes that can still be pushed.  (Mutant: the reserved byte forgotten.)
MBUF_FREE_NoReserve(h, t, s) == IF h <= t THEN s - (t - h) ELSE h - t

MBUF_FREE(h, t, s) == IF h <= t THEN s - (t - h) ELSE h - t - 1

\* Cells between the tail and the end, and between the start and the head.
fmbuf_tail_free(t, s) == s - t
fmbuf_head_free(h) == h

\* memcpy of the bytes d to offset p, and memmove of n bytes.
Store(b, p, d) ==
  [k \in DOMAIN b |-> IF p <= k /\ k < p + Len(d) THEN d[k - p + 1] ELSE b[k]]

Move(b, dst, src, n) ==
  [k \in DOMAIN b |-> IF dst <= k /\ k < dst + n THEN b[src + k - dst] ELSE b[k]]

\* The cells after fmbuf_push has copied d in, and the tail it publishes: in one
\* piece when d fits before the end (the end itself included), else in two.
PushStore(b, t, d, s) ==
  LET tail_free == fmbuf_tail_free(t, s) + 1
      n         == Len(d)
  IN  IF tail_free >= n
      THEN Store(b, t, d)
      ELSE Store(Store(b, t, SubSeq(d, 1, tail_free)),
                 0, SubSeq(d, tail_free + 1, n))

\* (Mutant: a tail that runs past the end is not wrapped.)
PushTail_NoWrap(t, n, s) ==
  IF fmbuf_tail_free(t, s) + 1 >= n THEN t + n ELSE n - (fmbuf_tail_free(t, s) + 1)

PushTail(t, n, s) ==
  LET tail_free == fmbuf_tail_free(t, s) + 1
  IN  IF tail_free >= n
      THEN IF t + n > s THEN 0 ELSE t + n
      ELSE n - tail_free

\* The n bytes fmbuf_pop, fmbuf_vpop and fmbuf_rawget deliver from head h, and
\* the head that popping them leaves.
ReadBytes(b, h, n, s) ==
  LET tail_use == s - h + 1
  IN  [i \in 1..n |-> IF i <= tail_use THEN b[h + i - 1] ELSE b[i - tail_use - 1]]

PopHead(h, n, s) ==
  LET tail_use == s - h + 1
  IN  IF tail_use >= n
      THEN IF h + n > s THEN 0 ELSE h + n
      ELSE n - tail_use
=============================================================================
