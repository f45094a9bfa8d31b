--------------------------- MODULE FmbufMathProofs ---------------------------
(***************************************************************************)
(* What the operators of FmbufMath compute, for every size and every set   *)
(* of bytes.  The proofs about Fmbuf, FmbufSpsc and FevBuff rest on these  *)
(* lemmas.                                                                 *)
(***************************************************************************)
EXTENDS FmbufMath, SequenceTheorems, TLAPS

-----------------------------------------------------------------------------
(* Lemmas about sequences and about the arithmetic of FmbufMath.           *)

\* n values of S, and the memory behind a buffer of size s.  Names for these sets
\* let a proof refer to a lemma without looking at every function around.
Block(n, S) == [1..n -> S]
Memory(s, S) == [0..s -> S]

\* A function on 1..n is a sequence of length n.
LEMMA FunctionIsSeq ==
  ASSUME NEW S, NEW n \in Nat, NEW f \in Block(n, S)
  PROVE  f \in Seq(S) /\ Len(f) = n /\ DOMAIN f = 1..n
<1>1. f \in Seq(S) BY SeqDef DEF Block
<1>2. Len(f) \in Nat /\ DOMAIN f = 1..Len(f) BY <1>1, LenProperties
<1>3. 1..Len(f) = 1..n BY <1>2 DEF Block
<1>4. Len(f) = n BY <1>2, <1>3 DEF Block
<1>. QED BY <1>1, <1>4 DEF Block

\* Two functions on 1..n that agree everywhere are equal.
LEMMA SameFunction ==
  ASSUME NEW S, NEW n \in Nat, NEW f \in Block(n, S), NEW g \in Block(n, S),
         \A i \in 1..n : f[i] = g[i]
  PROVE  f = g
BY DEF Block

\* The m bytes lo..hi of d.
LEMMA SubSeqCells ==
  ASSUME NEW S, NEW n \in Nat, NEW d \in Block(n, S),
         NEW lo \in Nat, NEW hi \in Nat, NEW m \in Nat,
         1 <= lo, hi <= n, hi = lo + m - 1
  PROVE  /\ SubSeq(d, lo, hi) \in Block(m, S)
         /\ SubSeq(d, lo, hi) \in Seq(S)
         /\ Len(SubSeq(d, lo, hi)) = m
         /\ \A i \in 1..m : SubSeq(d, lo, hi)[i] = d[lo + i - 1]
<1>. DEFINE p == SubSeq(d, lo, hi)
<1>1. \A i \in lo..hi : d[i] \in S BY DEF Block
<1>2. /\ p \in Seq(S)
      /\ Len(p) = (IF lo <= hi THEN hi - lo + 1 ELSE 0)
      /\ \A i \in 1..(hi - lo + 1) : p[i] = d[lo + i - 1]
  BY <1>1, SubSeqProperties
<1>. HIDE DEF p
<1>3. hi - lo + 1 = m /\ (lo <= hi \/ m = 0) OBVIOUS
<1>4. Len(p) = m /\ \A i \in 1..m : p[i] = d[lo + i - 1] BY <1>2, <1>3
<1>5. p \in Block(m, S) BY <1>2, <1>4, LenProperties DEF Block
<1>. QED BY <1>2, <1>4, <1>5 DEF p

\* MBUF_USED and MBUF_FREE split the size.
LEMMA UsedFree ==
  ASSUME NEW s \in Nat, NEW h \in 0..s, NEW t \in 0..s
  PROVE  /\ MBUF_USED(h, t, s) \in 0..s
         /\ MBUF_FREE(h, t, s) \in 0..s
         /\ MBUF_USED(h, t, s) + MBUF_FREE(h, t, s) = s
BY DEF MBUF_USED, MBUF_FREE

\* The offset of the i-th byte after the head h.
Cell(h, i, s) == IF i <= s - h + 1 THEN h + i - 1 ELSE i - (s - h + 1) - 1

\* The cells of up to s + 1 bytes after a head are cells of the buffer.
LEMMA CellType ==
  ASSUME NEW s \in Nat, NEW h \in 0..s, NEW n \in 0..(s + 1)
  PROVE  \A i \in 1..n : Cell(h, i, s) \in 0..s
BY DEF Cell

\* Each byte that is read is that of its cell.
LEMMA ReadAt ==
  ASSUME NEW b, NEW h, NEW n, NEW s
  PROVE  \A i \in 1..n : ReadBytes(b, h, n, s)[i] = b[Cell(h, i, s)]
BY DEF ReadBytes, Cell

\* What is read is a sequence of n bytes, one cell after the other.
LEMMA ReadIsSeq ==
  ASSUME NEW Byte, NEW s \in Nat, NEW h \in 0..s, NEW b \in Memory(s, Byte),
         NEW n \in 0..s
  PROVE  /\ ReadBytes(b, h, n, s) \in Block(n, Byte)
         /\ ReadBytes(b, h, n, s) \in Seq(Byte)
         /\ Len(ReadBytes(b, h, n, s)) = n
         /\ \A i \in 1..n : ReadBytes(b, h, n, s)[i] = b[Cell(h, i, s)]
<1>1. \A i \in 1..n : Cell(h, i, s) \in 0..s BY CellType
<1>2. ReadBytes(b, h, n, s) = [i \in 1..n |-> b[Cell(h, i, s)]]
  BY DEF ReadBytes, Cell
<1>3. ReadBytes(b, h, n, s) \in Block(n, Byte) BY <1>1, <1>2 DEF Block, Memory
<1>. QED BY <1>1, <1>2, <1>3, FunctionIsSeq

\* Copies in memory keep the type of the memory and are what they look like.
LEMMA StoreType ==
  ASSUME NEW Byte, NEW s \in Nat, NEW b \in Memory(s, Byte), NEW p \in 0..s,
         NEW n \in Nat, NEW d \in Block(n, Byte), p + n <= s + 1
  PROVE  /\ Store(b, p, d) \in Memory(s, Byte)
         /\ \A k \in 0..s : Store(b, p, d)[k] =
              IF p <= k /\ k < p + n THEN d[k - p + 1] ELSE b[k]
<1>1. Len(d) = n BY FunctionIsSeq
<1>2. \A k \in 0..s : p <= k /\ k < p + n => k - p + 1 \in 1..n OBVIOUS
<1>. QED BY <1>1, <1>2 DEF Store, Block, Memory

\* memmove inside the buffer (Move) keeps every byte a byte and changes only
\* the cells of its destination.
LEMMA MoveType ==
  ASSUME NEW Byte, NEW s \in Nat, NEW b \in Memory(s, Byte), NEW dst \in Nat,
         NEW src \in Nat, NEW n \in Nat, dst + n <= s + 1, src + n <= s + 1
  PROVE  /\ Move(b, dst, src, n) \in Memory(s, Byte)
         /\ \A k \in 0..s : Move(b, dst, src, n)[k] =
              IF dst <= k /\ k < dst + n THEN b[src + k - dst] ELSE b[k]
<1>1. \A k \in 0..s : dst <= k /\ k < dst + n => src + k - dst \in 0..s OBVIOUS
<1>. QED BY <1>1 DEF Move, Memory

\* fmbuf_push writes d to the n cells after the tail, wrapping at the end.
LEMMA PushCells ==
  ASSUME NEW Byte, NEW s \in Nat, NEW t \in 0..s, NEW b \in Memory(s, Byte),
         NEW n \in 1..s, NEW d \in Block(n, Byte)
  PROVE  /\ PushTail(t, n, s) \in 0..s
         /\ PushStore(b, t, d, s) \in Memory(s, Byte)
         /\ \A k \in 0..s : PushStore(b, t, d, s)[k] =
              IF k >= t THEN (IF k < t + n THEN d[k - t + 1] ELSE b[k])
              ELSE IF k < t + n - (s + 1) THEN d[k + (s + 1) - t + 1] ELSE b[k]
<1>1. PushTail(t, n, s) \in 0..s BY DEF PushTail, fmbuf_tail_free
<1>2. d \in Seq(Byte) /\ Len(d) = n BY FunctionIsSeq
<1>3. CASE s - t + 1 >= n
  <2>1. PushStore(b, t, d, s) = Store(b, t, d)
    BY <1>2, <1>3 DEF PushStore, fmbuf_tail_free
  <2>2. t + n <= s + 1 /\ n \in Nat BY <1>3
  <2>3. /\ Store(b, t, d) \in Memory(s, Byte)
        /\ \A k \in 0..s : Store(b, t, d)[k] =
             IF t <= k /\ k < t + n THEN d[k - t + 1] ELSE b[k]
    BY <2>2, StoreType
  <2>. QED BY <1>1, <1>3, <2>1, <2>3
<1>4. CASE ~(s - t + 1 >= n)
  <2>. DEFINE f == s - t + 1
              d1 == SubSeq(d, 1, f)
              d2 == SubSeq(d, f + 1, n)
  <2>1. /\ f \in 1..n-1 /\ t + f = s + 1
        /\ PushStore(b, t, d, s) = Store(Store(b, t, d1), 0, d2)
    BY <1>2, <1>4 DEF PushStore, fmbuf_tail_free
  <2>. HIDE DEF f
  <2>2. d1 \in Block(f, Byte) /\ \A i \in 1..f : d1[i] = d[i]
    <3>. DEFINE lo == 1
                m  == f
    <3>1. /\ n \in Nat /\ f \in Nat /\ lo \in Nat /\ m \in Nat
          /\ 1 <= lo /\ f <= n /\ f = lo + m - 1
          /\ \A i \in 1..m : lo + i - 1 = i
      BY <2>1
    <3>. HIDE DEF lo, m
    <3>2. /\ SubSeq(d, lo, f) \in Block(m, Byte)
          /\ \A i \in 1..m : SubSeq(d, lo, f)[i] = d[lo + i - 1]
      BY <3>1, SubSeqCells
    <3>. QED BY <3>1, <3>2 DEF lo, m
  <2>3. d2 \in Block(n - f, Byte) /\ \A i \in 1..(n - f) : d2[i] = d[f + i]
    <3>. DEFINE lo == f + 1
                m  == n - f
    <3>1. /\ n \in Nat /\ lo \in Nat /\ m \in Nat
          /\ 1 <= lo /\ n <= n /\ n = lo + m - 1
          /\ \A i \in 1..m : lo + i - 1 = f + i
      BY <2>1
    <3>. HIDE DEF lo, m
    <3>2. /\ SubSeq(d, lo, n) \in Block(m, Byte)
          /\ \A i \in 1..m : SubSeq(d, lo, n)[i] = d[lo + i - 1]
      BY <3>1, SubSeqCells
    <3>. QED BY <3>1, <3>2 DEF lo, m
  <2>. HIDE DEF d1, d2
  <2>4. /\ Store(b, t, d1) \in Memory(s, Byte)
        /\ \A k \in 0..s : Store(b, t, d1)[k] = IF k >= t THEN d1[k - t + 1] ELSE b[k]
    BY <2>1, <2>2, StoreType
  <2>. DEFINE b1 == Store(b, t, d1)
              m  == n - f
  <2>5. /\ Store(b1, 0, d2) \in Memory(s, Byte)
        /\ \A k \in 0..s : Store(b1, 0, d2)[k] = IF k < m THEN d2[k + 1] ELSE b1[k]
    <3>1. m \in Nat /\ 0 \in 0..s /\ 0 + m <= s + 1 /\ d2 \in Block(m, Byte) BY <2>1, <2>3
    <3>2. b1 \in Memory(s, Byte) BY <2>4
    <3>. HIDE DEF b1, m
    <3>3. /\ Store(b1, 0, d2) \in Memory(s, Byte)
          /\ \A k \in 0..s : Store(b1, 0, d2)[k] =
               IF 0 <= k /\ k < 0 + m THEN d2[k - 0 + 1] ELSE b1[k]
      BY <3>1, <3>2, StoreType
    <3>. QED BY <3>1, <3>3
  <2>6. n - f = t + n - (s + 1) /\ n - f <= t BY <2>1
  <2>7. ASSUME NEW k \in 0..s
        PROVE  PushStore(b, t, d, s)[k] =
                 IF k >= t THEN (IF k < t + n THEN d[k - t + 1] ELSE b[k])
                 ELSE IF k < t + n - (s + 1) THEN d[k + (s + 1) - t + 1] ELSE b[k]
    <3>1. CASE k >= t
      <4>1. k - t + 1 \in 1..f /\ ~(k < n - f) /\ k < t + n BY <2>1, <2>6, <3>1
      <4>. QED BY <2>1, <2>2, <2>4, <2>5, <3>1, <4>1
    <3>2. CASE k < t /\ k < n - f
      <4>1. k + 1 \in 1..(n - f) /\ f + (k + 1) = k + (s + 1) - t + 1 BY <2>1, <3>2
      <4>2. PushStore(b, t, d, s)[k] = d2[k + 1] BY <2>1, <2>5, <3>2
      <4>3. d2[k + 1] = d[f + (k + 1)] BY <2>3, <4>1
      <4>4. ~(k >= t) /\ k < t + n - (s + 1) BY <2>1, <2>6, <3>2
      <4>. QED BY <4>1, <4>2, <4>3, <4>4
    <3>3. CASE k < t /\ ~(k < n - f)
      BY <2>1, <2>4, <2>5, <2>6, <3>3
    <3>. QED BY <3>1, <3>2, <3>3, <2>1
  <2>. QED BY <1>1, <2>1, <2>5, <2>7
<1>. QED BY <1>3, <1>4

\* fmbuf_head_seek and fmbuf_pop leave the head inside the memory.
LEMMA PopHeadType ==
  ASSUME NEW s \in Nat, NEW h \in 0..s, NEW n \in 1..s
  PROVE  PopHead(h, n, s) \in 0..s
BY DEF PopHead

-----------------------------------------------------------------------------
(* The content that each kind of step leaves behind.                       *)

\* Pushing n bytes makes the content n bytes longer and appends exactly them:
\* nothing that was still to be read is overwritten.
LEMMA PushAppends ==
  ASSUME NEW Byte, NEW s \in Nat, NEW h \in 0..s, NEW t \in 0..s, NEW b \in Memory(s, Byte),
         NEW n \in 1..s, NEW d \in Block(n, Byte), n <= MBUF_FREE(h, t, s)
  PROVE  LET t2 == PushTail(t, n, s)
             u  == MBUF_USED(h, t, s)
         IN  /\ MBUF_USED(h, t2, s) = u + n
             /\ ReadBytes(PushStore(b, t, d, s), h, u + n, s)
                  = ReadBytes(b, h, u, s) \o d
<1>. DEFINE t2 == PushTail(t, n, s)
            u  == MBUF_USED(h, t, s)
            b2 == PushStore(b, t, d, s)
            r1 == ReadBytes(b, h, u, s)
            r2 == ReadBytes(b2, h, u + n, s)
<1>1. MBUF_USED(h, t2, s) = u + n
  BY DEF MBUF_USED, MBUF_FREE, PushTail, fmbuf_tail_free
<1>2. u \in 0..s /\ n \in Nat /\ u + n \in 0..s /\ n <= s - u BY DEF MBUF_USED, MBUF_FREE
<1>3. u = (IF h <= t THEN t - h ELSE s - (h - t) + 1) BY DEF MBUF_USED
<1>. HIDE DEF u
<1>4. /\ b2 \in Memory(s, Byte)
      /\ \A k \in 0..s : b2[k] =
           IF k >= t THEN (IF k < t + n THEN d[k - t + 1] ELSE b[k])
           ELSE IF k < t + n - (s + 1) THEN d[k + (s + 1) - t + 1] ELSE b[k]
  BY PushCells, SMTT(60)
<1>. HIDE DEF b2
<1>5. /\ r1 \in Seq(Byte) /\ Len(r1) = u
      /\ \A i \in 1..u : r1[i] = b[Cell(h, i, s)]
  <2>1. r1 \in Block(u, Byte) /\ \A i \in 1..u : r1[i] = b[Cell(h, i, s)]
    BY <1>2, ReadIsSeq
  <2>. QED BY <1>2, <2>1, FunctionIsSeq
<1>6. /\ r2 \in Seq(Byte) /\ Len(r2) = u + n
      /\ \A i \in 1..(u + n) : r2[i] = b2[Cell(h, i, s)]
  BY <1>2, <1>4, ReadIsSeq
<1>7. d \in Seq(Byte) /\ Len(d) = n BY <1>2, FunctionIsSeq
<1>. HIDE DEF r1, r2
<1>8. /\ r1 \o d \in Seq(Byte) /\ Len(r1 \o d) = u + n
      /\ \A i \in 1..(u + n) : (r1 \o d)[i] = IF i <= u THEN r1[i] ELSE d[i - u]
  BY <1>5, <1>7, ConcatProperties, ZenonT(60)
<1>9. ASSUME NEW i \in 1..(u + n) PROVE r2[i] = (r1 \o d)[i]
  <2>. DEFINE k == Cell(h, i, s)
  <2>1. k \in 0..s /\ r2[i] = b2[k] BY <1>2, <1>6, CellType, SMTT(60)
  <2>2. k = IF i <= s - h + 1 THEN h + i - 1 ELSE i - (s - h + 1) - 1 BY DEF Cell
  <2>. HIDE DEF k
  <2>3. i <= u \/ i > u BY <1>2
  <2>4. CASE i <= u
    <3>1. r1[i] = b[k] BY <1>2, <1>5, <2>4 DEF k
    <3>2. ~(k >= t /\ k < t + n) /\ ~(k < t /\ k < t + n - (s + 1))
      BY <1>2, <1>3, <2>1, <2>2, <2>4
    <3>3. b2[k] = b[k] BY <1>4, <2>1, <3>2
    <3>. QED BY <1>8, <2>1, <2>4, <3>1, <3>3
  <2>5. CASE i > u
    <3>1. \/ k >= t /\ k < t + n /\ k - t + 1 = i - u
          \/ k < t /\ k < t + n - (s + 1) /\ k + (s + 1) - t + 1 = i - u
      BY <1>2, <1>3, <2>1, <2>2, <2>5
    <3>2. b2[k] = d[i - u] BY <1>4, <2>1, <3>1
    <3>. QED BY <1>2, <1>8, <2>1, <2>5, <3>2, SMTT(60)
  <2>. QED BY <2>3, <2>4, <2>5
<1>10. r2 = r1 \o d BY <1>6, <1>8, <1>9, SeqEqual
<1>. QED BY <1>1, <1>10 DEF r1, r2, b2, u

\* The first n bytes that can be read are the first n of all u of them.
LEMMA ReadPrefix ==
  ASSUME NEW Byte, NEW s \in Nat, NEW h \in 0..s, NEW b \in Memory(s, Byte),
         NEW u \in 0..s, NEW n \in 0..u
  PROVE  ReadBytes(b, h, n, s) = SubSeq(ReadBytes(b, h, u, s), 1, n)
<1>. DEFINE r == ReadBytes(b, h, u, s)
            p == ReadBytes(b, h, n, s)
            lo == 1
            m == n
<1>1. n \in 0..s /\ u \in Nat /\ n \in Nat /\ m \in Nat /\ lo \in Nat OBVIOUS
<1>2. /\ r \in Block(u, Byte)
      /\ \A i \in 1..u : r[i] = b[Cell(h, i, s)]
  BY <1>1, ReadIsSeq
<1>3. /\ p \in Block(n, Byte)
      /\ \A i \in 1..n : p[i] = b[Cell(h, i, s)]
  BY <1>1, ReadIsSeq
<1>4. n = lo + m - 1 /\ 1 <= lo /\ n <= u /\ \A i \in 1..m : lo + i - 1 = i OBVIOUS
<1>. HIDE DEF r, p, lo, m
<1>5. /\ SubSeq(r, lo, n) \in Block(m, Byte)
      /\ \A i \in 1..m : SubSeq(r, lo, n)[i] = r[lo + i - 1]
  BY <1>1, <1>2, <1>4, SubSeqCells
<1>6. m = n BY DEF m
<1>7. \A i \in 1..n : SubSeq(r, lo, n)[i] = p[i] BY <1>1, <1>2, <1>3, <1>4, <1>5, <1>6
<1>8. SubSeq(r, lo, n) = p BY <1>1, <1>3, <1>5, <1>6, <1>7, SameFunction
<1>. QED BY <1>8 DEF r, p, lo

\* Popping n bytes leaves the others, in order.
LEMMA PopDrops ==
  ASSUME NEW Byte, NEW s \in Nat, NEW h \in 0..s, NEW t \in 0..s, NEW b \in Memory(s, Byte),
         NEW n \in 1..MBUF_USED(h, t, s)
  PROVE  LET h2 == PopHead(h, n, s)
             u  == MBUF_USED(h, t, s)
         IN  /\ h2 \in 0..s
             /\ MBUF_USED(h2, t, s) = u - n
             /\ ReadBytes(b, h2, u - n, s) = SubSeq(ReadBytes(b, h, u, s), n + 1, u)
<1>. DEFINE h2 == PopHead(h, n, s)
            u  == MBUF_USED(h, t, s)
            r  == ReadBytes(b, h, u, s)
            m  == u - n
            p  == ReadBytes(b, h2, m, s)
            lo == n + 1
<1>1. u \in 0..s BY UsedFree
<1>2. n \in 1..u OBVIOUS
<1>3. MBUF_USED(h2, t, s) = u - n BY DEF MBUF_USED, PopHead
<1>4. h2 \in 0..s BY <1>1, <1>2, PopHeadType
<1>. HIDE DEF u
<1>5. \A i \in 1..m : lo + i - 1 \in 1..u /\ Cell(h2, i, s) = Cell(h, lo + i - 1, s)
  BY <1>1, <1>2 DEF Cell, PopHead
<1>6. /\ m \in 0..s /\ m \in Nat /\ lo \in Nat /\ u \in Nat
      /\ 1 <= lo /\ u <= u /\ u = lo + m - 1
  BY <1>1, <1>2
<1>. HIDE DEF h2, m, lo
<1>7. r \in Block(u, Byte) /\ \A i \in 1..u : r[i] = b[Cell(h, i, s)]
  <2>1. r \in Block(u, Byte) BY <1>1, ReadIsSeq, ZenonT(60)
  <2>. QED BY <2>1, ReadAt
<1>8. p \in Block(m, Byte) /\ \A i \in 1..m : p[i] = b[Cell(h2, i, s)]
  BY <1>4, <1>6, ReadIsSeq
<1>. HIDE DEF r, p
<1>9. /\ SubSeq(r, lo, u) \in Block(m, Byte)
      /\ \A i \in 1..m : SubSeq(r, lo, u)[i] = r[lo + i - 1]
  BY <1>6, <1>7, SubSeqCells
<1>10. \A i \in 1..m : p[i] = SubSeq(r, lo, u)[i] BY <1>5, <1>7, <1>8, <1>9
<1>11. p = SubSeq(r, lo, u) BY <1>6, <1>8, <1>9, <1>10, SameFunction
<1>. QED BY <1>3, <1>4, <1>11 DEF r, p, m, lo, h2, u

\* The cells behind the first u bytes are the bytes a longer read appends.
Extra(b, h, u, w, s) == [i \in 1..(w - u) |-> b[Cell(h, u + i, s)]]

\* Reading further from the head appends to what a shorter read returns:
\* fmbuf_pop of w bytes is a pop of u bytes followed by the other w - u.
LEMMA ReadExtends ==
  ASSUME NEW Byte, NEW s \in Nat, NEW h \in 0..s, NEW b \in Memory(s, Byte),
         NEW u \in 0..s, NEW w \in u..s
  PROVE  /\ Extra(b, h, u, w, s) \in Block(w - u, Byte)
         /\ ReadBytes(b, h, w, s) = ReadBytes(b, h, u, s) \o Extra(b, h, u, w, s)
<1>. DEFINE n  == w - u
            d  == Extra(b, h, u, w, s)
            r1 == ReadBytes(b, h, u, s)
            r2 == ReadBytes(b, h, w, s)
<1>0. n \in Nat /\ w \in 0..s /\ w = u + n OBVIOUS
<1>1. /\ r1 \in Seq(Byte) /\ Len(r1) = u
      /\ \A i \in 1..u : r1[i] = b[Cell(h, i, s)]
  <2>1. r1 \in Block(u, Byte) /\ \A i \in 1..u : r1[i] = b[Cell(h, i, s)]
    BY ReadIsSeq
  <2>. QED BY <2>1, FunctionIsSeq
<1>2. /\ r2 \in Seq(Byte) /\ Len(r2) = w
      /\ \A i \in 1..w : r2[i] = b[Cell(h, i, s)]
  BY w \in 0..s, ReadIsSeq
<1>3. \A i \in 1..n : u + i \in 1..w BY <1>0
<1>4. d = [i \in 1..n |-> b[Cell(h, u + i, s)]] BY DEF Extra
<1>. HIDE DEF n, d, r1, r2
<1>5. d \in Block(n, Byte)
  <2>1. \A i \in 1..w : Cell(h, i, s) \in 0..s BY <1>0, CellType
  <2>2. \A i \in 1..n : b[Cell(h, u + i, s)] \in Byte BY <1>3, <2>1 DEF Memory
  <2>. QED BY <1>4, <2>2 DEF Block
<1>6. d \in Seq(Byte) /\ Len(d) = n BY <1>0, <1>5, FunctionIsSeq
<1>7. /\ r1 \o d \in Seq(Byte) /\ Len(r1 \o d) = u + n
      /\ \A i \in 1..(u + n) : (r1 \o d)[i] = IF i <= u THEN r1[i] ELSE d[i - u]
  BY <1>1, <1>6, ConcatProperties, ZenonT(60)
<1>8. ASSUME NEW i \in 1..w PROVE r2[i] = (r1 \o d)[i]
  <2>0. i \in 1..(u + n) BY <1>0
  <2>1. CASE i <= u
    <3>1. i \in 1..u /\ (r1 \o d)[i] = r1[i] BY <1>7, <2>0, <2>1
    <3>. QED BY <1>1, <1>2, <3>1
  <2>2. CASE ~(i <= u)
    <3>1. i - u \in 1..n /\ u + (i - u) = i BY <1>0, <2>2
    <3>2. d[i - u] = b[Cell(h, i, s)] BY <1>4, <3>1
    <3>3. (r1 \o d)[i] = d[i - u] BY <1>7, <2>0, <2>2, Zenon
    <3>. QED BY <1>2, <3>2, <3>3
  <2>. QED BY <2>1, <2>2
<1>9. r2 = r1 \o d BY <1>0, <1>2, <1>7, <1>8, SeqEqual
<1>. QED BY <1>5, <1>9 DEF n, d, r1, r2

\* Reading from an earlier head g puts the bytes between g and h in front.
LEMMA ReadPrepends ==
  ASSUME NEW Byte, NEW s \in Nat, NEW h \in 0..s, NEW b \in Memory(s, Byte),
         NEW u \in 0..s, NEW g \in 0..h, u + (h - g) <= s
  PROVE  /\ ReadBytes(b, g, h - g, s) \in Block(h - g, Byte)
         /\ ReadBytes(b, g, u + (h - g), s)
              = ReadBytes(b, g, h - g, s) \o ReadBytes(b, h, u, s)
<1>. DEFINE n  == h - g
            w  == u + n
            d  == ReadBytes(b, g, n, s)
            r1 == ReadBytes(b, h, u, s)
            r2 == ReadBytes(b, g, w, s)
<1>0. g \in 0..s /\ n \in 0..s /\ n \in Nat /\ w \in 0..s /\ w = n + u OBVIOUS
<1>1. \A i \in 1..u : Cell(h, i, s) = Cell(g, n + i, s) BY DEF Cell
<1>. HIDE DEF n, w
<1>2. /\ r1 \in Seq(Byte) /\ Len(r1) = u
      /\ \A i \in 1..u : r1[i] = b[Cell(h, i, s)]
  BY <1>0, ReadIsSeq
<1>3. /\ r2 \in Seq(Byte) /\ Len(r2) = w
      /\ \A i \in 1..w : r2[i] = b[Cell(g, i, s)]
  <2>1. r2 \in Block(w, Byte) /\ \A i \in 1..w : r2[i] = b[Cell(g, i, s)]
    BY <1>0, ReadIsSeq
  <2>. QED BY <1>0, <2>1, FunctionIsSeq
<1>4. /\ d \in Seq(Byte) /\ Len(d) = n /\ d \in Block(n, Byte)
      /\ \A i \in 1..n : d[i] = b[Cell(g, i, s)]
  BY <1>0, ReadIsSeq
<1>. HIDE DEF d, r1, r2
<1>5. /\ d \o r1 \in Seq(Byte) /\ Len(d \o r1) = n + u
      /\ \A i \in 1..(n + u) : (d \o r1)[i] = IF i <= n THEN d[i] ELSE r1[i - n]
  BY <1>2, <1>4, ConcatProperties, ZenonT(60)
<1>6. ASSUME NEW i \in 1..w PROVE r2[i] = (d \o r1)[i]
  <2>0. i \in 1..(n + u) BY <1>0
  <2>1. CASE i <= n
    <3>1. i \in 1..n /\ (d \o r1)[i] = d[i] BY <1>0, <1>5, <2>0, <2>1
    <3>. QED BY <1>3, <1>4, <3>1
  <2>2. CASE ~(i <= n)
    <3>1. i - n \in 1..u /\ n + (i - n) = i BY <1>0, <2>0, <2>2
    <3>2. r1[i - n] = b[Cell(g, i, s)] BY <1>1, <1>2, <3>1
    <3>3. (d \o r1)[i] = r1[i - n] BY <1>5, <2>0, <2>2, Zenon
    <3>. QED BY <1>3, <3>2, <3>3
  <2>. QED BY <2>1, <2>2
<1>7. r2 = d \o r1 BY <1>0, <1>3, <1>5, <1>6, SeqEqual
<1>. QED BY <1>4, <1>7 DEF n, w, d, r1, r2
=============================================================================
