----------------------------- MODULE FmbufProofs -----------------------------
(***************************************************************************)
(* Proofs about Fmbuf, for every byte alphabet and every MaxSize.          *)
(***************************************************************************)
EXTENDS Fmbuf, FmbufMathProofs

-----------------------------------------------------------------------------
(* The operations that move memory.                                        *)

\* realloc(3) to a smaller size keeps the bytes that still fit (fmbuf_realloc).
LEMMA CutType ==
  ASSUME NEW s \in Nat, NEW m \in 0..s, NEW b \in Memory(s, Byte)
  PROVE  /\ Cut(b, m) \in Memory(m, Byte)
         /\ \A k \in 0..m : Cut(b, m)[k] = b[k]
BY DEF Cut, Memory

\* fmbuf_rewind puts the content at the start of the memory.
LEMMA RewindKeeps ==
  ASSUME TypeOK, Linear
  PROVE  /\ RewoundHead = 0
         /\ RewoundTail = Used
         /\ RewoundBuf \in Memory(size, Byte)
         /\ \A i \in 1..Used : RewoundBuf[i - 1] = buf[Cell(head, i, size)]
         /\ ReadBytes(RewoundBuf, 0, Used, size) = Content
<1>1. /\ size \in Nat /\ head \in 0..size /\ tail \in 0..size
      /\ buf \in Memory(size, Byte)
  BY MaxSizeAssumption DEF TypeOK, Sizes, Memory
<1>2. Used = tail - head /\ Used \in 0..size BY <1>1 DEF Used, MBUF_USED, Linear
<1>3. RewoundHead = 0 /\ RewoundTail = Used
  BY <1>1, <1>2 DEF RewoundHead, RewoundTail, fmbuf_head_free
<1>. DEFINE u == Used
<1>4. /\ u \in Nat /\ head \in Nat /\ 0 \in Nat
      /\ 0 + u <= size + 1 /\ head + u <= size + 1
  BY <1>1, <1>2
<1>. HIDE DEF u
<1>5. /\ Move(buf, 0, head, u) \in Memory(size, Byte)
      /\ \A k \in 0..size : Move(buf, 0, head, u)[k] =
           IF 0 <= k /\ k < 0 + u THEN buf[head + k - 0] ELSE buf[k]
  <2>. DEFINE dst == 0
  <2>1. dst \in Nat /\ dst + u <= size + 1 BY <1>4
  <2>. HIDE DEF dst
  <2>2. Move(buf, dst, head, u) \in Memory(size, Byte) BY <1>1, <1>4, <2>1, MoveType
  <2>3. \A k \in 0..size : Move(buf, dst, head, u)[k] =
          IF dst <= k /\ k < dst + u THEN buf[head + k - dst] ELSE buf[k]
    BY <1>1, <1>4, <2>1, MoveType
  <2>. QED BY <2>2, <2>3 DEF dst
<1>6. RewoundBuf = Move(buf, 0, head, u) BY DEF RewoundBuf, u
<1>7. \A i \in 1..u : /\ i - 1 \in 0..size /\ 0 <= i - 1 /\ i - 1 < 0 + u
                      /\ head + (i - 1) - 0 = Cell(head, i, size)
                      /\ i - 1 = Cell(0, i, size)
  BY <1>1, <1>4 DEF Cell
<1>8. \A i \in 1..u : RewoundBuf[i - 1] = buf[Cell(head, i, size)]
  BY <1>5, <1>6, <1>7
<1>9. \A i \in 1..u : RewoundBuf[Cell(0, i, size)] = buf[Cell(head, i, size)]
  BY <1>7, <1>8
<1>10. RewoundBuf \in Memory(size, Byte) BY <1>5, <1>6
<1>11. u \in 0..size /\ 0 \in 0..size BY <1>1, <1>2 DEF u
<1>12. ReadBytes(RewoundBuf, 0, u, size) = ReadBytes(buf, head, u, size)
  <2>. DEFINE r1 == ReadBytes(buf, head, u, size)
              r2 == ReadBytes(RewoundBuf, 0, u, size)
  <2>1. r1 \in Block(u, Byte) /\ \A i \in 1..u : r1[i] = buf[Cell(head, i, size)]
    BY <1>1, <1>11, ReadIsSeq
  <2>2. r2 \in Block(u, Byte) /\ \A i \in 1..u : r2[i] = RewoundBuf[Cell(0, i, size)]
    BY <1>1, <1>10, <1>11, ReadIsSeq
  <2>. HIDE DEF r1, r2
  <2>3. \A i \in 1..u : r2[i] = r1[i] BY <1>9, <2>1, <2>2
  <2>4. r2 = r1 BY <1>4, <2>1, <2>2, <2>3, SameFunction
  <2>. QED BY <2>4 DEF r1, r2
<1>. QED BY <1>3, <1>8, <1>10, <1>12 DEF u, Content

\* Growing: the wrapped content is closed up or pulled apart without a byte lost.
LEMMA GrowKeeps ==
  ASSUME TypeOK, NEW n \in Sizes, n > size, _increase_buf(n)
  PROVE  /\ size' = n /\ head' \in 0..n /\ tail' \in 0..n
         /\ buf' \in Memory(n, Byte)
         /\ MBUF_USED(head', tail', n) = Used
         /\ ReadBytes(buf', head', Used, n) = Content
<1>1. /\ size \in Nat /\ head \in 0..size /\ tail \in 0..size /\ n \in Nat
      /\ buf \in Memory(size, Byte) /\ size' = n
  BY MaxSizeAssumption DEF TypeOK, Sizes, _increase_buf, Memory
<1>. DEFINE u == Used
<1>2. u = (IF head <= tail THEN tail - head ELSE size - (head - tail) + 1) /\ u \in 0..size
  BY <1>1 DEF Used, MBUF_USED
<1>3. PICK b \in Memory(n, Byte) :
        /\ \A k \in 0..size : b[k] = buf[k]
        /\ \/ Linear /\ buf' = b /\ head' = head /\ tail' = tail
           \/ /\ ~Linear /\ MoveLeftPart(n - size)
              /\ buf' = Move(b, size + 1, 0, LeftUsed)
              /\ tail' = (IF size + 1 + LeftUsed > n THEN 0 ELSE size + 1 + LeftUsed)
              /\ head' = head
           \/ /\ ~Linear /\ ~MoveLeftPart(n - size)
              /\ buf' = Move(b, head + (n - size), head, RightUsed)
              /\ head' = head + (n - size)
              /\ tail' = tail
  BY DEF _increase_buf, Grown, Memory
<1>4. \A i \in 1..u : Cell(head, i, size) \in 0..size BY <1>1, <1>2 DEF Cell
<1>5. SUFFICES /\ head' \in 0..n /\ tail' \in 0..n
               /\ buf' \in Memory(n, Byte)
               /\ MBUF_USED(head', tail', n) = u
               /\ \A i \in 1..u : buf'[Cell(head', i, n)] = buf[Cell(head, i, size)]
  <2>1. u \in 0..size /\ u \in 0..n BY <1>1, <1>2
  <2>. HIDE DEF u
  <2>2. ReadBytes(buf', head', u, n) = ReadBytes(buf, head, u, size)
    <3>. DEFINE r1 == ReadBytes(buf, head, u, size)
                r2 == ReadBytes(buf', head', u, n)
    <3>1. r1 \in Block(u, Byte) /\ \A i \in 1..u : r1[i] = buf[Cell(head, i, size)]
      <4>1. r1 \in Block(u, Byte) BY <1>1, <2>1, ReadIsSeq
      <4>2. \A i \in 1..u : r1[i] = buf[Cell(head, i, size)] BY <1>1, <2>1, ReadIsSeq
      <4>. QED BY <4>1, <4>2
    <3>2. r2 \in Block(u, Byte) /\ \A i \in 1..u : r2[i] = buf'[Cell(head', i, n)]
      BY <1>1, <1>5, <2>1, ReadIsSeq
    <3>. HIDE DEF r1, r2
    <3>3. \A i \in 1..u : r2[i] = r1[i] BY <1>5, <3>1, <3>2
    <3>4. r2 = r1 BY <1>1, <2>1, <3>1, <3>2, <3>3, SameFunction
    <3>. QED BY <3>4 DEF r1, r2
  <2>. QED BY <1>1, <1>5, <2>2 DEF u, Content
<1>. HIDE DEF u
<1>6. CASE Linear /\ buf' = b /\ head' = head /\ tail' = tail
  <2>1. \A i \in 1..u : Cell(head', i, n) = Cell(head, i, size)
    BY <1>1, <1>2, <1>6 DEF Cell, Linear
  <2>2. head' \in 0..n /\ tail' \in 0..n /\ MBUF_USED(head', tail', n) = u
    BY <1>1, <1>2, <1>6 DEF Linear, MBUF_USED
  <2>. QED BY <1>3, <1>4, <1>6, <2>1, <2>2
<1>7. CASE /\ ~Linear /\ MoveLeftPart(n - size)
           /\ buf' = Move(b, size + 1, 0, LeftUsed)
           /\ tail' = (IF size + 1 + LeftUsed > n THEN 0 ELSE size + 1 + LeftUsed)
           /\ head' = head
  <2>. DEFINE dst == size + 1
              src == 0
              l   == tail
  <2>1. /\ l \in Nat /\ dst \in Nat /\ src \in Nat
        /\ dst + l <= n + 1 /\ src + l <= n + 1 /\ head > tail
    BY <1>1, <1>7 DEF MoveLeftPart, LeftUsed, Linear
  <2>2. buf' = Move(b, dst, src, l) BY <1>7 DEF LeftUsed
  <2>3. head' \in 0..n /\ tail' \in 0..n /\ MBUF_USED(head', tail', n) = u
    BY <1>1, <1>2, <1>7, <2>1 DEF LeftUsed, MBUF_USED
  <2>4. \A i \in 1..u :
          \/ /\ Cell(head', i, n) = Cell(head, i, size)
             /\ Cell(head, i, size) < dst
             /\ Cell(head, i, size) \in 0..n
          \/ /\ dst <= Cell(head', i, n) /\ Cell(head', i, n) < dst + l
             /\ src + Cell(head', i, n) - dst = Cell(head, i, size)
             /\ Cell(head', i, n) \in 0..n
    BY <1>1, <1>2, <1>7, <2>1 DEF Cell
  <2>. HIDE DEF dst, src, l
  <2>5. /\ Move(b, dst, src, l) \in Memory(n, Byte)
        /\ \A k \in 0..n : Move(b, dst, src, l)[k] =
             IF dst <= k /\ k < dst + l THEN b[src + k - dst] ELSE b[k]
    <3>1. Move(b, dst, src, l) \in Memory(n, Byte) BY <1>1, <1>3, <2>1, MoveType
    <3>2. \A k \in 0..n : Move(b, dst, src, l)[k] =
            IF dst <= k /\ k < dst + l THEN b[src + k - dst] ELSE b[k]
      BY <1>1, <1>3, <2>1, MoveType
    <3>. QED BY <3>1, <3>2
  <2>6. ASSUME NEW i \in 1..u
        PROVE  buf'[Cell(head', i, n)] = buf[Cell(head, i, size)]
    <3>. DEFINE k2 == Cell(head', i, n)
                k1 == Cell(head, i, size)
    <3>1. k1 \in 0..size BY <1>4
    <3>2. b[k1] = buf[k1] BY <1>3, <3>1
    <3>3. \/ k2 = k1 /\ k1 < dst /\ k1 \in 0..n
          \/ dst <= k2 /\ k2 < dst + l /\ src + k2 - dst = k1 /\ k2 \in 0..n
      BY <2>4
    <3>. HIDE DEF k1, k2
    <3>4. Move(b, dst, src, l)[k2] = b[k1] BY <2>1, <2>5, <3>1, <3>3
    <3>. QED BY <2>2, <3>2, <3>4 DEF k1, k2
  <2>. QED BY <2>2, <2>3, <2>5, <2>6
<1>8. CASE /\ ~Linear /\ ~MoveLeftPart(n - size)
           /\ buf' = Move(b, head + (n - size), head, RightUsed)
           /\ head' = head + (n - size)
           /\ tail' = tail
  <2>. DEFINE dst == head + (n - size)
              r   == size - head + 1
  <2>1. /\ r \in Nat /\ dst \in Nat /\ head \in Nat
        /\ dst + r <= n + 1 /\ head + r <= n + 1 /\ head > tail
    BY <1>1, <1>8 DEF Linear
  <2>2. buf' = Move(b, dst, head, r) BY <1>1, <1>2, <1>8 DEF RightUsed, LeftUsed, Linear, u
  <2>3. head' \in 0..n /\ tail' \in 0..n /\ MBUF_USED(head', tail', n) = u
    BY <1>1, <1>2, <1>8, <2>1 DEF MBUF_USED
  <2>4. \A i \in 1..u :
          \/ /\ Cell(head', i, n) = Cell(head, i, size)
             /\ Cell(head, i, size) < dst
             /\ Cell(head, i, size) \in 0..n
          \/ /\ dst <= Cell(head', i, n) /\ Cell(head', i, n) < dst + r
             /\ head + Cell(head', i, n) - dst = Cell(head, i, size)
             /\ Cell(head', i, n) \in 0..n
    BY <1>1, <1>2, <1>8, <2>1 DEF Cell
  <2>. HIDE DEF dst, r
  <2>5. /\ Move(b, dst, head, r) \in Memory(n, Byte)
        /\ \A k \in 0..n : Move(b, dst, head, r)[k] =
             IF dst <= k /\ k < dst + r THEN b[head + k - dst] ELSE b[k]
    <3>1. Move(b, dst, head, r) \in Memory(n, Byte) BY <1>1, <1>3, <2>1, MoveType
    <3>2. \A k \in 0..n : Move(b, dst, head, r)[k] =
            IF dst <= k /\ k < dst + r THEN b[head + k - dst] ELSE b[k]
      BY <1>1, <1>3, <2>1, MoveType
    <3>. QED BY <3>1, <3>2
  <2>6. ASSUME NEW i \in 1..u
        PROVE  buf'[Cell(head', i, n)] = buf[Cell(head, i, size)]
    <3>. DEFINE k2 == Cell(head', i, n)
                k1 == Cell(head, i, size)
    <3>1. k1 \in 0..size BY <1>4
    <3>2. b[k1] = buf[k1] BY <1>3, <3>1
    <3>3. \/ k2 = k1 /\ k1 < dst /\ k1 \in 0..n
          \/ dst <= k2 /\ k2 < dst + r /\ head + k2 - dst = k1 /\ k2 \in 0..n
      BY <2>4
    <3>. HIDE DEF k1, k2
    <3>4. Move(b, dst, head, r)[k2] = b[k1] BY <2>1, <2>5, <3>1, <3>3
    <3>. QED BY <2>2, <3>2, <3>4 DEF k1, k2
  <2>. QED BY <2>2, <2>3, <2>5, <2>6
<1>. QED BY <1>3, <1>6, <1>7, <1>8

\* Shrinking: the size never gets below the content, which is kept.
LEMMA ShrinkKeeps ==
  ASSUME TypeOK, NEW n \in Sizes, n < size, _decrease_buf(n)
  PROVE  /\ size' = (IF n > Used THEN n ELSE Used) /\ size' \in 0..size
         /\ head' \in 0..size' /\ tail' \in 0..size'
         /\ buf' \in Memory(size', Byte)
         /\ MBUF_USED(head', tail', size') = Used
         /\ ReadBytes(buf', head', Used, size') = Content
<1>1. /\ size \in Nat /\ head \in 0..size /\ tail \in 0..size /\ n \in Nat
      /\ buf \in Memory(size, Byte)
  BY MaxSizeAssumption DEF TypeOK, Sizes, Memory
<1>. DEFINE u == Used
<1>2. u = (IF head <= tail THEN tail - head ELSE size - (head - tail) + 1) /\ u \in 0..size
  BY <1>1 DEF Used, MBUF_USED
<1>3. \A i \in 1..u : Cell(head, i, size) \in 0..size BY <1>1, <1>2 DEF Cell
<1>4. SUFFICES /\ size' = (IF n > u THEN n ELSE u)
               /\ head' \in 0..size' /\ tail' \in 0..size'
               /\ buf' \in Memory(size', Byte)
               /\ MBUF_USED(head', tail', size') = u
               /\ \A i \in 1..u : buf'[Cell(head', i, size')] = buf[Cell(head, i, size)]
  <2>1. u \in 0..size /\ u \in 0..size' /\ size' \in Nat /\ size' \in 0..size /\ u \in Nat
    BY <1>1, <1>2, <1>4
  <2>. HIDE DEF u
  <2>. DEFINE r1 == ReadBytes(buf, head, u, size)
              r2 == ReadBytes(buf', head', u, size')
  <2>2. r1 \in Block(u, Byte) /\ \A i \in 1..u : r1[i] = buf[Cell(head, i, size)]
    <3>1. r1 \in Block(u, Byte) BY ONLY <1>1, <2>1, ReadIsSeq, ZenonT(60)
    <3>. QED BY <3>1, ReadAt
  <2>3. r2 \in Block(u, Byte) /\ \A i \in 1..u : r2[i] = buf'[Cell(head', i, size')]
    <3>1. head' \in 0..size' /\ buf' \in Memory(size', Byte) BY <1>4
    <3>2. r2 \in Block(u, Byte) BY ONLY <2>1, <3>1, ReadIsSeq, ZenonT(60)
    <3>. QED BY <3>2, ReadAt
  <2>. HIDE DEF r1, r2
  <2>4. \A i \in 1..u : r2[i] = r1[i] BY <1>4, <2>2, <2>3
  <2>5. r2 = r1 BY <2>1, <2>2, <2>3, <2>4, SameFunction
  <2>. QED BY <1>4, <2>1, <2>5 DEF r1, r2, u, Content
<1>. HIDE DEF u
<1>5. CASE /\ Linear /\ tail <= n
           /\ size' = n /\ buf' = Cut(buf, n) /\ head' = head /\ tail' = tail
  <2>1. /\ buf' \in Memory(n, Byte) /\ \A k \in 0..n : buf'[k] = buf[k]
    BY <1>1, <1>5, n \in 0..size, CutType
  <2>2. \A i \in 1..u : Cell(head', i, n) = Cell(head, i, size) /\ Cell(head, i, size) \in 0..n
    BY <1>1, <1>2, <1>5 DEF Cell, Linear
  <2>3. /\ size' = (IF n > u THEN n ELSE u)
        /\ head' \in 0..n /\ tail' \in 0..n /\ MBUF_USED(head', tail', n) = u
    BY <1>1, <1>2, <1>5 DEF Linear, MBUF_USED
  <2>. QED BY <1>5, <2>1, <2>2, <2>3
<1>6. CASE /\ Linear /\ tail > n
           /\ size' = (IF RewoundTail > n THEN RewoundTail ELSE n)
           /\ buf' = Cut(RewoundBuf, size')
           /\ head' = RewoundHead /\ tail' = RewoundTail
  <2>1. /\ RewoundHead = 0 /\ RewoundTail = u /\ RewoundBuf \in Memory(size, Byte)
        /\ \A i \in 1..u : RewoundBuf[i - 1] = buf[Cell(head, i, size)]
    BY <1>6, RewindKeeps DEF u
  <2>2. /\ size' = (IF n > u THEN n ELSE u) /\ size' \in 0..size
        /\ head' \in 0..size' /\ tail' \in 0..size' /\ MBUF_USED(head', tail', size') = u
    BY <1>1, <1>2, <1>6, <2>1 DEF MBUF_USED
  <2>3. buf' \in Memory(size', Byte) /\ \A k \in 0..size' : buf'[k] = RewoundBuf[k]
    BY <1>1, <1>6, <2>1, <2>2, CutType
  <2>4. \A i \in 1..u : Cell(head', i, size') = i - 1 /\ i - 1 \in 0..size'
    BY <1>1, <1>2, <1>6, <2>1, <2>2 DEF Cell
  <2>. QED BY <2>1, <2>2, <2>3, <2>4
<1>7. ASSUME ~Linear,
             NEW mv, mv = (IF Free >= size - n THEN size - n ELSE Free),
             size' = size - mv, buf' = Cut(Move(buf, head - mv, head, RightUsed), size'),
             head' = head - mv, tail' = tail
      PROVE  /\ size' = (IF n > u THEN n ELSE u)
             /\ head' \in 0..size' /\ tail' \in 0..size'
             /\ buf' \in Memory(size', Byte)
             /\ MBUF_USED(head', tail', size') = u
             /\ \A i \in 1..u : buf'[Cell(head', i, size')] = buf[Cell(head, i, size)]
  <2>. DEFINE dst == head - mv
              r   == size - head + 1
              b2  == Move(buf, dst, head, r)
  <2>1. head > tail /\ Free = head - tail - 1 BY <1>1, <1>7 DEF Linear, Free, MBUF_FREE
  <2>2. mv \in Nat /\ mv <= head - tail - 1 BY <1>1, <1>7, <2>1
  <2>3. /\ r \in Nat /\ dst \in Nat /\ head \in Nat /\ dst > tail
        /\ dst + r <= size + 1 /\ head + r <= size + 1
    BY <1>1, <2>1, <2>2
  <2>4. buf' = Cut(b2, size')
    BY <1>1, <1>2, <1>7, <2>1 DEF RightUsed, LeftUsed, u
  <2>5. /\ size' = (IF n > u THEN n ELSE u) /\ size' \in 0..size
        /\ head' \in 0..size' /\ tail' \in 0..size' /\ MBUF_USED(head', tail', size') = u
    BY <1>1, <1>2, <1>7, <2>1, <2>2 DEF MBUF_USED
  <2>6. \A i \in 1..u :
          \/ /\ Cell(head', i, size') = Cell(head, i, size)
             /\ Cell(head', i, size') < dst /\ Cell(head', i, size') \in 0..size'
          \/ /\ dst <= Cell(head', i, size') /\ Cell(head', i, size') < dst + r
             /\ head + Cell(head', i, size') - dst = Cell(head, i, size)
             /\ Cell(head', i, size') \in 0..size'
    BY <1>1, <1>2, <1>7, <2>1, <2>2, <2>3 DEF Cell
  <2>. HIDE DEF dst, r
  <2>7. /\ b2 \in Memory(size, Byte)
        /\ \A k \in 0..size : b2[k] =
             IF dst <= k /\ k < dst + r THEN buf[head + k - dst] ELSE buf[k]
    BY <1>1, <2>3, MoveType
  <2>. HIDE DEF b2
  <2>8. buf' \in Memory(size', Byte) /\ \A k \in 0..size' : buf'[k] = b2[k]
    BY <1>1, <2>4, <2>5, <2>7, CutType
  <2>9. ASSUME NEW i \in 1..u
        PROVE  buf'[Cell(head', i, size')] = buf[Cell(head, i, size)]
    <3>. DEFINE k2 == Cell(head', i, size')
                k1 == Cell(head, i, size)
    <3>1. k1 \in 0..size BY <1>3
    <3>2. /\ k2 \in 0..size'
          /\ \/ k2 = k1 /\ k2 < dst
             \/ dst <= k2 /\ k2 < dst + r /\ head + k2 - dst = k1
      BY <2>6
    <3>. HIDE DEF k1, k2
    <3>3. k2 \in 0..size BY <1>1, <2>5, <3>2
    <3>4. b2[k2] = buf[k1] BY <2>3, <2>7, <3>1, <3>2, <3>3
    <3>. QED BY <2>8, <3>2, <3>4 DEF k1, k2
  <2>. QED BY <2>5, <2>8, <2>9
<1>. QED BY <1>5, <1>6, <1>7 DEF _decrease_buf

-----------------------------------------------------------------------------
(* Type correctness and the meaning of empty and full.                     *)

\* What TypeOK says of the numbers, in the form the proofs below use.
LEMMA TypeFacts ==
  ASSUME TypeOK
  PROVE  /\ size \in Nat /\ head \in 0..size /\ tail \in 0..size
         /\ buf \in Memory(size, Byte) /\ size \in 0..MaxSize
         /\ Used \in 0..size /\ Free \in 0..size /\ Used + Free = size
         /\ Content \in Seq(Byte) /\ Len(Content) = Used
         /\ Content \in [1..Used -> Byte]
         /\ Content = ReadBytes(buf, head, Used, size)
<1>1. /\ size \in Nat /\ head \in 0..size /\ tail \in 0..size
      /\ buf \in Memory(size, Byte) /\ size \in 0..MaxSize
  BY MaxSizeAssumption DEF TypeOK, Sizes, Memory
<1>2. Used \in 0..size /\ Free \in 0..size /\ Used + Free = size
  BY <1>1, UsedFree DEF Used, Free
<1>. QED BY <1>1, <1>2, ReadIsSeq DEF Content

\* A buffer as fmbuf_create returns it satisfies the type invariant.
LEMMA TypeInit == Init => TypeOK
<1>. SUFFICES ASSUME Init PROVE TypeOK OBVIOUS
<1>1. PICK n \in Sizes : fmbuf_create(n) BY DEF Init
<1>2. got \in Seq(Byte) BY EmptySeq DEF Init
<1>. QED BY <1>1, <1>2, ByteAssumption, MaxSizeAssumption
         DEF Init, TypeOK, Sizes, fmbuf_create

\* Every call of fmbuf.c preserves the type invariant.
LEMMA TypeStep == TypeOK /\ [Next]_vars => TypeOK'
<1>. SUFFICES ASSUME TypeOK, [Next]_vars PROVE TypeOK' OBVIOUS
<1>1. /\ size \in Nat /\ head \in 0..size /\ tail \in 0..size
      /\ buf \in Memory(size, Byte) /\ size \in 0..MaxSize
      /\ Used \in 0..size /\ Free \in 0..size /\ Used + Free = size
      /\ ret \in {0, 1} /\ got \in Seq(Byte)
  BY TypeFacts DEF TypeOK
<1>2. <<>> \in Seq(Byte) BY EmptySeq
<1>3. \A n \in 0..size : ReadBytes(buf, head, n, size) \in Seq(Byte) BY <1>1, ReadIsSeq
<1>4. \A n \in Amounts : \A d \in Bytes(n) : n \in Nat /\ Len(d) = n /\ d \in Block(n, Byte)
  <2>1. \A n \in Amounts : n \in Nat /\ n \in 0..MaxSize + 1 BY MaxSizeAssumption DEF Amounts
  <2>2. \A n \in Amounts : Bytes(n) = Block(n, Byte) BY DEF Bytes, Block
  <2>3. \A n \in Nat : \A d \in Block(n, Byte) : Len(d) = n BY FunctionIsSeq
  <2>. QED BY <2>1, <2>2, <2>3
<1>5. ASSUME NEW n \in Amounts, NEW d \in Bytes(n), fmbuf_push(d) PROVE TypeOK'
  <2>1. CASE /\ Len(d) > 0 /\ Free >= Len(d)
             /\ buf' = PushStore(buf, tail, d, size)
             /\ tail' = PushTail(tail, Len(d), size)
             /\ Returns(0, <<>>)
             /\ UNCHANGED <<size, head>>
    <3>1. n \in 1..size /\ Len(d) = n /\ d \in Block(n, Byte) BY <1>1, <1>4, <2>1
    <3>2. tail' \in 0..size /\ buf' \in Memory(size, Byte)
      BY <1>1, <2>1, <3>1, PushCells
    <3>. QED BY <1>1, <1>2, <2>1, <3>2 DEF TypeOK, Sizes, Returns, Memory
  <2>2. CASE Returns(1, <<>>) /\ UNCHANGED <<size, head, tail, buf>>
    BY <1>1, <1>2, <2>2 DEF TypeOK, Sizes, Returns
  <2>. QED BY <1>5, <2>1, <2>2 DEF fmbuf_push
<1>6. ASSUME NEW n \in Amounts, CannotRead(n) PROVE TypeOK'
  BY <1>1, <1>2, <1>6 DEF CannotRead, TypeOK, Sizes, Returns
<1>7. ASSUME NEW n \in Amounts, CanRead(n), head' = PopHead(head, n, size),
             ret' = 0, got' \in Seq(Byte), UNCHANGED <<size, tail, buf>>
      PROVE  TypeOK'
  <2>1. n \in 1..size BY <1>1, <1>7, MaxSizeAssumption DEF CanRead, Amounts
  <2>2. head' \in 0..size BY <1>1, <1>7, <2>1, PopHeadType
  <2>. QED BY <1>1, <1>7, <2>2 DEF TypeOK, Sizes
<1>8. ASSUME NEW n \in Amounts, CanRead(n)
      PROVE  ReadBytes(buf, head, n, size) \in Seq(Byte)
  <2>1. n \in 0..size BY <1>1, <1>8, MaxSizeAssumption DEF CanRead, Amounts
  <2>. QED BY <1>3, <2>1
<1>9. ASSUME NEW n \in Amounts, fmbuf_pop(n) PROVE TypeOK'
  BY <1>6, <1>7, <1>8, <1>9 DEF fmbuf_pop, Returns
<1>10. ASSUME NEW n \in Amounts, fmbuf_pop_null(n) PROVE TypeOK'
  BY <1>2, <1>6, <1>7, <1>10 DEF fmbuf_pop_null, Returns
<1>11. ASSUME NEW n \in Amounts, fmbuf_vpop(n) PROVE TypeOK'
  BY <1>6, <1>7, <1>8, <1>11 DEF fmbuf_vpop, Returns
<1>12. ASSUME NEW n \in Amounts, fmbuf_rawget(n) PROVE TypeOK'
  <2>1. CASE CannotRead(n) BY <1>6, <2>1
  <2>2. CASE /\ CanRead(n)
             /\ Returns(0, ReadBytes(buf, head, n, size))
             /\ UNCHANGED <<size, head, tail, buf>>
    BY <1>1, <1>8, <2>2 DEF Returns, TypeOK, Sizes
  <2>. QED BY <1>12, <2>1, <2>2 DEF fmbuf_rawget
<1>13. ASSUME Linear
       PROVE  /\ RewoundBuf \in Memory(size, Byte) /\ RewoundHead = 0
              /\ RewoundTail = Used
  BY <1>13, RewindKeeps
<1>14. ASSUME NEW n \in Amounts, fmbuf_alloc(n) PROVE TypeOK'
  <2>1. Linear /\ n \in Nat /\ size' = size
    BY <1>14, MaxSizeAssumption DEF fmbuf_alloc, Amounts
  <2>2. CASE AllocInPlace(n)
    BY <1>1, <1>2, <2>1, <2>2 DEF AllocInPlace, fmbuf_tail_free, Returns, TypeOK, Sizes
  <2>3. CASE AllocRewound(n)
    <3>1. /\ buf' \in Memory(size, Byte) /\ head' = 0 /\ tail' \in 0..size
          /\ ret' \in {0, 1} /\ got' = <<>>
      BY <1>1, <1>13, <2>1, <2>3 DEF AllocRewound, fmbuf_tail_free, Returns
    <3>. QED BY <1>1, <1>2, <2>1, <3>1 DEF TypeOK, Sizes, Memory
  <2>. QED BY <1>14, <2>2, <2>3 DEF fmbuf_alloc
<1>15. ASSUME NEW n \in Amounts, fmbuf_head_seek_right(n) PROVE TypeOK'
  BY <1>1, <1>2, <1>15, MaxSizeAssumption
     DEF fmbuf_head_seek_right, Returns, TypeOK, Sizes, Amounts
<1>16. ASSUME NEW n \in Amounts, NEW d \in Bytes(n), fmbuf_tail_seek_right(d)
       PROVE  TypeOK'
  <2>1. /\ n \in Nat /\ Len(d) = n /\ d \in Block(n, Byte)
        /\ tail + n <= size /\ buf' = Store(buf, tail, d) /\ tail' = tail + n
        /\ size' = size /\ head' = head /\ ret' = 0 /\ got' = <<>>
    BY <1>4, <1>16 DEF fmbuf_tail_seek_right, Returns
  <2>2. tail + n <= size + 1 /\ tail' \in 0..size BY <1>1, <2>1
  <2>3. buf' \in Memory(size, Byte) BY <1>1, <2>1, <2>2, StoreType
  <2>. QED BY <1>1, <1>2, <2>1, <2>2, <2>3 DEF TypeOK, Sizes, Memory
<1>17. ASSUME NEW n \in Amounts, fmbuf_head_seek_left(n) PROVE TypeOK'
  BY <1>1, <1>2, <1>17, MaxSizeAssumption
     DEF fmbuf_head_seek_left, fmbuf_head_free, Returns, TypeOK, Sizes, Amounts
<1>18. ASSUME NEW n \in Amounts, fmbuf_tail_seek_left(n) PROVE TypeOK'
  BY <1>1, <1>2, <1>18, MaxSizeAssumption
     DEF fmbuf_tail_seek_left, Returns, TypeOK, Sizes, Amounts
<1>19. ASSUME NEW n \in Sizes, fmbuf_realloc(n) PROVE TypeOK'
  <2>0. ret' = 0 /\ got' = <<>> BY <1>19 DEF fmbuf_realloc, Returns
  <2>1. CASE UNCHANGED <<size, head, tail, buf>>
    BY <1>1, <1>2, <2>0, <2>1 DEF TypeOK, Sizes
  <2>2. CASE n > size /\ _increase_buf(n)
    <3>1. /\ size' = n /\ head' \in 0..n /\ tail' \in 0..n /\ buf' \in Memory(n, Byte)
      BY <2>2, GrowKeeps
    <3>. QED BY <1>2, <2>0, <3>1 DEF TypeOK, Sizes, Memory
  <2>3. CASE n < size /\ _decrease_buf(n)
    <3>1. /\ size' \in 0..size /\ head' \in 0..size' /\ tail' \in 0..size'
          /\ buf' \in Memory(size', Byte)
      BY <2>3, ShrinkKeeps
    <3>2. size' \in 0..MaxSize BY <1>1, <3>1, MaxSizeAssumption
    <3>. QED BY <1>2, <2>0, <3>1, <3>2 DEF TypeOK, Sizes, Memory
  <2>. QED BY <1>19, <2>1, <2>2, <2>3 DEF fmbuf_realloc
<1>20. CASE fmbuf_clear
  BY <1>1, <1>2, <1>20 DEF fmbuf_clear, Returns, TypeOK, Sizes
<1>21. CASE fmbuf_rewind
  BY <1>1, <1>2, <1>13, <1>21 DEF fmbuf_rewind, Returns, TypeOK, Sizes, Memory
<1>22. CASE UNCHANGED vars
  BY <1>1, <1>22 DEF vars, TypeOK, Sizes
<1>. QED BY <1>5, <1>9, <1>10, <1>11, <1>12, <1>14, <1>15, <1>16, <1>17, <1>18,
            <1>19, <1>20, <1>21, <1>22 DEF Next

\* Every sequence of calls that keeps the contract leaves head and tail inside
\* the memory, so that no copy of fmbuf.c reads or writes out of bounds.
THEOREM TypeCorrect == Spec => []TypeOK
<1>1. Init => TypeOK BY TypeInit
<1>2. TypeOK /\ [Next]_vars => TypeOK' BY TypeStep
<1>. QED BY <1>1, <1>2, PTL DEF Spec

\* Empty and full are what the header comment of fmbuf.c says, for every size.
THEOREM EmptyAndFullHolds == Spec => []EmptyAndFull
<1>1. TypeOK => EmptyAndFull
  <2>. SUFFICES ASSUME TypeOK PROVE EmptyAndFull OBVIOUS
  <2>1. size \in Nat /\ head \in 0..size /\ tail \in 0..size BY TypeFacts
  <2>. QED BY <2>1 DEF EmptyAndFull, Used, Free, MBUF_USED, MBUF_FREE
<1>. QED BY <1>1, TypeCorrect, PTL

-----------------------------------------------------------------------------
(* Fmbuf implements ByteFifo, with Content for q and size for cap.         *)

\* A buffer as fmbuf_create returns it is an empty byte queue.
LEMMA FifoInit == Init => Fifo!Init
<1>. SUFFICES ASSUME Init PROVE Fifo!Init OBVIOUS
<1>1. PICK n \in Sizes : fmbuf_create(n) BY DEF Init
<1>2. TypeOK BY TypeInit
<1>3. Content \in Seq(Byte) /\ Len(Content) = Used /\ size \in 0..MaxSize
  BY <1>2, TypeFacts
<1>4. Used = 0 BY <1>1, MaxSizeAssumption DEF fmbuf_create, Used, MBUF_USED, Sizes
<1>5. Content = <<>> BY <1>3, <1>4, EmptySeq
<1>. QED BY <1>3, <1>5 DEF Init, Fifo!Init

\* Every call of fmbuf.c is a step of the byte queue, or leaves it unchanged.
LEMMA FifoStep == TypeOK /\ [Next]_vars => [Fifo!Next]_(Fifo!vars)
<1>. SUFFICES ASSUME TypeOK, [Next]_vars PROVE [Fifo!Next]_(Fifo!vars) OBVIOUS
<1>1. /\ size \in Nat /\ head \in 0..size /\ tail \in 0..size
      /\ buf \in Memory(size, Byte) /\ size \in 0..MaxSize
      /\ Used \in 0..size /\ Free \in 0..size /\ Used + Free = size
      /\ Content \in Seq(Byte) /\ Len(Content) = Used
      /\ Content \in [1..Used -> Byte]
      /\ Content = ReadBytes(buf, head, Used, size)
  BY TypeFacts
<1>1a. /\ size \in Nat /\ head \in 0..size /\ buf \in Memory(size, Byte)
       /\ Used \in 0..size
  BY <1>1
<1>2. \A n \in Amounts : /\ n \in Nat /\ n \in 0..MaxSize + 1
                         /\ \A d \in Bytes(n) : Len(d) = n /\ d \in Block(n, Byte)
  <2>1. \A n \in Amounts : n \in Nat /\ n \in 0..MaxSize + 1 BY MaxSizeAssumption DEF Amounts
  <2>2. \A n \in Amounts : Bytes(n) = Block(n, Byte) BY DEF Bytes, Block
  <2>3. \A n \in Nat : \A d \in Block(n, Byte) : Len(d) = n BY FunctionIsSeq
  <2>. QED BY <2>1, <2>2, <2>3
<1>3. UNCHANGED <<size, head, tail, buf>> => UNCHANGED <<Content, size>>
  BY DEF Content, Used
<1>4. ASSUME NEW n \in Amounts, NEW d \in Bytes(n), fmbuf_push(d) PROVE Fifo!Next
  <2>1. n \in 0..MaxSize + 1 /\ d \in Fifo!Bytes(n) /\ Len(d) = n /\ d \in Block(n, Byte)
    BY <1>2 DEF Fifo!Bytes, Block
  <2>2. CASE /\ Len(d) > 0 /\ Free >= Len(d)
             /\ buf' = PushStore(buf, tail, d, size)
             /\ tail' = PushTail(tail, Len(d), size)
             /\ Returns(0, <<>>)
             /\ UNCHANGED <<size, head>>
    <3>1. n \in 1..size /\ n <= MBUF_FREE(head, tail, size)
      BY <1>1, <2>1, <2>2 DEF Free
    <3>2. /\ MBUF_USED(head, PushTail(tail, n, size), size) = MBUF_USED(head, tail, size) + n
          /\ ReadBytes(PushStore(buf, tail, d, size), head,
                        MBUF_USED(head, tail, size) + n, size)
               = ReadBytes(buf, head, MBUF_USED(head, tail, size), size) \o d
      BY <1>1, <2>1, <3>1, PushAppends, SMTT(60)
    <3>3. Content' = Content \o d BY <2>1, <2>2, <3>2 DEF Content, Used
    <3>4. Fifo!Fits(Len(d)) BY <1>1, <2>1, <2>2 DEF Fifo!Fits
    <3>5. Fifo!Put(d) BY <2>2, <3>3, <3>4 DEF Fifo!Put, Fifo!Done, Returns
    <3>. QED BY <2>1, <3>5 DEF Fifo!Next
  <2>3. CASE /\ ~(Len(d) > 0 /\ Free >= Len(d))
             /\ Returns(1, <<>>)
             /\ UNCHANGED <<size, head, tail, buf>>
    <3>1. ~Fifo!Fits(Len(d)) BY <1>1, <2>1, <2>3 DEF Fifo!Fits
    <3>2. Fifo!Put(d) BY <1>3, <2>3, <3>1 DEF Fifo!Put, Fifo!Done, Returns
    <3>. QED BY <2>1, <3>2 DEF Fifo!Next
  <2>. QED BY <1>4, <2>2, <2>3 DEF fmbuf_push
<1>5. ASSUME NEW n \in Amounts PROVE Fifo!Holds(n) <=> CanRead(n)
  BY <1>1 DEF Fifo!Holds, CanRead
<1>6. ASSUME NEW n \in Amounts, CannotRead(n) PROVE Fifo!Next
  <2>1. n \in 0..MaxSize + 1 BY <1>2
  <2>2. Fifo!Get(n) BY <1>3, <1>5, <1>6 DEF CannotRead, Fifo!Get, Fifo!Done, Returns
  <2>. QED BY <2>1, <2>2 DEF Fifo!Next
<1>7. ASSUME NEW n \in Amounts, CanRead(n)
      PROVE  ReadBytes(buf, head, n, size) = SubSeq(Content, 1, n)
  <2>1. n \in 0..Used BY <1>2, <1>7 DEF CanRead
  <2>. QED BY <1>1, <2>1, ReadPrefix
<1>8. ASSUME NEW n \in Amounts, CanRead(n), head' = PopHead(head, n, size),
             UNCHANGED <<size, tail, buf>>
      PROVE  Content' = SubSeq(Content, n + 1, Len(Content)) /\ size' = size
  <2>1. n \in 1..MBUF_USED(head, tail, size) BY <1>1, <1>2, <1>8 DEF CanRead, Used
  <2>2. /\ MBUF_USED(PopHead(head, n, size), tail, size) = MBUF_USED(head, tail, size) - n
        /\ ReadBytes(buf, PopHead(head, n, size), MBUF_USED(head, tail, size) - n, size)
             = SubSeq(ReadBytes(buf, head, MBUF_USED(head, tail, size), size),
                      n + 1, MBUF_USED(head, tail, size))
    BY <1>1, <2>1, PopDrops
  <2>. QED BY <1>1, <1>8, <2>2 DEF Content, Used
<1>9. ASSUME NEW n \in Amounts, fmbuf_pop(n) \/ fmbuf_vpop(n) PROVE Fifo!Next
  <2>1. n \in 0..MaxSize + 1 BY <1>2
  <2>2. CASE CannotRead(n) BY <1>6, <2>2
  <2>3. CASE /\ CanRead(n)
             /\ head' = PopHead(head, n, size)
             /\ Returns(0, ReadBytes(buf, head, n, size))
             /\ UNCHANGED <<size, tail, buf>>
    <3>1. Fifo!Get(n) BY <1>5, <1>7, <1>8, <2>3 DEF Fifo!Get, Fifo!Done, Returns
    <3>. QED BY <2>1, <3>1 DEF Fifo!Next
  <2>. QED BY <1>9, <2>2, <2>3 DEF fmbuf_pop, fmbuf_vpop
<1>10. ASSUME NEW n \in Amounts, fmbuf_pop_null(n) PROVE Fifo!Next
  <2>1. n \in 0..MaxSize + 1 BY <1>2
  <2>2. CASE CannotRead(n) BY <1>6, <2>2
  <2>3. CASE /\ CanRead(n)
             /\ head' = PopHead(head, n, size)
             /\ Returns(0, <<>>)
             /\ UNCHANGED <<size, tail, buf>>
    <3>1. Fifo!Drop(n) BY <1>5, <1>8, <2>3 DEF Fifo!Drop, Fifo!Done, Returns
    <3>. QED BY <2>1, <3>1 DEF Fifo!Next
  <2>. QED BY <1>10, <2>2, <2>3 DEF fmbuf_pop_null
<1>11. ASSUME NEW n \in Amounts, fmbuf_rawget(n) PROVE Fifo!Next
  <2>1. n \in 0..MaxSize + 1 BY <1>2
  <2>2. CASE CannotRead(n) BY <1>6, <2>2
  <2>3. CASE /\ CanRead(n)
             /\ Returns(0, ReadBytes(buf, head, n, size))
             /\ UNCHANGED <<size, head, tail, buf>>
    <3>1. Fifo!Peek(n) BY <1>3, <1>5, <1>7, <2>3 DEF Fifo!Peek, Fifo!Done, Returns
    <3>. QED BY <2>1, <3>1 DEF Fifo!Next
  <2>. QED BY <1>11, <2>2, <2>3 DEF fmbuf_rawget
<1>12. ASSUME Linear
       PROVE  /\ RewoundBuf \in Memory(size, Byte) /\ RewoundHead = 0
              /\ RewoundTail = Used
              /\ ReadBytes(RewoundBuf, 0, Used, size) = Content
  BY <1>12, RewindKeeps
<1>13. ASSUME NEW n \in Amounts, fmbuf_alloc(n) PROVE Fifo!Next
  <2>1. /\ Linear /\ n \in 0..MaxSize + 1 /\ n \in Nat /\ size' = size
        /\ Used = tail - head
    BY <1>1, <1>2, <1>13 DEF fmbuf_alloc, Linear, Used, MBUF_USED
  <2>2. CASE AllocInPlace(n)
    <3>1. /\ head' = head /\ buf' = buf /\ tail' = tail + n /\ tail + n <= size
          /\ Returns(0, <<>>)
      BY <1>1, <2>1, <2>2 DEF AllocInPlace, fmbuf_tail_free
    <3>2. Used + n <= size /\ Used' = Used + n /\ Used' - Used = n
      BY <1>1, <2>1, <3>1 DEF Used, MBUF_USED, Linear
    <3>2a. Used' \in Used..size BY <1>1, <2>1, <3>2
    <3>2b. \E d \in Block(Used' - Used, Byte) :
             ReadBytes(buf, head, Used', size) = ReadBytes(buf, head, Used, size) \o d
      BY ONLY <1>1a, <3>2a, ReadExtends, ZenonT(60)
    <3>3. \E d \in Block(n, Byte) :
            ReadBytes(buf, head, Used', size) = ReadBytes(buf, head, Used, size) \o d
      BY <3>2, <3>2b
    <3>4. \E d \in Fifo!Bytes(n) : Content' = Content \o d
      BY <2>1, <3>1, <3>2, <3>3 DEF Content, Fifo!Bytes, Block
    <3>5. Fifo!Reserve(n) BY <1>1, <2>1, <3>1, <3>2, <3>4 DEF Fifo!Reserve, Fifo!Done, Returns
    <3>. QED BY <2>1, <3>5 DEF Fifo!Next
  <2>3. CASE AllocRewound(n) /\ fmbuf_tail_free(RewoundTail, size) >= n
    <3>1. /\ head' = 0 /\ buf' = RewoundBuf /\ tail' = Used + n /\ Used + n <= size
          /\ Returns(0, <<>>)
      BY <1>1, <1>12, <2>1, <2>3 DEF AllocRewound, fmbuf_tail_free
    <3>2. Used' = Used + n /\ Used' - Used = n
      BY <1>1, <2>1, <3>1 DEF Used, MBUF_USED
    <3>2a. /\ Used' \in Used..size /\ head' \in 0..size
           /\ RewoundBuf \in Memory(size, Byte)
      BY <1>1, <1>12, <2>1, <3>1, <3>2
    <3>2b. \E d \in Block(Used' - Used, Byte) :
             ReadBytes(RewoundBuf, head', Used', size)
               = ReadBytes(RewoundBuf, head', Used, size) \o d
      BY ONLY <1>1a, <3>2a, ReadExtends, ZenonT(60)
    <3>3. \E d \in Block(n, Byte) :
            ReadBytes(RewoundBuf, 0, Used', size) = ReadBytes(RewoundBuf, 0, Used, size) \o d
      BY <3>1, <3>2, <3>2b
    <3>4. \E d \in Fifo!Bytes(n) : Content' = Content \o d
      BY <1>12, <2>1, <3>1, <3>2, <3>3 DEF Content, Fifo!Bytes, Block
    <3>5. Fifo!Reserve(n) BY <1>1, <2>1, <3>1, <3>4 DEF Fifo!Reserve, Fifo!Done, Returns
    <3>. QED BY <2>1, <3>5 DEF Fifo!Next
  <2>4. CASE AllocRewound(n) /\ ~(fmbuf_tail_free(RewoundTail, size) >= n)
    <3>1. /\ head' = 0 /\ buf' = RewoundBuf /\ tail' = Used /\ Used + n > size
          /\ Returns(1, <<>>)
      BY <1>1, <1>12, <2>1, <2>4 DEF AllocRewound, fmbuf_tail_free
    <3>2. Used' = Used BY <1>1, <2>1, <3>1 DEF Used, MBUF_USED
    <3>3. Content' = Content BY <1>12, <2>1, <3>1, <3>2 DEF Content
    <3>4. Fifo!Reserve(n) BY <1>1, <2>1, <3>1, <3>3 DEF Fifo!Reserve, Fifo!Done, Returns
    <3>. QED BY <2>1, <3>4 DEF Fifo!Next
  <2>. QED BY <1>13, <2>2, <2>3, <2>4 DEF fmbuf_alloc
<1>14. ASSUME NEW n \in Amounts, fmbuf_head_seek_right(n) PROVE Fifo!Next
  <2>1. n \in 0..MaxSize + 1 /\ CanRead(n)
    BY <1>2, <1>14 DEF fmbuf_head_seek_right, CanRead
  <2>2. head' = PopHead(head, n, size)
    BY <1>1, <1>2, <1>14 DEF fmbuf_head_seek_right, PopHead
  <2>3. Fifo!Drop(n)
    BY <1>5, <1>8, <1>14, <2>1, <2>2 DEF fmbuf_head_seek_right, Fifo!Drop, Fifo!Done, Returns
  <2>. QED BY <2>1, <2>3 DEF Fifo!Next
<1>15. ASSUME NEW n \in Amounts, NEW d \in Bytes(n), fmbuf_tail_seek_right(d)
       PROVE  Fifo!Next
  <2>1. n \in 0..MaxSize + 1 /\ d \in Fifo!Bytes(n) /\ Len(d) = n /\ d \in Block(n, Byte)
    BY <1>2 DEF Fifo!Bytes, Block
  <2>2. /\ n \in 1..size /\ n <= MBUF_FREE(head, tail, size)
        /\ buf' = PushStore(buf, tail, d, size) /\ tail' = PushTail(tail, n, size)
        /\ size' = size /\ head' = head /\ Returns(0, <<>>)
    BY <1>1, <1>2, <1>15, <2>1
       DEF fmbuf_tail_seek_right, Free, PushStore, PushTail, fmbuf_tail_free
  <2>3. fmbuf_push(d)
    BY <1>1, <2>1, <2>2 DEF fmbuf_push, Free
  <2>. QED BY <1>4, <2>3
<1>16. ASSUME NEW n \in Amounts, fmbuf_head_seek_left(n) PROVE Fifo!Next
  <2>1. /\ n \in 0..MaxSize + 1 /\ n \in Nat /\ n \in 0..head /\ n <= Free
        /\ head' = head - n /\ UNCHANGED <<size, tail, buf>> /\ Returns(0, <<>>)
    BY <1>1, <1>2, <1>16 DEF fmbuf_head_seek_left, fmbuf_head_free
  <2>2. /\ Used' = Used + n /\ Used + n <= size /\ n = head - head'
    BY <1>1, <2>1 DEF Used, Free, MBUF_USED, MBUF_FREE
  <2>2a. head' \in 0..head /\ Used + (head - head') <= size /\ Used' = Used + (head - head')
    BY <1>1, <2>1, <2>2
  <2>2c. head' \in 0..head /\ Used + (head - head') <= size BY <2>2a
  <2>2b. /\ ReadBytes(buf, head', head - head', size) \in Block(head - head', Byte)
         /\ ReadBytes(buf, head', Used + (head - head'), size)
              = ReadBytes(buf, head', head - head', size) \o ReadBytes(buf, head, Used, size)
    BY <1>1a, <2>2c, ReadPrepends
  <2>3. \E d \in Block(n, Byte) :
          ReadBytes(buf, head', Used', size) = d \o ReadBytes(buf, head, Used, size)
    BY <2>2, <2>2a, <2>2b
  <2>4. \E d \in Fifo!Bytes(n) : Content' = d \o Content
    BY <2>1, <2>2, <2>3 DEF Content, Fifo!Bytes, Block
  <2>5. Fifo!Ungrab(n) BY <1>1, <2>1, <2>2, <2>4 DEF Fifo!Ungrab, Fifo!Done, Returns
  <2>. QED BY <2>1, <2>5 DEF Fifo!Next
<1>17. ASSUME NEW n \in Amounts, fmbuf_tail_seek_left(n) PROVE Fifo!Next
  <2>1. /\ n \in 0..MaxSize + 1 /\ n \in Nat /\ n <= Used /\ n <= tail
        /\ tail' = tail - n /\ UNCHANGED <<size, head, buf>> /\ Returns(0, <<>>)
    BY <1>1, <1>2, <1>17 DEF fmbuf_tail_seek_left
  <2>2. Used' = Used - n BY <1>1, <2>1 DEF Used, MBUF_USED
  <2>2a. Used' \in 0..Used BY <1>1, <2>1, <2>2
  <2>3. ReadBytes(buf, head, Used', size)
         = SubSeq(ReadBytes(buf, head, Used, size), 1, Used')
    BY <1>1a, <2>2a, ReadPrefix
  <2>4. Content' = SubSeq(Content, 1, Len(Content) - n)
    BY <1>1, <2>1, <2>2, <2>3 DEF Content
  <2>5. Fifo!Retract(n) BY <1>1, <2>1, <2>4 DEF Fifo!Retract, Fifo!Done, Returns
  <2>. QED BY <2>1, <2>5 DEF Fifo!Next
<1>18. ASSUME NEW n \in Sizes, fmbuf_realloc(n) PROVE Fifo!Next
  <2>0. n \in 0..MaxSize /\ n \in Nat /\ Returns(0, <<>>)
    BY <1>18, MaxSizeAssumption DEF fmbuf_realloc, Sizes
  <2>1. SUFFICES Content' = Content /\ size' = (IF n > Used THEN n ELSE Used)
    <3>1. Fifo!Resize(n) BY <1>1, <2>0, <2>1 DEF Fifo!Resize, Fifo!Done, Returns
    <3>. QED BY <2>0, <3>1 DEF Fifo!Next
  <2>2. CASE n = size /\ UNCHANGED <<size, head, tail, buf>>
    <3>1. size' = (IF n > Used THEN n ELSE Used) BY <1>1, <2>2
    <3>. QED BY <1>3, <2>2, <3>1
  <2>3. CASE n > size /\ _increase_buf(n)
    <3>1. /\ size' = n /\ MBUF_USED(head', tail', n) = Used
          /\ ReadBytes(buf', head', Used, n) = Content
      BY <2>3, GrowKeeps
    <3>2. Used' = Used BY <3>1 DEF Used
    <3>3. Content' = Content BY <3>1, <3>2 DEF Content
    <3>4. size' = (IF n > Used THEN n ELSE Used) BY <1>1, <2>0, <2>3, <3>1
    <3>. QED BY <3>3, <3>4
  <2>4. CASE n < size /\ _decrease_buf(n)
    <3>1. /\ size' = (IF n > Used THEN n ELSE Used)
          /\ MBUF_USED(head', tail', size') = Used
          /\ ReadBytes(buf', head', Used, size') = Content
      BY <2>4, ShrinkKeeps
    <3>2. Used' = Used BY <3>1 DEF Used
    <3>3. Content' = Content BY <3>1, <3>2 DEF Content
    <3>. QED BY <3>1, <3>3
  <2>. QED BY <1>18, <2>2, <2>3, <2>4 DEF fmbuf_realloc
<1>19. CASE fmbuf_clear
  <2>1. Used' = 0 /\ size' = size BY <1>1, <1>19 DEF fmbuf_clear, Used, MBUF_USED
  <2>2. Content' = ReadBytes(buf, head', Used', size) BY <1>19, <2>1 DEF fmbuf_clear, Content
  <2>3. head' \in 0..size /\ Used' \in 0..size BY <1>1, <1>19, <2>1 DEF fmbuf_clear
  <2>3a. /\ ReadBytes(buf, head', Used', size) \in Seq(Byte)
         /\ Len(ReadBytes(buf, head', Used', size)) = Used'
    BY <1>1, <2>3, ReadIsSeq
  <2>4. Content' = <<>> BY <2>1, <2>2, <2>3a, EmptySeq
  <2>5. Fifo!Clear BY <1>19, <2>1, <2>4 DEF fmbuf_clear, Fifo!Clear, Fifo!Done, Returns
  <2>. QED BY <2>5 DEF Fifo!Next
<1>20. CASE fmbuf_rewind
  <2>1. Linear /\ head' = 0 /\ tail' = Used /\ buf' = RewoundBuf /\ size' = size
    BY <1>12, <1>20 DEF fmbuf_rewind
  <2>2. Used' = Used BY <1>1, <2>1 DEF Used, MBUF_USED
  <2>3. Content' = Content BY <1>12, <2>1, <2>2 DEF Content
  <2>4. Fifo!Compact BY <1>20, <2>1, <2>3 DEF fmbuf_rewind, Fifo!Compact, Fifo!Done, Returns
  <2>. QED BY <2>4 DEF Fifo!Next
<1>21. CASE UNCHANGED vars
  BY <1>3, <1>21 DEF vars, Fifo!vars
<1>. QED BY <1>4, <1>9, <1>10, <1>11, <1>13, <1>14, <1>15, <1>16, <1>17, <1>18,
            <1>19, <1>20, <1>21 DEF Next

\* Every behaviour of the buffer is one of the bounded byte queue: for every
\* size, every byte alphabet and every legal order of push, pop, vpop, rawget,
\* alloc, seek, rewind, clear and realloc, bytes come out once, unchanged and in
\* the order they went in.
THEOREM Refinement == Spec => ImplementsFifo
<1>1. Init => Fifo!Init BY FifoInit
<1>2. TypeOK /\ [Next]_vars => [Fifo!Next]_(Fifo!vars) BY FifoStep
<1>3. Spec => []TypeOK BY TypeCorrect
<1>. QED BY <1>1, <1>2, <1>3, PTL DEF Spec, ImplementsFifo, Fifo!Spec
=============================================================================
