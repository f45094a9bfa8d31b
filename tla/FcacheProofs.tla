---------------------------- MODULE FcacheProofs ----------------------------
(***************************************************************************)
(* Proofs about Fcache, for every set of keys, every size of the cache and *)
(* every size of its objects.                                              *)
(***************************************************************************)
EXTENDS Fcache, SequenceTheorems, FiniteSetTheorems, WellFoundedInduction, TLAPS

-----------------------------------------------------------------------------
(* Induction, and functions that are defined by recursion.                 *)

\* A set with 0 and with the successor of each number it has contains them all.
LEMMA Climb ==
  ASSUME NEW T, 0 \in T, \A k \in Nat : k \in T => k + 1 \in T
  PROVE  \A k \in Nat : k \in T
<1>. DEFINE R == OpToRel(<, Nat)
            B == {k \in Nat : k \notin T}
<1>1. SUFFICES ASSUME B # {} PROVE FALSE OBVIOUS
<1>2. IsWellFoundedOn(R, Nat) BY NatLessThanWellFounded
<1>3. PICK x \in B : \A y \in B : ~(<<y, x>> \in R) BY <1>1, <1>2, WFMin, Zenon
<1>4. x # 0 /\ x \in Nat OBVIOUS
<1>5. x - 1 \in Nat /\ x - 1 < x BY <1>4
<1>6. <<x - 1, x>> \in R BY <1>4, <1>5 DEF OpToRel
<1>7. x - 1 \in T BY <1>3, <1>5, <1>6
<1>8. (x - 1) + 1 \in T BY <1>5, <1>7
<1>. QED BY <1>4, <1>8

\* A step that is repeated n times.
Repeated(S, step, c, n, f) ==
  f \in [0..n -> S] /\ f[0] = c /\ \A x \in 1..n : f[x] = step[f[x - 1]]

\* Every step can be.
LEMMA Iterates ==
  ASSUME NEW S, NEW step \in [S -> S], NEW c \in S, NEW n \in Nat
  PROVE  \E f : Repeated(S, step, c, n, f)
<1>. DEFINE Runs(k, f) == f[0] = c /\ \A x \in 1..k : f[x] = step[f[x - 1]]
            T == {k \in Nat : \E f \in [0..k -> S] : Runs(k, f)}
<1>1. 0 \in T
  <2>. DEFINE f == [x \in 0..0 |-> c]
  <2>1. f \in [0..0 -> S] OBVIOUS
  <2>2. Runs(0, f) OBVIOUS
  <2>. HIDE DEF f, Runs
  <2>. QED BY <2>1, <2>2
<1>2. ASSUME NEW k \in Nat, k \in T PROVE k + 1 \in T
  <2>1. PICK f \in [0..k -> S] : Runs(k, f) BY <1>2
  <2>. DEFINE g == [x \in 0..(k + 1) |-> IF x <= k THEN f[x] ELSE step[f[k]]]
  <2>2. g \in [0..(k + 1) -> S] BY <2>1
  <2>3. g[0] = c BY <2>1
  <2>4. ASSUME NEW x \in 1..(k + 1) PROVE g[x] = step[g[x - 1]]
    <3>1. CASE x <= k BY <2>1, <3>1
    <3>2. CASE x = k + 1 BY <2>1, <3>2
    <3>. QED BY <3>1, <3>2
  <2>5. Runs(k + 1, g) BY <2>3, <2>4
  <2>. HIDE DEF g, Runs
  <2>. QED BY <2>2, <2>5
<1>. HIDE DEF T
<1>3. n \in T BY <1>1, <1>2, Climb
<1>. QED BY <1>3 DEF T, Repeated

-----------------------------------------------------------------------------
(* Sequences of nodes.                                                     *)

\* An interval from 1 is as long as its end says.
LEMMA SameInterval ==
  ASSUME NEW a \in Nat, NEW b \in Nat, 1..a = 1..b
  PROVE  a = b
<1>1. ASSUME NEW x \in Nat, NEW y \in Nat, x < y, 1..x = 1..y PROVE FALSE
  <2>1. y \in 1..y /\ y \notin 1..x BY <1>1
  <2>. QED BY <1>1, <2>1
<1>. QED BY <1>1

\* s without its j-th element.
Without(s, j) == [i \in 1..(Len(s) - 1) |-> IF i < j THEN s[i] ELSE s[i + 1]]

\* What it is.
LEMMA WithoutIs ==
  ASSUME NEW X, NEW s \in Seq(X), NEW j \in 1..Len(s)
  PROVE  /\ Without(s, j) \in Seq(X) /\ Len(Without(s, j)) = Len(s) - 1
         /\ Len(s) \in Nat /\ Len(s) >= 1
         /\ \A i \in 1..(Len(s) - 1) : /\ i < j => Without(s, j)[i] = s[i]
                                       /\ i >= j => Without(s, j)[i] = s[i + 1]
<1>. DEFINE n == Len(s)
            w == Without(s, j)
<1>1. n \in Nat /\ n >= 1 /\ \A i \in 1..n : s[i] \in X BY LenProperties
<1>2. w = [i \in 1..(n - 1) |-> IF i < j THEN s[i] ELSE s[i + 1]] BY DEF Without
<1>. HIDE DEF n, w
<1>3. n - 1 \in Nat BY <1>1
<1>4. w \in [1..(n - 1) -> X] BY <1>1, <1>2
<1>5. w \in Seq(X) BY <1>3, <1>4, SeqDef
<1>6. Len(w) = n - 1
  <2>1. Len(w) \in Nat /\ DOMAIN w = 1..Len(w) BY <1>5, LenProperties
  <2>2. 1..Len(w) = 1..(n - 1) BY <1>4, <2>1
  <2>. QED BY <1>3, <2>1, <2>2, SameInterval
<1>7. \A i \in 1..(n - 1) : w[i] = IF i < j THEN s[i] ELSE s[i + 1] BY <1>2
<1>. QED BY <1>1, <1>5, <1>6, <1>7 DEF n, w

\* What Append makes.
LEMMA AppendIs ==
  ASSUME NEW X, NEW s \in Seq(X), NEW e \in X
  PROVE  /\ Append(s, e) \in Seq(X) /\ Len(s) \in Nat /\ Len(Append(s, e)) = Len(s) + 1
         /\ \A i \in 1..Len(s) : Append(s, e)[i] = s[i]
         /\ Append(s, e)[Len(s) + 1] = e
BY AppendProperties, LenProperties

-----------------------------------------------------------------------------
(* The memory of the lists.                                                *)

Link == Node \cup {Null}
SizeT == 0..(SizeMod - 1)

\* The types of the fields.
Mem == [head : [List -> Link], tail : [List -> Link],
        size : [List -> Nat], total : [List -> SizeT],
        prev : [Node -> Link], next : [Node -> Link],
        owner : [Node -> List \cup {Null}], dsize : [Node -> SizeT]]

\* w[p] is list p from its head to its tail, and l holds it.
Chained(w, hd, tl, nx, pv) ==
  /\ hd = IF Len(w) = 0 THEN Null ELSE w[1]
  /\ tl = IF Len(w) = 0 THEN Null ELSE w[Len(w)]
  /\ \A i \in 1..Len(w) : nx[w[i]] = IF i = Len(w) THEN Null ELSE w[i + 1]
  /\ \A i \in 2..Len(w) : pv[w[i]] = w[i - 1]

Members(w, p, ow) ==
  /\ \A i, j \in 1..Len(w) : w[i] = w[j] => i = j
  /\ \A n \in Node : ow[n] = p <=> \E i \in 1..Len(w) : w[i] = n

Lists(l, w) ==
  /\ l \in Mem /\ w \in [List -> Seq(Node)]
  /\ \A p \in List : /\ Chained(w[p], l.head[p], l.tail[p], l.next, l.prev)
                     /\ Members(w[p], p, l.owner)
                     /\ l.size[p] = Len(w[p])

\* size_t arithmetic stays in size_t.
LEMMA PlusMinus ==
  /\ \A a, b \in SizeT : /\ Plus(a, b) \in SizeT /\ Minus(a, b) \in SizeT
                         /\ a + b < SizeMod => Plus(a, b) = a + b
                         /\ b <= a => Minus(a, b) = a - b
<1>1. SizeMod \in Nat \ {0} BY ListAssumption
<1>. QED BY <1>1 DEF Plus, Minus, SizeT

\* A record of these fields.
Fields == {"head", "tail", "size", "total", "prev", "next", "owner", "dsize"}
IsMem(l) == DOMAIN l = Fields /\ l = [y \in Fields |-> l[y]]

\* Memory, field by field.
LEMMA MemIs ==
  ASSUME NEW l
  PROVE  l \in Mem <=> /\ IsMem(l)
                       /\ l.head \in [List -> Link] /\ l.tail \in [List -> Link]
                       /\ l.size \in [List -> Nat] /\ l.total \in [List -> SizeT]
                       /\ l.prev \in [Node -> Link] /\ l.next \in [Node -> Link]
                       /\ l.owner \in [Node -> List \cup {Null}] /\ l.dsize \in [Node -> SizeT]
BY DEF Mem, IsMem, Fields

\* fcache_list_push, field by field.
Pushed(l, p, n, d, r) ==
  LET e == fcache_list_empty(l, p)
  IN
    /\ r \in Mem
    /\ r.head = [l.head EXCEPT ![p] = IF e THEN n ELSE @]
    /\ r.tail = [l.tail EXCEPT ![p] = n]
    /\ r.size = [l.size EXCEPT ![p] = @ + 1]
    /\ r.total = [l.total EXCEPT ![p] = Plus(@, d)]
    /\ r.prev = [l.prev EXCEPT ![n] = l.tail[p]]
    /\ r.next = [(IF e THEN l.next ELSE [l.next EXCEPT ![l.tail[p]] = n]) EXCEPT ![n] = Null]
    /\ r.owner = [l.owner EXCEPT ![n] = p]
    /\ r.dsize = [l.dsize EXCEPT ![n] = d]

\* So it is.
LEMMA PushFields ==
  ASSUME NEW l \in Mem, NEW p \in List, NEW n \in Node, NEW d \in SizeT,
         ~fcache_list_empty(l, p) => l.tail[p] \in Node
  PROVE  Pushed(l, p, n, d, fcache_list_push(l, p, n, d))
<1>. DEFINE r == fcache_list_push(l, p, n, d)
            e == fcache_list_empty(l, p)
            x == (IF e THEN l.next ELSE [l.next EXCEPT ![l.tail[p]] = n])
<1>1. /\ r.head = [l.head EXCEPT ![p] = IF e THEN n ELSE @]
      /\ r.tail = [l.tail EXCEPT ![p] = n]
      /\ r.size = [l.size EXCEPT ![p] = @ + 1]
      /\ r.total = [l.total EXCEPT ![p] = Plus(@, d)]
      /\ r.prev = [l.prev EXCEPT ![n] = l.tail[p]]
      /\ r.next = [x EXCEPT ![n] = Null]
      /\ r.owner = [l.owner EXCEPT ![n] = p]
      /\ r.dsize = [l.dsize EXCEPT ![n] = d]
  BY DEF fcache_list_push, Mem
<1>2. IsMem(r)
  <2>. DEFINE a == [x EXCEPT ![n] = Null]
              g == IF e THEN n ELSE l.head[p]
              i == l.size[p] + 1
              j == Plus(l.total[p], d)
  <2>3. r = [l EXCEPT !.next = a, !.prev[n] = l.tail[p], !.owner[n] = p, !.dsize[n] = d,
                      !.head[p] = g, !.tail[p] = n, !.size[p] = i, !.total[p] = j]
    BY Zenon DEF fcache_list_push
  <2>. HIDE DEF a, g, i, j, r
  <2>1. DOMAIN r = DOMAIN l /\ r = [y \in DOMAIN l |-> r[y]] BY ONLY <2>3, ZenonT(30)
  <2>2. DOMAIN l = Fields BY MemIs DEF IsMem
  <2>. HIDE DEF r
  <2>. QED BY <2>1, <2>2 DEF IsMem
<1>. HIDE DEF r
<1>3. /\ l.head \in [List -> Link] /\ l.tail \in [List -> Link]
      /\ l.size \in [List -> Nat] /\ l.total \in [List -> SizeT]
      /\ l.prev \in [Node -> Link] /\ l.next \in [Node -> Link]
      /\ l.owner \in [Node -> List \cup {Null}] /\ l.dsize \in [Node -> SizeT]
  BY MemIs
<1>4. /\ r.head \in [List -> Link] /\ r.tail \in [List -> Link]
      /\ r.size \in [List -> Nat] /\ r.prev \in [Node -> Link]
      /\ r.owner \in [Node -> List \cup {Null}] /\ r.dsize \in [Node -> SizeT]
  BY <1>1, <1>3 DEF Link
<1>5. r.total \in [List -> SizeT] BY <1>1, <1>3, PlusMinus
<1>6. r.next \in [Node -> Link] BY <1>1, <1>3 DEF Link
<1>7. r \in Mem BY <1>2, <1>4, <1>5, <1>6, MemIs
<1>. QED BY <1>1, <1>7 DEF r, Pushed

\* A node that is in no list is cleared, and one that is taken out by Leave; field by
\* field.
Left(l, p, n, r) ==
  /\ r \in Mem
  /\ r.head = l.head /\ r.tail = l.tail /\ r.dsize = l.dsize
  /\ r.size = [l.size EXCEPT ![p] = @ - 1]
  /\ r.total = [l.total EXCEPT ![p] = Minus(@, l.dsize[n])]
  /\ r.prev = [l.prev EXCEPT ![n] = Null]
  /\ r.next = [l.next EXCEPT ![n] = Null]
  /\ r.owner = [l.owner EXCEPT ![n] = Null]

\* So it is.
LEMMA LeaveFields ==
  ASSUME NEW l \in Mem, NEW p \in List, NEW n \in Node, l.size[p] # 0
  PROVE  Left(l, p, n, Leave(l, p, n))
<1>. DEFINE r == Leave(l, p, n)
<1>1. /\ r.head = l.head /\ r.tail = l.tail /\ r.dsize = l.dsize
      /\ r.size = [l.size EXCEPT ![p] = @ - 1]
      /\ r.total = [l.total EXCEPT ![p] = Minus(@, l.dsize[n])]
      /\ r.prev = [l.prev EXCEPT ![n] = Null]
      /\ r.next = [l.next EXCEPT ![n] = Null]
      /\ r.owner = [l.owner EXCEPT ![n] = Null]
  BY DEF Leave, Mem
<1>2. IsMem(r)
  <2>1. DOMAIN r = DOMAIN l /\ r = [y \in DOMAIN l |-> r[y]] BY ZenonT(30) DEF Leave
  <2>2. DOMAIN l = Fields BY MemIs DEF IsMem
  <2>. HIDE DEF r
  <2>. QED BY <2>1, <2>2 DEF IsMem
<1>. HIDE DEF r
<1>3. /\ l.head \in [List -> Link] /\ l.tail \in [List -> Link]
      /\ l.size \in [List -> Nat] /\ l.total \in [List -> SizeT]
      /\ l.prev \in [Node -> Link] /\ l.next \in [Node -> Link]
      /\ l.owner \in [Node -> List \cup {Null}] /\ l.dsize \in [Node -> SizeT]
  BY MemIs
<1>4. /\ r.head \in [List -> Link] /\ r.tail \in [List -> Link]
      /\ r.size \in [List -> Nat] /\ r.prev \in [Node -> Link] /\ r.next \in [Node -> Link]
      /\ r.owner \in [Node -> List \cup {Null}] /\ r.dsize \in [Node -> SizeT]
  BY <1>1, <1>3 DEF Link
<1>5. r.total \in [List -> SizeT] BY <1>1, <1>3, PlusMinus
<1>7. r \in Mem BY <1>2, <1>4, <1>5, MemIs
<1>. QED BY <1>1, <1>7 DEF r, Left

\* fcache_list_make_node clears the node only.
Made(l, n, r) ==
  /\ r \in Mem
  /\ r.head = l.head /\ r.tail = l.tail /\ r.size = l.size /\ r.total = l.total
  /\ r.prev = [l.prev EXCEPT ![n] = Null]
  /\ r.next = [l.next EXCEPT ![n] = Null]
  /\ r.owner = [l.owner EXCEPT ![n] = Null]
  /\ r.dsize = [l.dsize EXCEPT ![n] = 0]

\* So it is.
LEMMA MakeFields ==
  ASSUME NEW l \in Mem, NEW n \in Node
  PROVE  Made(l, n, fcache_list_make_node(l, n))
<1>. DEFINE r == fcache_list_make_node(l, n)
<1>1. /\ r.head = l.head /\ r.tail = l.tail /\ r.size = l.size /\ r.total = l.total
      /\ r.prev = [l.prev EXCEPT ![n] = Null]
      /\ r.next = [l.next EXCEPT ![n] = Null]
      /\ r.owner = [l.owner EXCEPT ![n] = Null]
      /\ r.dsize = [l.dsize EXCEPT ![n] = 0]
  BY DEF fcache_list_make_node, Mem
<1>2. IsMem(r)
  <2>1. DOMAIN r = DOMAIN l /\ r = [y \in DOMAIN l |-> r[y]] BY DEF fcache_list_make_node
  <2>2. DOMAIN l = Fields BY MemIs DEF IsMem
  <2>. HIDE DEF r
  <2>. QED BY <2>1, <2>2 DEF IsMem
<1>. HIDE DEF r
<1>3. /\ l.head \in [List -> Link] /\ l.tail \in [List -> Link]
      /\ l.size \in [List -> Nat] /\ l.total \in [List -> SizeT]
      /\ l.prev \in [Node -> Link] /\ l.next \in [Node -> Link]
      /\ l.owner \in [Node -> List \cup {Null}] /\ l.dsize \in [Node -> SizeT]
  BY MemIs
<1>4. 0 \in SizeT BY ListAssumption DEF SizeT
<1>5. /\ r.head \in [List -> Link] /\ r.tail \in [List -> Link]
      /\ r.size \in [List -> Nat] /\ r.prev \in [Node -> Link] /\ r.next \in [Node -> Link]
      /\ r.owner \in [Node -> List \cup {Null}] /\ r.dsize \in [Node -> SizeT]
      /\ r.total \in [List -> SizeT]
  BY <1>1, <1>3, <1>4 DEF Link
<1>6. r \in Mem BY <1>2, <1>5, MemIs
<1>. QED BY <1>1, <1>6 DEF r, Made

\* Unlink, field by field.
Unlinked(l, p, n, r) ==
  LET hd == n = l.head[p]
      tl == n = l.tail[p]
  IN
    /\ r \in Mem
    /\ r.size = l.size /\ r.total = l.total /\ r.owner = l.owner /\ r.dsize = l.dsize
    /\ hd /\ tl => /\ r.head = [l.head EXCEPT ![p] = Null]
                  /\ r.tail = [l.tail EXCEPT ![p] = Null]
                  /\ r.next = l.next /\ r.prev = l.prev
    /\ hd /\ ~tl => /\ r.head = [l.head EXCEPT ![p] = l.next[n]]
                   /\ r.tail = l.tail /\ r.next = l.next /\ r.prev = l.prev
    /\ ~hd /\ tl => /\ r.head = l.head
                   /\ r.tail = [l.tail EXCEPT ![p] = l.prev[n]]
                   /\ r.next = [l.next EXCEPT ![l.prev[n]] = Null]
                   /\ r.prev = l.prev
    /\ ~hd /\ ~tl => /\ r.head = l.head /\ r.tail = l.tail
                    /\ r.next = [l.next EXCEPT ![l.prev[n]] = l.next[n]]
                    /\ r.prev = [l.prev EXCEPT ![l.next[n]] = l.prev[n]]

\* So it is.
LEMMA UnlinkFields ==
  ASSUME NEW l \in Mem, NEW p \in List, NEW n \in Node,
         n # l.head[p] => l.prev[n] \in Node, n # l.tail[p] => l.next[n] \in Node
  PROVE  Unlinked(l, p, n, Unlink(l, p, n))
<1>. DEFINE r == Unlink(l, p, n)
            hd == n = l.head[p]
            tl == n = l.tail[p]
<1>0. DOMAIN l = Fields BY MemIs DEF IsMem
<1>1. CASE hd /\ tl
  <2>1. r = [l EXCEPT !.head[p] = Null, !.tail[p] = Null] BY <1>1 DEF Unlink
  <2>. HIDE DEF r
  <2>2. DOMAIN r = DOMAIN l /\ r = [y \in DOMAIN l |-> r[y]] BY <2>1
  <2>3. IsMem(r) BY <1>0, <2>2, Zenon DEF IsMem
  <2>4. /\ r.size = l.size /\ r.total = l.total /\ r.owner = l.owner /\ r.dsize = l.dsize
        /\ r.head = [l.head EXCEPT ![p] = Null] /\ r.tail = [l.tail EXCEPT ![p] = Null]
        /\ r.next = l.next /\ r.prev = l.prev
    BY <2>1, <1>0 DEF Fields
  <2>5. r \in Mem BY <2>3, <2>4, MemIs DEF Link
  <2>. QED BY <1>1, <2>4, <2>5 DEF r, Unlinked
<1>2. CASE hd /\ ~tl
  <2>1. r = [l EXCEPT !.head[p] = l.next[n]] BY <1>2 DEF Unlink
  <2>. HIDE DEF r
  <2>2. DOMAIN r = DOMAIN l /\ r = [y \in DOMAIN l |-> r[y]] BY <2>1
  <2>3. IsMem(r) BY <1>0, <2>2, Zenon DEF IsMem
  <2>4. /\ r.size = l.size /\ r.total = l.total /\ r.owner = l.owner /\ r.dsize = l.dsize
        /\ r.head = [l.head EXCEPT ![p] = l.next[n]]
        /\ r.tail = l.tail /\ r.next = l.next /\ r.prev = l.prev
    BY <2>1, <1>0 DEF Fields
  <2>5. r \in Mem BY <2>3, <2>4, MemIs DEF Link
  <2>. QED BY <1>2, <2>4, <2>5 DEF r, Unlinked
<1>3. CASE ~hd /\ tl
  <2>1. r = [l EXCEPT !.tail[p] = l.prev[n], !.next[l.prev[n]] = Null] BY <1>3 DEF Unlink
  <2>. HIDE DEF r
  <2>2. DOMAIN r = DOMAIN l /\ r = [y \in DOMAIN l |-> r[y]] BY <2>1
  <2>3. IsMem(r) BY <1>0, <2>2, Zenon DEF IsMem
  <2>4. /\ r.size = l.size /\ r.total = l.total /\ r.owner = l.owner /\ r.dsize = l.dsize
        /\ r.head = l.head /\ r.tail = [l.tail EXCEPT ![p] = l.prev[n]]
        /\ r.next = [l.next EXCEPT ![l.prev[n]] = Null] /\ r.prev = l.prev
    BY <2>1, <1>0 DEF Fields
  <2>5. r \in Mem BY <2>3, <2>4, MemIs, SMTT(30) DEF Link
  <2>. QED BY <1>3, <2>4, <2>5 DEF r, Unlinked
<1>4. CASE ~hd /\ ~tl
  <2>1. r = [l EXCEPT !.next[l.prev[n]] = l.next[n], !.prev[l.next[n]] = l.prev[n]]
    BY <1>4 DEF Unlink
  <2>. HIDE DEF r
  <2>2. DOMAIN r = DOMAIN l /\ r = [y \in DOMAIN l |-> r[y]] BY <2>1
  <2>3. IsMem(r) BY <1>0, <2>2, Zenon DEF IsMem
  <2>4. /\ r.size = l.size /\ r.total = l.total /\ r.owner = l.owner /\ r.dsize = l.dsize
        /\ r.head = l.head /\ r.tail = l.tail
        /\ r.next = [l.next EXCEPT ![l.prev[n]] = l.next[n]]
        /\ r.prev = [l.prev EXCEPT ![l.next[n]] = l.prev[n]]
    BY <2>1, <1>0 DEF Fields
  <2>5. r \in Mem BY <2>3, <2>4, MemIs, SMTT(30) DEF Link
  <2>. QED BY <1>4, <2>4, <2>5 DEF r, Unlinked
<1>. QED BY <1>1, <1>2, <1>3, <1>4

\* fcache_list_pop moves the head, and the tail of a list of one, before the node leaves.
Top(l, p, n) == [l EXCEPT !.head[p] = l.next[n],
                          !.tail[p] = IF l.next[n] = Null THEN Null ELSE @]

Topped(l, p, n, r) ==
  /\ r \in Mem
  /\ r.size = l.size /\ r.total = l.total /\ r.owner = l.owner /\ r.dsize = l.dsize
  /\ r.next = l.next /\ r.prev = l.prev
  /\ r.head = [l.head EXCEPT ![p] = l.next[n]]
  /\ r.tail = [l.tail EXCEPT ![p] = IF l.next[n] = Null THEN Null ELSE @]

\* So it is.
LEMMA TopFields ==
  ASSUME NEW l \in Mem, NEW p \in List, NEW n \in Node
  PROVE  Topped(l, p, n, Top(l, p, n))
<1>. DEFINE r == Top(l, p, n)
<1>0. DOMAIN l = Fields BY MemIs DEF IsMem
<1>1. ASSUME NEW t, NEW m, m = [l EXCEPT !.head[p] = l.next[n], !.tail[p] = t]
      PROVE  DOMAIN m = DOMAIN l /\ m = [y \in DOMAIN l |-> m[y]]
  BY ONLY <1>1
<1>2. DOMAIN r = DOMAIN l /\ r = [y \in DOMAIN l |-> r[y]] BY <1>1, Zenon DEF Top
<1>3. /\ r.size = l.size /\ r.total = l.total /\ r.owner = l.owner /\ r.dsize = l.dsize
      /\ r.next = l.next /\ r.prev = l.prev
      /\ r.head = [l.head EXCEPT ![p] = l.next[n]]
      /\ r.tail = [l.tail EXCEPT ![p] = IF l.next[n] = Null THEN Null ELSE @]
  BY <1>0 DEF Fields, Top
<1>. HIDE DEF r, Topped
<1>4. IsMem(r) BY <1>0, <1>2, Zenon DEF IsMem
<1>5. r \in Mem BY <1>3, <1>4, MemIs, SMTT(30) DEF Link
<1>. QED BY <1>3, <1>5 DEF r, Topped

\* fcache_list_update_node changes one sum.
Updated(l, n, d, r) ==
  /\ r \in Mem
  /\ r.head = l.head /\ r.tail = l.tail /\ r.size = l.size /\ r.prev = l.prev
  /\ r.next = l.next /\ r.owner = l.owner /\ r.dsize = l.dsize
  /\ r.total = [l.total EXCEPT ![l.owner[n]] = Plus(Minus(@, l.dsize[n]), d)]

\* So it is.
LEMMA UpdateFields ==
  ASSUME NEW l \in Mem, NEW n \in Node, NEW d \in SizeT, l.owner[n] \in List
  PROVE  Updated(l, n, d, fcache_list_update_node(l, n, d))
<1>. DEFINE r == fcache_list_update_node(l, n, d)
<1>0. DOMAIN l = Fields BY MemIs DEF IsMem
<1>1. ASSUME NEW t, NEW m, NEW q, m = [l EXCEPT !.total[q] = t]
      PROVE  DOMAIN m = DOMAIN l /\ m = [y \in DOMAIN l |-> m[y]]
  BY ONLY <1>1
<1>2. DOMAIN r = DOMAIN l /\ r = [y \in DOMAIN l |-> r[y]]
  BY <1>1, Zenon DEF fcache_list_update_node
<1>3. /\ r.head = l.head /\ r.tail = l.tail /\ r.size = l.size /\ r.prev = l.prev
      /\ r.next = l.next /\ r.owner = l.owner /\ r.dsize = l.dsize
      /\ r.total = [l.total EXCEPT ![l.owner[n]] = Plus(Minus(@, l.dsize[n]), d)]
  BY <1>0 DEF Fields, fcache_list_update_node
<1>. HIDE DEF r
<1>4. IsMem(r) BY <1>0, <1>2, Zenon DEF IsMem
<1>5. r.total \in [List -> SizeT] BY <1>3, MemIs, PlusMinus
<1>6. r \in Mem BY <1>3, <1>4, <1>5, MemIs
<1>. QED BY <1>3, <1>6 DEF r, Updated

-----------------------------------------------------------------------------
(* What the calls do to the sequences.                                     *)

\* Links outside a chain may change.
LEMMA ChainSame ==
  ASSUME NEW s \in Seq(Node), NEW hd, NEW tl, NEW nx, NEW pv, NEW nx2, NEW pv2,
         Chained(s, hd, tl, nx, pv),
         \A i \in 1..Len(s) : nx2[s[i]] = nx[s[i]] /\ pv2[s[i]] = pv[s[i]]
  PROVE  Chained(s, hd, tl, nx2, pv2)
<1>1. Len(s) \in Nat BY LenProperties
<1>. QED BY <1>1 DEF Chained

\* n is linked to the end of the chain s.
Extend(s, n, hd, tl, nx, pv, hd2, nx2, pv2) ==
  /\ s \in Seq(Node) /\ n \in Node /\ Chained(s, hd, tl, nx, pv)
  /\ \A i \in 1..Len(s) : s[i] # n
  /\ \A i, j \in 1..Len(s) : s[i] = s[j] => i = j
  /\ hd2 = IF Len(s) = 0 THEN n ELSE hd
  /\ \A i \in 1..Len(s) : pv2[s[i]] = pv[s[i]]
  /\ \A i \in 1..Len(s) : i # Len(s) => nx2[s[i]] = nx[s[i]]
  /\ Len(s) # 0 => nx2[s[Len(s)]] = n
  /\ nx2[n] = Null /\ pv2[n] = tl

\* The chain with n at its end.
LEMMA ChainAppend ==
  ASSUME NEW s, NEW hd, NEW tl, NEW nx, NEW pv, NEW n, NEW nx2, NEW pv2, NEW hd2,
         Extend(s, n, hd, tl, nx, pv, hd2, nx2, pv2)
  PROVE  Chained(Append(s, n), hd2, n, nx2, pv2)
<1>. USE DEF Extend
<1>. DEFINE v == Append(s, n)
            k == Len(s)
<1>1. k \in Nat /\ Len(v) = k + 1 /\ v[k + 1] = n /\ \A i \in 1..k : v[i] = s[i]
  BY AppendIs
<1>. HIDE DEF v, k
<1>2. hd2 = v[1] BY <1>1 DEF Chained, k
<1>3. ASSUME NEW i \in 1..(k + 1)
      PROVE  nx2[v[i]] = IF i = k + 1 THEN Null ELSE v[i + 1]
  <2>1. CASE i = k + 1 BY <1>1, <2>1
  <2>2. CASE i = k /\ i # 0 BY <1>1, <2>2 DEF k
  <2>3. CASE i < k
    <3>1. i \in 1..k /\ i + 1 \in 1..k /\ i # k BY <1>1, <2>3
    <3>2. nx2[s[i]] = nx[s[i]] BY <3>1 DEF k
    <3>3. nx[s[i]] = s[i + 1] BY <3>1 DEF Chained, k
    <3>. QED BY <1>1, <3>1, <3>2, <3>3
  <2>. QED BY <1>1, <2>1, <2>2, <2>3
<1>4. ASSUME NEW i \in 2..(k + 1) PROVE pv2[v[i]] = v[i - 1]
  <2>1. CASE i = k + 1
    <3>1. k # 0 /\ k \in 1..k /\ i - 1 = k BY <1>1, <2>1
    <3>2. tl = s[k] BY <3>1 DEF Chained, k
    <3>. QED BY <1>1, <2>1, <3>1, <3>2
  <2>2. CASE i <= k
    <3>1. i \in 2..k /\ i \in 1..k /\ i - 1 \in 1..k BY <1>1, <2>2
    <3>2. pv2[s[i]] = pv[s[i]] BY <3>1 DEF k
    <3>3. pv[s[i]] = s[i - 1] BY <3>1 DEF Chained, k
    <3>. QED BY <1>1, <3>1, <3>2, <3>3
  <2>. QED BY <1>1, <2>1, <2>2
<1>5. Chained(v, hd2, n, nx2, pv2) BY <1>1, <1>2, <1>3, <1>4 DEF Chained
<1>. QED BY <1>5 DEF v

\* The links of a chain without its j-th node.
Cut(s, j, hd, tl, nx, pv, hd2, tl2, nx2, pv2) ==
  /\ Chained(s, hd, tl, nx, pv)
  /\ hd2 = IF j = 1 THEN nx[s[j]] ELSE hd
  /\ tl2 = IF j # Len(s) THEN tl ELSE IF j = 1 THEN Null ELSE s[j - 1]
  /\ j # 1 => nx2[s[j - 1]] = nx[s[j]]
  /\ j # 1 /\ j # Len(s) => pv2[s[j + 1]] = s[j - 1]
  /\ \A i \in 1..Len(s) : i # j /\ i + 1 # j => nx2[s[i]] = nx[s[i]]
  /\ \A i \in 1..Len(s) : i # j /\ i # j + 1 => pv2[s[i]] = pv[s[i]]

\* They chain what is left.
LEMMA ChainWithout ==
  ASSUME NEW s \in Seq(Node), NEW hd, NEW tl, NEW nx, NEW pv, NEW j \in 1..Len(s),
         NEW nx2, NEW pv2, NEW hd2, NEW tl2,
         Cut(s, j, hd, tl, nx, pv, hd2, tl2, nx2, pv2)
  PROVE  Chained(Without(s, j), hd2, tl2, nx2, pv2)
<1>. DEFINE v == Without(s, j)
            k == Len(s)
<1>1. /\ k \in Nat /\ k >= 1 /\ Len(v) = k - 1
      /\ \A i \in 1..(k - 1) : /\ i < j => v[i] = s[i]
                               /\ i >= j => v[i] = s[i + 1]
  BY WithoutIs
<1>. HIDE DEF v, k
<1>2. j \in 1..k BY DEF k
<1>3. /\ hd = s[1] /\ tl = s[k]
      /\ \A i \in 1..k : nx[s[i]] = IF i = k THEN Null ELSE s[i + 1]
      /\ \A i \in 2..k : pv[s[i]] = s[i - 1]
  BY <1>1 DEF Chained, Cut, k
<1>. USE DEF Cut
<1>4. hd2 = IF k - 1 = 0 THEN Null ELSE v[1]
  <2>1. CASE j = 1 BY <1>1, <1>2, <1>3, <2>1
  <2>2. CASE j # 1 BY <1>1, <1>2, <1>3, <2>2
  <2>. QED BY <2>1, <2>2
<1>5. tl2 = IF k - 1 = 0 THEN Null ELSE v[k - 1]
  <2>1. CASE j = k BY <1>1, <1>2, <1>3, <2>1 DEF k
  <2>2. CASE j # k BY <1>1, <1>2, <1>3, <2>2 DEF k
  <2>. QED BY <2>1, <2>2
<1>6. ASSUME NEW i \in 1..(k - 1)
      PROVE  nx2[v[i]] = IF i = k - 1 THEN Null ELSE v[i + 1]
  <2>1. CASE i < j - 1
    <3>1. i \in 1..k /\ i # j /\ i + 1 # j /\ i # k /\ i # k - 1 /\ i + 1 \in 1..(k - 1)
      BY <1>1, <1>2, <2>1, SMTT(30)
    <3>2. nx2[s[i]] = nx[s[i]] BY <3>1 DEF k
    <3>3. v[i] = s[i] /\ v[i + 1] = s[i + 1] BY <1>1, <1>2, <2>1, <3>1
    <3>4. nx[s[i]] = s[i + 1] BY <1>3, <3>1
    <3>. QED BY <3>1, <3>2, <3>3, <3>4
  <2>2. CASE i = j - 1
    <3>1. j # 1 /\ j - 1 = i /\ i < j BY <1>1, <1>2, <2>2
    <3>2. nx2[s[i]] = nx[s[j]] BY <3>1
    <3>3. nx[s[j]] = IF j = k THEN Null ELSE s[j + 1] BY <1>2, <1>3
    <3>4. v[i] = s[i] BY <1>1, <3>1
    <3>5. CASE j = k BY <1>1, <1>2, <2>2, <3>2, <3>3, <3>4, <3>5
    <3>6. CASE j # k
      <4>1. j \in 1..(k - 1) /\ i # k - 1 /\ i + 1 = j BY <1>1, <1>2, <2>2, <3>6
      <4>2. v[i + 1] = s[j + 1] BY <1>1, <4>1
      <4>. QED BY <3>2, <3>3, <3>4, <3>6, <4>1, <4>2
    <3>. QED BY <3>5, <3>6
  <2>3. CASE i >= j
    <3>1. i + 1 \in 1..k /\ i + 1 # j /\ (i + 1) + 1 # j BY <1>1, <1>2, <2>3
    <3>2. nx2[s[i + 1]] = nx[s[i + 1]] BY <3>1 DEF k
    <3>3. v[i] = s[i + 1] BY <1>1, <2>3
    <3>4. nx[s[i + 1]] = IF i + 1 = k THEN Null ELSE s[(i + 1) + 1] BY <1>3, <3>1
    <3>5. CASE i = k - 1 BY <1>1, <3>2, <3>3, <3>4, <3>5
    <3>6. CASE i # k - 1
      <4>1. i + 1 \in 1..(k - 1) /\ i + 1 >= j /\ i + 1 # k BY <1>1, <1>2, <2>3, <3>6
      <4>2. v[i + 1] = s[(i + 1) + 1] BY <1>1, <4>1
      <4>. QED BY <3>2, <3>3, <3>4, <3>6, <4>1, <4>2
    <3>. QED BY <3>5, <3>6
  <2>. QED BY <1>2, <2>1, <2>2, <2>3
<1>7. ASSUME NEW i \in 2..(k - 1) PROVE pv2[v[i]] = v[i - 1]
  <2>1. CASE i < j
    <3>1. i \in 1..k /\ i \in 2..k /\ i # j /\ i # j + 1 /\ i - 1 \in 1..(k - 1) /\ i - 1 < j
      BY <1>1, <1>2, <2>1
    <3>2. pv2[s[i]] = pv[s[i]] BY <3>1 DEF k
    <3>3. v[i] = s[i] /\ v[i - 1] = s[i - 1] BY <1>1, <2>1, <3>1
    <3>4. pv[s[i]] = s[i - 1] BY <1>3, <3>1
    <3>. QED BY <3>2, <3>3, <3>4
  <2>2. CASE i = j
    <3>1. j # 1 /\ j # k /\ j - 1 \in 1..(k - 1) /\ j - 1 < j /\ j >= j
      BY <1>1, <1>2, <2>2
    <3>2. pv2[s[j + 1]] = s[j - 1] BY <3>1 DEF k
    <3>. QED BY <1>1, <2>2, <3>1, <3>2
  <2>3. CASE i > j
    <3>1. /\ i + 1 \in 1..k /\ i + 1 \in 2..k /\ i + 1 # j /\ i + 1 # j + 1
          /\ i - 1 \in 1..(k - 1) /\ i - 1 >= j /\ (i + 1) - 1 = i /\ (i - 1) + 1 = i
      BY <1>1, <1>2, <2>3
    <3>2. pv2[s[i + 1]] = pv[s[i + 1]] BY <3>1 DEF k
    <3>3. v[i] = s[i + 1] /\ v[i - 1] = s[i] BY <1>1, <2>3, <3>1
    <3>4. pv[s[i + 1]] = s[(i + 1) - 1] BY <1>3, <3>1
    <3>. QED BY <3>1, <3>2, <3>3, <3>4
  <2>. QED BY <1>2, <2>1, <2>2, <2>3
<1>8. Chained(v, hd2, tl2, nx2, pv2) BY <1>1, <1>4, <1>5, <1>6, <1>7 DEF Chained
<1>. QED BY <1>8 DEF v

\* The members of a list when n is added, and when its j-th node is removed.
LEMMA MembersAppend ==
  ASSUME NEW s \in Seq(Node), NEW p, NEW ow, NEW n \in Node, NEW ow2,
         Members(s, p, ow), ow[n] # p, ow2[n] = p,
         \A m \in Node : m # n => ow2[m] = ow[m]
  PROVE  Members(Append(s, n), p, ow2)
<1>. DEFINE v == Append(s, n)
            k == Len(s)
<1>1. k \in Nat /\ Len(v) = k + 1 /\ v[k + 1] = n /\ \A i \in 1..k : v[i] = s[i]
  BY AppendIs
<1>2. \A i \in 1..k : s[i] # n /\ s[i] \in Node BY LenProperties DEF Members
<1>3. /\ \A i, j \in 1..k : s[i] = s[j] => i = j
      /\ \A m \in Node : ow[m] = p <=> \E i \in 1..k : s[i] = m
  BY DEF Members
<1>. HIDE DEF v, k
<1>4. \A i, j \in 1..(k + 1) : v[i] = v[j] => i = j
  <2>1. \A i \in 1..(k + 1) : i \in 1..k \/ i = k + 1 BY <1>1
  <2>. QED BY <1>1, <1>2, <1>3, <2>1
<1>5. ASSUME NEW m \in Node PROVE ow2[m] = p <=> \E i \in 1..(k + 1) : v[i] = m
  <2>1. CASE m = n BY <1>1, <2>1
  <2>2. CASE m # n
    <3>1. (\E i \in 1..k : s[i] = m) <=> \E i \in 1..(k + 1) : v[i] = m BY <1>1, <2>2
    <3>. QED BY <1>3, <2>2, <3>1
  <2>. QED BY <2>1, <2>2
<1>6. Members(v, p, ow2) BY <1>1, <1>4, <1>5 DEF Members
<1>. QED BY <1>6 DEF v

\* The j-th node of s is no longer owned by p.
Unowned(s, p, ow, j, ow2) ==
  /\ s \in Seq(Node) /\ j \in 1..Len(s) /\ Members(s, p, ow) /\ ow2[s[j]] # p
  /\ \A m \in Node : m # s[j] => ow2[m] = ow[m]

\* The second of the two.
LEMMA MembersWithout ==
  ASSUME NEW s, NEW p, NEW ow, NEW j, NEW ow2, Unowned(s, p, ow, j, ow2)
  PROVE  Members(Without(s, j), p, ow2)
<1>. USE DEF Unowned
<1>. DEFINE v == Without(s, j)
            k == Len(s)
<1>1. /\ k \in Nat /\ k >= 1 /\ Len(v) = k - 1
      /\ \A i \in 1..(k - 1) : /\ i < j => v[i] = s[i]
                               /\ i >= j => v[i] = s[i + 1]
  BY WithoutIs
<1>2. \A i \in 1..k : s[i] \in Node BY LenProperties
<1>3. /\ \A i, m \in 1..k : s[i] = s[m] => i = m
      /\ \A m \in Node : ow[m] = p <=> \E i \in 1..k : s[i] = m
      /\ j \in 1..k
  BY DEF Members
<1>. HIDE DEF v, k
<1>. DEFINE at(i) == IF i < j THEN i ELSE i + 1
<1>4. \A i \in 1..(k - 1) : at(i) \in 1..k /\ at(i) # j /\ v[i] = s[at(i)] BY <1>1, <1>3
<1>5. \A i, m \in 1..(k - 1) : at(i) = at(m) => i = m BY <1>1, <1>3
<1>6. \A m \in 1..k : m # j => \E i \in 1..(k - 1) : at(i) = m
  <2>. SUFFICES ASSUME NEW m \in 1..k, m # j PROVE \E i \in 1..(k - 1) : at(i) = m OBVIOUS
  <2>1. CASE m < j
    <3>1. m \in 1..(k - 1) /\ at(m) = m BY <1>1, <1>3, <2>1
    <3>. QED BY <3>1
  <2>2. CASE m > j
    <3>1. m - 1 \in 1..(k - 1) /\ at(m - 1) = m BY <1>1, <1>3, <2>2
    <3>. QED BY <3>1
  <2>. QED BY <1>3, <2>1, <2>2
<1>. HIDE DEF at
<1>7. \A i, m \in 1..(k - 1) : v[i] = v[m] => i = m BY <1>3, <1>4, <1>5
<1>8. ASSUME NEW m \in Node PROVE ow2[m] = p <=> \E i \in 1..(k - 1) : v[i] = m
  <2>1. CASE m = s[j]
    <3>1. \A i \in 1..(k - 1) : v[i] # m BY <1>3, <1>4, <2>1
    <3>. QED BY <2>1, <3>1
  <2>2. CASE m # s[j]
    <3>1. (\E i \in 1..k : s[i] = m) <=> \E i \in 1..(k - 1) : v[i] = m
      BY <1>3, <1>4, <1>6, <2>2, SMTT(30)
    <3>. QED BY <1>3, <2>2, <3>1
  <2>. QED BY <2>1, <2>2
<1>9. Members(v, p, ow2) BY <1>1, <1>7, <1>8 DEF Members
<1>. QED BY <1>9 DEF v

\* What the lists are when l holds w.
LEMMA ListsFacts ==
  ASSUME NEW l, NEW w, Lists(l, w), NEW p \in List
  PROVE  /\ l \in Mem /\ w[p] \in Seq(Node) /\ Len(w[p]) \in Nat
         /\ \A i \in 1..Len(w[p]) : w[p][i] \in Node /\ l.owner[w[p][i]] = p
         /\ \A i, j \in 1..Len(w[p]) : w[p][i] = w[p][j] => i = j
         /\ \A n \in Node : l.owner[n] = p => \E i \in 1..Len(w[p]) : w[p][i] = n
         /\ Chained(w[p], l.head[p], l.tail[p], l.next, l.prev)
         /\ Members(w[p], p, l.owner) /\ l.size[p] = Len(w[p])
         /\ fcache_list_empty(l, p) <=> Len(w[p]) = 0
         /\ Len(w[p]) # 0 => l.head[p] = w[p][1] /\ l.tail[p] = w[p][Len(w[p])]
<1>1. l \in Mem /\ w[p] \in Seq(Node) BY DEF Lists
<1>2. Len(w[p]) \in Nat /\ \A i \in 1..Len(w[p]) : w[p][i] \in Node BY <1>1, LenProperties
<1>3. /\ Chained(w[p], l.head[p], l.tail[p], l.next, l.prev)
      /\ Members(w[p], p, l.owner) /\ l.size[p] = Len(w[p])
  BY DEF Lists
<1>4. fcache_list_empty(l, p) <=> Len(w[p]) = 0 BY <1>3 DEF Chained, fcache_list_empty
<1>5. Len(w[p]) # 0 => l.head[p] = w[p][1] /\ l.tail[p] = w[p][Len(w[p])]
  BY <1>3 DEF Chained
<1>6. /\ \A i \in 1..Len(w[p]) : l.owner[w[p][i]] = p
      /\ \A i, j \in 1..Len(w[p]) : w[p][i] = w[p][j] => i = j
      /\ \A n \in Node : l.owner[n] = p => \E i \in 1..Len(w[p]) : w[p][i] = n
  BY <1>2, <1>3 DEF Members
<1>. QED BY <1>1, <1>2, <1>3, <1>4, <1>5, <1>6

\* fcache_list_push puts a node of no list at the end of a list.
Put(l, w, p, n, d, r) ==
  /\ Lists(r, [w EXCEPT ![p] = Append(@, n)])
  /\ r.owner = [l.owner EXCEPT ![n] = p]
  /\ r.dsize = [l.dsize EXCEPT ![n] = d]
  /\ r.total = [l.total EXCEPT ![p] = Plus(@, d)]

\* So it does.
LEMMA PushLinks ==
  ASSUME NEW l, NEW w, Lists(l, w), NEW p \in List, NEW n \in Node, l.owner[n] = Null,
         NEW d \in SizeT
  PROVE  Put(l, w, p, n, d, fcache_list_push(l, p, n, d))
<1>. DEFINE r == fcache_list_push(l, p, n, d)
            e == fcache_list_empty(l, p)
            s == w[p]
            k == Len(s)
            v == [w EXCEPT ![p] = Append(@, n)]
<1>1. /\ l \in Mem /\ s \in Seq(Node) /\ k \in Nat
      /\ \A i \in 1..k : s[i] \in Node /\ l.owner[s[i]] = p
      /\ \A i, j \in 1..k : s[i] = s[j] => i = j
      /\ Chained(s, l.head[p], l.tail[p], l.next, l.prev)
      /\ Members(s, p, l.owner) /\ l.size[p] = k
      /\ e <=> k = 0
      /\ k # 0 => l.head[p] = s[1] /\ l.tail[p] = s[k]
  BY ListsFacts
<1>2. Null \notin List /\ Null \notin Node BY ListAssumption
<1>3. \A i \in 1..k : s[i] # n BY <1>1, <1>2
<1>4. k # 0 => k \in 1..k BY <1>1
<1>5. /\ r \in Mem
      /\ r.head = [l.head EXCEPT ![p] = IF e THEN n ELSE @]
      /\ r.tail = [l.tail EXCEPT ![p] = n]
      /\ r.size = [l.size EXCEPT ![p] = @ + 1]
      /\ r.total = [l.total EXCEPT ![p] = Plus(@, d)]
      /\ r.prev = [l.prev EXCEPT ![n] = l.tail[p]]
      /\ r.next = [(IF e THEN l.next ELSE [l.next EXCEPT ![l.tail[p]] = n]) EXCEPT ![n] = Null]
      /\ r.owner = [l.owner EXCEPT ![n] = p]
      /\ r.dsize = [l.dsize EXCEPT ![n] = d]
  <2>1. ~e => l.tail[p] \in Node BY <1>1, <1>4
  <2>2. l \in Mem /\ p \in List /\ n \in Node /\ d \in SizeT BY <1>1
  <2>3. Pushed(l, p, n, d, r) BY <2>1, <2>2, PushFields, Zenon
  <2>. QED BY <2>3 DEF Pushed
<1>6. /\ l.head \in [List -> Link] /\ l.tail \in [List -> Link] /\ l.size \in [List -> Nat]
      /\ l.prev \in [Node -> Link] /\ l.next \in [Node -> Link]
      /\ l.owner \in [Node -> List \cup {Null}]
  BY <1>1, MemIs
<1>. HIDE DEF r, e, s, k
<1>7. w \in [List -> Seq(Node)] BY DEF Lists
<1>8. Append(s, n) \in Seq(Node) /\ Len(Append(s, n)) = k + 1 BY <1>1, AppendIs DEF k
<1>9. v \in [List -> Seq(Node)] /\ v[p] = Append(s, n) /\ \A q \in List : q # p => v[q] = w[q]
  BY <1>7, <1>8 DEF s
<1>. HIDE DEF v
<1>10. /\ \A m \in Node : m # n => r.prev[m] = l.prev[m]
       /\ \A m \in Node : m # n /\ (k = 0 \/ m # s[k]) => r.next[m] = l.next[m]
       /\ k # 0 => r.next[s[k]] = n
       /\ r.next[n] = Null /\ r.prev[n] = l.tail[p]
  <2>1. CASE k = 0 BY <1>1, <1>5, <1>6, <2>1
  <2>2. CASE k # 0
    <3>1. s[k] \in Node /\ s[k] # n /\ ~e /\ l.tail[p] = s[k] BY <1>1, <1>3, <1>4, <2>2
    <3>2. r.next = [[l.next EXCEPT ![s[k]] = n] EXCEPT ![n] = Null] BY <1>5, <3>1
    <3>3. r.prev = [l.prev EXCEPT ![n] = l.tail[p]] BY <1>5
    <3>. QED BY <1>6, <2>2, <3>1, <3>2, <3>3
  <2>. QED BY <2>1, <2>2
<1>11. Chained(v[p], r.head[p], r.tail[p], r.next, r.prev)
  <2>1. r.head[p] = IF k = 0 THEN n ELSE l.head[p] BY <1>1, <1>5, <1>6
  <2>2. r.tail[p] = n BY <1>5, <1>6
  <2>3. \A i \in 1..k : r.prev[s[i]] = l.prev[s[i]] BY <1>1, <1>3, <1>10
  <2>4. \A i \in 1..k : i # k => r.next[s[i]] = l.next[s[i]]
    <3>. SUFFICES ASSUME NEW i \in 1..k, i # k PROVE r.next[s[i]] = l.next[s[i]] OBVIOUS
    <3>1. s[i] # s[k] BY <1>1, <1>4
    <3>. QED BY <1>1, <1>3, <1>10, <3>1
  <2>5. Chained(Append(s, n), r.head[p], n, r.next, r.prev)
    <3>1. Extend(s, n, l.head[p], l.tail[p], l.next, l.prev, r.head[p], r.next, r.prev)
      BY <1>1, <1>3, <1>10, <2>1, <2>3, <2>4, Zenon DEF k, Extend
    <3>. QED BY ONLY <3>1, ChainAppend
  <2>. QED BY <1>9, <2>2, <2>5
<1>12. Members(v[p], p, r.owner)
  <2>1. r.owner[n] = p /\ \A m \in Node : m # n => r.owner[m] = l.owner[m] BY <1>5, <1>6
  <2>2. l.owner[n] # p BY <1>2
  <2>3. s \in Seq(Node) /\ n \in Node /\ Members(s, p, l.owner) BY <1>1
  <2>4. Members(Append(s, n), p, r.owner) BY ONLY <2>1, <2>2, <2>3, MembersAppend, ZenonT(60)
  <2>. QED BY <1>9, <2>4
<1>13. ASSUME NEW q \in List, q # p
       PROVE  /\ Chained(v[q], r.head[q], r.tail[q], r.next, r.prev)
              /\ Members(v[q], q, r.owner)
              /\ r.size[q] = Len(v[q])
  <2>. DEFINE t == w[q]
  <2>1. /\ t \in Seq(Node)
        /\ \A i \in 1..Len(t) : t[i] \in Node /\ l.owner[t[i]] = q
        /\ Chained(t, l.head[q], l.tail[q], l.next, l.prev)
        /\ Members(t, q, l.owner) /\ l.size[q] = Len(t)
    BY ListsFacts
  <2>. HIDE DEF t
  <2>2. \A i \in 1..Len(t) : t[i] # n /\ (k # 0 => t[i] # s[k])
    BY <1>1, <1>2, <1>4, <1>13, <2>1
  <2>3. \A i \in 1..Len(t) : r.next[t[i]] = l.next[t[i]] /\ r.prev[t[i]] = l.prev[t[i]]
    BY <1>10, <2>1, <2>2
  <2>4. r.head[q] = l.head[q] /\ r.tail[q] = l.tail[q] /\ r.size[q] = l.size[q]
    BY <1>5, <1>6, <1>13
  <2>5. Chained(t, r.head[q], r.tail[q], r.next, r.prev) BY <2>1, <2>3, <2>4, ChainSame
  <2>6. \A m \in Node : r.owner[m] = q <=> l.owner[m] = q BY <1>2, <1>5, <1>6, <1>13
  <2>7. Members(t, q, r.owner) BY <2>1, <2>6 DEF Members
  <2>8. v[q] = t BY <1>9, <1>13 DEF t
  <2>. QED BY <2>1, <2>4, <2>5, <2>7, <2>8
<1>14. r.size[p] = Len(v[p]) BY <1>1, <1>5, <1>6, <1>8, <1>9
<1>15. Lists(r, v) BY <1>5, <1>9, <1>11, <1>12, <1>13, <1>14 DEF Lists
<1>. QED BY <1>5, <1>15 DEF Put, r, v

\* What taking the j-th node out of list p leaves, whichever way it is done.
Taken(l, w, p, j, r) ==
  LET s == w[p] IN
    /\ \A q \in List : q # p => /\ r.head[q] = l.head[q] /\ r.tail[q] = l.tail[q]
                                /\ r.size[q] = l.size[q]
    /\ r.size[p] = l.size[p] - 1
    /\ r.owner = [l.owner EXCEPT ![s[j]] = Null]
    /\ r.head[p] = IF j = 1 THEN l.next[s[j]] ELSE l.head[p]
    /\ r.tail[p] = IF j # Len(s) THEN l.tail[p] ELSE IF j = 1 THEN Null ELSE s[j - 1]
    /\ j # 1 => r.next[s[j - 1]] = l.next[s[j]]
    /\ j # 1 /\ j # Len(s) => r.prev[s[j + 1]] = s[j - 1]
    /\ \A m \in Node : m # s[j] /\ (j = 1 \/ m # s[j - 1]) => r.next[m] = l.next[m]
    /\ \A m \in Node : m # s[j] /\ (j = Len(s) \/ m # s[j + 1]) => r.prev[m] = l.prev[m]

\* The lists are then those without that node.
LEMMA RemoveLinks ==
  ASSUME NEW l, NEW w, Lists(l, w), NEW p \in List, NEW j \in 1..Len(w[p]), NEW r \in Mem,
         Taken(l, w, p, j, r)
  PROVE  Lists(r, [w EXCEPT ![p] = Without(@, j)])
<1>. DEFINE s == w[p]
            k == Len(s)
            n == s[j]
            v == [w EXCEPT ![p] = Without(@, j)]
<1>1. /\ l \in Mem /\ s \in Seq(Node) /\ k \in Nat
      /\ \A i \in 1..k : s[i] \in Node /\ l.owner[s[i]] = p
      /\ \A i, m \in 1..k : s[i] = s[m] => i = m
      /\ Chained(s, l.head[p], l.tail[p], l.next, l.prev)
      /\ Members(s, p, l.owner) /\ l.size[p] = k
  BY ListsFacts
<1>2. Null \notin List BY ListAssumption
<1>3. j \in 1..k /\ n \in Node BY <1>1
<1>4. l.owner \in [Node -> List \cup {Null}] BY <1>1, MemIs
<1>5. w \in [List -> Seq(Node)] BY DEF Lists
<1>6. Without(s, j) \in Seq(Node) /\ Len(Without(s, j)) = k - 1 BY <1>1, WithoutIs
<1>7. v \in [List -> Seq(Node)] /\ v[p] = Without(s, j) /\ \A q \in List : q # p => v[q] = w[q]
  BY <1>5, <1>6
<1>8. /\ r.size[p] = l.size[p] - 1
      /\ r.owner = [l.owner EXCEPT ![n] = Null]
      /\ r.head[p] = IF j = 1 THEN l.next[s[j]] ELSE l.head[p]
      /\ r.tail[p] = IF j # k THEN l.tail[p] ELSE IF j = 1 THEN Null ELSE s[j - 1]
      /\ j # 1 => r.next[s[j - 1]] = l.next[s[j]]
      /\ j # 1 /\ j # k => r.prev[s[j + 1]] = s[j - 1]
      /\ \A m \in Node : m # n /\ (j = 1 \/ m # s[j - 1]) => r.next[m] = l.next[m]
      /\ \A m \in Node : m # n /\ (j = k \/ m # s[j + 1]) => r.prev[m] = l.prev[m]
      /\ \A q \in List : q # p => /\ r.head[q] = l.head[q] /\ r.tail[q] = l.tail[q]
                                  /\ r.size[q] = l.size[q]
  BY DEF Taken
<1>. HIDE DEF s, k, v
<1>9. Chained(v[p], r.head[p], r.tail[p], r.next, r.prev)
  <2>1. \A i \in 1..k : i # j /\ i + 1 # j => r.next[s[i]] = l.next[s[i]]
    <3>. SUFFICES ASSUME NEW i \in 1..k, i # j, i + 1 # j PROVE r.next[s[i]] = l.next[s[i]] OBVIOUS
    <3>1. s[i] # n BY <1>1, <1>3
    <3>2. j # 1 => j - 1 \in 1..k /\ j - 1 # i BY <1>1, <1>3
    <3>3. j = 1 \/ s[i] # s[j - 1] BY <1>1, <3>2
    <3>. QED BY <1>1, <1>8, <3>1, <3>3
  <2>2. \A i \in 1..k : i # j /\ i # j + 1 => r.prev[s[i]] = l.prev[s[i]]
    <3>. SUFFICES ASSUME NEW i \in 1..k, i # j, i # j + 1 PROVE r.prev[s[i]] = l.prev[s[i]] OBVIOUS
    <3>1. s[i] # n BY <1>1, <1>3
    <3>2. j # k => j + 1 \in 1..k BY <1>1, <1>3
    <3>3. j = k \/ s[i] # s[j + 1] BY <1>1, <3>2
    <3>. QED BY <1>1, <1>8, <3>1, <3>3
  <2>. HIDE DEF n
  <2>3. Chained(Without(s, j), r.head[p], r.tail[p], r.next, r.prev)
    <3>1. j \in 1..Len(s) BY <1>3 DEF k
    <3>2. Cut(s, j, l.head[p], l.tail[p], l.next, l.prev,
              r.head[p], r.tail[p], r.next, r.prev)
      BY <1>1, <1>8, <2>1, <2>2 DEF k, Cut
    <3>3. s \in Seq(Node) BY <1>1
    <3>. QED BY ONLY <3>1, <3>2, <3>3, ChainWithout
  <2>. QED BY <1>7, <2>3
<1>10. Members(v[p], p, r.owner)
  <2>1. r.owner[n] # p /\ \A m \in Node : m # n => r.owner[m] = l.owner[m]
    BY <1>2, <1>3, <1>4, <1>8
  <2>2. Members(Without(s, j), p, r.owner)
    <3>1. Unowned(s, p, l.owner, j, r.owner) BY <1>1, <1>3, <2>1 DEF k, Unowned
    <3>. QED BY ONLY <3>1, MembersWithout
  <2>. QED BY <1>7, <2>2
<1>11. ASSUME NEW q \in List, q # p
       PROVE  /\ Chained(v[q], r.head[q], r.tail[q], r.next, r.prev)
              /\ Members(v[q], q, r.owner)
              /\ r.size[q] = Len(v[q])
  <2>. DEFINE t == w[q]
  <2>1. /\ t \in Seq(Node)
        /\ \A i \in 1..Len(t) : t[i] \in Node /\ l.owner[t[i]] = q
        /\ Chained(t, l.head[q], l.tail[q], l.next, l.prev)
        /\ Members(t, q, l.owner) /\ l.size[q] = Len(t)
    BY ListsFacts
  <2>. HIDE DEF t
  <2>2. \A i \in 1..Len(t), m \in 1..k : t[i] # s[m] BY <1>1, <1>11, <2>1
  <2>3. /\ j # 1 => j - 1 \in 1..k
        /\ j # k => j + 1 \in 1..k
    BY <1>1, <1>3
  <2>4. \A i \in 1..Len(t) : r.next[t[i]] = l.next[t[i]] /\ r.prev[t[i]] = l.prev[t[i]]
    <3>. SUFFICES ASSUME NEW i \in 1..Len(t)
                  PROVE  r.next[t[i]] = l.next[t[i]] /\ r.prev[t[i]] = l.prev[t[i]]
      OBVIOUS
    <3>1. t[i] \in Node /\ t[i] # n BY <1>3, <2>1, <2>2
    <3>2. j = 1 \/ t[i] # s[j - 1] BY <2>2, <2>3
    <3>3. j = k \/ t[i] # s[j + 1] BY <2>2, <2>3
    <3>. QED BY <1>8, <3>1, <3>2, <3>3
  <2>5. Chained(t, r.head[q], r.tail[q], r.next, r.prev) BY <1>8, <1>11, <2>1, <2>4, ChainSame
  <2>6. \A m \in Node : r.owner[m] = q <=> l.owner[m] = q BY <1>1, <1>2, <1>3, <1>4, <1>8, <1>11
  <2>7. Members(t, q, r.owner) BY <2>1, <2>6 DEF Members
  <2>8. v[q] = t BY <1>7, <1>11 DEF t
  <2>. QED BY <1>8, <1>11, <2>1, <2>5, <2>7, <2>8
<1>12. r.size[p] = Len(v[p]) BY <1>1, <1>6, <1>7, <1>8
<1>13. Lists(r, v) BY <1>7, <1>9, <1>10, <1>11, <1>12 DEF Lists
<1>. QED BY <1>13 DEF v

\* What the lists, the owners and the sums are after the j-th node has left list p.
Removed(l, w, p, j, r) ==
  /\ Lists(r, [w EXCEPT ![p] = Without(@, j)])
  /\ r.owner = [l.owner EXCEPT ![w[p][j]] = Null]
  /\ r.dsize = l.dsize
  /\ r.total = [l.total EXCEPT ![p] = Minus(@, l.dsize[w[p][j]])]

\* fcache_list_pop takes the first one.
LEMMA PopLinks ==
  ASSUME NEW l, NEW w, Lists(l, w), NEW p \in List, Len(w[p]) # 0
  PROVE  /\ 1 \in 1..Len(w[p]) /\ l.head[p] = w[p][1] /\ w[p][1] \in Node
         /\ Removed(l, w, p, 1, fcache_list_pop(l, p))
<1>. DEFINE s == w[p]
            k == Len(s)
            n == s[1]
            u == Top(l, p, n)
            r == Leave(u, p, n)
<1>1. /\ l \in Mem /\ s \in Seq(Node) /\ k \in Nat
      /\ \A i \in 1..k : s[i] \in Node /\ l.owner[s[i]] = p
      /\ \A i, m \in 1..k : s[i] = s[m] => i = m
      /\ Chained(s, l.head[p], l.tail[p], l.next, l.prev)
      /\ l.size[p] = k /\ l.head[p] = s[1] /\ l.tail[p] = s[k]
  BY ListsFacts
<1>2. 1 \in 1..k /\ n \in Node BY <1>1
<1>3. fcache_list_pop(l, p) = r BY <1>1 DEF fcache_list_pop, Top
<1>4. Topped(l, p, n, u) BY <1>1, <1>2, TopFields, Zenon
<1>. HIDE DEF u
<1>5. u \in Mem /\ u.size[p] # 0 BY <1>1, <1>4 DEF Topped
<1>6. Left(u, p, n, r) BY <1>2, <1>5, LeaveFields, Zenon
<1>. HIDE DEF r, n, k, s
<1>7. /\ l.head \in [List -> Link] /\ l.tail \in [List -> Link] /\ l.size \in [List -> Nat]
      /\ l.prev \in [Node -> Link] /\ l.next \in [Node -> Link] /\ r \in Mem
  BY <1>1, <1>6, MemIs DEF Left
<1>8. l.next[n] = IF k = 1 THEN Null ELSE s[2]
  <2>1. l.next[s[1]] = IF 1 = k THEN Null ELSE s[1 + 1] BY <1>1, <1>2 DEF Chained, k
  <2>. QED BY <2>1 DEF n
<1>9. k # 1 => s[2] # Null
  <2>1. k # 1 => 2 \in 1..k BY <1>1, <1>2
  <2>. QED BY <1>1, <2>1, ListAssumption
<1>10. Taken(l, w, p, 1, r)
  <2>1. /\ r.head = [l.head EXCEPT ![p] = l.next[n]]
        /\ r.tail = [l.tail EXCEPT ![p] = IF l.next[n] = Null THEN Null ELSE @]
        /\ r.size = [l.size EXCEPT ![p] = @ - 1]
        /\ r.next = [l.next EXCEPT ![n] = Null]
        /\ r.prev = [l.prev EXCEPT ![n] = Null]
        /\ r.owner = [l.owner EXCEPT ![n] = Null]
    BY <1>4, <1>6 DEF Topped, Left
  <2>2. \A q \in List : q # p => /\ r.head[q] = l.head[q] /\ r.tail[q] = l.tail[q]
                                 /\ r.size[q] = l.size[q]
    BY <1>7, <2>1
  <2>3. r.size[p] = l.size[p] - 1 /\ r.head[p] = l.next[n] BY <1>7, <2>1
  <2>4. r.tail[p] = IF 1 # k THEN l.tail[p] ELSE Null BY <1>7, <1>8, <1>9, <2>1
  <2>5. /\ \A m \in Node : m # n => r.next[m] = l.next[m]
        /\ \A m \in Node : m # n => r.prev[m] = l.prev[m]
    BY <1>7, <2>1
  <2>. QED BY <2>1, <2>2, <2>3, <2>4, <2>5 DEF Taken, s, k, n
<1>11. Lists(r, [w EXCEPT ![p] = Without(@, 1)]) BY <1>2, <1>7, <1>10, RemoveLinks DEF k, s
<1>12. r.owner = [l.owner EXCEPT ![n] = Null] /\ r.dsize = l.dsize
       /\ r.total = [l.total EXCEPT ![p] = Minus(@, l.dsize[n])]
  BY <1>4, <1>6 DEF Topped, Left
<1>. QED BY <1>1, <1>2, <1>3, <1>11, <1>12 DEF Removed, n, k, s

\* fcache_list_delete_node takes any.
LEMMA DeleteLinks ==
  ASSUME NEW l, NEW w, Lists(l, w), NEW p \in List, NEW j \in 1..Len(w[p])
  PROVE  Removed(l, w, p, j, fcache_list_delete_node(l, w[p][j]))
<1>. DEFINE s == w[p]
            k == Len(s)
            n == s[j]
            u == Unlink(l, p, n)
            r == Leave(u, p, n)
<1>1. /\ l \in Mem /\ s \in Seq(Node) /\ k \in Nat
      /\ \A i \in 1..k : s[i] \in Node /\ l.owner[s[i]] = p
      /\ \A i, m \in 1..k : s[i] = s[m] => i = m
      /\ Chained(s, l.head[p], l.tail[p], l.next, l.prev)
      /\ l.size[p] = k
      /\ k # 0 => l.head[p] = s[1] /\ l.tail[p] = s[k]
  BY ListsFacts
<1>2. j \in 1..k /\ k # 0 /\ n \in Node /\ l.owner[n] = p BY <1>1
<1>3. fcache_list_delete_node(l, n) = r BY <1>2, ListAssumption DEF fcache_list_delete_node
<1>4. /\ l.next[n] = IF j = k THEN Null ELSE s[j + 1]
      /\ j # 1 => l.prev[n] = s[j - 1]
  <2>1. j # 1 => j \in 2..k BY <1>1, <1>2
  <2>. QED BY <1>1, <1>2, <2>1 DEF Chained
<1>5. /\ n = l.head[p] <=> j = 1
      /\ n = l.tail[p] <=> j = k
  <2>1. 1 \in 1..k /\ k \in 1..k BY <1>1, <1>2
  <2>. QED BY <1>1, <1>2, <2>1
<1>6. /\ j # 1 => j - 1 \in 1..k /\ s[j - 1] \in Node /\ s[j - 1] # n
      /\ j # k => j + 1 \in 1..k /\ s[j + 1] \in Node /\ s[j + 1] # n
  <2>1. /\ j # 1 => j - 1 \in 1..k /\ j - 1 # j
        /\ j # k => j + 1 \in 1..k /\ j + 1 # j
    BY <1>1, <1>2
  <2>. QED BY <1>1, <1>2, <2>1
<1>7. Unlinked(l, p, n, u)
  <2>1. (n # l.head[p] => l.prev[n] \in Node) /\ (n # l.tail[p] => l.next[n] \in Node)
    BY <1>4, <1>5, <1>6
  <2>2. l \in Mem /\ p \in List /\ n \in Node BY <1>1, <1>2
  <2>. QED BY ONLY <2>1, <2>2, UnlinkFields, Zenon
<1>. HIDE DEF u
<1>8. u \in Mem /\ u.size[p] # 0 BY <1>1, <1>2, <1>7 DEF Unlinked
<1>9. Left(u, p, n, r) BY <1>2, <1>8, LeaveFields, Zenon
<1>. HIDE DEF r, n, k, s
<1>10. /\ l.head \in [List -> Link] /\ l.tail \in [List -> Link] /\ l.size \in [List -> Nat]
       /\ l.prev \in [Node -> Link] /\ l.next \in [Node -> Link] /\ r \in Mem
  BY <1>1, <1>9, MemIs DEF Left
<1>11. /\ r.size = [l.size EXCEPT ![p] = @ - 1]
       /\ r.owner = [l.owner EXCEPT ![n] = Null] /\ r.dsize = l.dsize
       /\ r.total = [l.total EXCEPT ![p] = Minus(@, l.dsize[n])]
       /\ r.head = u.head /\ r.tail = u.tail
       /\ r.next = [u.next EXCEPT ![n] = Null] /\ r.prev = [u.prev EXCEPT ![n] = Null]
  BY <1>7, <1>9 DEF Unlinked, Left
<1>12. /\ \A q \in List : q # p => r.head[q] = l.head[q] /\ r.tail[q] = l.tail[q]
       /\ r.head[p] = IF j = 1 THEN l.next[n] ELSE l.head[p]
       /\ r.tail[p] = IF j # k THEN l.tail[p] ELSE IF j = 1 THEN Null ELSE s[j - 1]
       /\ j # 1 => r.next[s[j - 1]] = l.next[n]
       /\ j # 1 /\ j # k => r.prev[s[j + 1]] = s[j - 1]
       /\ \A m \in Node : m # n /\ (j = 1 \/ m # s[j - 1]) => r.next[m] = l.next[m]
       /\ \A m \in Node : m # n /\ (j = k \/ m # s[j + 1]) => r.prev[m] = l.prev[m]
  <2>1. CASE j = 1 /\ j = k
    <3>1. /\ u.head = [l.head EXCEPT ![p] = Null] /\ u.tail = [l.tail EXCEPT ![p] = Null]
          /\ u.next = l.next /\ u.prev = l.prev
      BY <1>5, <1>7, <2>1 DEF Unlinked
    <3>. QED BY <1>2, <1>4, <1>10, <1>11, <2>1, <3>1
  <2>2. CASE j = 1 /\ j # k
    <3>1. /\ u.head = [l.head EXCEPT ![p] = l.next[n]] /\ u.tail = l.tail
          /\ u.next = l.next /\ u.prev = l.prev
      BY <1>5, <1>7, <2>2 DEF Unlinked
    <3>. QED BY <1>2, <1>10, <1>11, <2>2, <3>1
  <2>3. CASE j # 1 /\ j = k
    <3>1. /\ u.head = l.head /\ u.tail = [l.tail EXCEPT ![p] = s[j - 1]]
          /\ u.next = [l.next EXCEPT ![s[j - 1]] = Null] /\ u.prev = l.prev
      BY <1>4, <1>5, <1>7, <2>3 DEF Unlinked
    <3>. QED BY <1>2, <1>4, <1>6, <1>10, <1>11, <2>3, <3>1
  <2>4. CASE j # 1 /\ j # k
    <3>1. /\ u.head = l.head /\ u.tail = l.tail
          /\ u.next = [l.next EXCEPT ![s[j - 1]] = l.next[n]]
          /\ u.prev = [l.prev EXCEPT ![s[j + 1]] = s[j - 1]]
      BY <1>4, <1>5, <1>7, <2>4 DEF Unlinked
    <3>. QED BY <1>2, <1>6, <1>10, <1>11, <2>4, <3>1
  <2>. QED BY <2>1, <2>2, <2>3, <2>4
<1>13. /\ \A q \in List : q # p => r.size[q] = l.size[q]
       /\ r.size[p] = l.size[p] - 1
  BY <1>10, <1>11
<1>14. Taken(l, w, p, j, r) BY <1>11, <1>12, <1>13 DEF Taken, s, k, n
<1>15. Lists(r, [w EXCEPT ![p] = Without(@, j)]) BY <1>10, <1>14, RemoveLinks
<1>. QED BY <1>3, <1>11, <1>15 DEF Removed, n, s

-----------------------------------------------------------------------------
(* Sums over finite sets.                                                  *)

SumOf(f, S) == MapThenSumSet(LAMBDA k : f[k], S)

\* The recursion of MapThenSumSet, and a function that follows it.
OneOf(s) == CHOOSE x \in s : TRUE
SumRec(f, s, G) == IF s = {} THEN 0 ELSE f[OneOf(s)] + G[s \ {OneOf(s)}]
AddsUp(U, f, G) == \A s \in SUBSET U : \A y \in s : G[s] = f[y] + G[s \ {y}]
IsSum(U, f, G) == G \in [SUBSET U -> Nat] /\ \A s \in SUBSET U : G[s] = SumRec(f, s, G)

\* A nonempty set of finitely many elements has one more than without any of them.
LEMMA OneLess ==
  ASSUME NEW U, IsFiniteSet(U), NEW s \in SUBSET U, NEW x \in s
  PROVE  /\ s \ {x} \in SUBSET U /\ Cardinality(s) \in Nat /\ Cardinality(s \ {x}) \in Nat
         /\ Cardinality(s \ {x}) = Cardinality(s) - 1
<1>1. IsFiniteSet(s) BY FS_Subset
<1>2. IsFiniteSet(s \ {x}) /\ Cardinality(s \ {x}) = Cardinality(s) - 1
  BY <1>1, FS_RemoveElement
<1>. QED BY <1>1, <1>2, FS_CardinalityType

\* There is such a function.
LEMMA SumExists ==
  ASSUME NEW U, IsFiniteSet(U), NEW f \in [U -> Nat]
  PROVE  \E G : IsSum(U, f, G)
<1>. DEFINE Ok(k, G) == \A s \in SUBSET U : Cardinality(s) <= k => G[s] = SumRec(f, s, G)
            T == {k \in Nat : \E G \in [SUBSET U -> Nat] : Ok(k, G)}
<1>0. \A s \in SUBSET U : s # {} => OneOf(s) \in s /\ OneOf(s) \in U BY DEF OneOf
<1>1. 0 \in T
  <2>. DEFINE G == [s \in SUBSET U |-> 0]
  <2>1. G \in [SUBSET U -> Nat] OBVIOUS
  <2>2. ASSUME NEW s \in SUBSET U, Cardinality(s) <= 0 PROVE G[s] = SumRec(f, s, G)
    <3>1. IsFiniteSet(s) BY FS_Subset
    <3>2. Cardinality(s) = 0 BY <2>2, <3>1, FS_CardinalityType
    <3>3. s = {} BY <3>1, <3>2, FS_EmptySet
    <3>. QED BY <3>3 DEF SumRec
  <2>3. Ok(0, G) BY <2>2
  <2>. HIDE DEF G, Ok
  <2>. QED BY <2>1, <2>3
<1>2. ASSUME NEW k \in Nat, k \in T PROVE k + 1 \in T
  <2>1. PICK G \in [SUBSET U -> Nat] : Ok(k, G) BY <1>2
  <2>. DEFINE H == [s \in SUBSET U |-> SumRec(f, s, G)]
  <2>2. ASSUME NEW s \in SUBSET U PROVE SumRec(f, s, G) \in Nat
    <3>1. CASE s = {} BY <3>1 DEF SumRec
    <3>2. CASE s # {}
      <4>1. f[OneOf(s)] \in Nat /\ G[s \ {OneOf(s)}] \in Nat BY <1>0, <2>1, <3>2
      <4>. QED BY <3>2, <4>1 DEF SumRec
    <3>. QED BY <3>1, <3>2
  <2>3. H \in [SUBSET U -> Nat] BY <2>2
  <2>4. ASSUME NEW s \in SUBSET U, Cardinality(s) <= k + 1 PROVE H[s] = SumRec(f, s, H)
    <3>1. CASE s = {} BY <3>1 DEF SumRec
    <3>2. CASE s # {}
      <4>. DEFINE t == s \ {OneOf(s)}
      <4>1. t \in SUBSET U /\ Cardinality(t) <= k BY <1>0, <2>4, <3>2, OneLess
      <4>2. G[t] = SumRec(f, t, G) BY <2>1, <4>1
      <4>3. H[t] = G[t] BY <4>1, <4>2
      <4>. QED BY <3>2, <4>3 DEF SumRec
    <3>. QED BY <3>1, <3>2
  <2>5. Ok(k + 1, H) BY <2>4
  <2>. HIDE DEF H, Ok
  <2>. QED BY <2>3, <2>5
<1>3. Cardinality(U) \in Nat BY FS_CardinalityType
<1>. HIDE DEF T
<1>4. Cardinality(U) \in T BY <1>1, <1>2, <1>3, Climb
<1>5. PICK G \in [SUBSET U -> Nat] : Ok(Cardinality(U), G) BY <1>4 DEF T
<1>6. \A s \in SUBSET U : Cardinality(s) <= Cardinality(U) BY FS_Subset
<1>. QED BY <1>5, <1>6 DEF IsSum

\* It adds up the same whichever element is taken first.
LEMMA SumAnyOrder ==
  ASSUME NEW U, IsFiniteSet(U), NEW f \in [U -> Nat], NEW G, IsSum(U, f, G)
  PROVE  AddsUp(U, f, G)
<1>. USE DEF IsSum, AddsUp
<1>. DEFINE T == {k \in Nat : \A s \in SUBSET U : \A y \in s :
                                Cardinality(s) <= k => G[s] = f[y] + G[s \ {y}]}
<1>1. 0 \in T
  <2>. SUFFICES ASSUME NEW s \in SUBSET U, NEW y \in s, Cardinality(s) <= 0 PROVE FALSE
    OBVIOUS
  <2>1. /\ Cardinality(s) \in Nat /\ Cardinality(s \ {y}) \in Nat
        /\ Cardinality(s \ {y}) = Cardinality(s) - 1
    BY OneLess
  <2>. QED BY <2>1
<1>2. ASSUME NEW k \in Nat, k \in T PROVE k + 1 \in T
  <2>. SUFFICES ASSUME NEW s \in SUBSET U, NEW y \in s, Cardinality(s) <= k + 1
                PROVE  G[s] = f[y] + G[s \ {y}]
    OBVIOUS
  <2>. DEFINE x == OneOf(s)
  <2>1. x \in s /\ s # {} BY DEF OneOf
  <2>2. G[s] = f[x] + G[s \ {x}] BY <2>1 DEF SumRec
  <2>. HIDE DEF x
  <2>3. CASE x = y BY <2>2, <2>3
  <2>4. CASE x # y
    <3>. DEFINE t == s \ {x}
                u == s \ {y}
    <3>1. t \in SUBSET U /\ Cardinality(t) <= k /\ y \in t BY <2>1, <2>4, OneLess
    <3>2. u \in SUBSET U /\ Cardinality(u) <= k /\ x \in u BY <2>1, <2>4, OneLess
    <3>3. G[t] = f[y] + G[t \ {y}] BY <1>2, <3>1
    <3>4. G[u] = f[x] + G[u \ {x}] BY <1>2, <3>2
    <3>5. t \ {y} = u \ {x} OBVIOUS
    <3>6. f[x] \in Nat /\ f[y] \in Nat /\ G[t \ {y}] \in Nat BY <2>1, <3>1
    <3>. HIDE DEF t, u
    <3>7. G[s] = f[x] + G[t] BY <2>2 DEF t
    <3>8. G[s] = f[y] + G[u]
      <4>. DEFINE z == G[t \ {y}]
      <4>1. z \in Nat /\ G[t] = f[y] + z /\ G[u] = f[x] + z BY <3>3, <3>4, <3>5, <3>6
      <4>. HIDE DEF z
      <4>. QED BY <3>6, <3>7, <4>1
    <3>. QED BY <3>8 DEF u
  <2>. QED BY <2>3, <2>4
<1>3. Cardinality(U) \in Nat BY FS_CardinalityType
<1>. HIDE DEF T
<1>4. Cardinality(U) \in T BY <1>1, <1>2, <1>3, Climb
<1>5. \A s \in SUBSET U : Cardinality(s) <= Cardinality(U) BY FS_Subset
<1>. QED BY <1>4, <1>5 DEF T

\* MapThenSumSet is that sum.
LEMMA SumIs ==
  ASSUME NEW U, IsFiniteSet(U), NEW f \in [U -> Nat], NEW G, IsSum(U, f, G), NEW S \in SUBSET U
  PROVE  SumOf(f, S) = G[S]
<1>. USE DEF IsSum
<1>. DEFINE Eq(g) == g = [s \in SUBSET S |-> SumRec(f, s, g)]
            iter == CHOOSE g : Eq(g)
<1>1. SumOf(f, S) = iter[S] BY DEF SumOf, MapThenSumSet, MapThenFoldSet, SumRec, OneOf
<1>2. Eq(iter)
  <2>. DEFINE g == [s \in SUBSET S |-> G[s]]
  <2>1. ASSUME NEW s \in SUBSET S PROVE SumRec(f, s, g) = G[s]
    <3>1. s \in SUBSET U /\ s \ {OneOf(s)} \in SUBSET S OBVIOUS
    <3>2. g[s \ {OneOf(s)}] = G[s \ {OneOf(s)}] BY <3>1
    <3>. QED BY <3>1, <3>2 DEF SumRec
  <2>2. Eq(g) BY <2>1
  <2>. HIDE DEF g, Eq
  <2>. QED BY <2>2
<1>. HIDE DEF iter
<1>. DEFINE T == {k \in Nat : \A s \in SUBSET S : Cardinality(s) <= k => iter[s] = G[s]}
<1>3. ASSUME NEW s \in SUBSET S PROVE iter[s] = SumRec(f, s, iter)
  BY <1>2
<1>. HIDE DEF Eq
<1>4. 0 \in T
  <2>. SUFFICES ASSUME NEW s \in SUBSET S, Cardinality(s) <= 0 PROVE iter[s] = G[s] OBVIOUS
  <2>1. s \in SUBSET U OBVIOUS
  <2>2. s = {}
    <3>. SUFFICES ASSUME NEW x \in s PROVE FALSE OBVIOUS
    <3>1. /\ Cardinality(s) \in Nat /\ Cardinality(s \ {x}) \in Nat
          /\ Cardinality(s \ {x}) = Cardinality(s) - 1
      BY <2>1, OneLess
    <3>. QED BY <3>1
  <2>. QED BY <1>3, <2>1, <2>2 DEF SumRec
<1>5. ASSUME NEW k \in Nat, k \in T PROVE k + 1 \in T
  <2>. SUFFICES ASSUME NEW s \in SUBSET S, Cardinality(s) <= k + 1 PROVE iter[s] = G[s] OBVIOUS
  <2>1. s \in SUBSET U OBVIOUS
  <2>2. CASE s = {} BY <1>3, <2>1, <2>2 DEF SumRec
  <2>3. CASE s # {}
    <3>. DEFINE t == s \ {OneOf(s)}
    <3>1. OneOf(s) \in s BY <2>3 DEF OneOf
    <3>2. Cardinality(t) <= k /\ t \in SUBSET S BY <2>1, <3>1, OneLess
    <3>3. iter[t] = G[t] BY <1>5, <3>2
    <3>. QED BY <1>3, <2>1, <2>3, <3>3 DEF SumRec
  <2>. QED BY <2>2, <2>3
<1>6. IsFiniteSet(S) BY FS_Subset
<1>7. Cardinality(S) \in Nat BY <1>6, FS_CardinalityType
<1>. HIDE DEF T
<1>8. Cardinality(S) \in T BY <1>4, <1>5, <1>7, Climb
<1>. QED BY <1>1, <1>7, <1>8 DEF T

\* Sums of natural numbers: of nothing, with one element more, and of equal terms.
LEMMA Sums ==
  ASSUME NEW U, IsFiniteSet(U), NEW f \in [U -> Nat]
  PROVE  /\ SumOf(f, {}) = 0
         /\ \A S \in SUBSET U : SumOf(f, S) \in Nat
         /\ \A S \in SUBSET U : \A y \in S : SumOf(f, S) = f[y] + SumOf(f, S \ {y})
<1>1. PICK G : IsSum(U, f, G) BY SumExists
<1>2. \A S \in SUBSET U : SumOf(f, S) = G[S] BY <1>1, SumIs
<1>3. AddsUp(U, f, G) BY <1>1, SumAnyOrder
<1>4. {} \in SUBSET U /\ G[{}] = 0 BY <1>1 DEF SumRec, IsSum
<1>. QED BY <1>1, <1>2, <1>3, <1>4 DEF IsSum, AddsUp

\* The sum depends on the terms only.
LEMMA SumSame ==
  ASSUME NEW U, IsFiniteSet(U), NEW f \in [U -> Nat], NEW g \in [U -> Nat],
         NEW S \in SUBSET U, \A x \in S : f[x] = g[x]
  PROVE  SumOf(f, S) = SumOf(g, S)
<1>. DEFINE T == {k \in Nat : \A s \in SUBSET S : Cardinality(s) <= k => SumOf(f, s) = SumOf(g, s)}
<1>1. IsFiniteSet(S) /\ Cardinality(S) \in Nat BY FS_Subset, FS_CardinalityType
<1>2. SumOf(f, {}) = 0 /\ SumOf(g, {}) = 0 BY Sums
<1>3. 0 \in T
  <2>. SUFFICES ASSUME NEW s \in SUBSET S, Cardinality(s) <= 0
                PROVE  SumOf(f, s) = SumOf(g, s)
    OBVIOUS
  <2>1. IsFiniteSet(s) /\ Cardinality(s) \in Nat BY <1>1, FS_Subset, FS_CardinalityType
  <2>2. s = {} BY <2>1, FS_EmptySet
  <2>. QED BY <1>2, <2>2
<1>4. ASSUME NEW k \in Nat, k \in T PROVE k + 1 \in T
  <2>. SUFFICES ASSUME NEW s \in SUBSET S, Cardinality(s) <= k + 1
                PROVE  SumOf(f, s) = SumOf(g, s)
    OBVIOUS
  <2>1. CASE s = {} BY <1>2, <2>1
  <2>2. CASE s # {}
    <3>1. PICK y \in s : TRUE BY <2>2
    <3>2. Cardinality(s \ {y}) <= k /\ s \ {y} \in SUBSET S BY <1>1, OneLess
    <3>3. SumOf(f, s \ {y}) = SumOf(g, s \ {y}) BY <1>4, <3>2
    <3>4. s \in SUBSET U /\ f[y] = g[y] BY <3>1
    <3>5. SumOf(f, s) = f[y] + SumOf(f, s \ {y}) BY <3>4, Sums
    <3>6. SumOf(g, s) = g[y] + SumOf(g, s \ {y}) BY <3>4, Sums
    <3>. QED BY <3>3, <3>4, <3>5, <3>6
  <2>. QED BY <2>1, <2>2
<1>. HIDE DEF T
<1>5. Cardinality(S) \in T BY <1>1, <1>3, <1>4, Climb
<1>. QED BY <1>1, <1>5 DEF T

-----------------------------------------------------------------------------
(* Nodes that are made, updated and moved.                                 *)

\* fcache_list_make_node and fcache_list_destroy_node of a node that is in no list.
Cleared(l, w, n, r) ==
  /\ Lists(r, w) /\ r.owner = l.owner /\ r.total = l.total
  /\ r.dsize = [l.dsize EXCEPT ![n] = 0]

\* They clear it.
LEMMA MakeLinks ==
  ASSUME NEW l, NEW w, Lists(l, w), NEW n \in Node, l.owner[n] = Null
  PROVE  Cleared(l, w, n, fcache_list_make_node(l, n))
<1>. DEFINE r == fcache_list_make_node(l, n)
<1>1. l \in Mem /\ w \in [List -> Seq(Node)] BY DEF Lists
<1>2. Made(l, n, r) BY <1>1, MakeFields, Zenon
<1>. HIDE DEF r
<1>3. /\ r \in Mem /\ r.head = l.head /\ r.tail = l.tail /\ r.size = l.size /\ r.total = l.total
      /\ r.prev = [l.prev EXCEPT ![n] = Null] /\ r.next = [l.next EXCEPT ![n] = Null]
      /\ r.owner = [l.owner EXCEPT ![n] = Null] /\ r.dsize = [l.dsize EXCEPT ![n] = 0]
  BY <1>2 DEF Made
<1>4. /\ l.prev \in [Node -> Link] /\ l.next \in [Node -> Link]
      /\ l.owner \in [Node -> List \cup {Null}]
  BY <1>1, MemIs
<1>5. r.owner = l.owner BY <1>3, <1>4
<1>6. ASSUME NEW p \in List
      PROVE  Chained(w[p], r.head[p], r.tail[p], r.next, r.prev)
  <2>. DEFINE s == w[p]
  <2>1. /\ s \in Seq(Node)
        /\ \A i \in 1..Len(s) : s[i] \in Node /\ l.owner[s[i]] = p
        /\ Chained(s, l.head[p], l.tail[p], l.next, l.prev)
    BY ListsFacts
  <2>. HIDE DEF s
  <2>2. \A i \in 1..Len(s) : s[i] # n BY <2>1, ListAssumption
  <2>3. \A i \in 1..Len(s) : r.next[s[i]] = l.next[s[i]] /\ r.prev[s[i]] = l.prev[s[i]]
    BY <1>3, <1>4, <2>1, <2>2
  <2>4. Chained(s, l.head[p], l.tail[p], r.next, r.prev) BY <2>1, <2>3, ChainSame
  <2>. QED BY <1>3, <2>4 DEF s
<1>7. Lists(r, w) BY <1>1, <1>3, <1>5, <1>6 DEF Lists
<1>. QED BY <1>3, <1>5, <1>7 DEF Cleared, r

\* size_t: what is taken away and added again.
LEMMA MinusPlus ==
  ASSUME NEW t \in SizeT, NEW d \in SizeT
  PROVE  Plus(Minus(t, d), d) = t
<1>1. SizeMod \in Nat \ {0} BY ListAssumption
<1>2. CASE d <= t BY <1>1, <1>2 DEF Plus, Minus, SizeT
<1>3. CASE d > t
  <2>1. Minus(t, d) = (t + SizeMod) - d BY <1>1, <1>3 DEF Minus, SizeT
  <2>2. Plus((t + SizeMod) - d, d) = (t + SizeMod) % SizeMod BY <1>1 DEF Plus, SizeT
  <2>3. (t + SizeMod) % SizeMod = t BY <1>1 DEF SizeT
  <2>. QED BY <2>1, <2>2, <2>3
<1>. QED BY <1>2, <1>3 DEF SizeT

\* fcache_list_update_node keeps the lists, and the sum when the size is the same.
Resized(l, w, n, d, r) ==
  /\ Lists(r, w) /\ r.owner = l.owner /\ r.dsize = l.dsize
  /\ d = l.dsize[n] => r.total = l.total

\* So it does.
LEMMA UpdateLinks ==
  ASSUME NEW l, NEW w, Lists(l, w), NEW n \in Node, l.owner[n] \in List, NEW d \in SizeT
  PROVE  Resized(l, w, n, d, fcache_list_update_node(l, n, d))
<1>. DEFINE r == fcache_list_update_node(l, n, d)
<1>1. l \in Mem /\ w \in [List -> Seq(Node)] BY DEF Lists
<1>2. Updated(l, n, d, r) BY <1>1, UpdateFields, Zenon
<1>. HIDE DEF r
<1>3. /\ r \in Mem /\ r.head = l.head /\ r.tail = l.tail /\ r.size = l.size /\ r.prev = l.prev
      /\ r.next = l.next /\ r.owner = l.owner /\ r.dsize = l.dsize
      /\ r.total = [l.total EXCEPT ![l.owner[n]] = Plus(Minus(@, l.dsize[n]), d)]
  BY <1>2 DEF Updated
<1>4. l.total \in [List -> SizeT] /\ l.dsize \in [Node -> SizeT] BY <1>1, MemIs
<1>5. ASSUME d = l.dsize[n] PROVE r.total = l.total
  <2>1. Plus(Minus(l.total[l.owner[n]], l.dsize[n]), d) = l.total[l.owner[n]]
    BY <1>4, <1>5, MinusPlus
  <2>. QED BY <1>3, <1>4, <2>1
<1>6. Lists(r, w) BY <1>1, <1>3 DEF Lists
<1>. QED BY <1>3, <1>5, <1>6 DEF Resized, r

\* The j-th node of list p at the end of list q.
Move(w, p, j, q) ==
  LET v == [w EXCEPT ![p] = Without(@, j)] IN [v EXCEPT ![q] = Append(@, w[p][j])]

Moved(l, w, p, j, q, r) ==
  LET n == w[p][j]
      t == [l.total EXCEPT ![p] = Minus(@, l.dsize[n])]
  IN  /\ Lists(r, Move(w, p, j, q))
      /\ r.owner = [l.owner EXCEPT ![n] = q]
      /\ r.dsize = l.dsize
      /\ r.total = [t EXCEPT ![q] = Plus(@, l.dsize[n])]

\* A node that has been taken out is pushed.
LEMMA RemovePush ==
  ASSUME NEW l, NEW w, Lists(l, w), NEW p \in List, NEW j \in 1..Len(w[p]), NEW q \in List,
         NEW u, Removed(l, w, p, j, u)
  PROVE  Moved(l, w, p, j, q, fcache_list_push(u, q, w[p][j], l.dsize[w[p][j]]))
<1>. DEFINE n == w[p][j]
            d == l.dsize[n]
            v == [w EXCEPT ![p] = Without(@, j)]
            r == fcache_list_push(u, q, n, d)
<1>1. /\ Lists(u, v) /\ u.owner = [l.owner EXCEPT ![n] = Null] /\ u.dsize = l.dsize
      /\ u.total = [l.total EXCEPT ![p] = Minus(@, d)]
  BY DEF Removed
<1>2. l \in Mem /\ n \in Node BY ListsFacts
<1>3. /\ l.owner \in [Node -> List \cup {Null}] /\ l.dsize \in [Node -> SizeT]
      /\ l.total \in [List -> SizeT]
  BY <1>2, MemIs
<1>4. u.owner[n] = Null /\ d \in SizeT BY <1>1, <1>2, <1>3
<1>. HIDE DEF v, n, d
<1>5. /\ Lists(r, [v EXCEPT ![q] = Append(@, n)])
      /\ r.owner = [u.owner EXCEPT ![n] = q]
      /\ r.dsize = [u.dsize EXCEPT ![n] = d]
      /\ r.total = [u.total EXCEPT ![q] = Plus(@, d)]
  <2>1. Put(u, v, q, n, d, r) BY <1>1, <1>2, <1>4, PushLinks, Zenon
  <2>. QED BY <2>1 DEF Put
<1>. HIDE DEF r
<1>6. r.owner = [l.owner EXCEPT ![n] = q] BY <1>1, <1>2, <1>3, <1>5
<1>7. r.dsize = l.dsize BY <1>1, <1>2, <1>3, <1>5 DEF d
<1>8. Lists(r, Move(w, p, j, q)) BY <1>5 DEF Move, v, n
<1>9. Moved(l, w, p, j, q, r) BY <1>1, <1>5, <1>6, <1>7, <1>8 DEF Moved, n, d
<1>. QED BY <1>9 DEF r, n, d

\* fcache_list_move_node, which leaves the only node of a list where it is.
LEMMA MoveLinks ==
  ASSUME NEW l, NEW w, Lists(l, w), NEW p \in List, NEW j \in 1..Len(w[p]), NEW q \in List
  PROVE  Moved(l, w, p, j, q, fcache_list_move_node(l, w[p][j], q))
<1>. DEFINE n == w[p][j]
            d == l.dsize[n]
            u == fcache_list_delete_node(l, n)
<1>1. /\ l \in Mem /\ w[p] \in Seq(Node) /\ Len(w[p]) \in Nat
      /\ n \in Node /\ l.owner[n] = p /\ l.size[p] = Len(w[p])
  BY ListsFacts
<1>2. CASE ~(p = q /\ Len(w[p]) = 1)
  <2>1. Removed(l, w, p, j, u) BY DeleteLinks
  <2>2. fcache_list_move_node(l, n, q) = fcache_list_push(u, q, n, d)
    BY <1>1, <1>2 DEF fcache_list_move_node
  <2>. HIDE DEF u
  <2>3. Moved(l, w, p, j, q, fcache_list_push(u, q, n, d)) BY <2>1, RemovePush
  <2>. QED BY <2>2, <2>3
<1>3. CASE p = q /\ Len(w[p]) = 1
  <2>1. fcache_list_move_node(l, n, q) = l BY <1>1, <1>3 DEF fcache_list_move_node
  <2>2. j = 1 BY <1>3
  <2>3. /\ l.owner \in [Node -> List \cup {Null}] /\ l.dsize \in [Node -> SizeT]
        /\ l.total \in [List -> SizeT] /\ w \in [List -> Seq(Node)]
    BY <1>1, MemIs DEF Lists
  <2>4. Append(Without(w[p], j), n) = w[p]
    <3>. DEFINE s == w[p]
                v == Without(s, j)
                x == Append(v, n)
    <3>1. v \in Seq(Node) /\ Len(v) = 0 BY <1>1, <1>3, WithoutIs
    <3>2. x \in Seq(Node) /\ Len(x) = 1 /\ x[1] = n BY <1>1, <3>1, AppendIs
    <3>3. s \in Seq(Node) /\ Len(s) = 1 /\ s[1] = n BY <1>1, <1>3, <2>2
    <3>. HIDE DEF s, v, x
    <3>4. \A i \in 1..Len(x) : x[i] = s[i] BY <3>2, <3>3
    <3>5. x = s BY <3>2, <3>3, <3>4, SeqEqual
    <3>. QED BY <3>5 DEF x, v, s
  <2>5. Move(w, p, j, q) = w
    <3>1. [w EXCEPT ![p] = Without(@, j)][q] = Without(w[p], j) BY <1>3, <2>3
    <3>. QED BY <1>3, <2>3, <2>4, <3>1 DEF Move
  <2>6. l.owner = [l.owner EXCEPT ![n] = q] BY <1>1, <1>3, <2>3
  <2>7. l.total = [[l.total EXCEPT ![p] = Minus(@, d)] EXCEPT ![q] = Plus(@, d)]
    <3>1. Plus(Minus(l.total[p], d), d) = l.total[p] BY <1>1, <2>3, MinusPlus
    <3>. QED BY <1>3, <2>3, <3>1
  <2>8. Moved(l, w, p, j, q, l) BY <2>5, <2>6, <2>7 DEF Moved
  <2>. QED BY <2>1, <2>8
<1>. QED BY <1>2, <1>3

\* A step of the balance: the first node of the active list becomes the last of the
\* inactive one.
LEMMA MoveOldestLinks ==
  ASSUME NEW l, NEW w, Lists(l, w), Active \in List, Inactive \in List
  PROVE  /\ Len(w[Active]) = 0 => MoveOldest(l) = l
         /\ Len(w[Active]) # 0 => /\ 1 \in 1..Len(w[Active])
                                  /\ Moved(l, w, Active, 1, Inactive, MoveOldest(l))
<1>1. fcache_list_empty(l, Active) <=> Len(w[Active]) = 0 BY ListsFacts
<1>2. CASE Len(w[Active]) = 0 BY <1>1, <1>2 DEF MoveOldest
<1>3. CASE Len(w[Active]) # 0
  <2>. DEFINE u == fcache_list_pop(l, Active)
              n == w[Active][1]
  <2>1. 1 \in 1..Len(w[Active]) /\ l.head[Active] = n /\ Removed(l, w, Active, 1, u)
    BY <1>3, PopLinks
  <2>. HIDE DEF u
  <2>2. Moved(l, w, Active, 1, Inactive, fcache_list_push(u, Inactive, n, l.dsize[n]))
    BY <2>1, RemovePush
  <2>3. MoveOldest(l) = fcache_list_push(u, Inactive, n, l.dsize[n])
    BY <1>1, <1>3, <2>1 DEF MoveOldest, u
  <2>. QED BY <1>3, <2>1, <2>2, <2>3
<1>. QED BY <1>2, <1>3

-----------------------------------------------------------------------------
(* The sums of the lists.                                                  *)

Own(l, p) == {k \in Node : l.owner[k] = p}

\* The sum a list keeps is that of its nodes.
Fits(l) == \A p \in List : l.total[p] = SumOf(l.dsize, Own(l, p))

\* Both sums together.
Both(l) == l.total[Active] + l.total[Inactive]

\* The constants, as the lemmas use them.
LEMMA Consts ==
  /\ List = {Active, Inactive} /\ Active \in List /\ Inactive \in List /\ Active # Inactive
  /\ \A p \in List : p = Active \/ p = Inactive
  /\ Null \notin List /\ Null \notin Node /\ IsFiniteSet(Node)
  /\ SizeMod \in Nat /\ max_size \in Nat /\ max_size < SizeMod /\ max_size \in SizeT
  /\ 0 \in SizeT /\ SizeT \subseteq Nat
BY ListAssumption, FcacheAssumption DEF Active, Inactive, SizeT

\* The sizes of the nodes can be added up.
LEMMA OwnSums ==
  ASSUME NEW l \in Mem
  PROVE  /\ l.dsize \in [Node -> Nat] /\ l.dsize \in [Node -> SizeT]
         /\ l.total \in [List -> SizeT] /\ l.owner \in [Node -> List \cup {Null}]
         /\ \A p \in List : l.total[p] \in Nat /\ l.total[p] < SizeMod
         /\ \A p : Own(l, p) \in SUBSET Node /\ SumOf(l.dsize, Own(l, p)) \in Nat
         /\ \A p : \A y \in Own(l, p) :
              SumOf(l.dsize, Own(l, p)) = l.dsize[y] + SumOf(l.dsize, Own(l, p) \ {y})
         /\ \A S \in SUBSET Node : SumOf(l.dsize, S) \in Nat
<1>1. l.dsize \in [Node -> SizeT] /\ l.total \in [List -> SizeT]
      /\ l.owner \in [Node -> List \cup {Null}]
  BY MemIs
<1>2. l.dsize \in [Node -> Nat] BY <1>1, Consts
<1>3. \A p : Own(l, p) \in SUBSET Node BY DEF Own
<1>4. /\ \A S \in SUBSET Node : SumOf(l.dsize, S) \in Nat
      /\ \A S \in SUBSET Node : \A y \in S : SumOf(l.dsize, S) = l.dsize[y] + SumOf(l.dsize, S \ {y})
  BY <1>2, Consts, Sums
<1>5. \A p \in List : l.total[p] \in Nat /\ l.total[p] < SizeMod BY <1>1, Consts DEF SizeT
<1>. QED BY <1>1, <1>2, <1>3, <1>4, <1>5

\* One node of a list, and the others.
LEMMA OwnSum ==
  ASSUME NEW l \in Mem, NEW p, NEW y \in Own(l, p)
  PROVE  /\ SumOf(l.dsize, Own(l, p)) = l.dsize[y] + SumOf(l.dsize, Own(l, p) \ {y})
         /\ SumOf(l.dsize, Own(l, p) \ {y}) \in Nat
<1>1. Own(l, p) \ {y} \in SUBSET Node BY DEF Own
<1>. QED BY <1>1, OwnSums

\* The sums after a node has left.
LEMMA RemovedFits ==
  ASSUME NEW l, NEW w, Lists(l, w), NEW p \in List, NEW j \in 1..Len(w[p]),
         NEW u, Removed(l, w, p, j, u), Fits(l)
  PROVE  /\ Fits(u) /\ l.dsize[w[p][j]] \in Nat /\ l.dsize[w[p][j]] <= l.total[p]
         /\ u.total = [l.total EXCEPT ![p] = @ - l.dsize[w[p][j]]]
         /\ Both(u) = Both(l) - l.dsize[w[p][j]]
<1>. DEFINE n == w[p][j]
            d == l.dsize[n]
<1>1. l \in Mem /\ n \in Node /\ l.owner[n] = p BY ListsFacts
<1>2. /\ u.owner = [l.owner EXCEPT ![n] = Null] /\ u.dsize = l.dsize
      /\ u.total = [l.total EXCEPT ![p] = Minus(@, d)]
  BY DEF Removed
<1>. HIDE DEF n
<1>3. /\ l.dsize \in [Node -> Nat] /\ l.dsize \in [Node -> SizeT]
      /\ l.total \in [List -> SizeT] /\ l.owner \in [Node -> List \cup {Null}]
      /\ \A q \in List : l.total[q] \in Nat
  BY <1>1, OwnSums
<1>4. n \in Own(l, p) BY <1>1 DEF Own
<1>5. /\ SumOf(l.dsize, Own(l, p)) = d + SumOf(l.dsize, Own(l, p) \ {n})
      /\ SumOf(l.dsize, Own(l, p) \ {n}) \in Nat
  BY <1>1, <1>4, OwnSum, Zenon
<1>6. d \in Nat /\ d <= l.total[p] /\ l.total[p] - d = SumOf(l.dsize, Own(l, p) \ {n})
  BY <1>1, <1>3, <1>5 DEF Fits
<1>7. Minus(l.total[p], d) = l.total[p] - d BY <1>1, <1>3, <1>6, PlusMinus
<1>8. u.total = [l.total EXCEPT ![p] = @ - d] BY <1>2, <1>7
<1>9. Own(u, p) = Own(l, p) \ {n} BY <1>1, <1>2, <1>3, Consts DEF Own
<1>10. \A q \in List : q # p => Own(u, q) = Own(l, q) BY <1>1, <1>2, <1>3, Consts DEF Own
<1>11. Fits(u)
  <2>1. u.total[p] = SumOf(u.dsize, Own(u, p)) BY <1>2, <1>3, <1>6, <1>8, <1>9
  <2>2. \A q \in List : q # p => u.total[q] = l.total[q] BY <1>3, <1>8
  <2>. QED BY <1>2, <1>10, <2>1, <2>2 DEF Fits
<1>12. Both(u) = Both(l) - d
  <2>1. u.total[p] = l.total[p] - d /\ \A q \in List : q # p => u.total[q] = l.total[q]
    BY <1>3, <1>8
  <2>2. CASE p = Active BY <1>3, <1>6, <2>1, <2>2, Consts DEF Both
  <2>3. CASE p = Inactive BY <1>3, <1>6, <2>1, <2>3, Consts DEF Both
  <2>. QED BY <2>2, <2>3, Consts
<1>. QED BY <1>6, <1>8, <1>11, <1>12 DEF n

\* The sums after a node of size d has come.
LEMMA PutFits ==
  ASSUME NEW l, NEW w, Lists(l, w), NEW p \in List, NEW n \in Node, l.owner[n] = Null,
         NEW d \in SizeT, NEW r, Put(l, w, p, n, d, r), Fits(l), l.total[p] + d < SizeMod
  PROVE  Fits(r) /\ Both(r) = Both(l) + d
<1>1. l \in Mem BY DEF Lists
<1>2. /\ r \in Mem /\ r.owner = [l.owner EXCEPT ![n] = p] /\ r.dsize = [l.dsize EXCEPT ![n] = d]
      /\ r.total = [l.total EXCEPT ![p] = Plus(@, d)]
  BY DEF Put, Lists
<1>3. /\ l.dsize \in [Node -> Nat] /\ l.total \in [List -> SizeT]
      /\ l.owner \in [Node -> List \cup {Null}]
      /\ \A q \in List : l.total[q] \in Nat
  BY <1>1, OwnSums
<1>4. d \in Nat /\ Plus(l.total[p], d) = l.total[p] + d BY <1>3, PlusMinus, Consts
<1>5. r.total[p] = l.total[p] + d /\ \A q \in List : q # p => r.total[q] = l.total[q]
  BY <1>2, <1>3, <1>4
<1>6. r.dsize \in [Node -> Nat] /\ \A k \in Node : k # n => r.dsize[k] = l.dsize[k]
  BY <1>2, <1>3, <1>4
<1>7. \A q \in List : Own(l, q) \in SUBSET Node /\ n \notin Own(l, q) BY Consts DEF Own
<1>8. \A q \in List : SumOf(r.dsize, Own(l, q)) = SumOf(l.dsize, Own(l, q))
  <2>. SUFFICES ASSUME NEW q \in List
                PROVE  SumOf(r.dsize, Own(l, q)) = SumOf(l.dsize, Own(l, q))
    OBVIOUS
  <2>1. \A k \in Own(l, q) : r.dsize[k] = l.dsize[k] BY <1>6, <1>7
  <2>2. IsFiniteSet(Node) /\ Own(l, q) \in SUBSET Node BY <1>7, Consts
  <2>. QED BY <1>3, <1>6, <2>1, <2>2, SumSame
<1>9. Own(r, p) \ {n} = Own(l, p) /\ n \in Own(r, p) BY <1>1, <1>2, <1>3, <1>7 DEF Own
<1>10. \A q \in List : q # p => Own(r, q) = Own(l, q) BY <1>2, <1>3, Consts DEF Own
<1>11. SumOf(r.dsize, Own(r, p)) = d + SumOf(l.dsize, Own(l, p))
  <2>1. r.dsize[n] = d BY <1>2, <1>3
  <2>2. SumOf(r.dsize, Own(r, p)) = r.dsize[n] + SumOf(r.dsize, Own(r, p) \ {n})
    BY <1>2, <1>9, OwnSum, ZenonT(40)
  <2>. QED BY <1>8, <1>9, <2>1, <2>2
<1>12. Fits(r)
  <2>1. r.total[p] = SumOf(r.dsize, Own(r, p)) BY <1>3, <1>4, <1>5, <1>11 DEF Fits
  <2>. QED BY <1>5, <1>8, <1>10, <2>1 DEF Fits
<1>13. Both(r) = Both(l) + d
  <2>1. CASE p = Active BY <1>3, <1>4, <1>5, <2>1, Consts DEF Both
  <2>2. CASE p = Inactive BY <1>3, <1>4, <1>5, <2>2, Consts DEF Both
  <2>. QED BY <2>1, <2>2, Consts
<1>. QED BY <1>12, <1>13

\* The sums after a node has been moved.
LEMMA MovedFits ==
  ASSUME NEW l, NEW w, Lists(l, w), NEW p \in List, NEW j \in 1..Len(w[p]), NEW q \in List,
         NEW r, Moved(l, w, p, j, q, r), Fits(l), Both(l) <= max_size
  PROVE  Fits(r) /\ Both(r) = Both(l)
<1>. DEFINE n == w[p][j]
            d == l.dsize[n]
<1>1. l \in Mem /\ n \in Node /\ l.owner[n] = p BY ListsFacts
<1>2. /\ r \in Mem /\ r.owner = [l.owner EXCEPT ![n] = q] /\ r.dsize = l.dsize
      /\ r.total = [[l.total EXCEPT ![p] = Minus(@, d)] EXCEPT ![q] = Plus(@, d)]
  BY DEF Moved, Lists
<1>. HIDE DEF n
<1>3. /\ l.dsize \in [Node -> Nat] /\ l.dsize \in [Node -> SizeT]
      /\ l.total \in [List -> SizeT] /\ l.owner \in [Node -> List \cup {Null}]
      /\ \A x \in List : l.total[x] \in Nat
  BY <1>1, OwnSums
<1>4. d \in SizeT /\ d \in Nat BY <1>1, <1>3
<1>. HIDE DEF d
<1>5. CASE p = q
  <2>1. Plus(Minus(l.total[p], d), d) = l.total[p] BY <1>3, <1>4, MinusPlus
  <2>2. r.total = l.total BY <1>2, <1>3, <1>5, <2>1, SMTT(30)
  <2>3. r.owner = l.owner BY <1>1, <1>2, <1>3, <1>5, SMTT(30)
  <2>. QED BY <1>2, <2>2, <2>3 DEF Fits, Both, Own
<1>6. CASE p # q
  <2>1. n \in Own(l, p) /\ n \notin Own(l, q) BY <1>1, <1>6 DEF Own
  <2>2. /\ l.total[p] = d + SumOf(l.dsize, Own(l, p) \ {n})
        /\ SumOf(l.dsize, Own(l, p) \ {n}) \in Nat
    <3>1. /\ SumOf(l.dsize, Own(l, p)) = l.dsize[n] + SumOf(l.dsize, Own(l, p) \ {n})
          /\ SumOf(l.dsize, Own(l, p) \ {n}) \in Nat
      BY <1>1, <2>1, OwnSum, Zenon
    <3>. QED BY <3>1 DEF Fits, d
  <2>3. Both(l) = l.total[p] + l.total[q]
    <3>1. CASE p = Active BY <1>3, <1>6, <3>1, Consts DEF Both
    <3>2. CASE p = Inactive BY <1>3, <1>6, <3>2, Consts DEF Both
    <3>. QED BY <3>1, <3>2, Consts
  <2>4. Minus(l.total[p], d) = l.total[p] - d /\ Plus(l.total[q], d) = l.total[q] + d
    <3>0. d <= l.total[p] BY <1>4, <2>2
    <3>1. d <= l.total[p] /\ l.total[q] + d < SizeMod BY <1>3, <1>4, <2>3, <3>0, Consts, SMTT(30)
    <3>. QED BY <1>3, <1>4, <3>1, PlusMinus
  <2>5. r.total[p] = l.total[p] - d /\ r.total[q] = l.total[q] + d BY <1>2, <1>3, <1>6, <2>4
  <2>6. Own(r, p) = Own(l, p) \ {n} /\ Own(r, q) \ {n} = Own(l, q) /\ n \in Own(r, q)
    BY <1>1, <1>2, <1>3, <1>6, <2>1 DEF Own
  <2>7. SumOf(r.dsize, Own(r, q)) = d + SumOf(l.dsize, Own(l, q))
    <3>1. SumOf(r.dsize, Own(r, q)) = r.dsize[n] + SumOf(r.dsize, Own(r, q) \ {n})
      BY <1>2, <2>6, OwnSum, Zenon
    <3>. QED BY <1>2, <2>6, <3>1 DEF d
  <2>8. r.total[p] = SumOf(r.dsize, Own(r, p)) BY <1>2, <1>3, <1>4, <2>2, <2>5, <2>6
  <2>9. r.total[q] = SumOf(r.dsize, Own(r, q)) BY <1>3, <1>4, <2>5, <2>7 DEF Fits
  <2>10. \A x \in List : x = p \/ x = q BY <1>6, Consts
  <2>11. Fits(r) BY <2>8, <2>9, <2>10 DEF Fits
  <2>12. Both(r) = r.total[p] + r.total[q]
    <3>1. r.total[p] \in Nat /\ r.total[q] \in Nat BY <1>2, OwnSums
    <3>2. CASE p = Active BY <1>6, <3>1, <3>2, Consts DEF Both
    <3>3. CASE p = Inactive BY <1>6, <3>1, <3>3, Consts DEF Both
    <3>. QED BY <3>2, <3>3, Consts
  <2>13. Both(r) = Both(l) BY <1>3, <1>4, <2>3, <2>5, <2>12
  <2>. QED BY <2>11, <2>13
<1>. QED BY <1>5, <1>6

-----------------------------------------------------------------------------
(* The balance.                                                            *)

\* All nodes, the oldest first.
Cat(w) == w[Inactive] \o w[Active]

Listed(l) == {k \in Node : l.owner[k] # Null}

\* The balance keeps the order of all the nodes, and what both lists hold together.
Balanced(l, w, r, v) ==
  /\ Lists(r, v) /\ Cat(v) = Cat(w) /\ Listed(r) = Listed(l) /\ r.dsize = l.dsize
  /\ Fits(l) /\ Both(l) <= max_size => Fits(r) /\ Both(r) = Both(l)

\* The elements of y, the concatenation of s and t.
Joined(X, s, t, y) ==
  /\ y \in Seq(X) /\ Len(s) \in Nat /\ Len(t) \in Nat /\ Len(y) = Len(s) + Len(t)
  /\ \A i \in 1..Len(s) : y[i] = s[i]
  /\ \A i \in 1..Len(t) : y[Len(s) + i] = t[i]

\* So it is.
LEMMA CatIs ==
  ASSUME NEW X, NEW s \in Seq(X), NEW t \in Seq(X)
  PROVE  Joined(X, s, t, s \o t)
<1>1. Len(s) \in Nat /\ Len(t) \in Nat BY LenProperties
<1>2. s \o t \in Seq(X) /\ Len(s \o t) = Len(s) + Len(t) BY ConcatProperties
<1>3. \A i \in 1..(Len(s) + Len(t)) : (s \o t)[i] = IF i <= Len(s) THEN s[i] ELSE t[i - Len(s)]
  BY ConcatProperties
<1>4. \A i \in 1..Len(s) : (s \o t)[i] = s[i] BY <1>1, <1>3
<1>5. ASSUME NEW i \in 1..Len(t) PROVE (s \o t)[Len(s) + i] = t[i]
  <2>1. Len(s) + i \in 1..(Len(s) + Len(t)) /\ ~(Len(s) + i <= Len(s))
        /\ (Len(s) + i) - Len(s) = i
    BY <1>1
  <2>. QED BY <1>3, <2>1
<1>. QED BY <1>1, <1>2, <1>4, <1>5 DEF Joined

\* The first element of t goes to the end of s.
LEMMA CatShift ==
  ASSUME NEW X, NEW s \in Seq(X), NEW t \in Seq(X), 1 \in 1..Len(t)
  PROVE  Append(s, t[1]) \o Without(t, 1) = s \o t
<1>. DEFINE a == Append(s, t[1])
            b == Without(t, 1)
            m == Len(s)
            k == Len(t)
            y == a \o b
            z == s \o t
<1>1. t[1] \in X /\ m \in Nat /\ k \in Nat /\ k >= 1 BY LenProperties
<1>2. a \in Seq(X) /\ Len(a) = m + 1 /\ a[m + 1] = t[1] /\ \A i \in 1..m : a[i] = s[i]
  BY <1>1, AppendIs
<1>3. b \in Seq(X) /\ Len(b) = k - 1 /\ \A i \in 1..(k - 1) : b[i] = t[i + 1]
  <2>1. \A i \in 1..(k - 1) : i >= 1 BY <1>1
  <2>. QED BY <2>1, WithoutIs
<1>. HIDE DEF a, b
<1>4. /\ y \in Seq(X) /\ Len(y) = m + k
      /\ \A i \in 1..(m + 1) : y[i] = a[i]
      /\ \A i \in 1..(k - 1) : y[(m + 1) + i] = b[i]
  <2>1. (m + 1) + (k - 1) = m + k BY <1>1
  <2>2. /\ y \in Seq(X) /\ Len(y) = Len(a) + Len(b)
        /\ \A i \in 1..Len(a) : y[i] = a[i]
        /\ \A i \in 1..Len(b) : y[Len(a) + i] = b[i]
    <3>1. Joined(X, a, b, y) BY <1>2, <1>3, CatIs
    <3>. QED BY <3>1 DEF Joined
  <2>. HIDE DEF y
  <2>. QED BY <1>2, <1>3, <2>1, <2>2
<1>5. /\ z \in Seq(X) /\ Len(z) = m + k
      /\ \A i \in 1..m : z[i] = s[i]
      /\ \A i \in 1..k : z[m + i] = t[i]
  BY CatIs DEF Joined
<1>. HIDE DEF y, z, m, k
<1>6. ASSUME NEW i \in 1..(m + k) PROVE y[i] = z[i]
  <2>1. CASE i <= m
    <3>1. i \in 1..m /\ i \in 1..(m + 1) BY <1>1, <2>1
    <3>. QED BY <1>2, <1>4, <1>5, <3>1
  <2>2. CASE i = m + 1
    <3>1. i \in 1..(m + 1) /\ 1 \in 1..k BY <1>1, <2>2
    <3>. QED BY <1>2, <1>4, <1>5, <2>2, <3>1
  <2>3. CASE i > m + 1
    <3>. DEFINE x == i - (m + 1)
    <3>1. x \in 1..(k - 1) /\ (m + 1) + x = i /\ x + 1 \in 1..k /\ m + (x + 1) = i BY <1>1, <2>3
    <3>. HIDE DEF x
    <3>2. y[i] = b[x] BY <1>4, <3>1
    <3>3. z[i] = t[x + 1] BY <1>5, <3>1
    <3>. QED BY <1>3, <3>1, <3>2, <3>3
  <2>. QED BY <1>1, <2>1, <2>2, <2>3
<1>7. y = z BY <1>4, <1>5, <1>6, SeqEqual
<1>. QED BY <1>7 DEF y, z, a, b

\* One node is moved.
LEMMA MoveOldestBalanced ==
  ASSUME NEW l, NEW w, Lists(l, w), NEW r, NEW v, Balanced(l, w, r, v)
  PROVE  \E u : Balanced(l, w, MoveOldest(r), u)
<1>. DEFINE m == MoveOldest(r)
<1>1. Lists(r, v) /\ Cat(v) = Cat(w) /\ Listed(r) = Listed(l) /\ r.dsize = l.dsize
  BY DEF Balanced
<1>2. v[Active] \in Seq(Node) /\ v[Inactive] \in Seq(Node) /\ v \in [List -> Seq(Node)]
  BY <1>1, Consts DEF Lists
<1>3. CASE Len(v[Active]) = 0
  <2>1. m = r BY <1>1, <1>3, Consts, MoveOldestLinks
  <2>. QED BY <2>1
<1>4. CASE Len(v[Active]) # 0
  <2>. DEFINE u == Move(v, Active, 1, Inactive)
              n == v[Active][1]
  <2>1. 1 \in 1..Len(v[Active]) /\ Moved(r, v, Active, 1, Inactive, m)
    BY <1>1, <1>4, Consts, MoveOldestLinks
  <2>2. n \in Node /\ r.owner[n] = Active /\ r \in Mem BY <1>1, <2>1, Consts, ListsFacts
  <2>3. Lists(m, u) /\ m.owner = [r.owner EXCEPT ![n] = Inactive] /\ m.dsize = r.dsize
    BY <2>1 DEF Moved
  <2>4. Cat(u) = Cat(v)
    <3>1. u[Inactive] = Append(v[Inactive], n) /\ u[Active] = Without(v[Active], 1)
      BY <1>2, Consts DEF Move
    <3>2. Append(v[Inactive], n) \o Without(v[Active], 1) = v[Inactive] \o v[Active]
      BY <1>2, <2>1, CatShift
    <3>. QED BY <3>1, <3>2 DEF Cat
  <2>5. Listed(m) = Listed(r)
    <3>1. r.owner \in [Node -> List \cup {Null}] BY <2>2, OwnSums
    <3>. HIDE DEF m, n
    <3>. QED BY <2>2, <2>3, <3>1, Consts DEF Listed
  <2>6. ASSUME Fits(l), Both(l) <= max_size PROVE Fits(m) /\ Both(m) = Both(l)
    <3>1. Fits(r) /\ Both(r) = Both(l) BY <2>6 DEF Balanced
    <3>. HIDE DEF m
    <3>2. Fits(m) /\ Both(m) = Both(r) BY <1>1, <2>1, <2>6, <3>1, Consts, MovedFits
    <3>. QED BY <3>1, <3>2
  <2>. HIDE DEF m, u
  <2>7. Balanced(l, w, m, u) BY <1>1, <2>3, <2>4, <2>5, <2>6 DEF Balanced
  <2>. QED BY <2>7 DEF m
<1>. QED BY <1>3, <1>4

\* _fcache_balance_nodes.
LEMMA BalanceLinks ==
  ASSUME NEW l, NEW w, Lists(l, w)
  PROVE  \E v : Balanced(l, w, _fcache_balance_nodes(l), v)
<1>. DEFINE S == {r \in Mem : \E v : Balanced(l, w, r, v)}
            avg == (l.size[Inactive] + l.size[Active]) \div 2
            n == IF l.size[Active] <= avg THEN 0 ELSE l.size[Active] - avg
            Eq(g) == g = [x \in 0..n |-> IF x = 0 THEN l ELSE MoveOldest(g[x - 1])]
            step == [s \in S |-> MoveOldest(s)]
            F == CHOOSE g : Eq(g)
<1>1. n \in Nat
  <2>1. l.size[Active] \in Nat /\ l.size[Inactive] \in Nat BY MemIs, Consts DEF Lists
  <2>2. avg \in Nat BY <2>1
  <2>. HIDE DEF avg
  <2>. QED BY <2>1, <2>2
<1>2. _fcache_balance_nodes(l) = F[n] BY DEF _fcache_balance_nodes
<1>. HIDE DEF n
<1>3. l \in S
  <2>1. Balanced(l, w, l, w) BY DEF Balanced
  <2>. QED BY <2>1 DEF Lists
<1>4. \A s \in S : MoveOldest(s) \in S
  <2>. SUFFICES ASSUME NEW s \in S PROVE MoveOldest(s) \in S OBVIOUS
  <2>1. PICK v : Balanced(l, w, s, v) OBVIOUS
  <2>2. PICK u : Balanced(l, w, MoveOldest(s), u) BY <2>1, MoveOldestBalanced
  <2>3. MoveOldest(s) \in Mem BY <2>2 DEF Balanced, Lists
  <2>. QED BY <2>2, <2>3
<1>. HIDE DEF S
<1>5. step \in [S -> S] /\ \A s \in S : step[s] = MoveOldest(s) BY <1>4
<1>. HIDE DEF step
<1>6. PICK f : Repeated(S, step, l, n, f) BY <1>1, <1>3, <1>5, Iterates
<1>. USE DEF Repeated
<1>7. Eq(f)
  <2>1. ASSUME NEW x \in 0..n PROVE f[x] = IF x = 0 THEN l ELSE MoveOldest(f[x - 1])
    <3>1. CASE x = 0 BY <1>6, <3>1
    <3>2. CASE x # 0
       <4>1. x \in 1..n /\ x - 1 \in 0..n BY <1>1, <3>2
       <4>2. f[x - 1] \in S BY <1>6, <4>1
       <4>. QED BY <1>5, <1>6, <3>2, <4>1, <4>2
    <3>. QED BY <3>1, <3>2
  <2>. QED BY <1>6, <2>1
<1>8. Eq(F) BY <1>7
<1>9. F = [x \in 0..n |-> IF x = 0 THEN l ELSE MoveOldest(F[x - 1])] BY <1>8
<1>. HIDE DEF F
<1>. DEFINE T == {k \in Nat : k <= n => F[k] \in S}
<1>10. 0 \in T BY <1>1, <1>3, <1>9
<1>11. ASSUME NEW k \in Nat, k \in T PROVE k + 1 \in T
  <2>1. CASE k + 1 <= n
    <3>1. k \in 0..n /\ k + 1 \in 0..n /\ (k + 1) - 1 = k /\ k + 1 # 0 /\ k <= n BY <1>1, <2>1
    <3>2. F[k + 1] = MoveOldest(F[k]) BY <1>9, <3>1
    <3>. QED BY <1>4, <1>11, <3>1, <3>2
  <2>. QED BY <2>1
<1>. HIDE DEF T
<1>12. n \in T BY <1>1, <1>10, <1>11, Climb
<1>13. F[n] \in S BY <1>1, <1>12 DEF T
<1>. QED BY <1>2, <1>13 DEF S

-----------------------------------------------------------------------------
(* Lists and index together.                                               *)

CacheFields == {"list", "index", "data", "held"}
CacheT == [list : Mem, index : SUBSET Node, data : [Node -> Value \cup {Null}],
           held : SUBSET Value]
IsCache(c) == DOMAIN c = CacheFields /\ c = [y \in CacheFields |-> c[y]]

\* A cache, field by field.
LEMMA CacheIs ==
  ASSUME NEW c
  PROVE  c \in CacheT <=> /\ IsCache(c)
                          /\ c.list \in Mem /\ c.index \in SUBSET Node
                          /\ c.data \in [Node -> Value \cup {Null}] /\ c.held \in SUBSET Value
BY DEF CacheT, IsCache, CacheFields

\* The values that are held are those of the nodes, each of one node.
Holds(index, data, held) ==
  /\ held = {data[k] : k \in index} \ {Null}
  /\ \A j, k \in index : data[j] = data[k] /\ j # k => data[k] = Null

\* The index and the values are right, for the lists w.
Cache(c, w) ==
  /\ c \in CacheT /\ Lists(c.list, w)
  /\ c.index = Listed(c.list)
  /\ Holds(c.index, c.data, c.held)

\* A cache with other lists.
LEMMA SetList ==
  ASSUME NEW c \in CacheT, NEW l \in Mem
  PROVE  LET r == [c EXCEPT !.list = l]
         IN  /\ r \in CacheT /\ r.list = l
             /\ r.index = c.index /\ r.data = c.data /\ r.held = c.held
<1>. DEFINE r == [c EXCEPT !.list = l]
<1>0. DOMAIN c = CacheFields BY CacheIs DEF IsCache
<1>1. DOMAIN r = DOMAIN c /\ r = [y \in DOMAIN c |-> r[y]] OBVIOUS
<1>2. r.list = l /\ r.index = c.index /\ r.data = c.data /\ r.held = c.held
  BY <1>0 DEF CacheFields
<1>. HIDE DEF r
<1>3. IsCache(r) BY <1>0, <1>1, Zenon DEF IsCache
<1>4. r \in CacheT BY <1>2, <1>3, CacheIs
<1>. QED BY <1>2, <1>4 DEF r

\* Other lists of the same nodes.
LEMMA RelistCache ==
  ASSUME NEW c, NEW w, Cache(c, w), NEW l, NEW v, Lists(l, v), Listed(l) = Listed(c.list)
  PROVE  LET r == [c EXCEPT !.list = l]
         IN  /\ Cache(r, v) /\ r.list = l
             /\ r.index = c.index /\ r.data = c.data /\ r.held = c.held
<1>. DEFINE r == [c EXCEPT !.list = l]
<1>1. c \in CacheT /\ l \in Mem BY DEF Cache, Lists
<1>2. /\ r \in CacheT /\ r.list = l
      /\ r.index = c.index /\ r.data = c.data /\ r.held = c.held
  BY <1>1, SetList
<1>. HIDE DEF r
<1>3. Cache(r, v) BY <1>2 DEF Cache
<1>. QED BY <1>2, <1>3 DEF r

\* _fcache_del_node, field by field; x is what is left of the lists.
Gone(c, k, x, r) ==
  /\ r \in CacheT /\ r.list = x
  /\ r.index = c.index \ {k} /\ r.data = [c.data EXCEPT ![k] = Null]
  /\ r.held = c.held \ {c.data[k]}

DelLists(c, k) == fcache_list_destroy_node(fcache_list_delete_node(c.list, k), k)

\* So it is.
LEMMA DelFields ==
  ASSUME NEW c \in CacheT, NEW k \in Node, DelLists(c, k) \in Mem
  PROVE  Gone(c, k, DelLists(c, k), _fcache_del_node(c, k))
<1>. DEFINE r == _fcache_del_node(c, k)
            h == c.held \ {c.data[k]}
            i == c.index \ {k}
            x == DelLists(c, k)
<1>0. DOMAIN c = CacheFields BY CacheIs DEF IsCache
<1>1. r = [[c EXCEPT !.held = h] EXCEPT !.index = i, !.data[k] = Null, !.list = x]
  <2>1. /\ [c EXCEPT !.held = h].index = c.index
        /\ [c EXCEPT !.held = h].list = c.list
    BY <1>0 DEF CacheFields
  <2>. QED BY <2>1, Zenon DEF _fcache_del_node, obj_free, DelLists
<1>2. x \in Mem /\ h \in SUBSET Value /\ i \in SUBSET Node BY CacheIs
<1>. HIDE DEF r, h, i, x
<1>3. DOMAIN r = DOMAIN c /\ r = [y \in DOMAIN c |-> r[y]] BY ONLY <1>1
<1>4. /\ r.list = x /\ r.index = i /\ r.data = [c.data EXCEPT ![k] = Null]
      /\ r.held = h
  BY <1>0, <1>1 DEF CacheFields
<1>5. IsCache(r) BY <1>0, <1>3, Zenon DEF IsCache
<1>6. r.data \in [Node -> Value \cup {Null}]
  <2>1. c.data \in [Node -> Value \cup {Null}] BY CacheIs
  <2>. QED BY <1>4, <2>1
<1>7. r \in CacheT BY <1>2, <1>4, <1>5, <1>6, CacheIs
<1>. QED BY <1>4, <1>7 DEF Gone, r, h, i, x

\* What is left when the j-th node of list p has been deleted.
Deleted(c, w, p, j, r) ==
  LET n == w[p][j]
      l == c.list
      m == r.list
  IN  /\ Cache(r, [w EXCEPT ![p] = Without(@, j)])
      /\ r.index = c.index \ {n} /\ r.data = [c.data EXCEPT ![n] = Null]
      /\ r.held = c.held \ {c.data[n]}
      /\ m.dsize = [l.dsize EXCEPT ![n] = 0]
      /\ m.total = [l.total EXCEPT ![p] = Minus(@, l.dsize[n])]
      /\ Fits(l) => /\ Fits(m) /\ l.dsize[n] \in Nat /\ l.dsize[n] <= l.total[p]
                    /\ m.total = [l.total EXCEPT ![p] = @ - l.dsize[n]]
                    /\ Both(m) = Both(l) - l.dsize[n]

\* The value of a node that goes is given back, and no other.
LEMMA DelHeld ==
  ASSUME NEW c, NEW w, Cache(c, w), NEW n \in c.index, NEW dt,
         dt = [c.data EXCEPT ![n] = Null]
  PROVE  Holds(c.index \ {n}, dt, c.held \ {c.data[n]})
<1>1. /\ c.data \in [Node -> Value \cup {Null}] /\ c.index \subseteq Node
      /\ c.held = {c.data[k] : k \in c.index} \ {Null}
      /\ \A j, k \in c.index : c.data[j] = c.data[k] /\ j # k => c.data[k] = Null
  BY CacheIs DEF Cache, Holds
<1>2. \A k \in c.index \ {n} : dt[k] = c.data[k] BY <1>1
<1>. QED BY <1>1, <1>2 DEF Holds

\* A node of no list may get another size.
LEMMA ClearedFits ==
  ASSUME NEW l, NEW w, Lists(l, w), NEW n \in Node, l.owner[n] = Null, NEW r,
         Cleared(l, w, n, r), Fits(l)
  PROVE  Fits(r) /\ Both(r) = Both(l)
<1>1. l \in Mem BY DEF Lists
<1>2. /\ r \in Mem /\ r.owner = l.owner /\ r.dsize = [l.dsize EXCEPT ![n] = 0]
      /\ r.total = l.total
  BY DEF Cleared, Lists
<1>3. l.dsize \in [Node -> Nat] /\ r.dsize \in [Node -> Nat] BY <1>1, <1>2, OwnSums
<1>4. ASSUME NEW p \in List PROVE SumOf(r.dsize, Own(r, p)) = SumOf(l.dsize, Own(l, p))
  <2>1. Own(r, p) = Own(l, p) BY <1>2 DEF Own
  <2>2. \A k \in Own(l, p) : k # n /\ k \in Node BY Consts DEF Own
  <2>3. \A k \in Own(l, p) : r.dsize[k] = l.dsize[k] BY <1>2, <1>3, <2>2
  <2>4. IsFiniteSet(Node) /\ Own(l, p) \in SUBSET Node BY <2>2, Consts
  <2>5. SumOf(r.dsize, Own(l, p)) = SumOf(l.dsize, Own(l, p)) BY <1>3, <2>3, <2>4, SumSame
  <2>. QED BY <2>1, <2>5
<1>5. Fits(r) BY <1>2, <1>4 DEF Fits
<1>. QED BY <1>2, <1>5 DEF Both

\* Taken out of its list and cleared, a node is gone.
LEMMA DelCore ==
  ASSUME NEW c, NEW w, Cache(c, w), NEW p \in List, NEW j \in 1..Len(w[p]), NEW u,
         Removed(c.list, w, p, j, u), NEW r,
         Gone(c, w[p][j], fcache_list_make_node(u, w[p][j]), r)
  PROVE  Deleted(c, w, p, j, r)
<1>. DEFINE n == w[p][j]
            l == c.list
            v == [w EXCEPT ![p] = Without(@, j)]
            m == r.list
<1>1. /\ Lists(l, w) /\ c.index = Listed(l) /\ c \in CacheT BY DEF Cache
<1>2. l \in Mem /\ n \in Node /\ l.owner[n] = p BY <1>1, ListsFacts
<1>3. /\ Lists(u, v) /\ u.owner = [l.owner EXCEPT ![n] = Null] /\ u.dsize = l.dsize
      /\ u.total = [l.total EXCEPT ![p] = Minus(@, l.dsize[n])]
  BY DEF Removed
<1>4. n \in c.index BY <1>1, <1>2, Consts DEF Listed
<1>. HIDE DEF v, n, l
<1>5. l.owner \in [Node -> List \cup {Null}] BY <1>2, OwnSums
<1>6. u.owner[n] = Null BY <1>2, <1>3, <1>5
<1>7. Cleared(u, v, n, m)
  <2>1. m = fcache_list_make_node(u, n) BY DEF n, Gone
  <2>2. Cleared(u, v, n, fcache_list_make_node(u, n)) BY <1>2, <1>3, <1>6, MakeLinks
  <2>. QED BY <2>1, <2>2
<1>. HIDE DEF m
<1>8. /\ Lists(m, v) /\ m.owner = u.owner /\ m.total = u.total
      /\ m.dsize = [l.dsize EXCEPT ![n] = 0]
  BY <1>3, <1>7 DEF Cleared
<1>9. r.index = Listed(m)
  <2>1. r.index = c.index \ {n} BY DEF n, Gone
  <2>. QED BY <1>1, <1>2, <1>3, <1>5, <1>8, <2>1 DEF Listed
<1>10. Holds(r.index, r.data, r.held)
  <2>1. r.data = [c.data EXCEPT ![n] = Null] /\ r.held = c.held \ {c.data[n]}
        /\ r.index = c.index \ {n}
    BY DEF n, Gone
  <2>2. Holds(c.index \ {n}, r.data, c.held \ {c.data[n]}) BY <1>4, <2>1, DelHeld
  <2>. QED BY <2>1, <2>2
<1>11. Cache(r, v) BY <1>8, <1>9, <1>10 DEF Cache, Gone, m
<1>12. ASSUME Fits(l)
       PROVE  /\ Fits(m) /\ l.dsize[n] \in Nat /\ l.dsize[n] <= l.total[p]
              /\ m.total = [l.total EXCEPT ![p] = @ - l.dsize[n]]
              /\ Both(m) = Both(l) - l.dsize[n]
  <2>1. /\ Fits(u) /\ l.dsize[n] \in Nat /\ l.dsize[n] <= l.total[p]
        /\ u.total = [l.total EXCEPT ![p] = @ - l.dsize[n]]
        /\ Both(u) = Both(l) - l.dsize[n]
    BY <1>1, <1>12, RemovedFits DEF l, n
  <2>2. Fits(m) /\ Both(m) = Both(u) BY <1>2, <1>3, <1>6, <1>7, <2>1, ClearedFits
  <2>. QED BY <1>8, <2>1, <2>2
<1>. QED BY <1>3, <1>8, <1>11, <1>12 DEF Deleted, Gone, n, l, m, v

\* _fcache_del_node of a node of the cache.
LEMMA DelNode ==
  ASSUME NEW c, NEW w, Cache(c, w), NEW p \in List, NEW j \in 1..Len(w[p])
  PROVE  Deleted(c, w, p, j, _fcache_del_node(c, w[p][j]))
<1>. DEFINE n == w[p][j]
            u == fcache_list_delete_node(c.list, n)
            r == _fcache_del_node(c, n)
<1>1. Lists(c.list, w) /\ c \in CacheT BY DEF Cache
<1>2. n \in Node BY <1>1, ListsFacts
<1>3. Removed(c.list, w, p, j, u) BY <1>1, DeleteLinks
<1>4. DelLists(c, n) = fcache_list_make_node(u, n) BY DEF DelLists, fcache_list_destroy_node
<1>5. fcache_list_make_node(u, n) \in Mem
  <2>1. u \in Mem BY <1>3 DEF Removed, Lists
  <2>2. Made(u, n, fcache_list_make_node(u, n)) BY <1>2, <2>1, MakeFields, Zenon
  <2>. QED BY <2>2 DEF Made
<1>6. Gone(c, n, fcache_list_make_node(u, n), r)
  <2>1. c \in CacheT /\ n \in Node /\ DelLists(c, n) \in Mem BY <1>1, <1>2, <1>4, <1>5
  <2>2. Gone(c, n, DelLists(c, n), r) BY <2>1, DelFields
  <2>. QED BY <1>4, <2>2
<1>. HIDE DEF r, u
<1>7. Deleted(c, w, p, j, r) BY <1>3, <1>6, DelCore
<1>. QED BY <1>7 DEF r

\* The step of the dropping loop: the head of the inactive list is popped, and deleted
\* when it is in no list any more.
LEMMA PopDel ==
  ASSUME NEW c, NEW w, Cache(c, w), NEW p \in List, Len(w[p]) # 0
  PROVE  /\ 1 \in 1..Len(w[p]) /\ c.list.head[p] = w[p][1]
         /\ Deleted(c, w, p, 1, _fcache_del_node([c EXCEPT !.list = fcache_list_pop(@, p)], w[p][1]))
<1>. DEFINE n == w[p][1]
            u == fcache_list_pop(c.list, p)
            b == [c EXCEPT !.list = fcache_list_pop(@, p)]
            r == _fcache_del_node(b, n)
<1>1. Lists(c.list, w) /\ c \in CacheT BY DEF Cache
<1>2. 1 \in 1..Len(w[p]) /\ c.list.head[p] = n /\ n \in Node /\ Removed(c.list, w, p, 1, u)
  BY <1>1, PopLinks
<1>3. b = [c EXCEPT !.list = u] OBVIOUS
<1>. HIDE DEF b, u
<1>4. u \in Mem /\ u.owner[n] = Null
  <2>1. c.list \in Mem BY <1>1 DEF Lists
  <2>2. c.list.owner \in [Node -> List \cup {Null}] BY <2>1, OwnSums
  <2>3. u \in Mem /\ u.owner = [c.list.owner EXCEPT ![n] = Null] BY <1>2 DEF Removed, Lists
  <2>. QED BY <1>2, <2>2, <2>3
<1>5. /\ b \in CacheT /\ b.list = u /\ b.index = c.index /\ b.data = c.data /\ b.held = c.held
  BY <1>1, <1>3, <1>4, SetList
<1>6. DelLists(b, n) = fcache_list_make_node(u, n)
  BY <1>4, <1>5 DEF DelLists, fcache_list_destroy_node, fcache_list_delete_node
<1>7. fcache_list_make_node(u, n) \in Mem
  <2>1. Made(u, n, fcache_list_make_node(u, n)) BY <1>2, <1>4, MakeFields, Zenon
  <2>. QED BY <2>1 DEF Made
<1>8. Gone(c, n, fcache_list_make_node(u, n), r)
  <2>1. b \in CacheT /\ n \in Node /\ DelLists(b, n) \in Mem BY <1>2, <1>5, <1>6, <1>7
  <2>2. Gone(b, n, DelLists(b, n), r) BY <2>1, DelFields
  <2>. HIDE DEF r, n
  <2>. QED BY <1>5, <1>6, <2>2 DEF Gone
<1>. HIDE DEF r
<1>9. Deleted(c, w, p, 1, r) BY <1>2, <1>8, DelCore
<1>. QED BY <1>2, <1>9 DEF r, b

-----------------------------------------------------------------------------
(* The dropping loop.                                                      *)

\* s without its first i elements.
Rest(s, i) == [x \in 1..(Len(s) - i) |-> s[x + i]]

\* What it is.
LEMMA RestIs ==
  ASSUME NEW X, NEW s \in Seq(X), NEW i \in 0..Len(s)
  PROVE  /\ Rest(s, i) \in Seq(X) /\ Len(s) \in Nat /\ Len(Rest(s, i)) = Len(s) - i
         /\ \A x \in 1..(Len(s) - i) : Rest(s, i)[x] = s[x + i]
<1>. DEFINE k == Len(s)
            r == Rest(s, i)
<1>1. k \in Nat /\ \A x \in 1..k : s[x] \in X BY LenProperties
<1>2. r = [x \in 1..(k - i) |-> s[x + i]] BY DEF Rest
<1>3. i \in 0..k OBVIOUS
<1>. HIDE DEF k, r
<1>4. k - i \in Nat /\ \A x \in 1..(k - i) : x + i \in 1..k BY <1>1, <1>3
<1>5. r \in [1..(k - i) -> X] BY <1>1, <1>2, <1>4
<1>6. r \in Seq(X) BY <1>4, <1>5, SeqDef
<1>7. Len(r) = k - i
  <2>1. Len(r) \in Nat /\ DOMAIN r = 1..Len(r) BY <1>6, LenProperties
  <2>2. 1..Len(r) = 1..(k - i) BY <1>5, <2>1
  <2>. QED BY <1>4, <2>1, <2>2, SameInterval
<1>8. \A x \in 1..(k - i) : r[x] = s[x + i] BY <1>2
<1>. QED BY <1>1, <1>6, <1>7, <1>8 DEF k, r

\* Nothing left out, and one more.
LEMMA RestNext ==
  ASSUME NEW X, NEW s \in Seq(X)
  PROVE  /\ Rest(s, 0) = s
         /\ \A i \in 0..Len(s) : i # Len(s) => Without(Rest(s, i), 1) = Rest(s, i + 1)
<1>. DEFINE k == Len(s)
<1>1. k \in Nat BY LenProperties
<1>2. Rest(s, 0) = s
  <2>1. 0 \in 0..k BY <1>1
  <2>2. /\ Rest(s, 0) \in Seq(X) /\ Len(Rest(s, 0)) = k - 0
        /\ \A x \in 1..(k - 0) : Rest(s, 0)[x] = s[x + 0]
    BY <2>1, RestIs
  <2>. HIDE DEF k
  <2>3. k - 0 = k /\ \A x \in 1..k : x + 0 = x BY <1>1
  <2>. QED BY <2>2, <2>3, SeqEqual DEF k
<1>3. ASSUME NEW i \in 0..k, i # k PROVE Without(Rest(s, i), 1) = Rest(s, i + 1)
  <2>. DEFINE a == Rest(s, i)
              b == Rest(s, i + 1)
              v == Without(a, 1)
  <2>1. i + 1 \in 0..k BY <1>1, <1>3
  <2>2. a \in Seq(X) /\ Len(a) = k - i /\ \A x \in 1..(k - i) : a[x] = s[x + i] BY <1>3, RestIs
  <2>3. b \in Seq(X) /\ Len(b) = k - (i + 1) /\ \A x \in 1..(k - (i + 1)) : b[x] = s[x + (i + 1)]
    BY <2>1, RestIs
  <2>. HIDE DEF a, b, k
  <2>4. 1 \in 1..Len(a) BY <1>1, <1>3, <2>2
  <2>5. /\ v \in Seq(X) /\ Len(v) = Len(a) - 1
        /\ \A x \in 1..(Len(a) - 1) : x >= 1 => v[x] = a[x + 1]
    BY <2>2, <2>4, WithoutIs
  <2>. HIDE DEF v
  <2>6. Len(v) = Len(b) BY <1>1, <1>3, <2>2, <2>3, <2>5
  <2>7. ASSUME NEW x \in 1..Len(v) PROVE v[x] = b[x]
    <3>1. /\ x \in 1..(Len(a) - 1) /\ x >= 1 /\ x + 1 \in 1..(k - i) /\ x \in 1..(k - (i + 1))
          /\ (x + 1) + i = x + (i + 1)
      BY <1>1, <1>3, <2>2, <2>5
    <3>. QED BY <2>2, <2>3, <2>5, <3>1
  <2>8. v = b BY <2>3, <2>5, <2>6, <2>7, SeqEqual
  <2>. QED BY <2>8 DEF v, a, b
<1>. QED BY <1>2, <1>3

DropT == [c : CacheT, dropped : SizeT]

\* d is what the loop has made of c after the first i nodes of the inactive list are gone.
Dropping(c, w, i, d) ==
  /\ d \in DropT /\ i \in 0..Len(w[Inactive])
  /\ Cache(d.c, [w EXCEPT ![Inactive] = Rest(@, i)])
  /\ d.c.index \subseteq c.index /\ d.c.held \subseteq c.held
  /\ \A k \in d.c.index : d.c.data[k] = c.data[k]
  /\ Fits(c.list) => /\ Fits(d.c.list)
                     /\ Both(d.c.list) + d.dropped = Both(c.list)
                     /\ d.c.list.total[Inactive] + d.dropped = c.list.total[Inactive]

DropStep(d, drop_size) ==
  LET n == d.c.list.head[Inactive]
  IN  IF d.dropped >= drop_size \/ fcache_list_empty(d.c.list, Inactive)
      THEN d
      ELSE [c |-> _fcache_del_node([d.c EXCEPT !.list = fcache_list_pop(@, Inactive)], n),
            dropped |-> Plus(d.dropped, d.c.list.dsize[n])]

\* A turn of the loop.
LEMMA DropStepIs ==
  ASSUME NEW c, NEW w, Cache(c, w), NEW i, NEW d, Dropping(c, w, i, d), NEW drop_size \in Int
  PROVE  LET e == DropStep(d, drop_size)
         IN  \/ (d.dropped >= drop_size \/ i = Len(w[Inactive])) /\ e = d
             \/ i # Len(w[Inactive]) /\ Dropping(c, w, i + 1, e)
<1>. DEFINE e == DropStep(d, drop_size)
            v == [w EXCEPT ![Inactive] = Rest(@, i)]
            k == Len(w[Inactive])
            l == d.c.list
            n == v[Inactive][1]
            x == l.dsize[n]
<1>1. /\ d \in DropT /\ i \in 0..k /\ Cache(d.c, v)
      /\ d.c.index \subseteq c.index /\ d.c.held \subseteq c.held
      /\ \A m \in d.c.index : d.c.data[m] = c.data[m]
      /\ d.dropped \in SizeT
  BY DEF Dropping, DropT
<1>2. w \in [List -> Seq(Node)] /\ w[Inactive] \in Seq(Node) BY Consts DEF Cache, Lists
<1>3. v[Inactive] = Rest(w[Inactive], i) BY <1>2, Consts
<1>4. k \in Nat /\ Len(v[Inactive]) = k - i BY <1>1, <1>2, <1>3, RestIs
<1>5. Lists(l, v) /\ l \in Mem BY <1>1 DEF Cache, Lists
<1>. HIDE DEF v, k
<1>6. fcache_list_empty(l, Inactive) <=> i = k
  <2>1. fcache_list_empty(l, Inactive) <=> Len(v[Inactive]) = 0 BY <1>5, Consts, ListsFacts
  <2>. QED BY <1>1, <1>4, <2>1
<1>7. CASE d.dropped >= drop_size \/ i = k
  <2>1. e = d BY <1>6, <1>7 DEF DropStep
  <2>. QED BY <1>7, <2>1 DEF k
<1>8. CASE ~(d.dropped >= drop_size \/ i = k)
  <2>. DEFINE r == _fcache_del_node([d.c EXCEPT !.list = fcache_list_pop(@, Inactive)], n)
              u == [w EXCEPT ![Inactive] = Rest(@, i + 1)]
  <2>1. Len(v[Inactive]) # 0 /\ i + 1 \in 0..k BY <1>1, <1>4, <1>8
  <2>2. /\ 1 \in 1..Len(v[Inactive]) /\ l.head[Inactive] = n
        /\ Deleted(d.c, v, Inactive, 1, r)
    BY <1>1, <2>1, Consts, PopDel
  <2>3. e = [c |-> r, dropped |-> Plus(d.dropped, x)] BY <1>6, <1>8, <2>2 DEF DropStep
  <2>4. e.c = r /\ e.dropped = Plus(d.dropped, x) BY <2>3
  <2>5. n \in Node BY <1>5, <2>2, Consts, ListsFacts
  <2>. HIDE DEF r, e, n
  <2>6. x \in SizeT /\ Plus(d.dropped, x) \in SizeT
    <3>1. l.dsize \in [Node -> SizeT] BY <1>5, OwnSums
    <3>2. x \in SizeT BY <2>5, <3>1
    <3>. QED BY <1>1, <3>2, PlusMinus
  <2>7. Cache(r, u)
    <3>1. Cache(r, [v EXCEPT ![Inactive] = Without(@, 1)]) BY <2>2 DEF Deleted
    <3>2. Without(Rest(w[Inactive], i), 1) = Rest(w[Inactive], i + 1)
      BY <1>1, <1>2, <1>8, RestNext DEF k
    <3>3. [v EXCEPT ![Inactive] = Without(@, 1)] = u BY <1>2, <1>3, <3>2, Consts DEF v
    <3>. QED BY <3>1, <3>3
  <2>. HIDE DEF u
  <2>8. e \in DropT BY <2>3, <2>6, <2>7 DEF DropT, Cache
  <2>9. /\ r.index = d.c.index \ {n} /\ r.data = [d.c.data EXCEPT ![n] = Null]
        /\ r.held = d.c.held \ {d.c.data[n]}
    BY <2>2, SMTT(30) DEF Deleted, n
  <2>10. \A m \in r.index : r.data[m] = c.data[m]
    <3>1. d.c.data \in [Node -> Value \cup {Null}] /\ d.c.index \subseteq Node
      BY <1>1, CacheIs DEF Cache
    <3>. QED BY <1>1, <2>9, <3>1
  <2>11. r.index \subseteq c.index /\ r.held \subseteq c.held BY <1>1, <2>9
  <2>12. ASSUME Fits(c.list)
         PROVE  /\ Fits(r.list) /\ Both(r.list) + e.dropped = Both(c.list)
                /\ r.list.total[Inactive] + e.dropped = c.list.total[Inactive]
    <3>1. /\ Fits(l) /\ Both(l) + d.dropped = Both(c.list)
          /\ l.total[Inactive] + d.dropped = c.list.total[Inactive]
      BY <2>12 DEF Dropping
    <3>2. /\ Fits(r.list) /\ x \in Nat /\ x <= l.total[Inactive]
          /\ r.list.total = [l.total EXCEPT ![Inactive] = @ - x]
          /\ Both(r.list) = Both(l) - x
      BY <2>2, <3>1, SMTT(30) DEF Deleted, n
    <3>3. /\ l.total \in [List -> SizeT] /\ l.total[Inactive] \in Nat /\ l.total[Active] \in Nat
          /\ c.list.total[Inactive] \in Nat /\ c.list.total[Inactive] < SizeMod
      <4>1. c.list \in Mem BY DEF Cache, Lists
      <4>. QED BY <1>5, <4>1, OwnSums, Consts
    <3>. HIDE DEF x
    <3>4. d.dropped \in Nat BY <1>1, Consts
    <3>5. Plus(d.dropped, x) = d.dropped + x
      <4>1. d.dropped + x < SizeMod BY <3>1, <3>2, <3>3, <3>4, Consts
      <4>. QED BY <1>1, <2>6, <4>1, PlusMinus
    <3>6. r.list.total[Inactive] = l.total[Inactive] - x BY <3>2, <3>3, Consts
    <3>7. r.list.total[Inactive] + e.dropped = c.list.total[Inactive]
      BY <2>4, <3>1, <3>2, <3>3, <3>4, <3>5, <3>6
    <3>8. Both(l) \in Nat BY <3>3 DEF Both
    <3>9. Both(r.list) + e.dropped = Both(c.list) BY <2>4, <3>1, <3>2, <3>4, <3>5, <3>8
    <3>. QED BY <3>2, <3>7, <3>9
  <2>13. Dropping(c, w, i + 1, e)
    BY <2>1, <2>4, <2>7, <2>8, <2>10, <2>11, <2>12 DEF Dropping, u, k
  <2>. QED BY <1>8, <2>13 DEF e, k
<1>. QED BY <1>7, <1>8

\* A list has no more nodes than there are.
LEMMA ListLen ==
  ASSUME NEW l, NEW w, Lists(l, w), NEW p \in List
  PROVE  Cardinality(Node) \in Nat /\ Len(w[p]) \in 0..Cardinality(Node)
<1>. DEFINE s == w[p]
            k == Len(s)
<1>1. s \in Seq(Node) /\ k \in Nat /\ \A i, j \in 1..k : s[i] = s[j] => i = j BY ListsFacts
<1>2. s \in [1..k -> Node] BY <1>1, LenProperties
<1>. HIDE DEF s, k
<1>3. s \in Injection(1..k, Node) BY <1>1, <1>2 DEF Injection, IsInjective
<1>4. Cardinality(1..k) <= Cardinality(Node) BY <1>3, Consts, FS_Injection
<1>5. Cardinality(1..k) = k BY <1>1, FS_Interval
<1>6. Cardinality(Node) \in Nat BY Consts, FS_CardinalityType
<1>. QED BY <1>1, <1>4, <1>5, <1>6 DEF s, k

\* The loop ends when enough is dropped or the inactive list is empty.
LEMMA DropLinks ==
  ASSUME NEW c, NEW w, Cache(c, w), NEW drop_size \in Int
  PROVE  \E i, d : /\ Dropping(c, w, i, d) /\ DropNodes(c, drop_size) = d.c
                   /\ d.dropped >= drop_size \/ i = Len(w[Inactive])
<1>. DEFINE N == Cardinality(Node)
            k == Len(w[Inactive])
            S == {d \in DropT : \E i : Dropping(c, w, i, d)}
            c0 == [c |-> c, dropped |-> 0]
            Eq(g) == g = [x \in 0..N |-> IF x = 0 THEN c0 ELSE DropStep(g[x - 1], drop_size)]
            step == [s \in S |-> DropStep(s, drop_size)]
            F == CHOOSE g : Eq(g)
<1>1. Lists(c.list, w) /\ c \in CacheT BY DEF Cache
<1>2. N \in Nat /\ k \in 0..N /\ k \in Nat BY <1>1, Consts, ListLen
<1>3. DropNodes(c, drop_size) = F[N].c BY DEF DropNodes, DropStep
<1>. HIDE DEF N, k
<1>4. Dropping(c, w, 0, c0)
  <2>1. c0 \in DropT /\ c0.c = c /\ c0.dropped = 0 BY <1>1, Consts DEF DropT
  <2>2. w \in [List -> Seq(Node)] BY <1>1 DEF Lists
  <2>3. Rest(w[Inactive], 0) = w[Inactive] BY <2>2, Consts, RestNext
  <2>4. [w EXCEPT ![Inactive] = Rest(@, 0)] = w BY <2>2, <2>3
  <2>5. c.list \in Mem BY <1>1 DEF Lists
  <2>6. Both(c.list) \in Nat /\ c.list.total[Inactive] \in Nat BY <2>5, OwnSums, Consts DEF Both
  <2>. HIDE DEF c0
  <2>. QED BY <1>2, <2>1, <2>4, <2>6 DEF Dropping, k
<1>5. \A s \in S : DropStep(s, drop_size) \in S
  <2>. SUFFICES ASSUME NEW s \in S PROVE DropStep(s, drop_size) \in S OBVIOUS
  <2>1. PICK i : Dropping(c, w, i, s) OBVIOUS
  <2>2. \/ DropStep(s, drop_size) = s
        \/ Dropping(c, w, i + 1, DropStep(s, drop_size))
    BY <2>1, DropStepIs
  <2>3. ASSUME Dropping(c, w, i + 1, DropStep(s, drop_size))
        PROVE  DropStep(s, drop_size) \in S
    BY <2>3 DEF Dropping
  <2>. QED BY <2>2, <2>3
<1>6. c0 \in S BY <1>4 DEF Dropping
<1>. HIDE DEF S, c0
<1>7. step \in [S -> S] /\ \A s \in S : step[s] = DropStep(s, drop_size) BY <1>5
<1>. HIDE DEF step
<1>8. PICK f : Repeated(S, step, c0, N, f) BY <1>2, <1>6, <1>7, Iterates
<1>9. Eq(f)
  <2>1. ASSUME NEW x \in 0..N
        PROVE  f[x] = IF x = 0 THEN c0 ELSE DropStep(f[x - 1], drop_size)
    <3>1. CASE x = 0 BY <1>8, <3>1 DEF Repeated
    <3>2. CASE x # 0
       <4>1. x \in 1..N /\ x - 1 \in 0..N BY <1>2, <3>2
       <4>2. f[x - 1] \in S BY <1>8, <4>1 DEF Repeated
       <4>. QED BY <1>7, <1>8, <3>2, <4>1, <4>2 DEF Repeated
    <3>. QED BY <3>1, <3>2
  <2>. QED BY <1>8, <2>1 DEF Repeated
<1>10. Eq(F) BY <1>9
<1>11. F = [x \in 0..N |-> IF x = 0 THEN c0 ELSE DropStep(F[x - 1], drop_size)] BY <1>10
<1>. HIDE DEF F
<1>. DEFINE P(x, i) == /\ Dropping(c, w, i, F[x])
                       /\ F[x].dropped >= drop_size \/ i = k \/ i >= x
            T == {x \in Nat : x <= N => \E i : P(x, i)}
<1>12. 0 \in T
  <2>1. F[0] = c0 BY <1>2, <1>11
  <2>2. P(0, 0) BY <1>4, <2>1
  <2>. QED BY <2>2
<1>13. ASSUME NEW x \in Nat, x \in T PROVE x + 1 \in T
  <2>1. CASE x + 1 <= N
    <3>1. x \in 0..N /\ x + 1 \in 0..N /\ (x + 1) - 1 = x /\ x + 1 # 0 /\ x <= N BY <1>2, <2>1
    <3>2. F[x + 1] = DropStep(F[x], drop_size) BY <1>11, <3>1
    <3>3. PICK i : P(x, i) BY <1>13, <3>1
    <3>4. i \in Nat BY <1>2, <3>3 DEF Dropping, k
    <3>5. \/ (F[x].dropped >= drop_size \/ i = k) /\ F[x + 1] = F[x]
          \/ i # k /\ Dropping(c, w, i + 1, F[x + 1])
      BY <3>2, <3>3, DropStepIs DEF k
    <3>6. CASE (F[x].dropped >= drop_size \/ i = k) /\ F[x + 1] = F[x]
      <4>1. P(x + 1, i) BY <3>3, <3>6
      <4>. QED BY <4>1
    <3>7. CASE i # k /\ Dropping(c, w, i + 1, F[x + 1]) /\ ~(F[x].dropped >= drop_size)
      <4>1. P(x + 1, i + 1) BY <3>3, <3>4, <3>7
      <4>. QED BY <4>1
    <3>8. CASE i # k /\ Dropping(c, w, i + 1, F[x + 1]) /\ F[x].dropped >= drop_size
      <4>1. F[x + 1] = F[x] BY <3>2, <3>8, SMTT(30) DEF DropStep
      <4>2. P(x + 1, i) BY <3>3, <3>8, <4>1
      <4>. QED BY <4>2
    <3>. QED BY <3>5, <3>6, <3>7, <3>8
  <2>. QED BY <2>1
<1>. HIDE DEF T
<1>14. N \in T BY <1>2, <1>12, <1>13, Climb
<1>15. PICK i : P(N, i) BY <1>2, <1>14 DEF T
<1>16. i \in 0..k BY <1>15 DEF Dropping, k
<1>17. F[N].dropped >= drop_size \/ i = k BY <1>2, <1>15, <1>16
<1>. QED BY <1>3, <1>15, <1>17 DEF k

-----------------------------------------------------------------------------
(* Destroying the lists.                                                   *)

\* d is c after the first i nodes of list p have been popped and their values freed.
Draining(c, w, p, i, d) ==
  /\ d \in CacheT /\ i \in 0..Len(w[p])
  /\ Lists(d.list, [w EXCEPT ![p] = Rest(@, i)])
  /\ d.data = c.data /\ d.held = c.held \ {c.data[w[p][x]] : x \in 1..i}

DrainStep(d, p) ==
  LET n == d.list.head[p]
  IN  IF fcache_list_empty(d.list, p) THEN d
      ELSE [obj_free(d, d.data[n]) EXCEPT !.list = fcache_list_pop(@, p)]

\* The turn of the loop, field by field.
LEMMA FreePop ==
  ASSUME NEW d \in CacheT, NEW v, NEW p \in List, fcache_list_pop(d.list, p) \in Mem
  PROVE  LET r == [obj_free(d, v) EXCEPT !.list = fcache_list_pop(@, p)]
         IN  /\ r \in CacheT /\ r.list = fcache_list_pop(d.list, p)
             /\ r.data = d.data /\ r.held = d.held \ {v}
<1>. DEFINE r == [obj_free(d, v) EXCEPT !.list = fcache_list_pop(@, p)]
            h == d.held \ {v}
            x == fcache_list_pop(d.list, p)
<1>0. DOMAIN d = CacheFields BY CacheIs DEF IsCache
<1>1. r = [[d EXCEPT !.held = h] EXCEPT !.list = x]
  <2>1. [d EXCEPT !.held = h].list = d.list BY <1>0 DEF CacheFields
  <2>. QED BY <2>1, Zenon DEF obj_free
<1>2. x \in Mem /\ h \in SUBSET Value BY CacheIs
<1>. HIDE DEF r, h, x
<1>3. DOMAIN r = DOMAIN d /\ r = [y \in DOMAIN d |-> r[y]] BY ONLY <1>1
<1>4. r.list = x /\ r.index = d.index /\ r.data = d.data /\ r.held = h
  BY <1>0, <1>1 DEF CacheFields
<1>5. IsCache(r) BY <1>0, <1>3, Zenon DEF IsCache
<1>6. r \in CacheT BY <1>2, <1>4, <1>5, CacheIs
<1>. QED BY <1>4, <1>6 DEF r, h, x

\* One node is popped.
LEMMA DrainStepIs ==
  ASSUME NEW c, NEW w \in [List -> Seq(Node)], NEW p \in List, NEW i, NEW d,
         Draining(c, w, p, i, d)
  PROVE  \/ i = Len(w[p]) /\ DrainStep(d, p) = d
         \/ i # Len(w[p]) /\ Draining(c, w, p, i + 1, DrainStep(d, p))
<1>. DEFINE e == DrainStep(d, p)
            v == [w EXCEPT ![p] = Rest(@, i)]
            k == Len(w[p])
            l == d.list
            n == v[p][1]
<1>1. /\ d \in CacheT /\ i \in 0..k /\ Lists(l, v)
      /\ d.data = c.data /\ d.held = c.held \ {c.data[w[p][x]] : x \in 1..i}
  BY DEF Draining
<1>2. v[p] = Rest(w[p], i) /\ w[p] \in Seq(Node) OBVIOUS
<1>3. k \in Nat /\ Len(v[p]) = k - i /\ \A x \in 1..(k - i) : v[p][x] = w[p][x + i]
  <2>1. /\ Len(w[p]) \in Nat /\ Len(Rest(w[p], i)) = Len(w[p]) - i
        /\ \A x \in 1..(Len(w[p]) - i) : Rest(w[p], i)[x] = w[p][x + i]
    <3>. DEFINE s == w[p]
    <3>1. s \in Seq(Node) /\ i \in 0..Len(s) BY <1>1, <1>2
    <3>. HIDE DEF s
    <3>2. /\ Len(s) \in Nat /\ Len(Rest(s, i)) = Len(s) - i
          /\ \A x \in 1..(Len(s) - i) : Rest(s, i)[x] = s[x + i]
      BY ONLY <3>1, RestIs
    <3>. QED BY <3>2 DEF s
  <2>. HIDE DEF v
  <2>. QED BY <1>2, <2>1
<1>. HIDE DEF v, k
<1>4. fcache_list_empty(l, p) <=> i = k
  <2>1. fcache_list_empty(l, p) <=> Len(v[p]) = 0 BY <1>1, ListsFacts
  <2>. QED BY <1>1, <1>3, <2>1
<1>5. CASE i = k
  <2>1. e = d BY <1>4, <1>5 DEF DrainStep
  <2>. QED BY <1>5, <2>1 DEF k
<1>6. CASE i # k
  <2>. DEFINE u == fcache_list_pop(l, p)
  <2>1. Len(v[p]) # 0 /\ i + 1 \in 0..k /\ 1 \in 1..(k - i) BY <1>1, <1>3, <1>6
  <2>2. l.head[p] = n /\ Removed(l, v, p, 1, u) BY <1>1, <2>1, PopLinks
  <2>3. e = [obj_free(d, d.data[n]) EXCEPT !.list = fcache_list_pop(@, p)]
    BY <1>4, <1>6, <2>2 DEF DrainStep
  <2>4. u \in Mem /\ Lists(u, [v EXCEPT ![p] = Without(@, 1)]) BY <2>2 DEF Removed, Lists
  <2>5. e \in CacheT /\ e.list = u /\ e.data = d.data /\ e.held = d.held \ {d.data[n]}
    BY <1>1, <2>3, <2>4, FreePop, SMTT(30)
  <2>6. n = w[p][i + 1]
    <3>1. 1 + i = i + 1 BY <1>1
    <3>. QED BY <1>3, <2>1, <3>1
  <2>. HIDE DEF e, u, n
  <2>7. [v EXCEPT ![p] = Without(@, 1)] = [w EXCEPT ![p] = Rest(@, i + 1)]
    <3>1. Without(Rest(w[p], i), 1) = Rest(w[p], i + 1) BY <1>1, <1>2, <1>6, RestNext DEF k
    <3>. QED BY <1>2, <3>1 DEF v
  <2>8. e.held = c.held \ {c.data[w[p][x]] : x \in 1..(i + 1)}
    <3>1. 1..(i + 1) = (1..i) \cup {i + 1} BY <1>1
    <3>2. e.held = (c.held \ {c.data[w[p][x]] : x \in 1..i}) \ {c.data[w[p][i + 1]]}
      BY <1>1, <2>5, <2>6
    <3>. QED BY <3>1, <3>2
  <2>9. Draining(c, w, p, i + 1, e) BY <1>1, <2>1, <2>4, <2>5, <2>7, <2>8 DEF Draining, k
  <2>. QED BY <1>6, <2>9 DEF e, k
<1>. QED BY <1>5, <1>6

\* _fcache_destroy_list.
LEMMA DrainLinks ==
  ASSUME NEW c \in CacheT, NEW w, Lists(c.list, w), NEW p \in List
  PROVE  Draining(c, w, p, Len(w[p]), _fcache_destroy_list(c, p))
<1>. DEFINE N == Cardinality(Node)
            k == Len(w[p])
            S == {d \in CacheT : \E i : Draining(c, w, p, i, d)}
            Eq(g) == g = [x \in 0..N |-> IF x = 0 THEN c ELSE DrainStep(g[x - 1], p)]
            step == [s \in S |-> DrainStep(s, p)]
            F == CHOOSE g : Eq(g)
<1>1. N \in Nat /\ k \in 0..N /\ k \in Nat BY ListLen
<1>2. w \in [List -> Seq(Node)] BY DEF Lists
<1>3. _fcache_destroy_list(c, p) = F[N] BY DEF _fcache_destroy_list, DrainStep
<1>. HIDE DEF N, k
<1>4. Draining(c, w, p, 0, c)
  <2>1. Rest(w[p], 0) = w[p] BY <1>2, RestNext
  <2>2. [w EXCEPT ![p] = Rest(@, 0)] = w BY <1>2, <2>1
  <2>3. c.held = c.held \ {c.data[w[p][x]] : x \in 1..0} OBVIOUS
  <2>. QED BY <1>1, <2>2, <2>3 DEF Draining, k
<1>5. \A s \in S : DrainStep(s, p) \in S
  <2>. SUFFICES ASSUME NEW s \in S PROVE DrainStep(s, p) \in S OBVIOUS
  <2>1. PICK i : Draining(c, w, p, i, s) OBVIOUS
  <2>2. DrainStep(s, p) = s \/ Draining(c, w, p, i + 1, DrainStep(s, p))
    BY <1>2, <2>1, DrainStepIs
  <2>3. ASSUME Draining(c, w, p, i + 1, DrainStep(s, p)) PROVE DrainStep(s, p) \in S
    BY <2>3 DEF Draining
  <2>. QED BY <2>2, <2>3
<1>6. c \in S BY <1>4
<1>. HIDE DEF S
<1>7. step \in [S -> S] /\ \A s \in S : step[s] = DrainStep(s, p) BY <1>5
<1>. HIDE DEF step
<1>8. PICK f : Repeated(S, step, c, N, f) BY <1>1, <1>6, <1>7, Iterates
<1>9. Eq(f)
  <2>1. ASSUME NEW x \in 0..N PROVE f[x] = IF x = 0 THEN c ELSE DrainStep(f[x - 1], p)
    <3>1. CASE x = 0 BY <1>8, <3>1 DEF Repeated
    <3>2. CASE x # 0
       <4>1. x \in 1..N /\ x - 1 \in 0..N BY <1>1, <3>2
       <4>2. f[x - 1] \in S BY <1>8, <4>1 DEF Repeated
       <4>. QED BY <1>7, <1>8, <3>2, <4>1, <4>2 DEF Repeated
    <3>. QED BY <3>1, <3>2
  <2>. QED BY <1>8, <2>1 DEF Repeated
<1>10. Eq(F) BY <1>9
<1>11. F = [x \in 0..N |-> IF x = 0 THEN c ELSE DrainStep(F[x - 1], p)] BY <1>10
<1>. HIDE DEF F
<1>. DEFINE P(x, i) == Draining(c, w, p, i, F[x]) /\ (i = k \/ i >= x)
            T == {x \in Nat : x <= N => \E i : P(x, i)}
<1>12. 0 \in T
  <2>1. F[0] = c BY <1>1, <1>11
  <2>2. P(0, 0) BY <1>4, <2>1
  <2>. QED BY <2>2
<1>13. ASSUME NEW x \in Nat, x \in T PROVE x + 1 \in T
  <2>1. CASE x + 1 <= N
    <3>1. x \in 0..N /\ x + 1 \in 0..N /\ (x + 1) - 1 = x /\ x + 1 # 0 /\ x <= N BY <1>1, <2>1
    <3>2. F[x + 1] = DrainStep(F[x], p) BY <1>11, <3>1
    <3>3. PICK i : P(x, i) BY <1>13, <3>1
    <3>4. i \in Nat BY <1>1, <3>3 DEF Draining, k
    <3>5. \/ i = k /\ F[x + 1] = F[x]
          \/ i # k /\ Draining(c, w, p, i + 1, F[x + 1])
      BY <1>2, <3>2, <3>3, DrainStepIs DEF k
    <3>6. CASE i = k /\ F[x + 1] = F[x]
      <4>1. P(x + 1, i) BY <3>3, <3>6
      <4>. QED BY <4>1
    <3>7. CASE i # k /\ Draining(c, w, p, i + 1, F[x + 1])
      <4>1. P(x + 1, i + 1) BY <3>3, <3>4, <3>7
      <4>. QED BY <4>1
    <3>. QED BY <3>5, <3>6, <3>7
  <2>. QED BY <2>1
<1>. HIDE DEF T
<1>14. N \in T BY <1>1, <1>12, <1>13, Climb
<1>15. PICK i : P(N, i) BY <1>1, <1>14 DEF T
<1>16. i \in 0..k BY <1>15 DEF Draining, k
<1>17. i = k BY <1>1, <1>15, <1>16
<1>. QED BY <1>3, <1>15, <1>17 DEF k

-----------------------------------------------------------------------------
(* The walk along next.                                                    *)

\* The first x elements of s, or all.
Take(s, x) == [i \in 1..(IF x <= Len(s) THEN x ELSE Len(s)) |-> s[i]]

\* What it is.
LEMMA TakeIs ==
  ASSUME NEW X, NEW s \in Seq(X), NEW x \in Nat
  PROVE  /\ Take(s, x) \in Seq(X) /\ Len(s) \in Nat
         /\ x <= Len(s) => Len(Take(s, x)) = x /\ \A i \in 1..x : Take(s, x)[i] = s[i]
         /\ x >= Len(s) => Take(s, x) = s
<1>. DEFINE k == Len(s)
            m == IF x <= k THEN x ELSE k
            t == Take(s, x)
<1>1. k \in Nat /\ (\A i \in 1..k : s[i] \in X) BY LenProperties
<1>2. t = [i \in 1..m |-> s[i]] BY DEF Take
<1>. HIDE DEF k, t
<1>3. m \in Nat /\ \A i \in 1..m : i \in 1..k BY <1>1
<1>. HIDE DEF m
<1>4. t \in [1..m -> X] BY <1>1, <1>2, <1>3
<1>5. t \in Seq(X) BY <1>3, <1>4, SeqDef
<1>6. Len(t) = m
  <2>1. Len(t) \in Nat /\ DOMAIN t = 1..Len(t) BY <1>5, LenProperties
  <2>2. 1..Len(t) = 1..m BY <1>4, <2>1
  <2>. QED BY <1>3, <2>1, <2>2, SameInterval, Zenon
<1>7. \A i \in 1..m : t[i] = s[i] BY <1>2
<1>8. ASSUME x >= k PROVE t = s
  <2>1. m = k BY <1>1, <1>8 DEF m
  <2>. QED BY <1>5, <1>6, <1>7, <2>1, SeqEqual DEF k
<1>9. x <= k => m = x BY DEF m
<1>. QED BY <1>1, <1>5, <1>6, <1>7, <1>8, <1>9 DEF k, t

WalkStep(l, p, x, w) ==
  LET n == IF w = <<>> THEN l.head[p] ELSE l.next[Last(w)]
  IN  IF Len(w) < x - 1 \/ n = Null THEN w ELSE Append(w, n)

\* A step of the walk along list p.
LEMMA WalkStepIs ==
  ASSUME NEW l, NEW w, Lists(l, w), NEW p \in List, NEW x \in Nat \ {0}
  PROVE  WalkStep(l, p, x, Take(w[p], x - 1)) = Take(w[p], x)
<1>. DEFINE s == w[p]
            k == Len(s)
            t == Take(s, x - 1)
            n == IF t = <<>> THEN l.head[p] ELSE l.next[Last(t)]
<1>1. /\ s \in Seq(Node) /\ k \in Nat
      /\ \A i \in 1..k : s[i] \in Node
      /\ Chained(s, l.head[p], l.tail[p], l.next, l.prev)
  BY ListsFacts
<1>2. /\ l.head[p] = IF k = 0 THEN Null ELSE s[1]
      /\ \A i \in 1..k : l.next[s[i]] = IF i = k THEN Null ELSE s[i + 1]
  BY <1>1 DEF Chained
<1>3. x - 1 \in Nat OBVIOUS
<1>4. /\ t \in Seq(Node)
      /\ x - 1 <= k => Len(t) = x - 1 /\ \A i \in 1..(x - 1) : t[i] = s[i]
      /\ x - 1 >= k => t = s
  BY <1>1, <1>3, TakeIs, ZenonT(30)
<1>5. t = <<>> <=> Len(t) = 0 BY <1>4, EmptySeq
<1>6. Last(t) = t[Len(t)] BY DEF Last
<1>7. WalkStep(l, p, x, t) = IF Len(t) < x - 1 \/ n = Null THEN t ELSE Append(t, n)
  BY DEF WalkStep
<1>. HIDE DEF s, k, t
<1>8. CASE x <= k
  <2>1. x - 1 <= k /\ x \in 1..k /\ x \in Nat BY <1>1, <1>8
  <2>2. Len(t) = x - 1 /\ \A i \in 1..(x - 1) : t[i] = s[i] BY <1>4, <2>1
  <2>3. n = s[x]
    <3>1. CASE x = 1 BY <1>1, <1>2, <1>5, <2>1, <2>2, <3>1
    <3>2. CASE x # 1
      <4>1. x - 1 \in 1..(x - 1) /\ x - 1 \in 1..k /\ x - 1 # k /\ x - 1 # 0 /\ (x - 1) + 1 = x
        BY <1>1, <2>1, <3>2
      <4>2. t # <<>> /\ Last(t) = s[x - 1] BY <1>5, <1>6, <2>2, <4>1
      <4>3. l.next[s[x - 1]] = s[x] BY <1>2, <4>1
      <4>. QED BY <4>2, <4>3
    <3>. QED BY <3>1, <3>2
  <2>4. n \in Node /\ n # Null BY <1>1, <2>1, <2>3, Consts
  <2>. HIDE DEF n
  <2>5. WalkStep(l, p, x, t) = Append(t, n) BY <1>7, <2>2, <2>4
  <2>. DEFINE a == Append(t, n)
              b == Take(s, x)
  <2>6. a \in Seq(Node) /\ Len(a) = x /\ (\A i \in 1..(x - 1) : a[i] = t[i]) /\ a[x] = n
    <3>1. /\ a \in Seq(Node) /\ Len(a) = Len(t) + 1
          /\ (\A i \in 1..Len(t) : a[i] = t[i]) /\ a[Len(t) + 1] = n
      BY <1>4, <2>4, AppendIs
    <3>2. Len(t) + 1 = x BY <2>1, <2>2
    <3>. HIDE DEF a
    <3>. QED BY <2>2, <3>1, <3>2
  <2>7. b \in Seq(Node) /\ Len(b) = x /\ \A i \in 1..x : b[i] = s[i]
    BY <1>1, <1>8, <2>1, TakeIs DEF k
  <2>. HIDE DEF a, b
  <2>8. ASSUME NEW i \in 1..x PROVE a[i] = b[i]
    <3>1. CASE i = x BY <2>3, <2>6, <2>7, <3>1
    <3>2. CASE i # x
      <4>1. i \in 1..(x - 1) BY <2>1, <3>2
      <4>. QED BY <2>2, <2>6, <2>7, <4>1
    <3>. QED BY <3>1, <3>2
  <2>9. a = b BY <2>6, <2>7, <2>8, SeqEqual
  <2>. QED BY <2>5, <2>9 DEF a, b, s, t
<1>9. CASE x > k
  <2>1. x - 1 >= k /\ x >= k /\ x \in Nat BY <1>1, <1>9
  <2>2. t = s /\ Take(s, x) = s BY <1>1, <1>4, <2>1, TakeIs DEF k
  <2>3. CASE x - 1 > k
    <3>1. Len(t) < x - 1 BY <2>2, <2>3 DEF k
    <3>. QED BY <1>7, <2>2, <3>1 DEF s, t
  <2>4. CASE x - 1 = k
    <3>1. n = Null
      <4>1. CASE k = 0 BY <1>2, <1>5, <2>2, <4>1 DEF k
      <4>2. CASE k # 0
        <5>1. k \in 1..k BY <1>1, <4>2
        <5>2. t # <<>> /\ Last(t) = s[k] BY <1>5, <1>6, <2>2, <4>2 DEF k
        <5>. QED BY <1>2, <5>1, <5>2
      <4>. QED BY <4>1, <4>2
    <3>. QED BY <1>7, <2>2, <3>1 DEF s, t
  <2>. QED BY <1>1, <2>1, <2>3, <2>4
<1>. QED BY <1>1, <1>8, <1>9

\* The walk along next finds the list.
LEMMA ChainIs ==
  ASSUME NEW l, NEW w, Lists(l, w), NEW p \in List
  PROVE  ChainOf(l, p) = w[p]
<1>. DEFINE N == Cardinality(Node)
            s == w[p]
            Eq(g) == g = [x \in 0..N |-> IF x = 0 THEN <<>> ELSE WalkStep(l, p, x, g[x - 1])]
            F == CHOOSE g : Eq(g)
            G == [x \in 0..N |-> Take(s, x)]
<1>1. N \in Nat /\ Len(s) \in 0..N BY ListLen
<1>2. s \in Seq(Node) BY DEF Lists
<1>3. ChainOf(l, p) = F[N] BY DEF ChainOf, WalkStep
<1>4. Take(s, 0) = <<>>
  <2>1. 0 \in Nat /\ Len(s) \in Nat /\ 0 <= Len(s) BY <1>2, LenProperties
  <2>2. Take(s, 0) \in Seq(Node) /\ Len(Take(s, 0)) = 0 BY <1>2, <2>1, TakeIs, ZenonT(30)
  <2>. QED BY <2>2, EmptySeq
<1>. HIDE DEF N, s
<1>5. Eq(G)
  <2>1. ASSUME NEW x \in 0..N
        PROVE  Take(s, x) = IF x = 0 THEN <<>> ELSE WalkStep(l, p, x, G[x - 1])
    <3>1. CASE x = 0 BY <1>4, <3>1
    <3>2. CASE x # 0
      <4>1. x \in Nat \ {0} /\ x - 1 \in 0..N BY <1>1, <3>2
      <4>2. WalkStep(l, p, x, Take(s, x - 1)) = Take(s, x) BY <4>1, WalkStepIs DEF s
      <4>. QED BY <3>2, <4>1, <4>2
    <3>. QED BY <3>1, <3>2
  <2>. QED BY <2>1
<1>6. Eq(F)
  <2>. HIDE DEF G, Eq
  <2>. QED BY <1>5
<1>7. F = [x \in 0..N |-> IF x = 0 THEN <<>> ELSE WalkStep(l, p, x, F[x - 1])] BY <1>6
<1>. HIDE DEF F, G, Eq
<1>. DEFINE T == {x \in Nat : x <= N => F[x] = Take(s, x)}
<1>8. 0 \in T BY <1>1, <1>4, <1>7
<1>9. ASSUME NEW x \in Nat, x \in T PROVE x + 1 \in T
  <2>1. CASE x + 1 <= N
    <3>1. /\ x \in 0..N /\ x + 1 \in 0..N /\ (x + 1) - 1 = x /\ x + 1 # 0 /\ x <= N
          /\ x + 1 \in Nat \ {0}
      BY <1>1, <2>1
    <3>2. F[x + 1] = WalkStep(l, p, x + 1, F[x]) BY <1>7, <3>1
    <3>3. F[x] = Take(s, x) BY <1>9, <3>1
    <3>4. WalkStep(l, p, x + 1, Take(s, x)) = Take(s, x + 1) BY <3>1, WalkStepIs DEF s
    <3>. QED BY <3>2, <3>3, <3>4
  <2>. QED BY <2>1
<1>. HIDE DEF T
<1>10. N \in T BY <1>1, <1>8, <1>9, Climb
<1>11. F[N] = Take(s, N) BY <1>1, <1>10 DEF T
<1>12. Take(s, N) = s BY <1>1, <1>2, TakeIs
<1>. QED BY <1>3, <1>11, <1>12 DEF s

-----------------------------------------------------------------------------
(* Adding and updating.                                                    *)

\* What _fcache_add_node leaves: the node is the newest of the inactive list.
Added(c, w, k, size, r) ==
  /\ Cache(r, [w EXCEPT ![Inactive] = Append(@, k)])
  /\ Fits(c.list) /\ Both(c.list) + size <= max_size => /\ Fits(r.list)
                                                        /\ Both(r.list) = Both(c.list) + size

\* The values held after one has been added.
LEMMA AddHeld ==
  ASSUME NEW c, NEW w, Cache(c, w), NEW k \in Node, k \notin c.index,
         NEW v \in Value \cup {Null}, v \notin c.held, NEW dt, dt = [c.data EXCEPT ![k] = v]
  PROVE  Holds(c.index \cup {k}, dt, c.held \cup ({v} \ {Null}))
<1>1. /\ c.data \in [Node -> Value \cup {Null}] /\ c.index \subseteq Node
      /\ c.held = {c.data[j] : j \in c.index} \ {Null}
      /\ \A i, j \in c.index : c.data[i] = c.data[j] /\ i # j => c.data[j] = Null
  BY CacheIs DEF Cache, Holds
<1>2. (\A j \in c.index : dt[j] = c.data[j]) /\ dt[k] = v BY <1>1
<1>3. \A j \in c.index : dt[j] = v => v = Null BY <1>1, <1>2
<1>4. c.held \cup ({v} \ {Null}) = {dt[j] : j \in c.index \cup {k}} \ {Null} BY <1>1, <1>2
<1>5. ASSUME NEW i \in c.index \cup {k}, NEW j \in c.index \cup {k}, dt[i] = dt[j], i # j
      PROVE  dt[j] = Null
  BY <1>1, <1>2, <1>3, <1>5
<1>. QED BY <1>4, <1>5 DEF Holds

\* So it does.
LEMMA AddNode ==
  ASSUME NEW c, NEW w, Cache(c, w), NEW k \in Node, k \notin c.index,
         NEW v \in Value \cup {Null}, v \notin c.held, NEW size \in SizeT
  PROVE  Added(c, w, k, size, _fcache_add_node(c, k, v, size))
<1>. DEFINE r == _fcache_add_node(c, k, v, size)
            l == c.list
            m == fcache_list_make_node(l, k)
            x == fcache_list_push(m, Inactive, k, size)
            u == [w EXCEPT ![Inactive] = Append(@, k)]
            dt == [c.data EXCEPT ![k] = v]
            h == c.held \cup ({v} \ {Null})
<1>1. Lists(l, w) /\ c.index = Listed(l) /\ c \in CacheT BY DEF Cache
<1>2. l \in Mem BY <1>1 DEF Lists
<1>3. l.owner \in [Node -> List \cup {Null}] /\ l.total \in [List -> SizeT]
      /\ \A p \in List : l.total[p] \in Nat
  BY <1>2, OwnSums
<1>4. l.owner[k] = Null BY <1>1 DEF Listed
<1>5. /\ r.list = x /\ r.index = c.index \cup {k} /\ r.data = dt /\ r.held = h
      /\ r = [list |-> x, index |-> c.index \cup {k}, data |-> dt, held |-> h]
  BY DEF _fcache_add_node
<1>6. Cleared(l, w, k, m) BY <1>1, <1>4, MakeLinks
<1>. HIDE DEF l, m, dt, h
<1>7. Lists(m, w) /\ m.owner = l.owner /\ m.total = l.total BY <1>6 DEF Cleared
<1>8. Put(m, w, Inactive, k, size, x) BY <1>4, <1>7, Consts, PushLinks
<1>. HIDE DEF x, r
<1>9. Lists(x, u) /\ x.owner = [l.owner EXCEPT ![k] = Inactive] BY <1>7, <1>8 DEF Put
<1>10. Listed(x) = c.index \cup {k} BY <1>1, <1>3, <1>9, Consts DEF Listed
<1>11. Holds(c.index \cup {k}, dt, h) BY AddHeld DEF dt, h
<1>12. r \in CacheT
  <2>1. c.index \in SUBSET Node /\ c.data \in [Node -> Value \cup {Null}] /\ c.held \in SUBSET Value
    BY <1>1, CacheIs
  <2>2. x \in Mem BY <1>9 DEF Lists
  <2>3. c.index \cup {k} \in SUBSET Node /\ h \in SUBSET Value BY <2>1 DEF h
  <2>4. dt \in [Node -> Value \cup {Null}] BY <2>1 DEF dt
  <2>. QED BY <1>5, <2>2, <2>3, <2>4 DEF CacheT
<1>13. Cache(r, u) BY <1>5, <1>9, <1>10, <1>11, <1>12 DEF Cache
<1>14. ASSUME Fits(l), Both(l) + size <= max_size
       PROVE  Fits(x) /\ Both(x) = Both(l) + size
  <2>1. Fits(m) /\ Both(m) = Both(l) BY <1>1, <1>4, <1>6, <1>14, ClearedFits
  <2>2. m.total[Inactive] + size < SizeMod BY <1>3, <1>7, <1>14, Consts DEF Both
  <2>3. Fits(x) /\ Both(x) = Both(m) + size BY <1>4, <1>7, <1>8, <2>1, <2>2, Consts, PutFits
  <2>. QED BY <2>1, <2>3
<1>. QED BY <1>5, <1>13, <1>14 DEF Added, r, l

\* What _fcache_update_node leaves.
Renewed(c, w, k, size, r) ==
  /\ Cache(r, w) /\ r.list.owner = c.list.owner /\ r.list.dsize = c.list.dsize
  /\ size = c.list.dsize[k] => r.list.total = c.list.total

\* The values held after one has been replaced.
LEMMA UpdateHeld ==
  ASSUME NEW c, NEW w, Cache(c, w), NEW k \in c.index,
         NEW v \in Value, v \in c.held => c.data[k] = v, NEW dt, dt = [c.data EXCEPT ![k] = v],
         NEW h, h = IF c.data[k] # v THEN c.held \ {c.data[k]} ELSE c.held
  PROVE  Holds(c.index, dt, h \cup {v})
<1>1. /\ c.data \in [Node -> Value \cup {Null}] /\ c.index \subseteq Node
      /\ c.held = {c.data[j] : j \in c.index} \ {Null}
      /\ \A i, j \in c.index : c.data[i] = c.data[j] /\ i # j => c.data[j] = Null
  BY CacheIs DEF Cache, Holds
<1>2. (\A j \in c.index : j # k => dt[j] = c.data[j]) /\ dt[k] = v /\ v # Null
  BY <1>1, FcacheAssumption
<1>3. \A j \in c.index : j # k => c.data[j] # v BY <1>1, <1>2
<1>4. ASSUME NEW i \in c.index, NEW j \in c.index, dt[i] = dt[j], i # j
      PROVE  dt[j] = Null
  BY <1>1, <1>2, <1>3, <1>4
<1>5. \A y : y \in h \cup {v} <=> (\E j \in c.index : y = dt[j]) /\ y # Null
  <2>. SUFFICES ASSUME NEW y PROVE y \in h \cup {v} <=> (\E j \in c.index : y = dt[j]) /\ y # Null
    OBVIOUS
  <2>1. CASE y = v BY <1>2, <2>1
  <2>2. CASE y # v
    <3>1. y \in h <=> y \in c.held /\ y # c.data[k] BY <2>2
    <3>2. y \in c.held <=> (\E j \in c.index : y = c.data[j]) /\ y # Null BY <1>1
    <3>3. ASSUME y \in c.held, y # c.data[k] PROVE \E j \in c.index : y = dt[j]
      <4>1. PICK j \in c.index : y = c.data[j] BY <3>2, <3>3
      <4>2. j # k BY <3>3, <4>1
      <4>. QED BY <1>2, <4>1, <4>2
    <3>4. ASSUME NEW j \in c.index, y = dt[j], y # Null PROVE y \in c.held /\ y # c.data[k]
      <4>1. j # k BY <1>2, <2>2, <3>4
      <4>2. y = c.data[j] BY <1>2, <3>4, <4>1
      <4>. QED BY <1>1, <3>2, <3>4, <4>1, <4>2
    <3>. QED BY <2>2, <3>1, <3>2, <3>3, <3>4
  <2>. QED BY <2>1, <2>2
<1>6. h \cup {v} = {dt[j] : j \in c.index} \ {Null} BY <1>5
<1>. QED BY <1>4, <1>6 DEF Holds

\* So it does.
LEMMA UpdateNode ==
  ASSUME NEW c, NEW w, Cache(c, w), NEW k \in c.index,
         NEW v \in Value, v \in c.held => c.data[k] = v, NEW size \in SizeT
  PROVE  Renewed(c, w, k, size, _fcache_update_node(c, k, v, size))
<1>. DEFINE r == _fcache_update_node(c, k, v, size)
            l == c.list
            x == fcache_list_update_node(l, k, size)
            dt == [c.data EXCEPT ![k] = v]
            h == IF c.data[k] # v THEN c.held \ {c.data[k]} ELSE c.held
<1>1. Lists(l, w) /\ c.index = Listed(l) /\ c \in CacheT BY DEF Cache
<1>2. l \in Mem BY <1>1 DEF Lists
<1>3. l.owner \in [Node -> List \cup {Null}] BY <1>2, OwnSums
<1>4. k \in Node /\ l.owner[k] \in List BY <1>1, <1>3 DEF Listed
<1>5. Resized(l, w, k, size, x) BY <1>1, <1>4, UpdateLinks
<1>0. DOMAIN c = CacheFields BY <1>1, CacheIs DEF IsCache
<1>6. PICK f : /\ DOMAIN f = CacheFields /\ f.list = c.list /\ f.index = c.index
               /\ f.data = c.data /\ f.held = h
               /\ r = [f EXCEPT !.data[k] = v, !.held = @ \cup {v},
                                !.list = fcache_list_update_node(@, k, size)]
  <2>. DEFINE f == IF c.data[k] # v THEN obj_free(c, c.data[k]) ELSE c
  <2>1. DOMAIN f = CacheFields /\ f.list = c.list /\ f.index = c.index
        /\ f.data = c.data /\ f.held = h
    <3>1. CASE c.data[k] # v BY <1>0, <3>1 DEF obj_free, CacheFields
    <3>2. CASE c.data[k] = v BY <1>0, <3>2
    <3>. QED BY <3>1, <3>2
  <2>2. r = [f EXCEPT !.data[k] = v, !.held = @ \cup {v},
                      !.list = fcache_list_update_node(@, k, size)]
    BY Zenon DEF _fcache_update_node
  <2>. HIDE DEF f, r, h
  <2>. QED BY <2>1, <2>2, Zenon
<1>. HIDE DEF r, h
<1>7. r = [f EXCEPT !.data[k] = v, !.held = h \cup {v}, !.list = x]
  BY ONLY <1>6, Zenon DEF x, l
<1>. HIDE DEF x
<1>8. DOMAIN r = DOMAIN f /\ r = [y \in DOMAIN f |-> r[y]] BY ONLY <1>7
<1>9. r.list = x /\ r.index = c.index /\ r.data = dt /\ r.held = h \cup {v}
  BY <1>6, <1>7 DEF CacheFields
<1>. HIDE DEF dt, l
<1>10. Lists(x, w) /\ x.owner = l.owner /\ x.dsize = l.dsize
       /\ (size = l.dsize[k] => x.total = l.total)
  BY <1>5 DEF Resized
<1>11. Holds(c.index, dt, h \cup {v}) BY UpdateHeld DEF dt, h
<1>12. r \in CacheT
  <2>1. c.index \in SUBSET Node /\ c.data \in [Node -> Value \cup {Null}] /\ c.held \in SUBSET Value
    BY <1>1, CacheIs
  <2>2. x \in Mem BY <1>10 DEF Lists
  <2>3. h \cup {v} \in SUBSET Value BY <2>1 DEF h
  <2>4. dt \in [Node -> Value \cup {Null}] BY <2>1 DEF dt
  <2>5. IsCache(r) BY <1>6, <1>8, Zenon DEF IsCache
  <2>. QED BY <1>9, <2>1, <2>2, <2>3, <2>4, <2>5, CacheIs
<1>13. Listed(x) = Listed(l) BY <1>10 DEF Listed
<1>14. Cache(r, w) BY <1>1, <1>9, <1>10, <1>11, <1>12, <1>13 DEF Cache
<1>. QED BY <1>9, <1>10, <1>14 DEF Renewed, r, l

-----------------------------------------------------------------------------
(* The order in which nodes are dropped.                                   *)

\* s is what is left of t when its first elements have gone.
End(s, t) == \E i \in 0..Len(t) : s = Rest(t, i)

Injective(s) == \A i, j \in 1..Len(s) : s[i] = s[j] => i = j

\* RemoveAt leaves the others.
LEMMA RemoveAtIs ==
  ASSUME NEW X, NEW s \in Seq(X), NEW j \in 1..Len(s)
  PROVE  RemoveAt(s, j) = Without(s, j)
<1>. DEFINE n == Len(s)
            a == SubSeq(s, 1, j - 1)
            b == SubSeq(s, j + 1, n)
            v == Without(s, j)
            y == a \o b
<1>1. n \in Nat /\ \A i \in 1..n : s[i] \in X BY LenProperties
<1>2. j \in 1..n OBVIOUS
<1>3. /\ v \in Seq(X) /\ Len(v) = n - 1
      /\ \A i \in 1..(n - 1) : (i < j => v[i] = s[i]) /\ (i >= j => v[i] = s[i + 1])
  BY WithoutIs
<1>. HIDE DEF n, v
<1>4. a \in Seq(X) /\ Len(a) = j - 1 /\ \A i \in 1..(j - 1) : a[i] = s[i]
  <2>1. 1 \in Int /\ j - 1 \in Int /\ \A i \in 1..(j - 1) : s[i] \in X BY <1>1, <1>2
  <2>2. /\ a \in Seq(X) /\ Len(a) = IF 1 <= j - 1 THEN (j - 1) - 1 + 1 ELSE 0
        /\ \A i \in 1..((j - 1) - 1 + 1) : a[i] = s[1 + i - 1]
    BY <2>1, SubSeqProperties
  <2>3. (j - 1) - 1 + 1 = j - 1 /\ \A i \in 1..(j - 1) : 1 + i - 1 = i BY <1>1, <1>2
  <2>. HIDE DEF a
  <2>4. Len(a) = j - 1 BY <1>1, <1>2, <2>2
  <2>. QED BY <2>2, <2>3, <2>4
<1>5. b \in Seq(X) /\ Len(b) = n - j /\ \A i \in 1..(n - j) : b[i] = s[j + i]
  <2>1. j + 1 \in Int /\ n \in Int /\ \A i \in (j + 1)..n : s[i] \in X BY <1>1, <1>2
  <2>2. /\ b \in Seq(X) /\ Len(b) = IF j + 1 <= n THEN n - (j + 1) + 1 ELSE 0
        /\ \A i \in 1..(n - (j + 1) + 1) : b[i] = s[(j + 1) + i - 1]
    BY <2>1, SubSeqProperties
  <2>3. n - (j + 1) + 1 = n - j /\ \A i \in 1..(n - j) : (j + 1) + i - 1 = j + i BY <1>1, <1>2
  <2>. HIDE DEF b
  <2>4. Len(b) = n - j BY <1>1, <1>2, <2>2
  <2>. QED BY <2>2, <2>3, <2>4
<1>6. RemoveAt(s, j) = y BY DEF RemoveAt, n
<1>. HIDE DEF a, b
<1>7. /\ y \in Seq(X) /\ Len(y) = Len(a) + Len(b)
      /\ \A i \in 1..Len(a) : y[i] = a[i]
      /\ \A i \in 1..Len(b) : y[Len(a) + i] = b[i]
  <2>1. Joined(X, a, b, y) BY <1>4, <1>5, CatIs
  <2>. QED BY <2>1 DEF Joined
<1>. HIDE DEF y
<1>8. Len(y) = n - 1 BY <1>1, <1>2, <1>4, <1>5, <1>7
<1>9. ASSUME NEW i \in 1..(n - 1) PROVE y[i] = v[i]
  <2>1. CASE i < j
    <3>1. i \in 1..(j - 1) BY <1>1, <1>2, <2>1
    <3>. QED BY <1>3, <1>4, <1>7, <2>1, <3>1
  <2>2. CASE i >= j
    <3>. DEFINE x == i - (j - 1)
    <3>1. x \in 1..(n - j) /\ (j - 1) + x = i /\ j + x = i + 1 BY <1>1, <1>2, <2>2
    <3>. HIDE DEF x
    <3>2. y[i] = b[x] BY <1>4, <1>5, <1>7, <3>1
    <3>. QED BY <1>3, <1>5, <2>2, <3>1, <3>2, ZenonT(30)
  <2>. QED BY <1>1, <1>2, <2>1, <2>2
<1>10. y = v BY <1>3, <1>7, <1>8, <1>9, SeqEqual
<1>. QED BY <1>6, <1>10 DEF v

\* A sequence without the key k.
LEMMA OthersIs ==
  ASSUME NEW s \in Seq(Node), Injective(s), NEW k
  PROVE  /\ \A j \in 1..Len(s) : s[j] = k => Others(s, k) = Without(s, j)
         /\ (\A j \in 1..Len(s) : s[j] # k) => Others(s, k) = s
<1>. DEFINE at == {x \in DOMAIN s : s[x] = k}
<1>1. DOMAIN s = 1..Len(s) BY LenProperties
<1>2. Others(s, k) = IF at = {} THEN s ELSE RemoveAt(s, CHOOSE x \in at : TRUE) BY DEF Others
<1>3. ASSUME NEW j \in 1..Len(s), s[j] = k PROVE Others(s, k) = Without(s, j)
  <2>1. at = {j} BY <1>1, <1>3 DEF Injective
  <2>2. (CHOOSE x \in at : TRUE) = j /\ at # {} BY <2>1
  <2>. HIDE DEF at
  <2>3. Others(s, k) = RemoveAt(s, j) BY <1>2, <2>2
  <2>. QED BY <1>3, <2>3, RemoveAtIs
<1>4. ASSUME \A j \in 1..Len(s) : s[j] # k PROVE Others(s, k) = s
  <2>1. at = {} BY <1>1, <1>4
  <2>. QED BY <1>2, <2>1
<1>. QED BY <1>3, <1>4

\* Leaving out some and then some more.
LEMMA EndEnd ==
  ASSUME NEW s, NEW t, NEW u \in Seq(Node), End(t, u), End(s, t)
  PROVE  End(s, u)
<1>1. PICK i \in 0..Len(u) : t = Rest(u, i) BY DEF End
<1>2. PICK j \in 0..Len(t) : s = Rest(t, j) BY DEF End
<1>. DEFINE n == Len(u)
            r == Rest(u, i + j)
<1>3. /\ t \in Seq(Node) /\ n \in Nat /\ Len(t) = n - i
      /\ \A x \in 1..(n - i) : t[x] = u[x + i]
  BY <1>1, RestIs
<1>4. /\ s \in Seq(Node) /\ Len(s) = (n - i) - j /\ \A x \in 1..((n - i) - j) : s[x] = t[x + j]
  BY <1>2, <1>3, RestIs, ZenonT(30)
<1>5. i + j \in 0..n BY <1>1, <1>2, <1>3
<1>6. r \in Seq(Node) /\ Len(r) = n - (i + j) /\ \A x \in 1..(n - (i + j)) : r[x] = u[x + (i + j)]
  BY <1>5, RestIs
<1>. HIDE DEF n, r
<1>7. ASSUME NEW x \in 1..Len(s) PROVE s[x] = r[x]
  <2>1. /\ x \in 1..((n - i) - j) /\ x \in 1..(n - (i + j)) /\ x + j \in 1..(n - i)
        /\ (x + j) + i = x + (i + j)
    BY <1>1, <1>2, <1>3, <1>4, <1>5
  <2>. QED BY <1>3, <1>4, <1>6, <2>1
<1>8. Len(s) = Len(r)
  <2>1. i \in Nat /\ j \in Nat BY <1>1, <1>2, <1>3
  <2>2. (n - i) - j = n - (i + j) BY <1>3, <2>1
  <2>. QED BY <1>4, <1>6, <2>2
<1>9. s = r BY <1>4, <1>6, <1>7, <1>8, SeqEqual
<1>. QED BY <1>5, <1>9 DEF End, r, n

\* In the words of the library, s is a suffix of t.
LEMMA EndIsSuffix ==
  ASSUME NEW s, NEW t \in Seq(Node), End(s, t)
  PROVE  IsSuffix(s, t)
<1>1. PICK i \in 0..Len(t) : s = Rest(t, i) BY DEF End
<1>. DEFINE n == Len(t)
            m == Len(s)
            a == Reverse(s)
            b == Reverse(t)
<1>2. /\ s \in Seq(Node) /\ n \in Nat /\ m = n - i /\ \A x \in 1..(n - i) : s[x] = t[x + i]
  BY <1>1, RestIs
<1>3. \A x \in 1..n : t[x] \in Node BY <1>2, LenProperties
<1>4. a = [x \in 1..m |-> s[(m - x) + 1]] /\ b = [x \in 1..n |-> t[(n - x) + 1]]
  BY DEF Reverse
<1>. HIDE DEF n, m, a, b
<1>5. m \in Nat /\ m <= n /\ i \in 0..n BY <1>1, <1>2 DEF n
<1>6. \A x \in 1..m : a[x] = b[x] /\ x \in 1..n
  <2>. SUFFICES ASSUME NEW x \in 1..m PROVE a[x] = b[x] /\ x \in 1..n OBVIOUS
  <2>1. x \in 1..n /\ (m - x) + 1 \in 1..(n - i) /\ ((m - x) + 1) + i = (n - x) + 1
    BY <1>2, <1>5
  <2>2. s[(m - x) + 1] = t[(n - x) + 1] BY <1>2, <2>1
  <2>. QED BY <1>4, <2>1, <2>2
<1>7. b \in Seq(Node) /\ Len(b) = n
  <2>1. \A x \in 1..n : (n - x) + 1 \in 1..n BY <1>2
  <2>2. b \in [1..n -> Node]
    <3>1. \A x \in 1..n : t[(n - x) + 1] \in Node BY <1>3, <2>1
    <3>2. b = [x \in 1..n |-> t[(n - x) + 1]] BY <1>4
    <3>. QED BY ONLY <3>1, <3>2
  <2>3. b \in Seq(Node) BY <1>2, <2>2, SeqDef
  <2>4. Len(b) \in Nat /\ DOMAIN b = 1..Len(b) BY <2>3, LenProperties
  <2>5. 1..Len(b) = 1..n BY <2>2, <2>4
  <2>. QED BY <1>2, <2>3, <2>4, <2>5, SameInterval, Zenon
<1>8. a \in Seq(Node) /\ Len(a) = m
  <2>1. \A x \in 1..m : b[x] \in Node BY <1>4, <1>6, <1>7, ElementOfSeq
  <2>2. a \in [1..m -> Node] BY <1>4, <1>6, <2>1
  <2>3. a \in Seq(Node) BY <1>5, <2>2, SeqDef
  <2>4. Len(a) \in Nat /\ DOMAIN a = 1..Len(a) BY <2>3, LenProperties
  <2>5. 1..Len(a) = 1..m BY <2>2, <2>4
  <2>. QED BY <1>5, <2>3, <2>4, <2>5, SameInterval, Zenon
<1>9. SubSeq(a, 1, m) = SubSeq(b, 1, m)
  <2>. DEFINE e == SubSeq(a, 1, m)
              f == SubSeq(b, 1, m)
  <2>1. 1 \in Int /\ m \in Int /\ \A x \in 1..m : a[x] \in Node /\ b[x] \in Node
    BY <1>5, <1>6, <1>7, <1>8, ElementOfSeq
  <2>2. m - 1 + 1 = m /\ \A x \in 1..m : 1 + x - 1 = x BY <1>5
  <2>3. /\ e \in Seq(Node) /\ Len(e) = IF 1 <= m THEN m - 1 + 1 ELSE 0
        /\ \A x \in 1..(m - 1 + 1) : e[x] = a[1 + x - 1]
    BY <2>1, SubSeqProperties
  <2>4. /\ f \in Seq(Node) /\ Len(f) = IF 1 <= m THEN m - 1 + 1 ELSE 0
        /\ \A x \in 1..(m - 1 + 1) : f[x] = b[1 + x - 1]
    BY <2>1, SubSeqProperties
  <2>. HIDE DEF e, f
  <2>5. Len(e) = m /\ Len(f) = m BY <1>5, <2>3, <2>4
  <2>6. \A x \in 1..m : e[x] = f[x] BY <1>6, <2>2, <2>3, <2>4
  <2>. QED BY <2>3, <2>4, <2>5, <2>6, SeqEqual DEF e, f
<1>10. Len(a) <= Len(b) BY <1>5, <1>7, <1>8
<1>11. IsPrefix(a, b) BY <1>8, <1>9, <1>10 DEF IsPrefix
<1>. QED BY <1>11 DEF IsSuffix, a, b

\* When the first i are dropped, the others are dropped from the front.
LEMMA RestOthers ==
  ASSUME NEW t \in Seq(Node), Injective(t), NEW i \in 0..Len(t), NEW k
  PROVE  End(Others(Rest(t, i), k), Others(t, k))
<1>. DEFINE n == Len(t)
            r == Rest(t, i)
<1>1. /\ r \in Seq(Node) /\ n \in Nat /\ Len(r) = n - i /\ \A x \in 1..(n - i) : r[x] = t[x + i]
  BY RestIs
<1>2. i \in 0..n OBVIOUS
<1>3. \A x, y \in 1..n : t[x] = t[y] => x = y BY DEF Injective
<1>. HIDE DEF n, r
<1>4. \A x \in 1..(n - i) : x + i \in 1..n BY <1>1, <1>2
<1>5. Injective(r)
  <2>. SUFFICES ASSUME NEW x \in 1..(n - i), NEW y \in 1..(n - i), r[x] = r[y] PROVE x = y
    BY <1>1 DEF Injective
  <2>1. x + i \in 1..n /\ y + i \in 1..n BY <1>4
  <2>2. t[x + i] = t[y + i] BY <1>1
  <2>3. x + i = y + i BY <1>3, <2>1, <2>2
  <2>. QED BY <1>1, <1>2, <2>3
<1>6. CASE \A x \in 1..n : t[x] # k
  <2>1. Others(t, k) = t BY <1>6, OthersIs DEF n
  <2>2. \A x \in 1..Len(r) : r[x] # k BY <1>1, <1>4, <1>6
  <2>3. Others(r, k) = r BY <1>1, <1>5, <2>2, OthersIs
  <2>. QED BY <1>2, <2>1, <2>3 DEF End, r, n
<1>7. ASSUME NEW j \in 1..n, t[j] = k
      PROVE  End(Others(r, k), Others(t, k))
  <2>. DEFINE v == Without(t, j)
  <2>1. Others(t, k) = v BY <1>7, OthersIs DEF n
  <2>2. /\ v \in Seq(Node) /\ Len(v) = n - 1
        /\ \A x \in 1..(n - 1) : (x < j => v[x] = t[x]) /\ (x >= j => v[x] = t[x + 1])
    BY <1>7, WithoutIs DEF n
  <2>. HIDE DEF v
  <2>3. CASE j <= i
    <3>. DEFINE z == Rest(v, i - 1)
    <3>1. i - 1 \in 0..Len(v) BY <1>1, <1>2, <1>7, <2>2, <2>3
    <3>2. /\ z \in Seq(Node) /\ Len(z) = Len(v) - (i - 1)
          /\ \A x \in 1..(Len(v) - (i - 1)) : z[x] = v[x + (i - 1)]
      BY <2>2, <3>1, RestIs, ZenonT(30)
    <3>. HIDE DEF z
    <3>3. \A x \in 1..Len(r) : r[x] # k
      <4>. SUFFICES ASSUME NEW x \in 1..Len(r) PROVE r[x] # k OBVIOUS
      <4>1. x \in 1..(n - i) /\ x + i \in 1..n /\ x + i # j BY <1>1, <1>2, <1>4, <1>7, <2>3
      <4>. QED BY <1>1, <1>3, <1>7, <4>1
    <3>4. Others(r, k) = r BY <1>1, <1>5, <3>3, OthersIs
    <3>5. Len(r) = Len(z) BY <1>1, <1>2, <2>2, <3>2
    <3>6. ASSUME NEW x \in 1..Len(r) PROVE r[x] = z[x]
      <4>1. /\ x \in 1..(n - i) /\ x \in 1..(Len(v) - (i - 1)) /\ x + (i - 1) \in 1..(n - 1)
            /\ x + (i - 1) >= j /\ (x + (i - 1)) + 1 = x + i
        BY <1>1, <1>2, <1>7, <2>2, <2>3
      <4>. QED BY <1>1, <2>2, <3>2, <4>1
    <3>7. r = z BY <1>1, <3>2, <3>5, <3>6, SeqEqual
    <3>. QED BY <2>1, <3>1, <3>4, <3>7 DEF End, z
  <2>4. CASE j > i
    <3>. DEFINE z == Rest(v, i)
                u == Without(r, j - i)
    <3>1. i \in 0..Len(v) /\ j - i \in 1..Len(r) /\ j - i \in 1..(n - i) /\ (j - i) + i = j
      BY <1>1, <1>2, <1>7, <2>2, <2>4
    <3>2. /\ z \in Seq(Node) /\ Len(z) = Len(v) - i
          /\ \A x \in 1..(Len(v) - i) : z[x] = v[x + i]
      BY <2>2, <3>1, RestIs, ZenonT(30)
    <3>3. /\ u \in Seq(Node) /\ Len(u) = Len(r) - 1
          /\ \A x \in 1..(Len(r) - 1) : /\ x < j - i => u[x] = r[x]
                                        /\ x >= j - i => u[x] = r[x + 1]
      BY <1>1, <3>1, WithoutIs
    <3>4. r[j - i] = k BY <1>1, <1>7, <3>1
    <3>5. Others(r, k) = u BY <1>1, <1>5, <3>1, <3>4, OthersIs
    <3>. HIDE DEF z, u
    <3>6. Len(u) = Len(z) BY <1>1, <1>2, <2>2, <3>2, <3>3
    <3>7. ASSUME NEW x \in 1..Len(u) PROVE u[x] = z[x]
      <4>1. /\ x \in 1..(Len(r) - 1) /\ x \in 1..(Len(v) - i) /\ x + i \in 1..(n - 1)
            /\ x \in 1..(n - i) /\ x + 1 \in 1..(n - i) /\ (x + 1) + i = (x + i) + 1
        BY <1>1, <1>2, <2>2, <3>3
      <4>2. z[x] = v[x + i] BY <3>2, <4>1
      <4>3. CASE x < j - i
        <5>1. x + i < j BY <1>1, <1>2, <1>7, <4>1, <4>3
        <5>. QED BY <1>1, <2>2, <3>3, <4>1, <4>2, <4>3, <5>1
      <4>4. CASE x >= j - i
        <5>1. x + i >= j BY <1>1, <1>2, <1>7, <4>1, <4>4
        <5>. QED BY <1>1, <2>2, <3>3, <4>1, <4>2, <4>4, <5>1
      <4>. QED BY <1>1, <1>2, <1>7, <4>1, <4>3, <4>4
    <3>8. u = z BY <3>2, <3>3, <3>6, <3>7, SeqEqual
    <3>. QED BY <2>1, <3>1, <3>5, <3>8 DEF End, z
  <2>. QED BY <1>1, <1>2, <1>7, <2>3, <2>4
<1>. QED BY <1>6, <1>7 DEF r

\* Leaving one out of one part leaves it out of the whole.
LEMMA CatWithout ==
  ASSUME NEW X, NEW s \in Seq(X), NEW t \in Seq(X)
  PROVE  /\ \A j \in 1..Len(s) : Without(s, j) \o t = Without(s \o t, j)
         /\ \A j \in 1..Len(t) : s \o Without(t, j) = Without(s \o t, Len(s) + j)
<1>. DEFINE m == Len(s)
            n == Len(t)
            z == s \o t
<1>1. /\ z \in Seq(X) /\ m \in Nat /\ n \in Nat /\ Len(z) = m + n
      /\ \A i \in 1..m : z[i] = s[i]
      /\ \A i \in 1..n : z[m + i] = t[i]
  <2>1. Joined(X, s, t, z) BY CatIs
  <2>. QED BY <2>1 DEF Joined
<1>. HIDE DEF z
<1>2. ASSUME NEW j \in 1..m PROVE Without(s, j) \o t = Without(z, j)
  <2>. DEFINE a == Without(s, j)
              y == a \o t
              v == Without(z, j)
  <2>1. /\ a \in Seq(X) /\ Len(a) = m - 1
        /\ \A i \in 1..(m - 1) : (i < j => a[i] = s[i]) /\ (i >= j => a[i] = s[i + 1])
    BY <1>2, WithoutIs
  <2>2. /\ y \in Seq(X) /\ Len(y) = Len(a) + n
        /\ \A i \in 1..Len(a) : y[i] = a[i]
        /\ \A i \in 1..n : y[Len(a) + i] = t[i]
    <3>1. Joined(X, a, t, y) BY <2>1, CatIs
    <3>. QED BY <3>1 DEF Joined
  <2>3. j \in 1..Len(z) BY <1>1, <1>2
  <2>4. /\ v \in Seq(X) /\ Len(v) = Len(z) - 1
        /\ \A i \in 1..(Len(z) - 1) : (i < j => v[i] = z[i]) /\ (i >= j => v[i] = z[i + 1])
    BY <1>1, <2>3, WithoutIs
  <2>. HIDE DEF a, y, v, m, n
  <2>5. Len(y) = Len(v) /\ Len(v) = (m + n) - 1 BY <1>1, <1>2, <2>1, <2>2, <2>4
  <2>6. ASSUME NEW i \in 1..((m + n) - 1) PROVE y[i] = v[i]
    <3>1. CASE i < j
      <4>1. i \in 1..(m - 1) /\ i \in 1..m /\ i \in 1..Len(a) /\ i \in 1..(Len(z) - 1)
        BY <1>1, <1>2, <2>1, <3>1
      <4>. QED BY <1>1, <2>1, <2>2, <2>4, <3>1, <4>1
    <3>2. CASE i >= j /\ i <= m - 1
      <4>1. i \in 1..(m - 1) /\ i + 1 \in 1..m /\ i \in 1..Len(a) /\ i \in 1..(Len(z) - 1)
        BY <1>1, <1>2, <2>1, <3>2
      <4>. QED BY <1>1, <2>1, <2>2, <2>4, <3>2, <4>1
    <3>3. CASE i > m - 1
      <4>. DEFINE x == i - (m - 1)
      <4>1. /\ x \in 1..n /\ (m - 1) + x = i /\ m + x = i + 1 /\ i >= j /\ i \in 1..(Len(z) - 1)
        BY <1>1, <1>2, <3>3
      <4>. HIDE DEF x
      <4>2. y[i] = t[x] BY <2>1, <2>2, <4>1
      <4>3. v[i] = z[i + 1] BY <2>4, <4>1
      <4>4. z[i + 1] = t[x] BY <1>1, <4>1
      <4>. QED BY <4>2, <4>3, <4>4
    <3>. QED BY <1>1, <1>2, <3>1, <3>2, <3>3
  <2>7. y = v BY <2>2, <2>4, <2>5, <2>6, SeqEqual
  <2>. QED BY <2>7 DEF y, v, a
<1>3. ASSUME NEW j \in 1..n PROVE s \o Without(t, j) = Without(z, m + j)
  <2>. DEFINE a == Without(t, j)
              y == s \o a
              v == Without(z, m + j)
  <2>1. /\ a \in Seq(X) /\ Len(a) = n - 1
        /\ \A i \in 1..(n - 1) : (i < j => a[i] = t[i]) /\ (i >= j => a[i] = t[i + 1])
    BY <1>3, WithoutIs
  <2>2. /\ y \in Seq(X) /\ Len(y) = m + Len(a)
        /\ \A i \in 1..m : y[i] = s[i]
        /\ \A i \in 1..Len(a) : y[m + i] = a[i]
    <3>1. Joined(X, s, a, y) BY <2>1, CatIs
    <3>. QED BY <3>1 DEF Joined
  <2>3. m + j \in 1..Len(z) BY <1>1, <1>3
  <2>4. /\ v \in Seq(X) /\ Len(v) = Len(z) - 1
        /\ \A i \in 1..(Len(z) - 1) : (i < m + j => v[i] = z[i]) /\ (i >= m + j => v[i] = z[i + 1])
    BY <1>1, <2>3, WithoutIs
  <2>. HIDE DEF a, y, v, m, n
  <2>5. Len(y) = Len(v) /\ Len(v) = (m + n) - 1 BY <1>1, <1>3, <2>1, <2>2, <2>4
  <2>6. ASSUME NEW i \in 1..((m + n) - 1) PROVE y[i] = v[i]
    <3>1. CASE i <= m
      <4>1. i \in 1..m /\ i < m + j /\ i \in 1..(Len(z) - 1) BY <1>1, <1>3, <3>1
      <4>. QED BY <1>1, <2>2, <2>4, <4>1
    <3>2. CASE i > m
      <4>. DEFINE x == i - m
      <4>1. /\ x \in 1..(n - 1) /\ m + x = i /\ x \in 1..n /\ x + 1 \in 1..n
            /\ m + (x + 1) = i + 1 /\ i \in 1..(Len(z) - 1)
            /\ (x < j <=> i < m + j) /\ (x >= j <=> i >= m + j) /\ (x < j \/ x >= j)
        BY <1>1, <1>3, <3>2
      <4>. HIDE DEF x
      <4>2. y[i] = a[x] BY <2>1, <2>2, <4>1
      <4>3. CASE x < j
        <5>1. v[i] = z[i] /\ z[i] = t[x] BY <1>1, <2>4, <4>1, <4>3
        <5>. QED BY <2>1, <4>1, <4>2, <4>3, <5>1
      <4>4. CASE x >= j
        <5>1. v[i] = z[i + 1] BY <2>4, <4>1, <4>4
        <5>2. z[i + 1] = t[x + 1] BY <1>1, <4>1
        <5>. QED BY <2>1, <4>1, <4>2, <4>4, <5>1, <5>2
      <4>. QED BY <4>1, <4>3, <4>4
    <3>. QED BY <1>1, <1>3, <3>1, <3>2
  <2>7. y = v BY <2>2, <2>4, <2>5, <2>6, SeqEqual
  <2>. QED BY <2>7 DEF y, v, a
<1>. QED BY <1>2, <1>3 DEF m, n, z

\* Leaving out the first of the first part.
LEMMA CatRest ==
  ASSUME NEW X, NEW s \in Seq(X), NEW t \in Seq(X), NEW i \in 0..Len(s)
  PROVE  i \in 0..Len(s \o t) /\ Rest(s, i) \o t = Rest(s \o t, i)
<1>. DEFINE m == Len(s)
            n == Len(t)
            z == s \o t
            a == Rest(s, i)
            y == a \o t
            v == Rest(z, i)
<1>1. /\ z \in Seq(X) /\ m \in Nat /\ n \in Nat /\ Len(z) = m + n
      /\ \A x \in 1..m : z[x] = s[x]
      /\ \A x \in 1..n : z[m + x] = t[x]
  <2>1. Joined(X, s, t, z) BY CatIs
  <2>. QED BY <2>1 DEF Joined
<1>2. a \in Seq(X) /\ Len(a) = m - i /\ \A x \in 1..(m - i) : a[x] = s[x + i] BY RestIs
<1>3. /\ y \in Seq(X) /\ Len(y) = Len(a) + n
      /\ \A x \in 1..Len(a) : y[x] = a[x]
      /\ \A x \in 1..n : y[Len(a) + x] = t[x]
  <2>1. Joined(X, a, t, y) BY <1>2, CatIs
  <2>. QED BY <2>1 DEF Joined
<1>4. i \in 0..m OBVIOUS
<1>. HIDE DEF m, n, z, a, y
<1>5. i \in 0..Len(z) BY <1>1, <1>4
<1>6. v \in Seq(X) /\ Len(v) = Len(z) - i /\ \A x \in 1..(Len(z) - i) : v[x] = z[x + i]
  BY <1>1, <1>5, RestIs, ZenonT(30)
<1>. HIDE DEF v
<1>7. Len(y) = Len(v) BY <1>1, <1>2, <1>3, <1>4, <1>6
<1>8. ASSUME NEW x \in 1..Len(y) PROVE y[x] = v[x]
  <2>1. x \in 1..(Len(z) - i) BY <1>1, <1>2, <1>3, <1>4, <1>8
  <2>2. v[x] = z[x + i] BY <1>6, <2>1
  <2>3. CASE x <= m - i
    <3>1. x \in 1..(m - i) /\ x + i \in 1..m BY <1>1, <1>4, <2>1, <2>3
    <3>. QED BY <1>1, <1>2, <1>3, <2>2, <3>1
  <2>4. CASE x > m - i
    <3>. DEFINE b == x - (m - i)
    <3>1. b \in 1..n /\ (m - i) + b = x /\ m + b = x + i BY <1>1, <1>4, <2>1, <2>4
    <3>. HIDE DEF b
    <3>2. y[x] = t[b] BY <1>2, <1>3, <3>1
    <3>3. z[x + i] = t[b] BY <1>1, <3>1
    <3>. QED BY <2>2, <3>2, <3>3
  <2>. QED BY <1>1, <1>4, <2>1, <2>3, <2>4
<1>9. y = v BY <1>3, <1>6, <1>7, <1>8, SeqEqual
<1>. QED BY <1>5, <1>9 DEF y, v, a, z

\* What has been appended is left out again.
LEMMA AppendWithout ==
  ASSUME NEW X, NEW s \in Seq(X), NEW e \in X
  PROVE  /\ Len(s) + 1 \in 1..Len(Append(s, e)) /\ Append(s, e)[Len(s) + 1] = e
         /\ Without(Append(s, e), Len(s) + 1) = s
<1>. DEFINE a == Append(s, e)
            n == Len(s)
            v == Without(a, n + 1)
<1>1. /\ a \in Seq(X) /\ n \in Nat /\ Len(a) = n + 1
      /\ (\A i \in 1..n : a[i] = s[i]) /\ a[n + 1] = e
  BY AppendIs
<1>. HIDE DEF a, n
<1>2. n + 1 \in 1..Len(a) /\ Len(a) - 1 = n BY <1>1
<1>3. /\ v \in Seq(X) /\ Len(v) = Len(a) - 1 /\ \A i \in 1..(Len(a) - 1) : i < n + 1 => v[i] = a[i]
  BY <1>1, <1>2, WithoutIs
<1>. HIDE DEF v
<1>4. \A i \in 1..n : v[i] = s[i] BY <1>1, <1>2, <1>3
<1>5. v = s BY <1>2, <1>3, <1>4, SeqEqual DEF n
<1>. QED BY <1>1, <1>2, <1>5 DEF v, a, n

\* All nodes, each once.
LEMMA CatFacts ==
  ASSUME NEW l, NEW w, Lists(l, w)
  PROVE  /\ Cat(w) \in Seq(Node) /\ Injective(Cat(w))
         /\ \A i \in 1..Len(Cat(w)) : Cat(w)[i] \in Listed(l)
<1>. DEFINE s == w[Inactive]
            t == w[Active]
            m == Len(s)
            n == Len(t)
            z == Cat(w)
<1>1. /\ s \in Seq(Node) /\ m \in Nat
      /\ \A i \in 1..m : s[i] \in Node /\ l.owner[s[i]] = Inactive
      /\ \A i, j \in 1..m : s[i] = s[j] => i = j
  BY Consts, ListsFacts
<1>2. /\ t \in Seq(Node) /\ n \in Nat
      /\ \A i \in 1..n : t[i] \in Node /\ l.owner[t[i]] = Active
      /\ \A i, j \in 1..n : t[i] = t[j] => i = j
  BY Consts, ListsFacts
<1>3. /\ z \in Seq(Node) /\ Len(z) = m + n
      /\ \A i \in 1..m : z[i] = s[i]
      /\ \A i \in 1..n : z[m + i] = t[i]
  <2>1. Joined(Node, s, t, z) BY <1>1, <1>2, CatIs DEF Cat
  <2>. QED BY <2>1 DEF Joined
<1>. HIDE DEF s, t, m, n, z
<1>4. ASSUME NEW i \in 1..(m + n)
      PROVE  \/ i \in 1..m /\ z[i] = s[i] /\ z[i] \in Node /\ l.owner[z[i]] = Inactive
             \/ /\ i - m \in 1..n /\ z[i] = t[i - m] /\ z[i] \in Node
                /\ l.owner[z[i]] = Active
  <2>1. CASE i <= m
    <3>1. i \in 1..m BY <1>1, <2>1
    <3>. QED BY <1>1, <1>3, <3>1
  <2>2. CASE i > m
    <3>. DEFINE x == i - m
    <3>1. x \in 1..n /\ m + x = i BY <1>1, <1>2, <2>2
    <3>. HIDE DEF x
    <3>2. z[i] = t[x] /\ t[x] \in Node /\ l.owner[t[x]] = Active BY <1>2, <1>3, <3>1
    <3>. QED BY <3>1, <3>2 DEF x
  <2>. QED BY <1>1, <2>1, <2>2
<1>5. ASSUME NEW i \in 1..(m + n), NEW j \in 1..(m + n), z[i] = z[j] PROVE i = j
  <2>1. CASE l.owner[z[i]] = Inactive BY <1>1, <1>4, <1>5, <2>1, Consts
  <2>2. CASE l.owner[z[i]] = Active
    <3>1. i - m \in 1..n /\ j - m \in 1..n /\ t[i - m] = t[j - m] BY <1>4, <1>5, <2>2, Consts
    <3>2. i - m = j - m BY <1>2, <3>1
    <3>. QED BY <1>1, <3>2
  <2>. QED BY <1>4, <2>1, <2>2
<1>6. Injective(z) BY <1>3, <1>5 DEF Injective
<1>7. \A i \in 1..(m + n) : z[i] \in Listed(l) BY <1>4, Consts DEF Listed
<1>. QED BY <1>3, <1>6, <1>7 DEF z

\* A node is taken out of its list: the others are what is left.
LEMMA TakenOthers ==
  ASSUME NEW l, NEW w, Lists(l, w), NEW p \in List, NEW j \in 1..Len(w[p])
  PROVE  Others(Cat(w), w[p][j]) = Cat([w EXCEPT ![p] = Without(@, j)])
<1>. DEFINE s == w[Inactive]
            t == w[Active]
            z == Cat(w)
            v == [w EXCEPT ![p] = Without(@, j)]
<1>1. s \in Seq(Node) /\ t \in Seq(Node) /\ w \in [List -> Seq(Node)] BY Consts DEF Lists
<1>2. z \in Seq(Node) /\ Injective(z) BY CatFacts
<1>3. /\ z = s \o t /\ Len(s) \in Nat /\ Len(t) \in Nat /\ Len(z) = Len(s) + Len(t)
      /\ \A i \in 1..Len(s) : z[i] = s[i]
      /\ \A i \in 1..Len(t) : z[Len(s) + i] = t[i]
  <2>1. Joined(Node, s, t, z) BY <1>1, CatIs DEF Cat
  <2>. QED BY <2>1 DEF Joined, Cat
<1>4. CASE p = Inactive
  <2>1. j \in 1..Len(s) /\ j \in 1..Len(z) /\ z[j] = w[p][j]
    <3>1. j \in 1..Len(s) BY <1>4
    <3>. HIDE DEF z, s, t
    <3>2. j \in 1..Len(z) BY <1>3, <3>1
    <3>. QED BY <1>3, <1>4, <3>1, <3>2 DEF s
  <2>2. Others(z, w[p][j]) = Without(z, j) BY <1>2, <2>1, OthersIs
  <2>3. Without(s, j) \o t = Without(s \o t, j)
    <3>1. \A i \in 1..Len(s) : Without(s, i) \o t = Without(s \o t, i)
      <4>1. s \in Seq(Node) /\ t \in Seq(Node) BY <1>1
      <4>. HIDE DEF s, t
      <4>. QED BY ONLY <4>1, CatWithout
    <3>. QED BY <2>1, <3>1
  <2>4. v[Inactive] = Without(s, j) /\ v[Active] = t BY <1>1, <1>4, Consts
  <2>. HIDE DEF v, s, t
  <2>5. Cat(v) = Without(s, j) \o t BY <2>4, Zenon DEF Cat
  <2>. QED BY <1>3, <2>2, <2>3, <2>5 DEF v
<1>5. CASE p = Active
  <2>1. j \in 1..Len(t) /\ Len(s) + j \in 1..Len(z) /\ z[Len(s) + j] = w[p][j]
    <3>1. j \in 1..Len(t) BY <1>5
    <3>. HIDE DEF z, s, t
    <3>2. Len(s) + j \in 1..Len(z) BY <1>3, <3>1
    <3>. QED BY <1>3, <1>5, <3>1, <3>2 DEF t
  <2>2. Others(z, w[p][j]) = Without(z, Len(s) + j) BY <1>2, <2>1, OthersIs
  <2>3. s \o Without(t, j) = Without(s \o t, Len(s) + j)
    <3>1. \A i \in 1..Len(t) : s \o Without(t, i) = Without(s \o t, Len(s) + i)
      <4>1. s \in Seq(Node) /\ t \in Seq(Node) BY <1>1
      <4>. HIDE DEF s, t
      <4>. QED BY ONLY <4>1, CatWithout
    <3>. QED BY <2>1, <3>1
  <2>4. v[Active] = Without(t, j) /\ v[Inactive] = s BY <1>1, <1>5, Consts
  <2>. HIDE DEF v, s, t
  <2>5. Cat(v) = s \o Without(t, j) BY <2>4, Zenon DEF Cat
  <2>. QED BY <1>3, <2>2, <2>3, <2>5 DEF v
<1>. QED BY <1>4, <1>5, Consts

\* A node is put at the end of a list: the others are what was there.
LEMMA PutOthers ==
  ASSUME NEW w \in [List -> Seq(Node)], NEW p \in List, NEW n \in Node, NEW r,
         Lists(r, [w EXCEPT ![p] = Append(@, n)])
  PROVE  Others(Cat([w EXCEPT ![p] = Append(@, n)]), n) = Cat(w)
<1>. DEFINE v == [w EXCEPT ![p] = Append(@, n)]
            j == Len(w[p]) + 1
<1>1. w[p] \in Seq(Node) /\ v[p] = Append(w[p], n) OBVIOUS
<1>2. j \in 1..Len(v[p]) /\ v[p][j] = n /\ Without(v[p], j) = w[p] BY <1>1, AppendWithout
<1>3. [v EXCEPT ![p] = Without(@, j)] = w
  <2>1. [v EXCEPT ![p] = Without(@, j)] = [v EXCEPT ![p] = w[p]] BY <1>2
  <2>2. [v EXCEPT ![p] = w[p]] = w OBVIOUS
  <2>. QED BY <2>1, <2>2
<1>. HIDE DEF v, j
<1>4. Lists(r, v) BY DEF v
<1>5. Others(Cat(v), v[p][j]) = Cat([v EXCEPT ![p] = Without(@, j)]) BY <1>2, <1>4, TakenOthers
<1>. QED BY <1>2, <1>3, <1>5 DEF v

\* A node is moved: the others are as they were.
LEMMA MoveOthers ==
  ASSUME NEW l, NEW w, Lists(l, w), NEW p \in List, NEW j \in 1..Len(w[p]), NEW q \in List,
         NEW r, Lists(r, Move(w, p, j, q))
  PROVE  Others(Cat(Move(w, p, j, q)), w[p][j]) = Others(Cat(w), w[p][j])
<1>. DEFINE v == [w EXCEPT ![p] = Without(@, j)]
            n == w[p][j]
<1>1. w \in [List -> Seq(Node)] /\ n \in Node BY ListsFacts DEF Lists
<1>2. v \in [List -> Seq(Node)]
  <2>1. Without(w[p], j) \in Seq(Node) BY <1>1, WithoutIs
  <2>. QED BY <1>1, <2>1
<1>3. Others(Cat(w), n) = Cat(v) BY TakenOthers
<1>4. Move(w, p, j, q) = [v EXCEPT ![q] = Append(@, n)] BY DEF Move
<1>. HIDE DEF v, n
<1>5. Others(Cat([v EXCEPT ![q] = Append(@, n)]), n) = Cat(v)
  <2>1. Lists(r, [v EXCEPT ![q] = Append(@, n)]) BY <1>4
  <2>. QED BY <1>1, <1>2, <2>1, PutOthers
<1>. QED BY <1>3, <1>4, <1>5 DEF n

-----------------------------------------------------------------------------
(* Making room.                                                            *)

\* Apart from k, v is the newer end of w.
Newer(w, v, k) == End(Others(Cat(v), k), Others(Cat(w), k))

\* d has lost nodes that c had, and nothing else has changed.
Shrunk(c, d) ==
  /\ d.index \subseteq c.index /\ d.held \subseteq c.held
  /\ \A j \in d.index : d.data[j] = c.data[j]

\* Of the order of the nodes.
LEMMA OthersSeq ==
  ASSUME NEW l, NEW w, Lists(l, w), NEW k
  PROVE  Others(Cat(w), k) \in Seq(Node) /\ Newer(w, w, k)
<1>. DEFINE z == Cat(w)
<1>1. z \in Seq(Node) /\ Injective(z) BY CatFacts
<1>. HIDE DEF z
<1>2. Others(z, k) \in Seq(Node)
  <2>1. CASE \A j \in 1..Len(z) : z[j] # k
    <3>1. Others(z, k) = z BY <1>1, <2>1, OthersIs
    <3>. QED BY <1>1, <3>1
  <2>2. ASSUME NEW j \in 1..Len(z), z[j] = k PROVE Others(z, k) \in Seq(Node)
    <3>1. Others(z, k) = Without(z, j) BY <1>1, <2>2, OthersIs
    <3>. QED BY <1>1, <2>2, <3>1, WithoutIs
  <2>. QED BY <2>1, <2>2
<1>3. ASSUME NEW s \in Seq(Node) PROVE End(s, s)
  <2>1. Rest(s, 0) = s /\ 0 \in 0..Len(s) BY RestNext, LenProperties
  <2>. QED BY <2>1 DEF End
<1>. QED BY <1>2, <1>3 DEF Newer, z

\* One step after the other.
LEMMA NewerNewer ==
  ASSUME NEW l, NEW w, Lists(l, w), NEW v, NEW u, NEW k, Newer(w, v, k), Newer(v, u, k)
  PROVE  Newer(w, u, k)
BY OthersSeq, EndEnd DEF Newer

\* A node of the cache has a place in a list.
LEMMA ListedAt ==
  ASSUME NEW l, NEW w, Lists(l, w), NEW k \in Listed(l)
  PROVE  \E p \in List : \E j \in 1..Len(w[p]) : w[p][j] = k
<1>1. l.owner \in [Node -> List \cup {Null}] BY OwnSums DEF Lists
<1>2. k \in Node /\ l.owner[k] \in List BY <1>1 DEF Listed
<1>3. PICK p \in List : l.owner[k] = p BY <1>2
<1>. QED BY <1>2, <1>3, ListsFacts

\* _fcache_free_size.
LEMMA FreeSize ==
  ASSUME NEW l \in Mem
  PROVE  /\ _fcache_free_size(l) \in SizeT /\ Both(l) \in Nat
         /\ Both(l) <= max_size => _fcache_free_size(l) = max_size - Both(l)
<1>. DEFINE a == l.total[Active]
            b == l.total[Inactive]
<1>1. a \in SizeT /\ b \in SizeT /\ a \in Nat /\ b \in Nat BY OwnSums, Consts
<1>. HIDE DEF a, b
<1>2. _fcache_free_size(l) = Minus(Minus(max_size, a), b) /\ Both(l) = a + b
  BY DEF _fcache_free_size, Both, a, b
<1>3. Minus(max_size, a) \in SizeT BY <1>1, Consts, PlusMinus
<1>4. Minus(Minus(max_size, a), b) \in SizeT BY <1>1, <1>3, PlusMinus
<1>5. ASSUME a + b <= max_size PROVE Minus(Minus(max_size, a), b) = max_size - (a + b)
  <2>1. a <= max_size /\ b <= max_size - a BY <1>1, <1>5, Consts
  <2>2. Minus(max_size, a) = max_size - a BY <1>1, <2>1, Consts, PlusMinus
  <2>3. Minus(max_size - a, b) = (max_size - a) - b BY <1>1, <1>3, <2>1, <2>2, PlusMinus
  <2>. QED BY <1>1, <2>2, <2>3, Consts
<1>. QED BY <1>1, <1>2, <1>4, <1>5

\* The list a node that is updated is moved to, for the lists b that hold v.
Tailed(c, b, v, k, m, u) ==
  /\ Lists(m, u) /\ Listed(m) = Listed(b) /\ Newer(v, u, k)
  /\ k \in c.index => Len(u[Inactive]) # 0 /\ u[Inactive][Len(u[Inactive])] = k
  /\ k \notin c.index => m = b
  /\ Fits(b) /\ Both(b) <= max_size => Fits(m) /\ Both(m) = Both(b)

\* ToTail.
LEMMA ToTailIs ==
  ASSUME NEW c, NEW b, NEW v, Lists(b, v), c.index = Listed(b), NEW k
  PROVE  \E u : Tailed(c, b, v, k, ToTail(c, b, k), u)
<1>. DEFINE m == ToTail(c, b, k)
<1>1. CASE k \notin c.index
  <2>1. m = b BY <1>1 DEF ToTail
  <2>2. Newer(v, v, k) BY OthersSeq
  <2>3. Tailed(c, b, v, k, b, v) BY <1>1, <2>2 DEF Tailed
  <2>. QED BY <2>1, <2>3
<1>2. CASE k \in c.index
  <2>1. PICK p \in List : \E j \in 1..Len(v[p]) : v[p][j] = k BY <1>2, ListedAt
  <2>2. PICK j \in 1..Len(v[p]) : v[p][j] = k BY <2>1
  <2>. DEFINE u == Move(v, p, j, Inactive)
  <2>3. m = fcache_list_move_node(b, k, Inactive) BY <1>2 DEF ToTail
  <2>4. Moved(b, v, p, j, Inactive, m) BY <2>2, <2>3, MoveLinks, Consts
  <2>. HIDE DEF m
  <2>5. Lists(m, u) /\ m.owner = [b.owner EXCEPT ![k] = Inactive] BY <2>2, <2>4 DEF Moved
  <2>6. b.owner \in [Node -> List \cup {Null}] BY OwnSums DEF Lists
  <2>7. Listed(m) = Listed(b) BY <1>2, <2>5, <2>6, Consts DEF Listed
  <2>8. Newer(v, u, k)
    <3>1. Others(Cat(u), k) = Others(Cat(v), k) BY <2>2, <2>5, MoveOthers, Consts
    <3>2. Newer(v, v, k) BY OthersSeq
    <3>. QED BY <3>1, <3>2 DEF Newer
  <2>9. Len(u[Inactive]) # 0 /\ u[Inactive][Len(u[Inactive])] = k
    <3>. DEFINE x == [v EXCEPT ![p] = Without(@, j)]
    <3>1. v \in [List -> Seq(Node)] /\ k \in Node BY <2>2, ListsFacts DEF Lists
    <3>2. x \in [List -> Seq(Node)]
      <4>1. Without(v[p], j) \in Seq(Node) BY <3>1, WithoutIs
      <4>. QED BY <3>1, <4>1
    <3>3. u = [x EXCEPT ![Inactive] = Append(@, k)] BY <2>2 DEF Move
    <3>. HIDE DEF x, u
    <3>4. u[Inactive] = Append(x[Inactive], k) /\ x[Inactive] \in Seq(Node) BY <3>2, <3>3, Consts
    <3>. DEFINE s == x[Inactive]
    <3>5. Len(s) \in Nat /\ Len(Append(s, k)) = Len(s) + 1 /\ Append(s, k)[Len(s) + 1] = k
      BY <3>1, <3>4, AppendIs
    <3>. HIDE DEF s
    <3>. QED BY <3>4, <3>5 DEF s
  <2>10. Fits(b) /\ Both(b) <= max_size => Fits(m) /\ Both(m) = Both(b)
    BY <2>4, MovedFits, Consts
  <2>. HIDE DEF u
  <2>11. Tailed(c, b, v, k, m, u) BY <1>2, <2>5, <2>7, <2>8, <2>9, <2>10 DEF Tailed
  <2>. QED BY <2>11 DEF m
<1>. QED BY <1>1, <1>2

\* What the dropping loop leaves of c when k, if it is there, is the last node of the
\* inactive list.
Dropped(c, u, k, drop_size, d, v) ==
  /\ Cache(d, v) /\ Shrunk(c, d) /\ Newer(u, v, k)
  /\ k \in c.index /\ k \notin d.index => Len(v[Inactive]) = 0
  /\ Fits(c.list) => /\ Fits(d.list) /\ Both(d.list) <= Both(c.list)
                     /\ c.list.total[Inactive] >= drop_size
                          => Both(d.list) + drop_size <= Both(c.list)

\* The loop.
LEMMA DropIs ==
  ASSUME NEW c, NEW u, Cache(c, u), NEW k, NEW drop_size \in Int,
         k \in c.index => Len(u[Inactive]) # 0 /\ u[Inactive][Len(u[Inactive])] = k
  PROVE  \E v : Dropped(c, u, k, drop_size, DropNodes(c, drop_size), v)
<1>1. PICK i, e : /\ Dropping(c, u, i, e) /\ DropNodes(c, drop_size) = e.c
                  /\ e.dropped >= drop_size \/ i = Len(u[Inactive])
  BY DropLinks
<1>. DEFINE d == e.c
            s == u[Inactive]
            n == Len(s)
            v == [u EXCEPT ![Inactive] = Rest(@, i)]
<1>2. /\ e \in DropT /\ i \in 0..n /\ Cache(d, v) /\ Shrunk(c, d)
      /\ Fits(c.list) => /\ Fits(d.list)
                         /\ Both(d.list) + e.dropped = Both(c.list)
                         /\ d.list.total[Inactive] + e.dropped = c.list.total[Inactive]
  BY <1>1 DEF Dropping, Shrunk
<1>3. Lists(c.list, u) /\ Lists(d.list, v) /\ d.index = Listed(d.list) BY <1>2 DEF Cache
<1>4. u \in [List -> Seq(Node)] /\ s \in Seq(Node) BY <1>3, Consts, SMTT(30) DEF Lists
<1>5. v[Inactive] = Rest(s, i) /\ v[Active] = u[Active] BY <1>4, Consts
<1>6. /\ Rest(s, i) \in Seq(Node) /\ n \in Nat /\ Len(Rest(s, i)) = n - i
      /\ \A x \in 1..(n - i) : Rest(s, i)[x] = s[x + i]
  BY <1>2, <1>4, RestIs
<1>. HIDE DEF d, s, n, v
<1>7. Newer(u, v, k)
  <2>1. u[Active] \in Seq(Node) BY <1>4, Consts
  <2>2. i \in 0..Len(s \o u[Active]) /\ Rest(s, i) \o u[Active] = Rest(s \o u[Active], i)
    BY <1>2, <1>4, <2>1, CatRest, ZenonT(30) DEF n
  <2>3. Cat(u) = s \o u[Active] BY DEF Cat, s
  <2>4. Cat(v) = Rest(s, i) \o u[Active] BY <1>5, Zenon DEF Cat
  <2>5. Cat(v) = Rest(Cat(u), i) /\ i \in 0..Len(Cat(u)) BY <2>2, <2>3, <2>4
  <2>6. Cat(u) \in Seq(Node) /\ Injective(Cat(u)) BY <1>3, CatFacts
  <2>7. End(Others(Rest(Cat(u), i), k), Others(Cat(u), k)) BY <2>5, <2>6, RestOthers
  <2>. QED BY <2>5, <2>7 DEF Newer
<1>8. ASSUME k \in c.index, k \notin d.index PROVE Len(v[Inactive]) = 0
  <2>. SUFFICES ASSUME n - i # 0 PROVE FALSE BY <1>5, <1>6
  <2>1. n - i \in 1..(n - i) /\ (n - i) + i = n BY <1>2, <1>6
  <2>2. v[Inactive][n - i] = k BY <1>5, <1>6, <1>8, <2>1 DEF s, n
  <2>3. n - i \in 1..Len(v[Inactive]) BY <1>5, <1>6, <2>1
  <2>4. k \in Node /\ d.list.owner[k] = Inactive BY <1>3, <2>2, <2>3, ListsFacts, Consts
  <2>. QED BY <1>3, <1>8, <2>4, Consts DEF Listed
<1>9. ASSUME Fits(c.list)
      PROVE  /\ Fits(d.list) /\ Both(d.list) <= Both(c.list)
             /\ c.list.total[Inactive] >= drop_size => Both(d.list) + drop_size <= Both(c.list)
  <2>1. e.dropped \in Nat BY <1>2, Consts DEF DropT
  <2>2. c.list \in Mem /\ d.list \in Mem BY <1>3 DEF Lists
  <2>3. Both(c.list) \in Nat /\ Both(d.list) \in Nat BY <2>2, FreeSize
  <2>4. ASSUME c.list.total[Inactive] >= drop_size PROVE e.dropped >= drop_size
    <3>1. CASE i = n
      <4>1. \A x \in Node : d.list.owner[x] # Inactive
        <5>. SUFFICES ASSUME NEW x \in Node, d.list.owner[x] = Inactive PROVE FALSE OBVIOUS
        <5>1. \E y \in 1..Len(v[Inactive]) : v[Inactive][y] = x BY <1>3, ListsFacts, Consts
        <5>. QED BY <1>5, <1>6, <3>1, <5>1
      <4>2. Own(d.list, Inactive) = {} BY <4>1 DEF Own
      <4>3. SumOf(d.list.dsize, {}) = 0 BY <2>2, OwnSums, Sums, Consts
      <4>4. d.list.total[Inactive] = 0 BY <1>2, <1>9, <4>2, <4>3, Consts DEF Fits
      <4>. QED BY <1>2, <1>9, <2>1, <2>4, <4>4
    <3>. QED BY <1>1, <3>1 DEF n, s
  <2>5. Fits(d.list) /\ Both(d.list) + e.dropped = Both(c.list) BY <1>2, <1>9
  <2>6. Both(d.list) <= Both(c.list) BY <2>1, <2>3, <2>5
  <2>7. ASSUME c.list.total[Inactive] >= drop_size PROVE Both(d.list) + drop_size <= Both(c.list)
    BY <2>1, <2>3, <2>4, <2>5, <2>7
  <2>. QED BY <2>5, <2>6, <2>7
<1>10. Dropped(c, u, k, drop_size, d, v) BY <1>2, <1>7, <1>8, <1>9 DEF Dropped
<1>. QED BY <1>1, <1>10 DEF d

\* What _fcache_check_and_drop_nodes leaves of c, d with the lists v.
Checked(c, w, k, size, ok, d, v) ==
  /\ Cache(d, v) /\ Shrunk(c, d) /\ Newer(w, v, k)
  /\ k \in c.index /\ k \notin d.index => Len(v[Inactive]) = 0
  /\ k \in c.index /\ size = c.list.dsize[k] => d = c
  /\ Fits(c.list) /\ Both(c.list) <= max_size =>
       /\ Fits(d.list) /\ Both(d.list) <= max_size
       /\ ok /\ k \notin c.index => Both(d.list) + size <= max_size

\* The lists before nodes are dropped.
LEMMA BalancedIf ==
  ASSUME NEW l, NEW w, Lists(l, w), NEW drop_size
  PROVE  \E v : Balanced(l, w, IF l.total[Inactive] < drop_size
                               THEN _fcache_balance_nodes(l) ELSE l, v)
<1>1. Balanced(l, w, l, w) BY DEF Balanced
<1>2. \E v : Balanced(l, w, _fcache_balance_nodes(l), v) BY BalanceLinks
<1>3. CASE l.total[Inactive] < drop_size BY <1>2, <1>3
<1>4. CASE ~(l.total[Inactive] < drop_size) BY <1>1, <1>4
<1>. QED BY <1>3, <1>4

\* Nodes are dropped from the balanced lists b.
LEMMA RoomIs ==
  ASSUME NEW c, NEW w, Cache(c, w), NEW k, NEW b, NEW v, Balanced(c.list, w, b, v),
         NEW drop_size \in Int, NEW d,
         d = DropNodes([c EXCEPT !.list = ToTail(c, b, k)], drop_size)
  PROVE  \E x : /\ Cache(d, x) /\ Shrunk(c, d) /\ Newer(w, x, k)
                /\ k \in c.index /\ k \notin d.index => Len(x[Inactive]) = 0
                /\ Fits(c.list) /\ Both(c.list) <= max_size =>
                     /\ Fits(d.list) /\ Both(d.list) <= Both(c.list)
                     /\ k \notin c.index /\ b.total[Inactive] >= drop_size =>
                          Both(d.list) + drop_size <= Both(c.list)
<1>1. Lists(c.list, w) /\ c.index = Listed(c.list) BY DEF Cache
<1>2. /\ Lists(b, v) /\ Cat(v) = Cat(w) /\ Listed(b) = Listed(c.list)
      /\ Fits(c.list) /\ Both(c.list) <= max_size => Fits(b) /\ Both(b) = Both(c.list)
  BY DEF Balanced
<1>3. Newer(w, v, k)
  <2>1. Newer(w, w, k) BY <1>1, OthersSeq
  <2>. QED BY <1>2, <2>1 DEF Newer
<1>. DEFINE m == ToTail(c, b, k)
            e == [c EXCEPT !.list = m]
<1>4. PICK u : Tailed(c, b, v, k, m, u) BY <1>1, <1>2, ToTailIs
<1>. HIDE DEF m
<1>5. /\ Lists(m, u) /\ Listed(m) = Listed(b) /\ Newer(v, u, k)
      /\ k \in c.index => Len(u[Inactive]) # 0 /\ u[Inactive][Len(u[Inactive])] = k
      /\ k \notin c.index => m = b
      /\ Fits(b) /\ Both(b) <= max_size => Fits(m) /\ Both(m) = Both(b)
  BY <1>4 DEF Tailed
<1>6. /\ Cache(e, u) /\ e.list = m
      /\ e.index = c.index /\ e.data = c.data /\ e.held = c.held
  BY <1>2, <1>5, RelistCache
<1>7. d = DropNodes(e, drop_size) BY DEF m
<1>. HIDE DEF e
<1>8. PICK x : Dropped(e, u, k, drop_size, d, x) BY <1>5, <1>6, <1>7, DropIs
<1>9. /\ Cache(d, x) /\ Shrunk(e, d) /\ Newer(u, x, k)
      /\ k \in e.index /\ k \notin d.index => Len(x[Inactive]) = 0
      /\ Fits(e.list) => /\ Fits(d.list) /\ Both(d.list) <= Both(e.list)
                         /\ e.list.total[Inactive] >= drop_size
                              => Both(d.list) + drop_size <= Both(e.list)
  BY <1>8 DEF Dropped
<1>10. Shrunk(c, d) BY <1>6, <1>9 DEF Shrunk
<1>11. Newer(w, u, k) BY <1>1, <1>3, <1>5, NewerNewer
<1>12. Newer(w, x, k) BY <1>1, <1>9, <1>11, NewerNewer
<1>13. ASSUME Fits(c.list), Both(c.list) <= max_size
       PROVE  /\ Fits(d.list) /\ Both(d.list) <= Both(c.list)
              /\ k \notin c.index /\ b.total[Inactive] >= drop_size =>
                   Both(d.list) + drop_size <= Both(c.list)
  <2>1. Fits(m) /\ Both(m) = Both(c.list) BY <1>2, <1>5, <1>13
  <2>. QED BY <1>5, <1>6, <1>9, <2>1
<1>. QED BY <1>6, <1>9, <1>10, <1>12, <1>13

\* So it does.
LEMMA CheckIs ==
  ASSUME NEW c, NEW w, Cache(c, w), NEW k \in Node, NEW size \in SizeT
  PROVE  LET r == _fcache_check_and_drop_nodes(c, k, size)
         IN  \E v : Checked(c, w, k, size, r.ok, r.c, v)
<1>. DEFINE r == _fcache_check_and_drop_nodes(c, k, size)
            grow_size == GrowSize(c, k, size)
            free_size == _fcache_free_size(c.list)
            drop_size == grow_size - free_size
            b == IF c.list.total[Inactive] < drop_size
                 THEN _fcache_balance_nodes(c.list) ELSE c.list
<1>1. Lists(c.list, w) /\ c.index = Listed(c.list) /\ c.list \in Mem BY DEF Cache, Lists
<1>2. /\ free_size \in Nat /\ Both(c.list) \in Nat
      /\ Both(c.list) <= max_size => free_size = max_size - Both(c.list)
  BY <1>1, FreeSize, Consts
<1>3. /\ grow_size \in Nat /\ size \in Nat
      /\ k \in c.index /\ size = c.list.dsize[k] => grow_size = 0
      /\ k \notin c.index => grow_size = size
  <2>1. c.list.dsize[k] \in Nat /\ size \in Nat BY <1>1, OwnSums, Consts
  <2>. QED BY <2>1 DEF GrowSize
<1>4. /\ grow_size = 0 \/ free_size >= grow_size => r = [ok |-> TRUE, c |-> c]
      /\ ~(grow_size = 0 \/ free_size >= grow_size) =>
           r = IF b.total[Inactive] < drop_size
               THEN [ok |-> FALSE, c |-> [c EXCEPT !.list = b]]
               ELSE [ok |-> TRUE, c |-> DropNodes([c EXCEPT !.list = ToTail(c, b, k)], drop_size)]
  BY DEF _fcache_check_and_drop_nodes
<1>5. PICK v : Balanced(c.list, w, b, v) BY <1>1, BalancedIf
<1>. HIDE DEF r, grow_size, free_size, b
<1>6. Newer(w, w, k) BY <1>1, OthersSeq
<1>7. CASE grow_size = 0 \/ free_size >= grow_size
  <2>1. r.ok = TRUE /\ r.c = c BY <1>4, <1>7
  <2>2. ASSUME Both(c.list) <= max_size, k \notin c.index PROVE Both(c.list) + size <= max_size
    BY <1>2, <1>3, <1>7, <2>2, Consts
  <2>3. Shrunk(c, c) BY DEF Shrunk
  <2>4. Checked(c, w, k, size, TRUE, c, w) BY <1>6, <2>2, <2>3 DEF Checked
  <2>. QED BY <2>1, <2>4 DEF r
<1>8. CASE ~(grow_size = 0 \/ free_size >= grow_size) /\ b.total[Inactive] < drop_size
  <2>. DEFINE d == [c EXCEPT !.list = b]
  <2>1. r.ok = FALSE /\ r.c = d BY <1>4, <1>8
  <2>2. /\ Lists(b, v) /\ Cat(v) = Cat(w) /\ Listed(b) = Listed(c.list)
        /\ Fits(c.list) /\ Both(c.list) <= max_size => Fits(b) /\ Both(b) = Both(c.list)
    BY <1>5 DEF Balanced
  <2>3. /\ Cache(d, v) /\ d.list = b
        /\ d.index = c.index /\ d.data = c.data /\ d.held = c.held
    BY <2>2, RelistCache
  <2>. HIDE DEF d
  <2>4. Newer(w, v, k) BY <1>6, <2>2 DEF Newer
  <2>5. Shrunk(c, d) BY <2>3 DEF Shrunk
  <2>6. ~(k \in c.index /\ size = c.list.dsize[k]) BY <1>3, <1>8
  <2>7. Checked(c, w, k, size, FALSE, d, v) BY <2>2, <2>3, <2>4, <2>5, <2>6 DEF Checked
  <2>. QED BY <2>1, <2>7 DEF r
<1>9. CASE ~(grow_size = 0 \/ free_size >= grow_size) /\ ~(b.total[Inactive] < drop_size)
  <2>. DEFINE d == DropNodes([c EXCEPT !.list = ToTail(c, b, k)], drop_size)
  <2>1. r.ok = TRUE /\ r.c = d BY <1>4, <1>9
  <2>2. drop_size \in Int BY <1>2, <1>3
  <2>3. b.total[Inactive] >= drop_size
    <3>1. b \in Mem BY <1>5 DEF Balanced, Lists
    <3>2. b.total[Inactive] \in Nat BY <3>1, OwnSums, Consts
    <3>. QED BY <1>9, <2>2, <3>2
  <2>. HIDE DEF drop_size
  <2>4. PICK x :
          /\ Cache(d, x) /\ Shrunk(c, d) /\ Newer(w, x, k)
          /\ k \in c.index /\ k \notin d.index => Len(x[Inactive]) = 0
          /\ Fits(c.list) /\ Both(c.list) <= max_size =>
               /\ Fits(d.list) /\ Both(d.list) <= Both(c.list)
               /\ k \notin c.index /\ b.total[Inactive] >= drop_size =>
                    Both(d.list) + drop_size <= Both(c.list)
    BY <1>5, <2>2, RoomIs
  <2>. HIDE DEF d
  <2>5. ASSUME Fits(c.list), Both(c.list) <= max_size
        PROVE  /\ Fits(d.list) /\ Both(d.list) <= max_size
               /\ k \notin c.index => Both(d.list) + size <= max_size
    <3>1. Fits(d.list) /\ Both(d.list) <= Both(c.list) BY <2>4, <2>5
    <3>2. Both(d.list) \in Nat
      <4>1. d.list \in Mem BY <2>4 DEF Cache, Lists
      <4>. QED BY <4>1, FreeSize
    <3>3. ASSUME k \notin c.index PROVE Both(d.list) + size <= max_size
      <4>1. Both(d.list) + drop_size <= Both(c.list) BY <2>3, <2>4, <2>5, <3>3
      <4>2. drop_size = size - (max_size - Both(c.list)) BY <1>2, <1>3, <2>5, <3>3 DEF drop_size
      <4>. QED BY <1>2, <1>3, <2>5, <3>2, <4>1, <4>2, Consts
    <3>. QED BY <1>2, <2>5, <3>1, <3>2, <3>3, Consts
  <2>6. ~(k \in c.index /\ size = c.list.dsize[k]) BY <1>3, <1>9
  <2>7. Checked(c, w, k, size, TRUE, d, x) BY <2>4, <2>5, <2>6 DEF Checked
  <2>. QED BY <2>1, <2>7 DEF r
<1>. QED BY <1>7, <1>8, <1>9

-----------------------------------------------------------------------------
(* The inductive invariant.                                                *)

Faults == {"none", "division", "freed"}

\* The variables beside pcache.
Counters ==
  /\ enable_balance \in BOOLEAN /\ op_count \in 0..(FCACHE_BALANCE_INTERVAL - 1)
  /\ resized \in 0..MaxResized /\ fault \in Faults

\* What the cache holds is no more than it may.
Full == resized = 0 => Fits(pcache.list) /\ Both(pcache.list) <= max_size

\* The node that was freed was the last one.
LastFreed == fault = "freed" => pcache.list.size[Inactive] = 0

IInv ==
  /\ \E w : Cache(pcache, w)
  /\ Full /\ LastFreed /\ Counters

\* A step that is about the key k keeps it, and the newer end of the lists w.
Kept(w, k) ==
  /\ \E x : Cache(pcache', x) /\ Newer(w, x, k)
  /\ Full' /\ LastFreed' /\ Counters'

Nothing == [p \in List |-> <<>>]

\* An empty cache.
LEMMA CreateIs ==
  /\ Cache(fcache_create, Nothing)
  /\ Fits(fcache_create.list) /\ Both(fcache_create.list) <= max_size
  /\ fcache_create.held = {} /\ [fcache_create EXCEPT !.held = {}] = fcache_create
<1>. DEFINE c == fcache_create
            l == NoLists
<1>1. /\ c.list = l /\ c.index = {} /\ c.data = [k \in Node |-> Null] /\ c.held = {}
      /\ c = [list |-> l, index |-> {}, data |-> [k \in Node |-> Null], held |-> {}]
  BY DEF fcache_create
<1>2. /\ l.head = [p \in List |-> Null] /\ l.tail = [p \in List |-> Null]
      /\ l.size = [p \in List |-> 0] /\ l.total = [p \in List |-> 0]
      /\ l.owner = [n \in Node |-> Null] /\ l.dsize = [n \in Node |-> 0]
  BY DEF NoLists
<1>3. l \in Mem BY Consts DEF Mem, NoLists, Link
<1>4. [c EXCEPT !.held = {}] = c BY <1>1
<1>. HIDE DEF c, l
<1>5. Len(<<>>) = 0 /\ <<>> \in Seq(Node) BY EmptySeq
<1>6. ASSUME NEW p \in List
      PROVE  /\ Chained(<<>>, l.head[p], l.tail[p], l.next, l.prev)
             /\ Members(<<>>, p, l.owner) /\ l.size[p] = 0
  <2>1. l.head[p] = Null /\ l.tail[p] = Null /\ l.size[p] = 0 BY <1>2
  <2>2. Chained(<<>>, Null, Null, l.next, l.prev) BY <1>5 DEF Chained
  <2>3. \A n \in Node : l.owner[n] # p BY <1>2, Consts
  <2>4. Members(<<>>, p, l.owner) BY <1>5, <2>3 DEF Members
  <2>. QED BY <2>1, <2>2, <2>4
<1>7. Nothing \in [List -> Seq(Node)] /\ \A p \in List : Nothing[p] = <<>> BY <1>5 DEF Nothing
<1>8. Lists(l, Nothing) BY <1>3, <1>5, <1>6, <1>7 DEF Lists
<1>9. c \in CacheT BY <1>1, <1>3 DEF CacheT
<1>10. Listed(l) = {} BY <1>2 DEF Listed
<1>11. Holds({}, c.data, {}) BY DEF Holds
<1>12. Cache(c, Nothing) BY <1>1, <1>8, <1>9, <1>10, <1>11 DEF Cache
<1>13. Fits(l)
  <2>1. \A p \in List : Own(l, p) = {} BY <1>2, Consts DEF Own
  <2>2. SumOf(l.dsize, {}) = 0 BY <1>3, OwnSums, Sums, Consts
  <2>. QED BY <1>2, <2>1, <2>2 DEF Fits
<1>14. Both(l) <= max_size
  <2>1. l.total[Active] = 0 /\ l.total[Inactive] = 0 BY <1>2, Consts
  <2>. QED BY <2>1, Consts DEF Both
<1>. QED BY <1>1, <1>4, <1>12, <1>13, <1>14 DEF c

\* The start.
LEMMA InitIInv == Init => IInv
<1>. SUFFICES ASSUME Init PROVE IInv OBVIOUS
<1>1. /\ pcache = fcache_create /\ enable_balance = FALSE /\ op_count = 0
      /\ resized = 0 /\ fault = "none"
  BY DEF Init
<1>2. Cache(pcache, Nothing) /\ Full BY <1>1, CreateIs DEF Full
<1>3. Counters
  <2>1. op_count \in 0..(FCACHE_BALANCE_INTERVAL - 1) /\ resized \in 0..MaxResized
    BY <1>1, FcacheAssumption
  <2>2. enable_balance \in BOOLEAN /\ fault \in Faults BY <1>1, Zenon DEF Faults
  <2>. QED BY <2>1, <2>2, Zenon DEF Counters
<1>4. LastFreed BY <1>1 DEF LastFreed
<1>. QED BY <1>2, <1>3, <1>4 DEF IInv

\* The check at the end of fcache_set_obj.
LEMMA BalanceCheck ==
  ASSUME NEW l \in Mem, Counters, fault = "none", CheckBalance(l)
  PROVE  enable_balance' \in BOOLEAN /\ fault' \in Faults /\ fault' # "freed"
<1>1. enable_balance \in BOOLEAN BY DEF Counters
<1>2. CASE enable_balance BY <1>1, <1>2 DEF CheckBalance, Faults
<1>3. CASE ~enable_balance /\ DividesByZero(l) BY <1>1, <1>3 DEF CheckBalance, Faults
<1>4. CASE ~enable_balance /\ ~DividesByZero(l)
  <2>1. enable_balance' = NearlyFull(l) /\ fault' = fault BY <1>4 DEF CheckBalance
  <2>2. NearlyFull(l) \in BOOLEAN BY DEF NearlyFull
  <2>. QED BY <2>1, <2>2 DEF Faults
<1>. QED BY <1>2, <1>3, <1>4

\* A key that is not there changes nothing in the order.
LEMMA OthersAll ==
  ASSUME NEW l, NEW w, Lists(l, w), NEW k, k \notin Listed(l)
  PROVE  Others(Cat(w), k) = Cat(w)
<1>1. /\ Cat(w) \in Seq(Node) /\ Injective(Cat(w))
      /\ \A i \in 1..Len(Cat(w)) : Cat(w)[i] \in Listed(l)
  BY CatFacts
<1>2. \A i \in 1..Len(Cat(w)) : Cat(w)[i] # k BY <1>1
<1>. HIDE DEF Cat
<1>. QED BY <1>1, <1>2, OthersIs

\* Refused: the lists may have been balanced.
LEMMA RefusedKept ==
  ASSUME NEW w, NEW k, NEW size, NEW r, NEW v, Checked(pcache, w, k, size, r.ok, r.c, v),
         Full, Counters, fault = "none", SetRefused(r), UNCHANGED op_count
  PROVE  Kept(w, k)
<1>1. /\ pcache' = r.c /\ enable_balance' = enable_balance /\ resized' = resized
      /\ fault' = fault /\ op_count' = op_count
  BY DEF SetRefused
<1>2. Cache(pcache', v) /\ Newer(w, v, k) BY <1>1 DEF Checked
<1>3. Full' BY <1>1 DEF Full, Checked
<1>4. Counters' BY <1>1 DEF Counters
<1>5. LastFreed' BY <1>1 DEF LastFreed
<1>. QED BY <1>2, <1>3, <1>4, <1>5 DEF Kept

\* The update that frees its own node.
LEMMA FreedKept ==
  ASSUME NEW w, NEW k, NEW size, NEW r, NEW v, Checked(pcache, w, k, size, r.ok, r.c, v),
         Full, Counters, fault = "none", SetFreed(r, k), UNCHANGED op_count
  PROVE  Kept(w, k)
<1>1. /\ pcache' = r.c /\ enable_balance' = enable_balance /\ resized' = resized
      /\ fault' = "freed" /\ op_count' = op_count
      /\ k \in pcache.index /\ k \notin r.c.index
  BY DEF SetFreed
<1>2. Cache(pcache', v) /\ Newer(w, v, k) BY <1>1 DEF Checked
<1>3. Full' BY <1>1 DEF Full, Checked
<1>4. Counters' BY <1>1 DEF Counters, Faults
<1>5. LastFreed'
  <2>1. Len(v[Inactive]) = 0 BY <1>1 DEF Checked
  <2>2. Lists(pcache'.list, v) BY <1>2 DEF Cache
  <2>3. pcache'.list.size[Inactive] = Len(v[Inactive]) BY <2>2, ListsFacts, Consts
  <2>. QED BY <2>1, <2>3 DEF LastFreed
<1>. QED BY <1>2, <1>3, <1>4, <1>5 DEF Kept

\* A new node.
LEMMA AddsKept ==
  ASSUME NEW w, NEW k \in Node, NEW size \in SizeT, NEW r, NEW v,
         Checked(pcache, w, k, size, r.ok, r.c, v), NEW o \in Value \cup {Null},
         Full, Counters, fault = "none", Accepted(k, o, size), SetAdds(r, k, o, size),
         UNCHANGED op_count
  PROVE  Kept(w, k)
<1>. DEFINE d == r.c
            e == _fcache_add_node(d, k, o, size)
            x == [v EXCEPT ![Inactive] = Append(@, k)]
<1>1. /\ r.ok /\ k \notin pcache.index /\ pcache' = e /\ CheckBalance(e.list)
      /\ resized' = resized /\ op_count' = op_count
  BY DEF SetAdds, Finish
<1>. HIDE DEF e, d
<1>2. Cache(d, v) /\ Shrunk(pcache, d) /\ Newer(w, v, k) BY DEF Checked, d
<1>3. k \notin d.index /\ o \notin d.held BY <1>1, <1>2 DEF Shrunk, Accepted
<1>4. Added(d, v, k, size, e) BY <1>2, <1>3, AddNode DEF e
<1>5. Cache(e, x) BY <1>4 DEF Added
<1>6. Newer(w, x, k)
  <2>1. Lists(d.list, v) /\ k \notin Listed(d.list) /\ v \in [List -> Seq(Node)]
    BY <1>2, <1>3 DEF Cache, Lists
  <2>2. Others(Cat(v), k) = Cat(v) BY <2>1, OthersAll
  <2>3. Lists(e.list, x) BY <1>5 DEF Cache
  <2>4. Others(Cat(x), k) = Cat(v) BY <2>1, <2>3, PutOthers, Consts
  <2>. QED BY <1>2, <2>2, <2>4 DEF Newer
<1>7. Full'
  <2>. SUFFICES ASSUME resized = 0 PROVE Fits(e.list) /\ Both(e.list) <= max_size
    BY <1>1 DEF Full
  <2>1. Fits(pcache.list) /\ Both(pcache.list) <= max_size BY DEF Full
  <2>2. Fits(d.list) /\ Both(d.list) + size <= max_size BY <1>1, <2>1 DEF Checked, d
  <2>. QED BY <1>4, <2>2 DEF Added
<1>8. e.list \in Mem BY <1>5 DEF Cache, Lists
<1>9. enable_balance' \in BOOLEAN /\ fault' \in Faults /\ fault' # "freed"
  BY <1>1, <1>8, BalanceCheck
<1>10. Counters' BY <1>1, <1>9 DEF Counters
<1>11. LastFreed' BY <1>9 DEF LastFreed
<1>. QED BY <1>1, <1>5, <1>6, <1>7, <1>10, <1>11 DEF Kept

\* A node with another value.
LEMMA UpdatesKept ==
  ASSUME NEW w, NEW k \in Node, NEW size \in SizeT, NEW r, NEW v,
         Checked(pcache, w, k, size, r.ok, r.c, v), NEW o \in Value \cup {Null},
         Full, Counters, fault = "none", Accepted(k, o, size), SetUpdates(r, k, o, size),
         UNCHANGED op_count
  PROVE  Kept(w, k)
<1>. DEFINE d == r.c
            e == _fcache_update_node(d, k, o, size)
            changes == size # pcache.list.dsize[k]
<1>1. /\ r.ok /\ k \in d.index /\ o # Null /\ pcache' = e /\ CheckBalance(e.list)
      /\ op_count' = op_count
      /\ changes => resized < MaxResized
      /\ resized' = IF changes THEN resized + 1 ELSE resized
  BY DEF SetUpdates, Finish
<1>. HIDE DEF e, d
<1>2. Cache(d, v) /\ Shrunk(pcache, d) /\ Newer(w, v, k) BY DEF Checked, d
<1>3. o \in d.held => d.data[k] = o BY <1>1, <1>2 DEF Shrunk, Accepted
<1>4. Renewed(d, v, k, size, e) BY <1>1, <1>2, <1>3, UpdateNode DEF e
<1>5. /\ Cache(e, v) /\ e.list.owner = d.list.owner /\ e.list.dsize = d.list.dsize
      /\ size = d.list.dsize[k] => e.list.total = d.list.total
  BY <1>4 DEF Renewed
<1>6. resized \in 0..MaxResized /\ MaxResized \in Nat BY FcacheAssumption DEF Counters
<1>7. resized' \in 0..MaxResized /\ (resized' = 0 => resized = 0 /\ ~changes)
  <2>. HIDE DEF changes
  <2>. QED BY <1>1, <1>6
<1>8. Full'
  <2>. SUFFICES ASSUME resized' = 0 PROVE Fits(e.list) /\ Both(e.list) <= max_size
    BY <1>1 DEF Full
  <2>1. resized = 0 /\ size = pcache.list.dsize[k] BY <1>7
  <2>2. Fits(pcache.list) /\ Both(pcache.list) <= max_size BY <2>1 DEF Full
  <2>3. k \in pcache.index BY <1>1, <1>2 DEF Shrunk
  <2>4. d = pcache BY <2>1, <2>3 DEF Checked, d
  <2>5. e.list.total = pcache.list.total /\ e.list.owner = pcache.list.owner
        /\ e.list.dsize = pcache.list.dsize
    BY <1>5, <2>1, <2>4
  <2>. QED BY <2>2, <2>5 DEF Fits, Both, Own
<1>9. e.list \in Mem BY <1>5 DEF Cache, Lists
<1>10. enable_balance' \in BOOLEAN /\ fault' \in Faults /\ fault' # "freed"
  BY <1>1, <1>9, BalanceCheck
<1>11. Counters' BY <1>1, <1>7, <1>10 DEF Counters
<1>12. LastFreed' BY <1>10 DEF LastFreed
<1>. QED BY <1>1, <1>2, <1>5, <1>8, <1>11, <1>12 DEF Kept

\* A node that is deleted by setting nothing.
LEMMA DropsKept ==
  ASSUME NEW w, NEW k \in Node, NEW size \in SizeT, NEW r, NEW v,
         Checked(pcache, w, k, size, r.ok, r.c, v), NEW o \in Value \cup {Null},
         Full, Counters, fault = "none", SetDrops(r, k, o),
         UNCHANGED op_count
  PROVE  Kept(w, k)
<1>. DEFINE d == r.c
            e == _fcache_del_node(d, k)
<1>1. /\ r.ok /\ k \in d.index /\ pcache' = e /\ CheckBalance(e.list)
      /\ resized' = resized /\ op_count' = op_count
  BY DEF SetDrops, Finish
<1>. HIDE DEF e, d
<1>2. Cache(d, v) /\ Newer(w, v, k) BY DEF Checked, d
<1>3. Lists(d.list, v) /\ k \in Listed(d.list) BY <1>1, <1>2 DEF Cache
<1>4. PICK p \in List : \E j \in 1..Len(v[p]) : v[p][j] = k BY <1>3, ListedAt
<1>5. PICK j \in 1..Len(v[p]) : v[p][j] = k BY <1>4
<1>. DEFINE x == [v EXCEPT ![p] = Without(@, j)]
<1>6. Deleted(d, v, p, j, e) BY <1>2, <1>5, DelNode DEF e
<1>7. /\ Cache(e, x) /\ e.index = d.index \ {k}
      /\ Fits(d.list) => /\ Fits(e.list) /\ d.list.dsize[k] \in Nat
                         /\ Both(e.list) = Both(d.list) - d.list.dsize[k]
  BY <1>5, <1>6 DEF Deleted
<1>8. Newer(w, x, k)
  <2>1. Others(Cat(v), k) = Cat(x) BY <1>3, <1>5, TakenOthers
  <2>2. Lists(e.list, x) /\ k \notin Listed(e.list) BY <1>7 DEF Cache
  <2>3. Others(Cat(x), k) = Cat(x) BY <2>2, OthersAll
  <2>. QED BY <1>2, <2>1, <2>3 DEF Newer
<1>9. Full'
  <2>. SUFFICES ASSUME resized = 0 PROVE Fits(e.list) /\ Both(e.list) <= max_size
    BY <1>1 DEF Full
  <2>1. Fits(pcache.list) /\ Both(pcache.list) <= max_size BY DEF Full
  <2>2. Fits(d.list) /\ Both(d.list) <= max_size BY <2>1 DEF Checked, d
  <2>3. d.list \in Mem BY <1>3 DEF Lists
  <2>4. Both(d.list) \in Nat BY <2>3, FreeSize
  <2>. QED BY <1>7, <2>2, <2>4, Consts, SMTT(30)
<1>10. e.list \in Mem BY <1>7 DEF Cache, Lists
<1>11. enable_balance' \in BOOLEAN /\ fault' \in Faults /\ fault' # "freed"
  BY <1>1, <1>10, BalanceCheck
<1>12. Counters' BY <1>1, <1>11 DEF Counters
<1>13. LastFreed' BY <1>11 DEF LastFreed
<1>. QED BY <1>1, <1>7, <1>8, <1>9, <1>12, <1>13 DEF Kept

\* fcache_set_obj.
LEMMA SetKept ==
  ASSUME NEW w, Cache(pcache, w), NEW k \in Node, NEW size \in Size, NEW o \in Value \cup {Null},
         Full, Counters, fcache_set_obj(k, o, size)
  PROVE  Kept(w, k)
<1>. DEFINE r == _fcache_check_and_drop_nodes(pcache, k, size)
<1>1. size \in SizeT BY FcacheAssumption DEF SizeT
<1>2. PICK v : Checked(pcache, w, k, size, r.ok, r.c, v) BY <1>1, CheckIs
<1>3. /\ fault = "none" /\ Accepted(k, o, size) /\ UNCHANGED op_count
      /\ \/ SetRefused(r) \/ SetAdds(r, k, o, size) \/ SetUpdates(r, k, o, size)
         \/ SetDrops(r, k, o) \/ SetFreed(r, k)
  BY DEF fcache_set_obj
<1>. HIDE DEF r
<1>4. CASE SetRefused(r) BY <1>2, <1>3, <1>4, RefusedKept
<1>5. CASE SetAdds(r, k, o, size) BY <1>1, <1>2, <1>3, <1>5, AddsKept
<1>6. CASE SetUpdates(r, k, o, size) BY <1>1, <1>2, <1>3, <1>6, UpdatesKept
<1>7. CASE SetDrops(r, k, o) BY <1>1, <1>2, <1>3, <1>7, DropsKept
<1>8. CASE SetFreed(r, k) BY <1>2, <1>3, <1>8, FreedKept
<1>. QED BY <1>3, <1>4, <1>5, <1>6, <1>7, <1>8

\* fcache_get_obj.
LEMMA GetKept ==
  ASSUME NEW w, Cache(pcache, w), NEW k \in Node, Full, Counters, fcache_get_obj(k)
  PROVE  Kept(w, k)
<1>. DEFINE l == IF BalanceDue THEN _fcache_balance_nodes(pcache.list) ELSE pcache.list
            m == IF k \in pcache.index THEN fcache_list_move_node(l, k, Active) ELSE l
            c == [pcache EXCEPT !.list = m]
<1>1. /\ fault = "none" /\ pcache' = c
      /\ op_count' = IF BalanceDue THEN 0 ELSE IF enable_balance THEN op_count + 1 ELSE op_count
      /\ enable_balance' = enable_balance /\ resized' = resized /\ fault' = fault
  BY DEF fcache_get_obj
<1>2. Lists(pcache.list, w) /\ pcache.index = Listed(pcache.list) BY DEF Cache
<1>3. \E v : Balanced(pcache.list, w, l, v)
  <2>1. CASE BalanceDue BY <1>2, <2>1, BalanceLinks
  <2>2. CASE ~BalanceDue
    <3>1. Balanced(pcache.list, w, pcache.list, w) BY <1>2 DEF Balanced
    <3>. QED BY <2>2, <3>1
  <2>. QED BY <2>1, <2>2
<1>4. PICK v : Balanced(pcache.list, w, l, v) BY <1>3
<1>. HIDE DEF l
<1>5. /\ Lists(l, v) /\ Cat(v) = Cat(w) /\ Listed(l) = Listed(pcache.list)
      /\ Fits(pcache.list) /\ Both(pcache.list) <= max_size => Fits(l) /\ Both(l) = Both(pcache.list)
  BY <1>4 DEF Balanced
<1>6. Newer(w, w, k) BY <1>2, OthersSeq
<1>7. \E u : /\ Lists(m, u) /\ Listed(m) = Listed(l) /\ Newer(w, u, k)
             /\ Fits(l) /\ Both(l) <= max_size => Fits(m) /\ Both(m) = Both(l)
  <2>1. CASE k \notin pcache.index
    <3>1. m = l BY <2>1
    <3>2. Newer(w, v, k) BY <1>5, <1>6 DEF Newer
    <3>. QED BY <1>5, <3>1, <3>2
  <2>2. CASE k \in pcache.index
    <3>1. PICK p \in List : \E j \in 1..Len(v[p]) : v[p][j] = k BY <1>2, <1>5, <2>2, ListedAt
    <3>2. PICK j \in 1..Len(v[p]) : v[p][j] = k BY <3>1
    <3>. DEFINE u == Move(v, p, j, Active)
    <3>3. m = fcache_list_move_node(l, k, Active) BY <2>2
    <3>4. Moved(l, v, p, j, Active, m) BY <1>5, <3>2, <3>3, MoveLinks, Consts
    <3>. HIDE DEF m
    <3>5. Lists(m, u) /\ m.owner = [l.owner EXCEPT ![k] = Active] BY <3>2, <3>4 DEF Moved
    <3>6. l.owner \in [Node -> List \cup {Null}] BY <1>5, OwnSums DEF Lists
    <3>7. Listed(m) = Listed(l) BY <1>2, <1>5, <2>2, <3>5, <3>6, Consts DEF Listed
    <3>8. Newer(w, u, k)
      <4>1. Others(Cat(u), k) = Others(Cat(v), k) BY <1>5, <3>2, <3>5, MoveOthers, Consts
      <4>. QED BY <1>5, <1>6, <4>1 DEF Newer
    <3>9. Fits(l) /\ Both(l) <= max_size => Fits(m) /\ Both(m) = Both(l)
      BY <1>5, <3>4, MovedFits, Consts
    <3>. HIDE DEF u
    <3>. QED BY <3>5, <3>7, <3>8, <3>9
  <2>. QED BY <2>1, <2>2
<1>8. PICK u : /\ Lists(m, u) /\ Listed(m) = Listed(l) /\ Newer(w, u, k)
               /\ Fits(l) /\ Both(l) <= max_size => Fits(m) /\ Both(m) = Both(l)
  BY <1>7
<1>. HIDE DEF m
<1>9. Cache(c, u) /\ c.list = m BY <1>5, <1>8, RelistCache
<1>. HIDE DEF c
<1>10. Full' BY <1>1, <1>5, <1>8, <1>9 DEF Full
<1>11. LastFreed' BY <1>1 DEF LastFreed
<1>12. op_count' \in 0..(FCACHE_BALANCE_INTERVAL - 1)
  <2>1. op_count \in 0..(FCACHE_BALANCE_INTERVAL - 1) /\ FCACHE_BALANCE_INTERVAL \in Nat \ {0}
    BY FcacheAssumption DEF Counters
  <2>2. CASE BalanceDue BY <1>1, <2>1, <2>2
  <2>3. CASE ~BalanceDue /\ enable_balance
    <3>1. op_count' = op_count + 1 /\ op_count + 1 # FCACHE_BALANCE_INTERVAL
      BY <1>1, <2>3 DEF BalanceDue
    <3>. QED BY <2>1, <3>1
  <2>4. CASE ~BalanceDue /\ ~enable_balance BY <1>1, <2>1, <2>4
  <2>. QED BY <2>2, <2>3, <2>4
<1>13. Counters' BY <1>1, <1>12 DEF Counters
<1>. QED BY <1>1, <1>8, <1>9, <1>10, <1>11, <1>13 DEF Kept

\* fcache_destroy gives back every value.
LEMMA AllFreed ==
  ASSUME NEW c, NEW w, Cache(c, w)
  PROVE  _fcache_destroy_list(_fcache_destroy_list(c, Active), Inactive).held = {}
<1>. DEFINE a == _fcache_destroy_list(c, Active)
            v == [w EXCEPT ![Active] = Rest(@, Len(w[Active]))]
            b == _fcache_destroy_list(a, Inactive)
<1>1. c \in CacheT /\ Lists(c.list, w) /\ c.index = Listed(c.list) BY DEF Cache
<1>2. Draining(c, w, Active, Len(w[Active]), a) BY <1>1, DrainLinks, Consts
<1>. HIDE DEF a
<1>3. /\ a \in CacheT /\ Lists(a.list, v) /\ a.data = c.data
      /\ a.held = c.held \ {c.data[w[Active][x]] : x \in 1..Len(w[Active])}
  BY <1>2 DEF Draining
<1>4. Draining(a, v, Inactive, Len(v[Inactive]), b) BY <1>3, DrainLinks, Consts
<1>5. v[Inactive] = w[Inactive]
  <2>1. w \in [List -> Seq(Node)] BY <1>1 DEF Lists
  <2>. QED BY <2>1, Consts
<1>. HIDE DEF b, v
<1>6. b.held = a.held \ {c.data[w[Inactive][x]] : x \in 1..Len(w[Inactive])}
  BY <1>3, <1>4, <1>5 DEF Draining
<1>7. c.held \subseteq {c.data[k] : k \in c.index} BY DEF Cache, Holds
<1>8. ASSUME NEW y \in b.held PROVE FALSE
  <2>1. PICK k \in c.index : y = c.data[k] BY <1>3, <1>6, <1>7, <1>8
  <2>2. PICK p \in List : \E j \in 1..Len(w[p]) : w[p][j] = k BY <1>1, ListedAt
  <2>3. PICK j \in 1..Len(w[p]) : w[p][j] = k BY <2>2
  <2>4. CASE p = Active BY <1>3, <1>6, <1>8, <2>1, <2>3, <2>4
  <2>5. CASE p = Inactive BY <1>6, <1>8, <2>1, <2>3, <2>5
  <2>. QED BY <2>4, <2>5, Consts
<1>9. b.held = {} BY <1>8
<1>. QED BY <1>9 DEF a, b

\* So it does, and the cache is a new one.
LEMMA DestroyKept ==
  ASSUME NEW w, Cache(pcache, w), NEW k \in Node, Full, Counters, fcache_destroy
  PROVE  Kept(w, k)
<1>1. /\ fault = "none" /\ pcache' = fcache_create
      /\ enable_balance' = FALSE /\ op_count' = 0 /\ resized' = resized /\ fault' = fault
  BY AllFreed, CreateIs DEF fcache_destroy
<1>2. Cache(pcache', Nothing) BY <1>1, CreateIs
<1>3. Newer(w, Nothing, k)
  <2>. DEFINE t == Others(Cat(w), k)
  <2>1. Lists(pcache.list, w) BY DEF Cache
  <2>2. t \in Seq(Node) BY <2>1, OthersSeq
  <2>. HIDE DEF t
  <2>3. Len(t) \in Nat /\ Len(t) \in 0..Len(t) BY <2>2, LenProperties
  <2>4. Rest(t, Len(t)) \in Seq(Node) /\ Len(Rest(t, Len(t))) = Len(t) - Len(t)
    BY <2>2, <2>3, RestIs
  <2>5. Rest(t, Len(t)) = <<>>
    <3>1. Len(t) - Len(t) = 0 BY <2>3
    <3>. QED BY <2>4, <3>1, EmptySeq
  <2>6. Lists(fcache_create.list, Nothing) /\ Listed(fcache_create.list) = {}
    BY CreateIs DEF Cache, fcache_create
  <2>7. Others(Cat(Nothing), k) = Cat(Nothing) BY <2>6, OthersAll
  <2>8. Cat(Nothing) = <<>>
    <3>1. Nothing[Inactive] = <<>> /\ Nothing[Active] = <<>> BY Consts DEF Nothing
    <3>2. Cat(Nothing) = <<>> \o <<>> BY <3>1, Zenon DEF Cat
    <3>3. <<>> \o <<>> = <<>> BY EmptySeq, ConcatEmptySeq
    <3>. QED BY <3>2, <3>3
  <2>. QED BY <2>3, <2>5, <2>7, <2>8 DEF Newer, End, t
<1>4. Full' BY <1>1, CreateIs DEF Full
<1>5. LastFreed' BY <1>1 DEF LastFreed
<1>6. Counters'
  <2>1. op_count' \in 0..(FCACHE_BALANCE_INTERVAL - 1) BY <1>1, FcacheAssumption
  <2>2. enable_balance' \in BOOLEAN BY <1>1, Zenon
  <2>. QED BY <1>1, <2>1, <2>2 DEF Counters
<1>. QED BY <1>2, <1>3, <1>4, <1>5, <1>6 DEF Kept

\* Every step.
LEMMA NextKept ==
  ASSUME NEW w, Cache(pcache, w), Full, Counters, Next
  PROVE  \E k \in Node : Kept(w, k)
<1>1. CASE \E k \in Key, size \in Size, o \in Value \cup {Null} : fcache_set_obj(k, o, size)
  BY <1>1, SetKept DEF Key
<1>2. CASE \E k \in Key : fcache_get_obj(k) BY <1>2, GetKept DEF Key
<1>3. CASE fcache_destroy
  <2>1. PICK k \in Node : TRUE BY FcacheAssumption
  <2>. QED BY <1>3, <2>1, DestroyKept
<1>. QED BY <1>1, <1>2, <1>3 DEF Next

\* The invariant is inductive.
LEMMA NextIInv == IInv /\ [Next]_vars => IInv'
<1>1. ASSUME IInv, Next PROVE IInv'
  <2>1. PICK w : Cache(pcache, w) BY <1>1 DEF IInv
  <2>2. PICK k \in Node : Kept(w, k) BY <1>1, <2>1, NextKept DEF IInv
  <2>. QED BY <2>2 DEF IInv, Kept
<1>2. ASSUME IInv, UNCHANGED vars PROVE IInv'
  BY <1>2 DEF IInv, vars, Full, LastFreed, Counters
<1>. QED BY <1>1, <1>2

\* It always holds.
LEMMA SpecIInv == Spec => []IInv
BY InitIInv, NextIInv, PTL DEF Spec

-----------------------------------------------------------------------------
(* The theorems.                                                           *)

\* The walk along next is the list of the invariant.
LEMMA WalkIs ==
  ASSUME NEW w, Cache(pcache, w)
  PROVE  Chain(Active) = w[Active] /\ Chain(Inactive) = w[Inactive]
         /\ \A p \in List : Chain(p) = w[p]
BY ChainIs, Consts DEF Cache, Chain

\* The two linked lists are right in every reachable state: a walk along next meets
\* each node of the list once, ends at the tail, and prev leads back, whatever
\* fcache_list_push, pop, move_node and delete_node have done.
THEOREM ListsLinked == Spec => []Linked
<1>1. IInv => Linked
  <2>. SUFFICES ASSUME IInv PROVE Linked OBVIOUS
  <2>1. PICK w : Cache(pcache, w) BY DEF IInv
  <2>. DEFINE l == pcache.list
  <2>2. Lists(l, w) BY <2>1 DEF Cache
  <2>. HIDE DEF l
  <2>3. ASSUME NEW p \in List
        PROVE  LET s == Chain(p)
               IN  /\ ToSet(s) = Nodes(p) /\ IsInjective(s) /\ Len(s) = l.size[p]
                   /\ l.tail[p] = IF s = <<>> THEN Null ELSE Last(s)
                   /\ \A x \in 2..Len(s) : l.prev[s[x]] = s[x - 1]
    <3>. DEFINE s == w[p]
    <3>1. Chain(p) = s BY <2>1, WalkIs
    <3>2. /\ l \in Mem /\ s \in Seq(Node) /\ Len(s) \in Nat
          /\ \A i \in 1..Len(s) : s[i] \in Node /\ l.owner[s[i]] = p
          /\ \A i, j \in 1..Len(s) : s[i] = s[j] => i = j
          /\ \A n \in Node : l.owner[n] = p => \E i \in 1..Len(s) : s[i] = n
          /\ Chained(s, l.head[p], l.tail[p], l.next, l.prev)
          /\ l.size[p] = Len(s)
      BY <2>2, ListsFacts
    <3>3. DOMAIN s = 1..Len(s) BY <3>2, LenProperties
    <3>. HIDE DEF s
    <3>4. ToSet(s) = Nodes(p) BY <3>2, <3>3 DEF ToSet, Nodes, l
    <3>5. IsInjective(s) BY <3>2, <3>3 DEF IsInjective
    <3>6. l.tail[p] = IF s = <<>> THEN Null ELSE Last(s)
      <4>1. s = <<>> <=> Len(s) = 0 BY <3>2, EmptySeq
      <4>. QED BY <3>2, <4>1 DEF Chained, Last
    <3>7. \A x \in 2..Len(s) : l.prev[s[x]] = s[x - 1] BY <3>2 DEF Chained
    <3>. QED BY <3>1, <3>2, <3>4, <3>5, <3>6, <3>7
  <2>. QED BY <2>3 DEF Linked, l
<1>. QED BY <1>1, SpecIInv, PTL

\* The hash table knows exactly the nodes of the lists, and each value taken over and
\* not freed belongs to one of them: obj_free is called once for each value that leaves.
THEOREM ValuesOwned == Spec => []Owned
<1>1. IInv => Owned
  <2>. SUFFICES ASSUME IInv PROVE Owned OBVIOUS
  <2>1. PICK w : Cache(pcache, w) BY DEF IInv
  <2>2. /\ pcache.index = Listed(pcache.list) /\ Holds(pcache.index, pcache.data, pcache.held)
        /\ pcache.list \in Mem
    BY <2>1 DEF Cache, Lists
  <2>3. pcache.list.owner \in [Node -> List \cup {Null}] BY <2>2, OwnSums
  <2>4. pcache.index = Nodes(Active) \cup Nodes(Inactive)
    BY <2>2, <2>3, Consts DEF Listed, Nodes
  <2>. QED BY <2>2, <2>4 DEF Owned, Holds
<1>. QED BY <1>1, SpecIInv, PTL

\* The sums the lists keep are those of their nodes and together within max_size, as
\* long as no update has changed the size of an object: _fcache_check_and_drop_nodes
\* frees enough, and the size_t arithmetic does not wrap.
THEOREM SizeBounded == Spec => []Bounded
<1>1. IInv => Bounded
  <2>. SUFFICES ASSUME IInv, resized = 0
                PROVE  /\ \A p \in List : pcache.list.total[p]
                            = MapThenSumSet(LAMBDA k : pcache.list.dsize[k], Nodes(p))
                       /\ pcache.list.total[Active] + pcache.list.total[Inactive] <= max_size
    BY DEF Bounded
  <2>1. Fits(pcache.list) /\ Both(pcache.list) <= max_size BY DEF IInv, Full
  <2>2. \A p \in List : pcache.list.total[p] = SumOf(pcache.list.dsize, Nodes(p))
    BY <2>1 DEF Fits, Own, Nodes
  <2>. QED BY <2>1, <2>2 DEF Both, SumOf
<1>. QED BY <1>1, SpecIInv, PTL

\* An update runs into its own freed node only when the inactive list is empty: the
\* node that is updated is moved to the tail and dropped last.
THEOREM UpdateFreedLast == Spec => []UpdatedLast
<1>1. IInv => UpdatedLast
  <2>. SUFFICES ASSUME IInv, fault = "freed" PROVE Chain(Inactive) = <<>> BY DEF UpdatedLast
  <2>1. PICK w : Cache(pcache, w) BY DEF IInv
  <2>2. pcache.list.size[Inactive] = 0 BY DEF IInv, LastFreed
  <2>3. w[Inactive] \in Seq(Node) /\ Len(w[Inactive]) = 0
    BY <2>1, <2>2, ListsFacts, Consts DEF Cache
  <2>4. w[Inactive] = <<>> BY <2>3, EmptySeq
  <2>. QED BY <2>1, <2>4, WalkIs
<1>. QED BY <1>1, SpecIInv, PTL

\* The types of the cache's fields and counters; the length of a list never exceeds the
\* number of nodes.
THEOREM TypeCorrect == Spec => []TypeOK
<1>1. IInv => TypeOK
  <2>. SUFFICES ASSUME IInv PROVE TypeOK OBVIOUS
  <2>1. PICK w : Cache(pcache, w) BY DEF IInv
  <2>2. Lists(pcache.list, w) /\ pcache \in CacheT BY <2>1 DEF Cache
  <2>3. pcache.index \subseteq Node /\ pcache.data \in [Node -> Value \cup {Null}]
        /\ pcache.held \subseteq Value /\ pcache.list \in Mem
    BY <2>2, CacheIs
  <2>4. \A p \in List : /\ pcache.list.size[p] \in 0..Cardinality(Node)
                        /\ pcache.list.total[p] \in 0..(SizeMod - 1)
    BY <2>2, <2>3, ListsFacts, ListLen, OwnSums DEF SizeT
  <2>. QED BY <2>3, <2>4 DEF TypeOK, IInv, Counters, Faults, Key
<1>. QED BY <1>1, SpecIInv, PTL

\* Nodes go oldest first: apart from the key a call is about, what a call leaves of the
\* inactive list followed by the active one is the newer end of what was there.
THEOREM DroppedOldestFirst == Spec => OldestFirst
<1>. DEFINE A == \E old \in {DropOrder}, new \in {DropOrder'} :
                   \E k \in Key : IsSuffix(Others(new, k), Others(old, k))
<1>1. ASSUME IInv, Next PROVE A
  <2>1. PICK w : Cache(pcache, w) BY <1>1 DEF IInv
  <2>2. PICK k \in Node : Kept(w, k) BY <1>1, <2>1, NextKept DEF IInv
  <2>3. PICK x : Cache(pcache', x) /\ Newer(w, x, k) BY <2>2 DEF Kept
  <2>4. DropOrder = Cat(w) BY <2>1, WalkIs DEF DropOrder, Cat
  <2>5. DropOrder' = Cat(x)
    <3>1. Lists(pcache'.list, x) BY <2>3 DEF Cache
    <3>2. ChainOf(pcache'.list, Active) = x[Active] /\ ChainOf(pcache'.list, Inactive) = x[Inactive]
      BY <3>1, ChainIs, Consts
    <3>. QED BY <3>2 DEF DropOrder, Chain, Cat
  <2>6. IsSuffix(Others(Cat(x), k), Others(Cat(w), k))
    <3>1. Lists(pcache.list, w) BY <2>1 DEF Cache
    <3>2. Others(Cat(w), k) \in Seq(Node) BY <3>1, OthersSeq
    <3>. QED BY <2>3, <3>2, EndIsSuffix DEF Newer
  <2>. QED BY <2>4, <2>5, <2>6 DEF Key
<1>2. IInv /\ [Next]_vars => [A]_pcache
  <2>. HIDE DEF A
  <2>. QED BY <1>1 DEF vars
<1>3. Spec => [][A]_pcache BY <1>2, SpecIInv, PTL DEF Spec
<1>. QED BY <1>3 DEF OldestFirst
=============================================================================
