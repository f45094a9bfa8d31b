---------------------------- MODULE FhashProofs ----------------------------
(***************************************************************************)
(* Proofs about Fhash, for every set of keys, values and iterators, every  *)
(* hash function, every size of the table and every threshold.             *)
(***************************************************************************)
EXTENDS Fhash, SequenceTheorems, FiniteSetTheorems, WellFoundedInduction, TLAPS

-----------------------------------------------------------------------------
(* Induction.                                                              *)

\* A set with 0 and with the successor of each number it has contains them all.
LEMMA Climb ==
  ASSUME NEW T, 0 \in T, \A k \in Nat : k \in T => k + 1 \in T
  PROVE  \A k \in Nat : k \in T
<1>. DEFINE R == OpToRel(<, Nat)
            B == {k \in Nat : k \notin T}
<1>1. SUFFICES ASSUME B # {} PROVE FALSE OBVIOUS
<1>2. IsWellFoundedOn(R, Nat) BY NatLessThanWellFounded
<1>3. PICK x \in B : \A y \in B : ~(<<y, x>> \in R) BY <1>1, <1>2, WFMin, Zenon
<1>4. x # 0 /\ x \in Nat OBVIOUS
<1>5. x - 1 \in Nat /\ x - 1 < x BY <1>4
<1>6. <<x - 1, x>> \in R BY <1>4, <1>5 DEF OpToRel
<1>7. x - 1 \in T BY <1>3, <1>5, <1>6
<1>8. (x - 1) + 1 \in T BY <1>5, <1>7
<1>. QED BY <1>4, <1>8

-----------------------------------------------------------------------------
(* Orders.                                                                 *)

\* A set of natural numbers that is not empty has a least element.
LEMMA Least ==
  ASSUME NEW S \in SUBSET Nat, S # {}
  PROVE  /\ \E x \in S : \A y \in S : x <= y
         /\ Min(S) \in S
         /\ \A y \in S : Min(S) <= y
<1>. DEFINE R == OpToRel(<, Nat)
<1>1. IsWellFoundedOn(R, Nat) BY NatLessThanWellFounded
<1>2. PICK x \in S : \A y \in S : ~(<<y, x>> \in R) BY <1>1, WFMin, Zenon
<1>3. ASSUME NEW y \in S PROVE x <= y
  <2>1. ~(y < x) BY <1>2 DEF OpToRel
  <2>. QED BY <2>1
<1>4. \E z \in S : \A y \in S : z =< y BY <1>3
<1>. QED BY <1>3, <1>4 DEF Min

\* One that is bounded has a greatest.
LEMMA Greatest ==
  ASSUME NEW S \in SUBSET Nat, S # {}, NEW n \in Nat, \A x \in S : x <= n
  PROVE  \E x \in S : \A y \in S : y <= x
<1>. DEFINE D == {n - x : x \in S}
<1>1. D \in SUBSET Nat /\ D # {}
  <2>1. \A x \in S : n - x \in Nat OBVIOUS
  <2>2. PICK x \in S : TRUE OBVIOUS
  <2>3. n - x \in D OBVIOUS
  <2>. QED BY <2>1, <2>3
<1>2. PICK d \in D : \A e \in D : d <= e
  <2>. HIDE DEF D
  <2>. QED BY <1>1, Least
<1>3. PICK x \in S : d = n - x OBVIOUS
<1>4. ASSUME NEW y \in S PROVE y <= x
  <2>1. n - x <= n - y BY <1>2, <1>3
  <2>. QED BY <2>1
<1>. QED BY <1>4

\* A set of positions.
Positions == Nat \X Nat

\* What a position is.
LEMMA Position ==
  ASSUME NEW x \in Positions
  PROVE  x[1] \in Nat /\ x[2] \in Nat /\ x = <<x[1], x[2]>>
BY DEF Positions

\* Two positions are equal or one of them is before the other.
LEMMA Ordered ==
  ASSUME NEW x \in Positions, NEW y \in Positions
  PROVE  /\ x = y \/ Before(x, y) \/ Before(y, x)
         /\ ~Before(x, x)
         /\ Before(x, y) => ~Before(y, x) /\ x # y
         /\ \A z \in Positions : Before(x, y) /\ Before(y, z) => Before(x, z)
BY Position DEF Before

\* The first of a set of positions.
LEMMA EarliestIs ==
  ASSUME NEW S \in SUBSET Positions, S # {}
  PROVE  /\ Earliest(S) \in S
         /\ \A y \in S : y = Earliest(S) \/ Before(Earliest(S), y)
<1>. DEFINE A == {x[1] : x \in S}
<1>1. A \in SUBSET Nat /\ A # {} BY Position
<1>2. PICK a \in A : \A b \in A : a <= b BY <1>1, Least
<1>. DEFINE B == {x[2] : x \in {z \in S : z[1] = a}}
<1>3. B \in SUBSET Nat /\ B # {} BY Position
<1>4. PICK b \in B : \A c \in B : b <= c BY <1>3, Least
<1>5. PICK x \in S : x[1] = a /\ x[2] = b OBVIOUS
<1>6. ASSUME NEW y \in S PROVE y = x \/ Before(x, y)
  <2>1. /\ y[1] \in Nat /\ y[2] \in Nat /\ y = <<y[1], y[2]>>
        /\ x[1] \in Nat /\ x[2] \in Nat /\ x = <<x[1], x[2]>> BY Position
  <2>2. a <= y[1] BY <1>2
  <2>3. y[1] = a => b <= y[2] BY <1>4
  <2>4. CASE a < y[1] BY <1>5, <2>4 DEF Before
  <2>5. CASE y[1] = a /\ b < y[2] BY <1>5, <2>5 DEF Before
  <2>6. CASE y[1] = a /\ b = y[2] BY <1>5, <2>1, <2>6
  <2>. QED BY <1>5, <2>1, <2>2, <2>3, <2>4, <2>5, <2>6
<1>7. \E z \in S : \A y \in S : y = z \/ Before(z, y) BY <1>6
<1>. QED BY <1>7 DEF Earliest

\* The last of a set of positions whose indexes, and whose slots, are bounded.
LEMMA LatestIs ==
  ASSUME NEW S \in SUBSET Positions, S # {},
         NEW n \in Nat, \A x \in S : x[1] <= n,
         NEW l \in [1..n -> Nat], \A x \in S : x[1] \in 1..n /\ x[2] <= l[x[1]]
  PROVE  /\ Latest(S) \in S
         /\ \A y \in S : y = Latest(S) \/ Before(y, Latest(S))
<1>. DEFINE A == {x[1] : x \in S}
<1>1. A \in SUBSET Nat /\ A # {} BY Position
<1>2. PICK a \in A : \A b \in A : b <= a
  <2>1. \A b \in A : b <= n OBVIOUS
  <2>. HIDE DEF A
  <2>. QED BY <1>1, <2>1, Greatest
<1>. DEFINE B == {x[2] : x \in {z \in S : z[1] = a}}
<1>3. B \in SUBSET Nat /\ B # {} BY Position
<1>4. PICK b \in B : \A c \in B : c <= b
  <2>1. a \in 1..n /\ \A b \in B : b <= l[a] OBVIOUS
  <2>2. l[a] \in Nat BY <2>1
  <2>. HIDE DEF B
  <2>. QED BY <1>3, <2>1, <2>2, Greatest
<1>5. PICK x \in S : x[1] = a /\ x[2] = b OBVIOUS
<1>6. ASSUME NEW y \in S PROVE y = x \/ Before(y, x)
  <2>1. /\ y[1] \in Nat /\ y[2] \in Nat /\ y = <<y[1], y[2]>>
        /\ x[1] \in Nat /\ x[2] \in Nat /\ x = <<x[1], x[2]>> BY Position
  <2>2. y[1] <= a BY <1>2
  <2>3. y[1] = a => y[2] <= b BY <1>4
  <2>4. CASE y[1] < a BY <1>5, <2>4 DEF Before
  <2>5. CASE y[1] = a /\ y[2] < b BY <1>5, <2>5 DEF Before
  <2>6. CASE y[1] = a /\ b = y[2] BY <1>5, <2>1, <2>6
  <2>. QED BY <1>5, <2>1, <2>2, <2>3, <2>4, <2>5, <2>6
<1>7. \E z \in S : \A y \in S : y = z \/ Before(y, z) BY <1>6
<1>. QED BY <1>7 DEF Latest

-----------------------------------------------------------------------------
(* Node managers.                                                          *)

Slot == Node \cup {Null}

\* used counts the valid slots.
IsMgr(m) == m \in Mgr /\ m.used = Cardinality(Occupied(m))

\* m2 is m with n in slot s; when n is Null, with nothing in slot s.
Written(m, m2, s, n) ==
  /\ s \in Nat \ {0}
  /\ Occupied(m2) = IF n = Null THEN Occupied(m) \ {s} ELSE Occupied(m) \cup {s}
  /\ n # Null => m2.list[s] = n
  /\ \A r \in Occupied(m) : r # s => m2.list[r] = m.list[r]

\* Nodes are not Null.
LEMMA NodesValid == \A n \in Node : n # Null /\ Valid(n)
BY FhashAssumption DEF Valid

\* The fields of a manager.
LEMMA MgrIs ==
  ASSUME NEW m \in Mgr
  PROVE  /\ m.used \in Nat /\ m.list \in Seq(Slot) /\ Len(m.list) \in Nat
         /\ m = [used |-> m.used, list |-> m.list]
         /\ DOMAIN m.list = 1..Len(m.list)
         /\ \A s \in 1..Len(m.list) : m.list[s] \in Slot
         /\ Occupied(m) \in SUBSET (1..Len(m.list)) /\ IsFiniteSet(Occupied(m))
         /\ \A s \in 1..Len(m.list) : s \in Occupied(m) <=> m.list[s] # Null
         /\ \A s \in Occupied(m) : s \in Nat \ {0} /\ m.list[s] \in Node
<1>1. /\ m.used \in Nat /\ m.list \in Seq(Slot)
      /\ m = [used |-> m.used, list |-> m.list]
  BY DEF Mgr, Slot
<1>2. /\ Len(m.list) \in Nat /\ DOMAIN m.list = 1..Len(m.list)
      /\ \A s \in 1..Len(m.list) : m.list[s] \in Slot
  BY <1>1, LenProperties
<1>3. /\ Occupied(m) \in SUBSET (1..Len(m.list))
      /\ \A s \in 1..Len(m.list) : s \in Occupied(m) <=> m.list[s] # Null
  BY <1>2 DEF Occupied, Valid
<1>4. IsFiniteSet(Occupied(m))
  <2>1. IsFiniteSet(1..Len(m.list)) BY <1>2, FS_Interval
  <2>. QED BY <1>3, <2>1, FS_Subset
<1>5. \A s \in Occupied(m) : s \in Nat \ {0} /\ m.list[s] \in Node
  BY <1>2, <1>3 DEF Slot
<1>. QED BY <1>1, <1>2, <1>3, <1>4, <1>5

\* A manager with another list.
LEMMA OtherList ==
  ASSUME NEW m \in Mgr, NEW l
  PROVE  LET w == [m EXCEPT !.list = l]
         IN  w.list = l /\ w.used = m.used /\ w = [used |-> m.used, list |-> l]
BY DEF Mgr

\* The counter of a manager, what CountersRight says of it, and its room.
LEMMA MgrCounts ==
  ASSUME NEW m, IsMgr(m)
  PROVE  /\ m.used = Len(m.list) - Cardinality(Invalid(m))
         /\ Invalid(m) \in SUBSET (1..Len(m.list))
         /\ m.used # Len(m.list) => Invalid(m) # {} /\ Min(Invalid(m)) \in Invalid(m)
<1>. DEFINE all == 1..Len(m.list)
<1>1. /\ Len(m.list) \in Nat /\ DOMAIN m.list = all /\ Occupied(m) \in SUBSET all
      /\ m.used = Cardinality(Occupied(m)) /\ m.used \in Nat
  BY MgrIs DEF IsMgr
<1>2. IsFiniteSet(all) /\ Cardinality(all) = Len(m.list)
  <2>. DEFINE l == Len(m.list)
  <2>1. l \in Nat BY <1>1
  <2>. HIDE DEF l
  <2>2. IsFiniteSet(1..l) /\ Cardinality(1..l) = IF 1 > l THEN 0 ELSE l - 1 + 1
    BY <2>1, FS_Interval
  <2>. QED BY <2>1, <2>2 DEF l
<1>3. Invalid(m) = all \ Occupied(m) BY <1>1 DEF Invalid
<1>4. all \cap Occupied(m) = Occupied(m) BY <1>1
<1>5. Cardinality(Invalid(m)) = Len(m.list) - m.used
  <2>. HIDE DEF all
  <2>1. Cardinality(all \ Occupied(m)) = Cardinality(all) - Cardinality(all \cap Occupied(m))
    BY <1>2, FS_Difference, Zenon
  <2>. QED BY <1>1, <1>2, <1>3, <1>4, <2>1
<1>6. ASSUME m.used # Len(m.list) PROVE Invalid(m) # {}
  <2>1. Cardinality(Invalid(m)) # 0 BY <1>1, <1>5, <1>6
  <2>. QED BY <2>1, FS_EmptySet, Zenon
<1>7. Invalid(m) \in SUBSET Nat BY <1>1, <1>3
<1>8. ASSUME Invalid(m) # {} PROVE Min(Invalid(m)) \in Invalid(m) BY <1>7, <1>8, Least
<1>. QED BY <1>1, <1>3, <1>5, <1>6, <1>8

\* _hash_nodemgr_init makes an empty one.
LEMMA MgrInit ==
  IsMgr(_hash_nodemgr_init) /\ Occupied(_hash_nodemgr_init) = {}
<1>1. <<>> \in Seq(Slot) /\ DOMAIN <<>> = {} BY EmptySeq
<1>2. _hash_nodemgr_init \in Mgr BY <1>1 DEF _hash_nodemgr_init, Mgr, Slot
<1>3. Occupied(_hash_nodemgr_init) = {} BY <1>1 DEF _hash_nodemgr_init, Occupied
<1>. QED BY <1>2, <1>3, FS_EmptySet DEF IsMgr, _hash_nodemgr_init

\* A list in which one slot is written.
LEMMA ListWritten ==
  ASSUME NEW m \in Mgr, NEW s \in 1..Len(m.list), NEW n \in Slot, NEW c \in Nat
  PROVE  LET w == [used |-> c, list |-> [m.list EXCEPT ![s] = n]]
         IN  w \in Mgr /\ Written(m, w, s, n)
<1>. DEFINE w == [used |-> c, list |-> [m.list EXCEPT ![s] = n]]
<1>1. /\ m.list \in Seq(Slot) /\ Len(m.list) \in Nat /\ DOMAIN m.list = 1..Len(m.list)
      /\ Occupied(m) \in SUBSET (1..Len(m.list))
      /\ \A r \in 1..Len(m.list) : r \in Occupied(m) <=> m.list[r] # Null
  BY MgrIs
<1>2. w.used = c /\ w.list = [m.list EXCEPT ![s] = n] OBVIOUS
<1>3. /\ w.list \in Seq(Slot) /\ Len(w.list) = Len(m.list)
      /\ \A r \in 1..Len(m.list) : w.list[r] = IF r = s THEN n ELSE m.list[r]
  BY <1>1, <1>2, ExceptSeq
<1>4. w \in Mgr BY <1>3 DEF Mgr, Slot
<1>. HIDE DEF w
<1>5. /\ Occupied(w) \in SUBSET (1..Len(m.list))
      /\ \A r \in 1..Len(m.list) : r \in Occupied(w) <=> w.list[r] # Null
  BY <1>3, <1>4, MgrIs
<1>6. Occupied(w) = IF n = Null THEN Occupied(m) \ {s} ELSE Occupied(m) \cup {s}
  BY <1>1, <1>3, <1>5
<1>7. Written(m, w, s, n) BY <1>1, <1>3, <1>6 DEF Written
<1>. QED BY <1>4, <1>7 DEF w

\* A free slot is filled.
LEMMA FillWritten ==
  ASSUME NEW m, IsMgr(m), NEW s \in Invalid(m), NEW n \in Node
  PROVE  IsMgr(Fill(m, s, n)) /\ Written(m, Fill(m, s, n), s, n) /\ s \notin Occupied(m)
<1>1. m \in Mgr /\ m.used \in Nat /\ IsFiniteSet(Occupied(m))
      /\ m.used = Cardinality(Occupied(m))
  BY MgrIs DEF IsMgr
<1>2. s \in 1..Len(m.list) /\ s \notin Occupied(m) BY MgrCounts DEF Invalid
<1>3. /\ Fill(m, s, n) \in Mgr /\ Written(m, Fill(m, s, n), s, n)
      /\ Fill(m, s, n).used = m.used + 1
  BY <1>1, <1>2, ListWritten DEF Fill, Slot
<1>4. Occupied(Fill(m, s, n)) = Occupied(m) \cup {s}
  BY <1>3, NodesValid DEF Written
<1>5. Cardinality(Occupied(Fill(m, s, n))) = m.used + 1
  <2>1. Cardinality(Occupied(m) \cup {s}) = Cardinality(Occupied(m)) + 1
    BY <1>1, <1>2, FS_AddElement, Zenon
  <2>. QED BY <1>1, <1>4, <2>1
<1>. QED BY <1>2, <1>3, <1>5 DEF IsMgr

\* A full list is enlarged, and its first new slot is filled.
LEMMA EnlargedWritten ==
  ASSUME NEW m, IsMgr(m), NEW n \in Node
  PROVE  LET w == AddEnlarged(m, n)
             s == Len(m.list) + 1
         IN  IsMgr(w) /\ Written(m, w, s, n) /\ s \notin Occupied(m)
<1>. DEFINE l == Len(m.list)
            g == IF m.list = <<>> THEN 1 ELSE l
            nulls == [s \in 1..g |-> Null]
            e == [m EXCEPT !.list = _hash_nodemgr_enlarge(@)]
<1>1. /\ m \in Mgr /\ m.used \in Nat /\ m.used = Cardinality(Occupied(m))
      /\ m.list \in Seq(Slot) /\ l \in Nat /\ Occupied(m) \in SUBSET (1..l)
      /\ \A s \in 1..l : s \in Occupied(m) <=> m.list[s] # Null
  BY MgrIs DEF IsMgr
<1>2. g \in Nat /\ g >= 1 BY <1>1, EmptySeq
<1>3. nulls \in Seq(Slot) /\ Len(nulls) = g /\ \A s \in 1..g : nulls[s] = Null
  <2>1. nulls \in [1..g -> Slot] BY DEF Slot
  <2>2. nulls \in Seq(Slot) BY <1>2, <2>1, SeqDef
  <2>3. Len(nulls) \in Nat /\ DOMAIN nulls = 1..Len(nulls) BY <2>2, LenProperties
  <2>4. 1..Len(nulls) = 1..g BY <2>3
  <2>5. Len(nulls) = g BY <1>2, <2>3, <2>4
  <2>. QED BY <2>2, <2>5
<1>4. e.list = m.list \o nulls /\ e.used = m.used /\ e = [used |-> m.used, list |-> e.list]
  <2>1. e = [m EXCEPT !.list = m.list \o nulls] BY DEF _hash_nodemgr_enlarge
  <2>. HIDE DEF e, nulls
  <2>2. LET w == [m EXCEPT !.list = m.list \o nulls]
        IN  /\ w.list = m.list \o nulls /\ w.used = m.used
            /\ w = [used |-> m.used, list |-> m.list \o nulls]
    BY <1>1, OtherList, Zenon
  <2>. QED BY <2>1, <2>2, Zenon
<1>. HIDE DEF e, nulls, g
<1>5. /\ e.list \in Seq(Slot) /\ Len(e.list) = l + g
      /\ \A s \in 1..(l + g) : e.list[s] = IF s <= l THEN m.list[s] ELSE Null
  <2>1. /\ m.list \o nulls \in Seq(Slot) /\ Len(m.list \o nulls) = l + g
        /\ \A s \in 1..(l + g) :
             (m.list \o nulls)[s] = IF s <= l THEN m.list[s] ELSE nulls[s - l]
    BY <1>1, <1>3, ConcatProperties, ZenonT(60)
  <2>2. \A s \in 1..(l + g) : ~(s <= l) => s - l \in 1..g BY <1>1, <1>2
  <2>. QED BY <1>3, <1>4, <2>1, <2>2
<1>6. e \in Mgr BY <1>1, <1>4, <1>5 DEF Mgr, Slot
<1>7. Occupied(e) = Occupied(m)
  <2>1. /\ Occupied(e) \in SUBSET (1..(l + g))
        /\ \A s \in 1..(l + g) : s \in Occupied(e) <=> e.list[s] # Null
    BY <1>5, <1>6, MgrIs
  <2>2. ASSUME NEW s \in 1..(l + g) PROVE s \in Occupied(e) <=> s \in Occupied(m)
    <3>1. CASE s <= l BY <1>1, <1>5, <2>1, <3>1
    <3>2. CASE ~(s <= l) BY <1>1, <1>5, <2>1, <3>2
    <3>. QED BY <3>1, <3>2
  <2>3. Occupied(m) \in SUBSET (1..(l + g)) BY <1>1, <1>2
  <2>. QED BY <2>1, <2>2, <2>3
<1>8. IsMgr(e) BY <1>1, <1>4, <1>6, <1>7 DEF IsMgr
<1>9. l + 1 \in Invalid(e)
  <2>1. DOMAIN e.list = 1..(l + g) BY <1>5, <1>6, MgrIs
  <2>. QED BY <1>1, <1>2, <1>7, <2>1 DEF Invalid
<1>10. /\ IsMgr(Fill(e, l + 1, n)) /\ Written(e, Fill(e, l + 1, n), l + 1, n)
       /\ l + 1 \notin Occupied(m)
  BY <1>7, <1>8, <1>9, FillWritten
<1>11. Written(m, Fill(e, l + 1, n), l + 1, n)
  BY <1>1, <1>2, <1>5, <1>7, <1>10 DEF Written
<1>12. AddEnlarged(m, n) = Fill(e, l + 1, n) BY DEF AddEnlarged, e
<1>. QED BY <1>10, <1>11, <1>12

\* Either way to add puts the node in a slot that was free.
LEMMA AddWritten ==
  ASSUME NEW m, IsMgr(m), NEW n \in Node, NEW w,
         w \in _hash_nodemgr_add(m, n) \/ w = _hash_nodemgr_add_node(m, n)
  PROVE  IsMgr(w) /\ \E s : Written(m, w, s, n) /\ s \notin Occupied(m)
<1>1. CASE m.used = Len(m.list)
  <2>1. w = AddEnlarged(m, n) BY <1>1 DEF _hash_nodemgr_add, _hash_nodemgr_add_node
  <2>. QED BY <2>1, EnlargedWritten, Zenon
<1>2. CASE m.used # Len(m.list)
  <2>1. PICK s \in Invalid(m) : w = Fill(m, s, n)
    BY <1>2, MgrCounts DEF _hash_nodemgr_add, _hash_nodemgr_add_node
  <2>. QED BY <2>1, FillWritten, Zenon
<1>. QED BY <1>1, <1>2

\* A valid slot gets another node.
LEMMA SetWritten ==
  ASSUME NEW m, IsMgr(m), NEW s \in Occupied(m), NEW n \in Node
  PROVE  LET w == _hash_nodemgr_set(m, s, n) IN IsMgr(w) /\ Written(m, w, s, n)
<1>. DEFINE w == [used |-> m.used, list |-> [m.list EXCEPT ![s] = n]]
<1>1. /\ m \in Mgr /\ m.used \in Nat /\ m.used = Cardinality(Occupied(m))
      /\ m = [used |-> m.used, list |-> m.list] /\ s \in 1..Len(m.list)
  BY MgrIs DEF IsMgr
<1>2. _hash_nodemgr_set(m, s, n) = w BY <1>1 DEF _hash_nodemgr_set, Mgr
<1>3. w \in Mgr /\ Written(m, w, s, n) BY <1>1, ListWritten DEF Slot
<1>4. Occupied(w) = Occupied(m) BY <1>3, NodesValid DEF Written
<1>5. w.used = m.used OBVIOUS
<1>. HIDE DEF w
<1>6. IsMgr(w) BY <1>1, <1>3, <1>4, <1>5 DEF IsMgr
<1>. QED BY <1>2, <1>3, <1>6

\* A valid slot gets invalid.
LEMMA DelWritten ==
  ASSUME NEW m, IsMgr(m), NEW s \in Occupied(m)
  PROVE  LET w == _hash_nodemgr_del(m, s) IN IsMgr(w) /\ Written(m, w, s, Null)
<1>. DEFINE w == _hash_nodemgr_del(m, s)
<1>1. /\ m \in Mgr /\ m.used \in Nat /\ m.used = Cardinality(Occupied(m))
      /\ IsFiniteSet(Occupied(m)) /\ s \in 1..Len(m.list)
  BY MgrIs DEF IsMgr
<1>2. Cardinality(Occupied(m) \ {s}) = m.used - 1 BY <1>1, FS_RemoveElement
<1>3. m.used - 1 \in Nat
  <2>1. IsFiniteSet(Occupied(m) \ {s}) BY <1>1, FS_RemoveElement
  <2>. QED BY <1>2, <2>1, FS_CardinalityType
<1>4. w \in Mgr /\ Written(m, w, s, Null)
  BY <1>1, <1>3, ListWritten DEF _hash_nodemgr_del, Slot
<1>5. w.used = m.used - 1 BY DEF _hash_nodemgr_del
<1>6. Occupied(w) = Occupied(m) \ {s} BY <1>4 DEF Written
<1>. HIDE DEF w
<1>7. IsMgr(w) BY <1>2, <1>4, <1>5, <1>6 DEF IsMgr
<1>. QED BY <1>4, <1>7 DEF w

-----------------------------------------------------------------------------
(* Tables.                                                                 *)

\* The positions of the valid nodes.
LEMMA ValidNodesIs ==
  ASSUME NEW g \in Seq(Mgr)
  PROVE  /\ ValidNodes(g) \in SUBSET Positions
         /\ \A y, s : <<y, s>> \in ValidNodes(g) <=> y \in 1..Len(g) /\ s \in Occupied(g[y])
         /\ \A x \in ValidNodes(g) : /\ x[1] \in 1..Len(g) /\ x[2] \in Occupied(g[x[1]])
                                     /\ x[2] \in Nat \ {0} /\ NodeAt(g, x) \in Node
                                     /\ x = <<x[1], x[2]>>
<1>1. /\ Len(g) \in Nat /\ DOMAIN g = 1..Len(g) /\ \A y \in 1..Len(g) : g[y] \in Mgr
  BY LenProperties
<1>2. \A y, s : <<y, s>> \in ValidNodes(g) <=> y \in 1..Len(g) /\ s \in Occupied(g[y])
  BY <1>1 DEF ValidNodes
<1>3. ASSUME NEW x \in ValidNodes(g)
      PROVE  \E y \in 1..Len(g) : \E s \in Occupied(g[y]) : x = <<y, s>>
  BY <1>1 DEF ValidNodes
<1>4. ASSUME NEW x \in ValidNodes(g)
      PROVE  /\ x[1] \in 1..Len(g) /\ x[2] \in Occupied(g[x[1]])
             /\ x[2] \in Nat \ {0} /\ NodeAt(g, x) \in Node
             /\ x = <<x[1], x[2]>> /\ x \in Positions
  <2>0. PICK y \in 1..Len(g) : \E s \in Occupied(g[y]) : x = <<y, s>> BY <1>3
  <2>1. PICK s \in Occupied(g[y]) : x = <<y, s>> BY <2>0
  <2>2. s \in Nat \ {0} /\ g[y].list[s] \in Node BY <1>1, MgrIs
  <2>3. x[1] = y /\ x[2] = s BY <2>1
  <2>. QED BY <2>1, <2>2, <2>3 DEF NodeAt, Positions
<1>. QED BY <1>2, <1>4

\* They are finitely many.
LEMMA ValidNodesFinite ==
  ASSUME NEW g \in Seq(Mgr)
  PROVE  IsFiniteSet(ValidNodes(g))
<1>. DEFINE T == {{y} \X Occupied(g[y]) : y \in 1..Len(g)}
            f == [y \in 1..Len(g) |-> {y} \X Occupied(g[y])]
<1>1. /\ Len(g) \in Nat /\ DOMAIN g = 1..Len(g) /\ \A y \in 1..Len(g) : g[y] \in Mgr
  BY LenProperties
<1>2. f \in Surjection(1..Len(g), T) BY DEF Surjection
<1>3. IsFiniteSet(1..Len(g)) BY <1>1, FS_Interval
<1>4. IsFiniteSet(T)
  <2>. HIDE DEF f, T
  <2>. QED BY <1>2, <1>3, FS_Surjection, Zenon
<1>5. ASSUME NEW y \in 1..Len(g) PROVE IsFiniteSet({y} \X Occupied(g[y]))
  <2>1. IsFiniteSet(Occupied(g[y])) BY <1>1, MgrIs
  <2>2. IsFiniteSet({y}) BY FS_Singleton
  <2>. QED BY <2>1, <2>2, FS_Product
<1>6. \A S \in T : IsFiniteSet(S) BY <1>5
<1>7. ValidNodes(g) = UNION T BY <1>1 DEF ValidNodes
<1>. HIDE DEF T
<1>. QED BY <1>4, <1>6, <1>7, FS_UNION, Zenon

Tables == [index_size : 1..UINT32_MAX, slots_used : Nat, node_mgr : Seq(Mgr)]

Nodes(t) == ValidNodes(t.node_mgr)
At(t, x) == NodeAt(t.node_mgr, x)
Idx(t, k) == _hash_tbl_calculate_idx(t, k)

\* A table with a list for each of its indexes.
Sized(t) == /\ t \in Tables /\ Len(t.node_mgr) = t.index_size
            /\ \A y \in 1..t.index_size : IsMgr(t.node_mgr[y])

\* A key is in the list its hash selects, and in one slot only.
Placed(t) == /\ \A x \in Nodes(t) : x[1] = Idx(t, At(t, x).key)
             /\ \A x, y \in Nodes(t) : At(t, x).key = At(t, y).key => x = y

\* The invariant of the table.
Good(t) == Sized(t) /\ Placed(t) /\ t.slots_used = Cardinality(Nodes(t))

\* r is t with n at x; when n is Null, with nothing at x.
Put(t, r, x, n) ==
  /\ Nodes(r) = IF n = Null THEN Nodes(t) \ {x} ELSE Nodes(t) \cup {x}
  /\ n # Null => At(r, x) = n
  /\ \A z \in Nodes(t) : z # x => At(r, z) = At(t, z)

\* The fields of a table.
LEMMA TableIs ==
  ASSUME NEW t, Sized(t)
  PROVE  /\ t.index_size \in 1..UINT32_MAX /\ t.slots_used \in Nat
         /\ t.node_mgr \in Seq(Mgr) /\ Len(t.node_mgr) = t.index_size
         /\ t = [index_size |-> t.index_size, slots_used |-> t.slots_used,
                 node_mgr |-> t.node_mgr]
         /\ \A y \in 1..t.index_size : IsMgr(t.node_mgr[y]) /\ t.node_mgr[y] \in Mgr
         /\ UINT32_MAX \in Nat
BY FhashAssumption DEF Sized, Tables, IsMgr

\* A hash selects an index.
LEMMA IdxIs ==
  ASSUME NEW t, Sized(t), NEW k \in Key
  PROVE  Idx(t, k) \in 1..t.index_size
<1>1. t.index_size \in Nat \ {0} BY TableIs
<1>2. Hash[k] \in Nat BY FhashAssumption
<1>3. Hash[k] % t.index_size \in 0..(t.index_size - 1) BY <1>1, <1>2
<1>. QED BY <1>1, <1>3 DEF Idx, _hash_tbl_calculate_idx

\* Valid nodes of a table.
LEMMA NodesIs ==
  ASSUME NEW t, Sized(t)
  PROVE  /\ Nodes(t) \in SUBSET Positions /\ IsFiniteSet(Nodes(t))
         /\ \A y, s : <<y, s>> \in Nodes(t) <=>
                        y \in 1..t.index_size /\ s \in Occupied(t.node_mgr[y])
         /\ \A x \in Nodes(t) : /\ At(t, x) \in Node /\ At(t, x).key \in Key
                                /\ At(t, x).val \in Value
                                /\ At(t, x) = t.node_mgr[x[1]].list[x[2]]
                                /\ x[1] \in 1..t.index_size /\ x[2] \in Nat \ {0}
                                /\ x[2] \in Occupied(t.node_mgr[x[1]])
                                /\ x = <<x[1], x[2]>>
<1>1. t.node_mgr \in Seq(Mgr) /\ Len(t.node_mgr) = t.index_size BY TableIs
<1>2. IsFiniteSet(Nodes(t)) BY <1>1, ValidNodesFinite DEF Nodes
<1>3. \A x \in Nodes(t) : At(t, x) \in Node BY <1>1, ValidNodesIs DEF Nodes, At
<1>. QED BY <1>1, <1>2, <1>3, ValidNodesIs DEF Nodes, At, NodeAt, Node

\* The table with another manager for a key, and with another count.
LEMMA SetMgrIs ==
  ASSUME NEW t, Sized(t), NEW k \in Key, NEW w, IsMgr(w), NEW c \in Nat
  PROVE  LET r == [SetMgr(t, k, w) EXCEPT !.slots_used = c]
         IN  /\ Sized(r) /\ r.index_size = t.index_size /\ r.slots_used = c
             /\ \A y \in 1..t.index_size :
                  r.node_mgr[y] = IF y = Idx(t, k) THEN w ELSE t.node_mgr[y]
<1>. DEFINE i == Idx(t, k)
            g == [t.node_mgr EXCEPT ![i] = w]
            r == [SetMgr(t, k, w) EXCEPT !.slots_used = c]
<1>1. /\ t.index_size \in 1..UINT32_MAX /\ t.node_mgr \in Seq(Mgr)
      /\ Len(t.node_mgr) = t.index_size
      /\ \A y \in 1..t.index_size : IsMgr(t.node_mgr[y])
  BY TableIs
<1>2. i \in 1..t.index_size BY IdxIs
<1>3. w \in Mgr BY DEF IsMgr
<1>4. /\ g \in Seq(Mgr) /\ Len(g) = t.index_size
      /\ \A y \in 1..t.index_size : g[y] = IF y = i THEN w ELSE t.node_mgr[y]
  BY <1>1, <1>2, <1>3, ExceptSeq
<1>5. SetMgr(t, k, w) = [t EXCEPT !.node_mgr = g] BY DEF SetMgr, Idx
<1>6. t \in Tables BY DEF Sized
<1>. HIDE DEF g, i
<1>7. r = [index_size |-> t.index_size, slots_used |-> c, node_mgr |-> g]
  <2>1. [t EXCEPT !.node_mgr = g]
          = [index_size |-> t.index_size, slots_used |-> t.slots_used, node_mgr |-> g]
    BY <1>6 DEF Tables
  <2>2. SetMgr(t, k, w)
          = [index_size |-> t.index_size, slots_used |-> t.slots_used, node_mgr |-> g]
    BY <1>5, <2>1
  <2>. QED BY <2>2
<1>8. r \in Tables /\ r.index_size = t.index_size /\ r.slots_used = c /\ r.node_mgr = g
  BY <1>1, <1>4, <1>7 DEF Tables
<1>9. \A y \in 1..t.index_size : IsMgr(g[y]) BY <1>1, <1>4
<1>. HIDE DEF r
<1>10. Sized(r) BY <1>4, <1>8, <1>9 DEF Sized
<1>. QED BY <1>4, <1>8, <1>10 DEF r, i

\* What is written in a manager is written in the table.
LEMMA TableWritten ==
  ASSUME NEW t, Sized(t), NEW r, Sized(r), r.index_size = t.index_size,
         NEW i \in 1..t.index_size, NEW w, NEW s, NEW n,
         \A y \in 1..t.index_size : r.node_mgr[y] = IF y = i THEN w ELSE t.node_mgr[y],
         Written(t.node_mgr[i], w, s, n)
  PROVE  Put(t, r, <<i, s>>, n) /\ <<i, s>> \in Positions
<1>. DEFINE x == <<i, s>>
<1>1. /\ s \in Nat \ {0}
      /\ Occupied(w) = IF n = Null THEN Occupied(t.node_mgr[i]) \ {s}
                                   ELSE Occupied(t.node_mgr[i]) \cup {s}
      /\ n # Null => w.list[s] = n
      /\ \A q \in Occupied(t.node_mgr[i]) : q # s => w.list[q] = t.node_mgr[i].list[q]
  BY DEF Written
<1>2. x \in Positions
  <2>1. t.index_size \in Nat BY TableIs
  <2>. QED BY <1>1, <2>1 DEF Positions
<1>3. ASSUME NEW y, NEW q
      PROVE  <<y, q>> \in Nodes(r) <=>
               IF n = Null THEN <<y, q>> \in Nodes(t) /\ <<y, q>> # x
                           ELSE <<y, q>> \in Nodes(t) \/ <<y, q>> = x
  <2>1. /\ <<y, q>> \in Nodes(t) <=> y \in 1..t.index_size /\ q \in Occupied(t.node_mgr[y])
        /\ <<y, q>> \in Nodes(r) <=> y \in 1..t.index_size /\ q \in Occupied(r.node_mgr[y])
    BY NodesIs
  <2>2. <<y, q>> = x <=> y = i /\ q = s OBVIOUS
  <2>3. CASE y = i BY <1>1, <2>1, <2>2, <2>3
  <2>4. CASE y # i BY <2>1, <2>2, <2>4
  <2>. QED BY <2>3, <2>4
<1>4. \A z \in Nodes(t) \cup Nodes(r) \cup {x} : z = <<z[1], z[2]>>
  BY NodesIs
<1>5. Nodes(r) = IF n = Null THEN Nodes(t) \ {x} ELSE Nodes(t) \cup {x}
  <2>1. ASSUME NEW z
        PROVE  z \in Nodes(r) <=> z \in IF n = Null THEN Nodes(t) \ {x} ELSE Nodes(t) \cup {x}
    <3>1. CASE z \in Nodes(t) \cup Nodes(r) \cup {x}
      <4>. DEFINE y == z[1]
                  q == z[2]
      <4>1. z = <<y, q>> BY <1>4, <3>1
      <4>. HIDE DEF y, q, x
      <4>. QED BY <1>3, <4>1
    <3>2. CASE z \notin Nodes(t) \cup Nodes(r) \cup {x} BY <3>2
    <3>. QED BY <3>1, <3>2
  <2>. HIDE DEF x
  <2>. QED BY <2>1
<1>6. n # Null => At(r, x) = n
  BY <1>1 DEF At, NodeAt
<1>7. ASSUME NEW z \in Nodes(t), z # x PROVE At(r, z) = At(t, z)
  <2>1. z = <<z[1], z[2]>> /\ z[1] \in 1..t.index_size
        /\ z[2] \in Occupied(t.node_mgr[z[1]])
    BY NodesIs
  <2>2. CASE z[1] = i
    <3>1. z[2] # s BY <1>7, <2>1, <2>2
    <3>. QED BY <1>1, <2>1, <2>2, <3>1 DEF At, NodeAt
  <2>3. CASE z[1] # i BY <2>1, <2>3 DEF At, NodeAt
  <2>. QED BY <2>2, <2>3
<1>. QED BY <1>2, <1>5, <1>6, <1>7 DEF Put

-----------------------------------------------------------------------------
(* What a table has of a key.                                              *)

\* The slots of a key and what fhash_get returns, from where its node is.
LEMMA KeyAtIs ==
  ASSUME NEW t, Good(t), NEW k \in Key, NEW x \in Nodes(t), At(t, x).key = k
  PROVE  /\ x[1] = Idx(t, k) /\ Slots(t, k) = {x[2]} /\ Min(Slots(t, k)) = x[2]
         /\ _hash_tbl_get(t, k) = At(t, x).val
<1>. DEFINE m == MgrOf(t, k)
<1>1. Sized(t) /\ Placed(t) BY DEF Good
<1>2. x[1] = Idx(t, k) BY <1>1 DEF Placed
<1>3. /\ At(t, x) = m.list[x[2]] /\ x[2] \in Occupied(m) /\ x = <<x[1], x[2]>>
      /\ Idx(t, k) \in 1..t.index_size /\ x[2] \in Nat
  BY <1>1, <1>2, NodesIs, IdxIs DEF MgrOf, Idx
<1>4. Slots(t, k) = {x[2]}
  <2>1. x[2] \in Slots(t, k) BY <1>3 DEF Slots, _hash_nodemgr_find
  <2>2. ASSUME NEW s \in Slots(t, k) PROVE s = x[2]
    <3>. DEFINE z == <<Idx(t, k), s>>
    <3>1. s \in Occupied(m) /\ m.list[s].key = k BY DEF Slots, _hash_nodemgr_find
    <3>2. z \in Nodes(t) BY <1>1, <1>3, <3>1, NodesIs DEF MgrOf, Idx
    <3>3. At(t, z) = m.list[s] BY DEF At, NodeAt, MgrOf, Idx
    <3>4. z = x BY <1>1, <3>1, <3>2, <3>3 DEF Placed
    <3>. QED BY <1>3, <3>4
  <2>. QED BY <2>1, <2>2
<1>5. Min(Slots(t, k)) = x[2] BY <1>3, <1>4, Least
<1>6. _hash_tbl_get(t, k) = m.list[x[2]].val
  BY <1>4, <1>5 DEF _hash_tbl_get, _hash_nodemgr_get, Slots
<1>. QED BY <1>2, <1>3, <1>4, <1>5, <1>6

\* A key is nowhere, and then it has no slot and no value.
LEMMA NoKeyIs ==
  ASSUME NEW t, Good(t), NEW k \in Key
  PROVE  /\ (\A x \in Nodes(t) : At(t, x).key # k) => Slots(t, k) = {}
         /\ Slots(t, k) = {} => /\ \A x \in Nodes(t) : At(t, x).key # k
                                /\ _hash_tbl_get(t, k) = Null
         /\ _hash_tbl_get(t, k) # Null <=> \E x \in Nodes(t) : At(t, x).key = k
<1>1. Sized(t) BY DEF Good
<1>2. ASSUME NEW s \in Slots(t, k) PROVE \E x \in Nodes(t) : At(t, x).key = k
  <2>. DEFINE z == <<Idx(t, k), s>>
              m == MgrOf(t, k)
  <2>1. s \in Occupied(m) /\ m.list[s].key = k BY DEF Slots, _hash_nodemgr_find
  <2>2. z \in Nodes(t) BY <1>1, <2>1, NodesIs, IdxIs DEF MgrOf, Idx
  <2>3. At(t, z) = m.list[s] BY DEF At, NodeAt, MgrOf, Idx
  <2>. QED BY <2>1, <2>2, <2>3
<1>3. ASSUME NEW x \in Nodes(t), At(t, x).key = k
      PROVE  Slots(t, k) # {} /\ _hash_tbl_get(t, k) # Null
  <2>1. At(t, x).val # Null BY <1>1, NodesIs, FhashAssumption
  <2>2. Slots(t, k) = {x[2]} /\ _hash_tbl_get(t, k) = At(t, x).val BY <1>3, KeyAtIs
  <2>. QED BY <2>1, <2>2
<1>4. Slots(t, k) = {} => _hash_tbl_get(t, k) = Null
  BY DEF _hash_tbl_get, _hash_nodemgr_get, Slots
<1>. QED BY <1>2, <1>3, <1>4

\* The index of a key depends on the size of the table only.
LEMMA SameIdx ==
  ASSUME NEW t, NEW r, r.index_size = t.index_size, NEW k
  PROVE  Idx(r, k) = Idx(t, k)
BY DEF Idx, _hash_tbl_calculate_idx

\* Reads(t, r, k, v): r has the values of t, but v for k.
Reads(t, r, k, v) ==
  \A j \in Key : _hash_tbl_get(r, j) = IF j = k THEN v ELSE _hash_tbl_get(t, j)

\* A node is put where its key is or may be.
LEMMA PutGood ==
  ASSUME NEW t, Good(t), NEW r, Sized(r), r.index_size = t.index_size,
         NEW n \in Node, NEW x, Put(t, r, x, n), x[1] = Idx(t, n.key),
         \A z \in Nodes(t) : At(t, z).key = n.key <=> z = x,
         r.slots_used = Cardinality(Nodes(r))
  PROVE  Good(r) /\ Reads(t, r, n.key, n.val)
<1>1. Sized(t) /\ Placed(t) /\ n.key \in Key BY DEF Good, Node
<1>2. /\ Nodes(r) = Nodes(t) \cup {x} /\ At(r, x) = n
      /\ \A z \in Nodes(t) : z # x => At(r, z) = At(t, z)
  BY NodesValid DEF Put
<1>3. ASSUME NEW z \in Nodes(r) PROVE z[1] = Idx(r, At(r, z).key)
  <2>1. CASE z = x BY <1>2, <2>1, SameIdx
  <2>2. CASE z # x BY <1>1, <1>2, <2>2, SameIdx DEF Placed
  <2>. QED BY <2>1, <2>2
<1>4. ASSUME NEW z \in Nodes(r), NEW y \in Nodes(r), At(r, z).key = At(r, y).key
      PROVE  z = y
  <2>1. CASE z = x /\ y = x BY <2>1
  <2>2. CASE z = x /\ y # x BY <1>2, <1>4, <2>2
  <2>3. CASE z # x /\ y = x BY <1>2, <1>4, <2>3
  <2>4. CASE z # x /\ y # x
    <3>1. /\ z \in Nodes(t) /\ y \in Nodes(t)
          /\ At(r, z) = At(t, z) /\ At(r, y) = At(t, y) BY <1>2, <2>4
    <3>. QED BY <1>1, <1>4, <3>1 DEF Placed
  <2>. QED BY <2>1, <2>2, <2>3, <2>4
<1>5. Good(r)
  <2>1. Placed(r) BY <1>3, <1>4 DEF Placed
  <2>. QED BY <2>1 DEF Good
<1>6. ASSUME NEW j \in Key
      PROVE  _hash_tbl_get(r, j) = IF j = n.key THEN n.val ELSE _hash_tbl_get(t, j)
  <2>1. CASE j = n.key
    <3>1. x \in Nodes(r) BY <1>2
    <3>. QED BY <1>2, <1>5, <2>1, <3>1, KeyAtIs
  <2>2. CASE j # n.key /\ \E z \in Nodes(t) : At(t, z).key = j
    <3>1. PICK z \in Nodes(t) : At(t, z).key = j BY <2>2
    <3>2. z # x BY <2>2, <3>1
    <3>3. z \in Nodes(r) /\ At(r, z) = At(t, z) BY <1>2, <3>2
    <3>4. _hash_tbl_get(t, j) = At(t, z).val BY <3>1, KeyAtIs
    <3>5. _hash_tbl_get(r, j) = At(r, z).val BY <1>5, <3>1, <3>3, KeyAtIs
    <3>. QED BY <2>2, <3>3, <3>4, <3>5
  <2>3. CASE j # n.key /\ ~\E z \in Nodes(t) : At(t, z).key = j
    <3>1. \A z \in Nodes(r) : At(r, z).key # j BY <1>2, <2>3
    <3>2. _hash_tbl_get(r, j) = Null BY <1>5, <3>1, NoKeyIs
    <3>3. _hash_tbl_get(t, j) = Null BY <2>3, NoKeyIs
    <3>. QED BY <2>3, <3>2, <3>3
  <2>. QED BY <2>1, <2>2, <2>3
<1>. QED BY <1>5, <1>6 DEF Reads

\* A node is taken out.
LEMMA TakenGood ==
  ASSUME NEW t, Good(t), NEW r, Sized(r), r.index_size = t.index_size,
         NEW x \in Nodes(t), Put(t, r, x, Null),
         r.slots_used = Cardinality(Nodes(r))
  PROVE  Good(r) /\ Reads(t, r, At(t, x).key, Null)
<1>1. Sized(t) /\ Placed(t) BY DEF Good
<1>2. Nodes(r) = Nodes(t) \ {x} /\ \A z \in Nodes(r) : At(r, z) = At(t, z)
  BY DEF Put
<1>3. Placed(r) BY <1>1, <1>2, SameIdx DEF Placed
<1>4. Good(r) BY <1>3 DEF Good
<1>5. ASSUME NEW j \in Key
      PROVE  _hash_tbl_get(r, j) = IF j = At(t, x).key THEN Null ELSE _hash_tbl_get(t, j)
  <2>1. CASE \E z \in Nodes(r) : At(r, z).key = j
    <3>1. PICK z \in Nodes(r) : At(r, z).key = j BY <2>1
    <3>2. z \in Nodes(t) /\ z # x /\ At(r, z) = At(t, z) BY <1>2
    <3>3. j # At(t, x).key BY <1>1, <3>1, <3>2 DEF Placed
    <3>4. _hash_tbl_get(t, j) = At(t, z).val BY <3>1, <3>2, KeyAtIs
    <3>5. _hash_tbl_get(r, j) = At(r, z).val BY <1>4, <3>1, KeyAtIs
    <3>. QED BY <3>2, <3>3, <3>4, <3>5
  <2>2. CASE ~\E z \in Nodes(r) : At(r, z).key = j
    <3>1. _hash_tbl_get(r, j) = Null BY <1>4, <2>2, NoKeyIs
    <3>2. CASE j = At(t, x).key BY <3>1, <3>2
    <3>3. CASE j # At(t, x).key
      <4>1. \A z \in Nodes(t) : At(t, z).key # j BY <1>2, <2>2, <3>3
      <4>2. _hash_tbl_get(t, j) = Null BY <4>1, NoKeyIs
      <4>. QED BY <3>1, <3>3, <4>2
    <3>. QED BY <3>2, <3>3
  <2>. QED BY <2>1, <2>2
<1>. QED BY <1>4, <1>5 DEF Reads

-----------------------------------------------------------------------------
(* The operations of a table.                                              *)

\* r is t after node was set in it.
SetIn(t, r, node) == /\ Good(r) /\ r.index_size = t.index_size
                     /\ Reads(t, r, node.key, node.val)

\* A new key is added.
LEMMA AddedIs ==
  ASSUME NEW t, Good(t), NEW n \in Node, Slots(t, n.key) = {}, NEW w, IsMgr(w),
         NEW s, Written(MgrOf(t, n.key), w, s, n), s \notin Occupied(MgrOf(t, n.key))
  PROVE  SetIn(t, Added(t, n.key, w), n)
<1>. DEFINE k == n.key
            i == Idx(t, k)
            x == <<i, s>>
            c == t.slots_used + 1
            r == [SetMgr(t, k, w) EXCEPT !.slots_used = c]
<1>1. Sized(t) /\ k \in Key /\ t.slots_used = Cardinality(Nodes(t)) BY DEF Good, Node
<1>2. t.slots_used \in Nat /\ c \in Nat BY <1>1, TableIs
<1>3. Added(t, k, w) = r
  <2>1. SetMgr(t, k, w).slots_used = t.slots_used
    BY <1>1 DEF SetMgr, Sized, Tables
  <2>. QED BY <2>1 DEF Added
<1>4. /\ Sized(r) /\ r.index_size = t.index_size /\ r.slots_used = c
      /\ \A y \in 1..t.index_size : r.node_mgr[y] = IF y = i THEN w ELSE t.node_mgr[y]
  BY <1>1, <1>2, SetMgrIs
<1>. HIDE DEF r, c
<1>5. i \in 1..t.index_size /\ MgrOf(t, k) = t.node_mgr[i] BY <1>1, IdxIs DEF MgrOf, Idx
<1>6. Put(t, r, x, n) BY <1>1, <1>4, <1>5, TableWritten
<1>7. x \notin Nodes(t) BY <1>1, <1>5, NodesIs
<1>8. \A z \in Nodes(t) : At(t, z).key # k BY <1>1, NoKeyIs
<1>9. Cardinality(Nodes(r)) = c
  <2>1. Nodes(r) = Nodes(t) \cup {x} BY <1>6, NodesValid DEF Put
  <2>2. IsFiniteSet(Nodes(t)) BY <1>1, NodesIs
  <2>3. Cardinality(Nodes(t) \cup {x}) = Cardinality(Nodes(t)) + 1
    BY <1>7, <2>2, FS_AddElement, Zenon
  <2>. QED BY <1>1, <2>1, <2>3 DEF c
<1>10. Good(r) /\ Reads(t, r, k, n.val)
  <2>1. \A z \in Nodes(t) : At(t, z).key = n.key <=> z = x BY <1>7, <1>8
  <2>2. x[1] = Idx(t, n.key) OBVIOUS
  <2>3. r.slots_used = Cardinality(Nodes(r)) BY <1>4, <1>9
  <2>. HIDE DEF x
  <2>. QED BY <1>4, <1>6, <2>1, <2>2, <2>3, PutGood
<1>. QED BY <1>3, <1>4, <1>10 DEF SetIn

\* A key the table has gets another value: every key stays where it is.
LEMMA ReplaceIs ==
  ASSUME NEW t, Good(t), NEW n \in Node, Slots(t, n.key) # {}
  PROVE  LET r == Replace(t, n)
         IN  /\ SetIn(t, r, n)
             /\ Nodes(r) = Nodes(t) /\ \A z \in Nodes(t) : At(r, z).key = At(t, z).key
<1>. DEFINE k == n.key
            i == Idx(t, k)
            m == MgrOf(t, k)
<1>1. Sized(t) /\ Placed(t) /\ k \in Key /\ t.slots_used = Cardinality(Nodes(t))
  BY DEF Good, Node
<1>2. PICK x \in Nodes(t) : At(t, x).key = k BY <1>1, NoKeyIs
<1>. DEFINE s == x[2]
            w == _hash_nodemgr_set(m, s, n)
            r == [SetMgr(t, k, w) EXCEPT !.slots_used = t.slots_used]
<1>3. x[1] = i /\ Min(Slots(t, k)) = s BY <1>1, <1>2, KeyAtIs
<1>4. /\ i \in 1..t.index_size /\ m = t.node_mgr[i] /\ IsMgr(m)
      /\ s \in Occupied(m) /\ x = <<i, s>> /\ t.slots_used \in Nat
  BY <1>1, <1>3, IdxIs, NodesIs, TableIs DEF MgrOf, Idx
<1>5. IsMgr(w) /\ Written(m, w, s, n) BY <1>4, SetWritten
<1>6. Replace(t, n) = r
  <2>1. Replace(t, n) = SetMgr(t, k, w) BY <1>3 DEF Replace
  <2>2. t = [index_size |-> t.index_size, slots_used |-> t.slots_used,
             node_mgr |-> t.node_mgr]
    BY <1>1, TableIs
  <2>3. SetMgr(t, k, w)
          = [index_size |-> t.index_size, slots_used |-> t.slots_used,
             node_mgr |-> [t.node_mgr EXCEPT ![i] = w]]
    <3>. HIDE DEF w
    <3>. QED BY <1>1 DEF SetMgr, Idx, Sized, Tables
  <2>. HIDE DEF w
  <2>. QED BY <2>1, <2>3
<1>. HIDE DEF w
<1>7. /\ Sized(r) /\ r.index_size = t.index_size /\ r.slots_used = t.slots_used
      /\ \A y \in 1..t.index_size : r.node_mgr[y] = IF y = i THEN w ELSE t.node_mgr[y]
  BY <1>1, <1>4, <1>5, SetMgrIs
<1>. HIDE DEF r
<1>8. Put(t, r, x, n) BY <1>1, <1>4, <1>5, <1>7, TableWritten
<1>9. Nodes(r) = Nodes(t) BY <1>8, NodesValid DEF Put
<1>10. Good(r) /\ Reads(t, r, k, n.val)
  <2>1. \A z \in Nodes(t) : At(t, z).key = n.key <=> z = x BY <1>1, <1>2 DEF Placed
  <2>2. r.slots_used = Cardinality(Nodes(r)) BY <1>1, <1>7, <1>9
  <2>. QED BY <1>3, <1>7, <1>8, <2>1, <2>2, PutGood
<1>11. \A z \in Nodes(t) : At(r, z).key = At(t, z).key
  BY <1>2, <1>8, NodesValid DEF Put
<1>. QED BY <1>6, <1>7, <1>9, <1>10, <1>11 DEF SetIn

\* Both ways to set a node.
LEMMA SetIs ==
  ASSUME NEW t, Good(t), NEW n \in Node, NEW r,
         r \in _hash_tbl_set(t, n) \/ r = _hash_tbl_set_node(t, n)
  PROVE  SetIn(t, r, n)
<1>1. CASE Slots(t, n.key) # {}
  <2>1. r = Replace(t, n) BY <1>1 DEF _hash_tbl_set, _hash_tbl_set_node
  <2>. QED BY <1>1, <2>1, ReplaceIs
<1>2. CASE Slots(t, n.key) = {}
  <2>. DEFINE m == MgrOf(t, n.key)
  <2>1. IsMgr(m)
    <3>1. Sized(t) /\ n.key \in Key BY DEF Good, Node
    <3>2. Idx(t, n.key) \in 1..t.index_size BY <3>1, IdxIs
    <3>. QED BY <3>1, <3>2, TableIs DEF MgrOf, Idx
  <2>2. PICK w : /\ r = Added(t, n.key, w)
                 /\ w \in _hash_nodemgr_add(m, n) \/ w = _hash_nodemgr_add_node(m, n)
    BY <1>2 DEF _hash_tbl_set, _hash_tbl_set_node
  <2>3. IsMgr(w) /\ \E s : Written(m, w, s, n) /\ s \notin Occupied(m)
    BY <2>1, <2>2, AddWritten
  <2>. QED BY <1>2, <2>2, <2>3, AddedIs
<1>. QED BY <1>1, <1>2

\* A key is deleted: the others stay where they are.
LEMMA DelIs ==
  ASSUME NEW t, Good(t), NEW k \in Key
  PROVE  LET r == _hash_tbl_del(t, k)
         IN  /\ Good(r) /\ r.index_size = t.index_size /\ Reads(t, r, k, Null)
             /\ Nodes(r) = {x \in Nodes(t) : At(t, x).key # k}
             /\ \A z \in Nodes(r) : At(r, z) = At(t, z)
<1>1. Sized(t) /\ Placed(t) /\ t.slots_used = Cardinality(Nodes(t)) BY DEF Good
<1>2. CASE Slots(t, k) = {}
  <2>1. _hash_tbl_del(t, k) = t BY <1>2 DEF _hash_tbl_del
  <2>2. _hash_tbl_get(t, k) = Null /\ \A x \in Nodes(t) : At(t, x).key # k
    BY <1>2, NoKeyIs
  <2>. QED BY <2>1, <2>2 DEF Reads
<1>3. CASE Slots(t, k) # {}
  <2>. DEFINE i == Idx(t, k)
              m == MgrOf(t, k)
              c == t.slots_used - 1
  <2>1. PICK x \in Nodes(t) : At(t, x).key = k BY <1>3, NoKeyIs
  <2>. DEFINE s == x[2]
              w == _hash_nodemgr_del(m, s)
              r == [SetMgr(t, k, w) EXCEPT !.slots_used = c]
  <2>2. x[1] = i /\ Min(Slots(t, k)) = s BY <2>1, KeyAtIs
  <2>3. /\ i \in 1..t.index_size /\ m = t.node_mgr[i] /\ IsMgr(m)
        /\ s \in Occupied(m) /\ x = <<i, s>> /\ t.slots_used \in Nat
        /\ IsFiniteSet(Nodes(t))
    BY <1>1, <2>2, IdxIs, NodesIs, TableIs DEF MgrOf, Idx
  <2>4. IsMgr(w) /\ Written(m, w, s, Null) BY <2>3, DelWritten
  <2>5. Cardinality(Nodes(t) \ {x}) = c /\ c \in Nat
    <3>1. /\ IsFiniteSet(Nodes(t) \ {x})
          /\ Cardinality(Nodes(t) \ {x}) = Cardinality(Nodes(t)) - 1
      BY <2>3, FS_RemoveElement
    <3>. QED BY <1>1, <3>1, FS_CardinalityType
  <2>6. _hash_tbl_del(t, k) = r
    <3>1. _hash_tbl_del(t, k) = Deleted(t, k, w) BY <1>3, <2>2 DEF _hash_tbl_del
    <3>2. SetMgr(t, k, w).slots_used = t.slots_used
      <4>. HIDE DEF w
      <4>. QED BY <1>1 DEF SetMgr, Sized, Tables
    <3>. HIDE DEF w
    <3>. QED BY <3>1, <3>2 DEF Deleted
  <2>. HIDE DEF w, c
  <2>7. /\ Sized(r) /\ r.index_size = t.index_size /\ r.slots_used = c
        /\ \A y \in 1..t.index_size : r.node_mgr[y] = IF y = i THEN w ELSE t.node_mgr[y]
    BY <1>1, <2>4, <2>5, SetMgrIs
  <2>. HIDE DEF r
  <2>8. Put(t, r, x, Null) BY <1>1, <2>3, <2>4, <2>7, TableWritten
  <2>9. Nodes(r) = Nodes(t) \ {x} /\ \A z \in Nodes(r) : At(r, z) = At(t, z)
    BY <2>8 DEF Put
  <2>10. Good(r) /\ Reads(t, r, k, Null) BY <2>1, <2>5, <2>7, <2>8, <2>9, TakenGood
  <2>11. Nodes(r) = {z \in Nodes(t) : At(t, z).key # k}
    BY <1>1, <2>1, <2>9 DEF Placed
  <2>. QED BY <2>6, <2>7, <2>9, <2>10, <2>11
<1>. QED BY <1>2, <1>3

\* A new table is empty.
LEMMA CreateIs ==
  ASSUME NEW n \in 1..UINT32_MAX
  PROVE  LET r == _hash_tbl_create(n)
         IN  /\ Good(r) /\ r.index_size = n /\ Nodes(r) = {}
             /\ \A k \in Key : _hash_tbl_get(r, k) = Null
<1>. DEFINE g == [x \in 1..n |-> _hash_nodemgr_init]
            r == _hash_tbl_create(n)
<1>1. n \in Nat BY FhashAssumption
<1>2. /\ IsMgr(_hash_nodemgr_init) /\ _hash_nodemgr_init \in Mgr
      /\ Occupied(_hash_nodemgr_init) = {}
  BY MgrInit DEF IsMgr
<1>3. g \in Seq(Mgr) /\ Len(g) = n /\ \A y \in 1..n : g[y] = _hash_nodemgr_init
  <2>1. g \in [1..n -> Mgr] BY <1>2
  <2>2. g \in Seq(Mgr) BY <1>1, <2>1, SeqDef
  <2>3. Len(g) \in Nat /\ DOMAIN g = 1..Len(g) BY <2>2, LenProperties
  <2>4. 1..Len(g) = 1..n BY <2>3
  <2>5. Len(g) = n BY <1>1, <2>3, <2>4
  <2>. QED BY <2>2, <2>5
<1>4. r.index_size = n /\ r.slots_used = 0 /\ r.node_mgr = g /\ r \in Tables
  BY <1>3 DEF _hash_tbl_create, Tables
<1>. HIDE DEF r, g
<1>5. Sized(r) BY <1>2, <1>3, <1>4 DEF Sized
<1>6. Nodes(r) = {}
  <2>1. ASSUME NEW x \in Nodes(r) PROVE FALSE
    <3>1. x[1] \in 1..n /\ x[2] \in Occupied(r.node_mgr[x[1]]) BY <1>4, <1>5, NodesIs
    <3>. QED BY <1>2, <1>3, <1>4, <3>1
  <2>. QED BY <2>1
<1>7. Good(r) BY <1>4, <1>5, <1>6, FS_EmptySet DEF Good, Placed
<1>8. \A k \in Key : _hash_tbl_get(r, k) = Null BY <1>6, <1>7, NoKeyIs
<1>. QED BY <1>4, <1>6, <1>7, <1>8 DEF r

-----------------------------------------------------------------------------
(* Setting the nodes of other managers.                                    *)

\* The last of some of the valid nodes.
LEMMA LatestNode ==
  ASSUME NEW g \in Seq(Mgr), NEW P \in SUBSET ValidNodes(g), P # {}
  PROVE  Latest(P) \in P
<1>. DEFINE n == Len(g)
            l == [y \in 1..n |-> Len(g[y].list)]
<1>1. n \in Nat /\ \A y \in 1..n : g[y] \in Mgr BY LenProperties
<1>2. /\ l \in [1..n -> Nat]
      /\ \A y \in 1..n : Occupied(g[y]) \in SUBSET (1..l[y])
  BY <1>1, MgrIs
<1>3. P \in SUBSET Positions BY ValidNodesIs
<1>4. \A x \in P : x[1] \in 1..n /\ x[1] <= n /\ x[2] \in Occupied(g[x[1]]) BY ValidNodesIs
<1>. HIDE DEF l
<1>5. \A x \in P : x[2] <= l[x[1]]
  <2>1. ASSUME NEW x \in P PROVE x[2] <= l[x[1]]
    <3>1. l[x[1]] \in Nat /\ x[2] \in 1..l[x[1]] BY <1>2, <1>4
    <3>. QED BY <3>1
  <2>. QED BY <2>1
<1>. HIDE DEF n
<1>. QED BY <1>1, <1>2, <1>3, <1>4, <1>5, LatestIs

\* What has become of t when the nodes of P are set in it, those before in h.
Step(t, g, h, P) ==
  IF P = {} THEN t
            ELSE _hash_tbl_set_node(h[P \ {Latest(P)}], NodeAt(g, Latest(P)))

\* Such an h: the tables after any of the valid nodes.
IsFold(t, g, h) == h = [P \in SUBSET ValidNodes(g) |-> Step(t, g, h, P)]

\* There is one.
LEMMA FoldExists ==
  ASSUME NEW g \in Seq(Mgr), NEW t
  PROVE  \E h : IsFold(t, g, h)
<1>. DEFINE S == ValidNodes(g)
            D(n) == {P \in SUBSET S : Cardinality(P) <= n}
            F(n, h) == h = [P \in D(n) |-> Step(t, g, h, P)]
            T == {n \in Nat : \E h : F(n, h)}
<1>1. IsFiniteSet(S) BY ValidNodesFinite
<1>2. \A P \in SUBSET S : IsFiniteSet(P) /\ Cardinality(P) \in Nat
  BY <1>1, FS_Subset, FS_CardinalityType
<1>3. 0 \in T
  <2>. DEFINE h == [P \in D(0) |-> t]
  <2>1. \A P \in D(0) : P = {}
    <3>1. ASSUME NEW P \in D(0) PROVE P = {}
      <4>1. Cardinality(P) = 0 /\ IsFiniteSet(P) BY <1>2
      <4>. QED BY <4>1, FS_EmptySet, Zenon
    <3>. QED BY <3>1
  <2>2. h = [P \in D(0) |-> Step(t, g, h, P)] BY <2>1 DEF Step
  <2>. QED BY <2>2
<1>4. ASSUME NEW n \in Nat, n \in T PROVE n + 1 \in T
  <2>1. PICK f : F(n, f) BY <1>4
  <2>. DEFINE h == [P \in D(n + 1) |-> Step(t, g, f, P)]
  <2>2. ASSUME NEW P \in D(n + 1) PROVE h[P] = Step(t, g, h, P)
    <3>1. CASE P = {} BY <3>1 DEF Step
    <3>2. CASE P # {}
      <4>. DEFINE Q == P \ {Latest(P)}
      <4>1. P \in SUBSET S /\ Cardinality(P) <= n + 1 /\ Cardinality(P) \in Nat BY <1>2
      <4>2. Latest(P) \in P BY <3>2, <4>1, LatestNode
      <4>3. Cardinality(Q) = Cardinality(P) - 1
        BY <1>2, <4>1, <4>2, FS_RemoveElement, Zenon
      <4>4. Q \in SUBSET S /\ Cardinality(Q) \in Nat BY <1>2, <4>1
      <4>5. Q \in D(n) /\ Q \in D(n + 1) BY <4>1, <4>3, <4>4
      <4>6. f[Q] = Step(t, g, f, Q)
        <5>. HIDE DEF Q, D
        <5>. QED BY <2>1, <4>5
      <4>7. h[Q] = Step(t, g, f, Q)
        <5>. HIDE DEF Q, D
        <5>. QED BY <4>5
      <4>8. h[P] = Step(t, g, f, P)
        <5>. HIDE DEF D
        <5>. QED BY <2>2
      <4>9. h[Q] = f[Q] BY <4>6, <4>7
      <4>. HIDE DEF h
      <4>. QED BY <4>8, <4>9 DEF Step
    <3>. QED BY <3>1, <3>2
  <2>3. h = [P \in D(n + 1) |-> Step(t, g, h, P)]
    <3>1. h = [P \in D(n + 1) |-> h[P]]
      <4>. HIDE DEF D
      <4>. QED OBVIOUS
    <3>. HIDE DEF h, D
    <3>. QED BY <2>2, <3>1
  <2>4. F(n + 1, h) BY <2>3
  <2>. HIDE DEF h, F, D
  <2>. QED BY <2>4
<1>5. Cardinality(S) \in T
  <2>. HIDE DEF T
  <2>1. \A n \in Nat : n \in T BY <1>3, <1>4, Climb
  <2>2. Cardinality(S) \in Nat BY <1>2
  <2>. QED BY <2>1, <2>2
<1>6. D(Cardinality(S)) = SUBSET S
  <2>1. \A P \in SUBSET S : Cardinality(P) <= Cardinality(S) BY <1>1, FS_Subset
  <2>. QED BY <2>1
<1>7. PICK h : F(Cardinality(S), h) BY <1>5
<1>8. IsFold(t, g, h)
  <2>. HIDE DEF D
  <2>. QED BY <1>6, <1>7 DEF IsFold
<1>. QED BY <1>8

\* SetNodes is the table after all of them.
LEMMA SetNodesFolds ==
  ASSUME NEW g \in Seq(Mgr), NEW t
  PROVE  \E h : IsFold(t, g, h) /\ SetNodes(t, g) = h[ValidNodes(g)]
<1>. DEFINE h == CHOOSE f : IsFold(t, g, f)
<1>1. IsFold(t, g, h) BY FoldExists
<1>2. SetNodes(t, g) = h[ValidNodes(g)]
  BY DEF SetNodes, MapThenFoldSet, IsFold, Step
<1>. QED BY <1>1, <1>2

\* No two nodes of the managers have the same key.
Distinct(g) ==
  \A x, y \in ValidNodes(g) : NodeAt(g, x).key = NodeAt(g, y).key => x = y

\* r is t with the nodes of P set.
AllSet(t, g, P, r) ==
  /\ Good(r) /\ r.index_size = t.index_size
  /\ \A x \in P : _hash_tbl_get(r, NodeAt(g, x).key) = NodeAt(g, x).val
  /\ \A k \in Key : (\A x \in P : NodeAt(g, x).key # k)
                       => _hash_tbl_get(r, k) = _hash_tbl_get(t, k)

\* What SetNodes makes of a table, when every key is there once.
LEMMA SetNodesIs ==
  ASSUME NEW t, Good(t), NEW g \in Seq(Mgr), Distinct(g)
  PROVE  AllSet(t, g, ValidNodes(g), SetNodes(t, g))
<1>. DEFINE S == ValidNodes(g)
<1>1. PICK h : IsFold(t, g, h) /\ SetNodes(t, g) = h[S] BY SetNodesFolds
<1>. DEFINE T == {n \in Nat : \A P \in SUBSET S : Cardinality(P) = n => AllSet(t, g, P, h[P])}
<1>2. IsFiniteSet(S) BY ValidNodesFinite
<1>3. \A P \in SUBSET S : IsFiniteSet(P) /\ Cardinality(P) \in Nat
  BY <1>2, FS_Subset, FS_CardinalityType
<1>4. \A P \in SUBSET S : h[P] = Step(t, g, h, P) BY <1>1 DEF IsFold
<1>5. 0 \in T
  <2>1. ASSUME NEW P \in SUBSET S, Cardinality(P) = 0 PROVE AllSet(t, g, P, h[P])
    <3>1. P = {} BY <1>3, <2>1, FS_EmptySet, Zenon
    <3>2. h[P] = t BY <1>4, <3>1 DEF Step
    <3>. QED BY <3>1, <3>2 DEF AllSet
  <2>. QED BY <2>1
<1>6. ASSUME NEW n \in Nat, n \in T PROVE n + 1 \in T
  <2>1. ASSUME NEW P \in SUBSET S, Cardinality(P) = n + 1 PROVE AllSet(t, g, P, h[P])
    <3>. DEFINE z == Latest(P)
                Q == P \ {z}
                nd == NodeAt(g, z)
    <3>1. P # {}
      <4>1. Cardinality(P) # 0 BY <2>1
      <4>. QED BY <4>1, FS_EmptySet, Zenon
    <3>2. z \in P BY <3>1, LatestNode
    <3>3. Cardinality(Q) = n /\ Q \in SUBSET S
      <4>1. Cardinality(Q) = Cardinality(P) - 1
        BY <1>3, <3>2, FS_RemoveElement, Zenon
      <4>. QED BY <2>1, <4>1
    <3>4. AllSet(t, g, Q, h[Q])
      <4>. HIDE DEF Q
      <4>. QED BY <1>6, <3>3
    <3>5. h[P] = _hash_tbl_set_node(h[Q], nd) BY <1>4, <3>1 DEF Step
    <3>6. nd \in Node BY <3>2, ValidNodesIs
    <3>7. /\ Good(h[P]) /\ h[P].index_size = t.index_size
          /\ Reads(h[Q], h[P], nd.key, nd.val)
      <4>. HIDE DEF Q, nd
      <4>. QED BY <3>4, <3>5, <3>6, SetIs DEF SetIn, AllSet
    <3>8. ASSUME NEW x \in P
          PROVE  _hash_tbl_get(h[P], NodeAt(g, x).key) = NodeAt(g, x).val
      <4>1. NodeAt(g, x).key \in Key BY ValidNodesIs DEF Node
      <4>2. CASE x = z BY <3>7, <4>1, <4>2 DEF Reads
      <4>3. CASE x # z
        <5>1. x \in Q BY <4>3
        <5>2. NodeAt(g, x).key # nd.key BY <3>2, <4>3 DEF Distinct
        <5>. HIDE DEF Q, nd
        <5>3. _hash_tbl_get(h[Q], NodeAt(g, x).key) = NodeAt(g, x).val
          BY <3>4, <5>1 DEF AllSet
        <5>. QED BY <3>7, <4>1, <5>2, <5>3 DEF Reads
      <4>. QED BY <4>2, <4>3
    <3>9. ASSUME NEW k \in Key, \A x \in P : NodeAt(g, x).key # k
          PROVE  _hash_tbl_get(h[P], k) = _hash_tbl_get(t, k)
      <4>1. k # nd.key /\ \A x \in Q : NodeAt(g, x).key # k BY <3>2, <3>9
      <4>. HIDE DEF Q, nd
      <4>. QED BY <3>4, <3>7, <4>1 DEF AllSet, Reads
    <3>. QED BY <3>7, <3>8, <3>9 DEF AllSet
  <2>. HIDE DEF S
  <2>. QED BY <2>1
<1>7. Cardinality(S) \in T
  <2>. HIDE DEF T, S
  <2>1. \A n \in Nat : n \in T BY <1>5, <1>6, Climb
  <2>2. Cardinality(S) \in Nat BY <1>3
  <2>. QED BY <2>1, <2>2
<1>. QED BY <1>1, <1>7

\* A rehash keeps what the table has.
LEMMA RehashIs ==
  ASSUME NEW t, Good(t), NEW n \in 1..UINT32_MAX
  PROVE  LET r == _hash_rehash(t, n)
         IN  /\ Good(r) /\ r.index_size = n
             /\ \A k \in Key : _hash_tbl_get(r, k) = _hash_tbl_get(t, k)
<1>. DEFINE c == _hash_tbl_create(n)
            g == t.node_mgr
            r == _hash_rehash(t, n)
<1>1. Good(c) /\ c.index_size = n /\ \A k \in Key : _hash_tbl_get(c, k) = Null
  BY CreateIs
<1>2. g \in Seq(Mgr) /\ Placed(t) /\ Sized(t) BY TableIs DEF Good
<1>3. Distinct(g) BY <1>2 DEF Distinct, Placed, Nodes, At
<1>4. AllSet(c, g, ValidNodes(g), r) BY <1>1, <1>2, <1>3, SetNodesIs DEF _hash_rehash
<1>. HIDE DEF r, c
<1>5. ASSUME NEW k \in Key PROVE _hash_tbl_get(r, k) = _hash_tbl_get(t, k)
  <2>1. CASE \E x \in Nodes(t) : At(t, x).key = k
    <3>1. PICK x \in Nodes(t) : At(t, x).key = k BY <2>1
    <3>2. _hash_tbl_get(t, k) = At(t, x).val BY <3>1, KeyAtIs
    <3>. QED BY <1>4, <3>1, <3>2 DEF AllSet, Nodes, At
  <2>2. CASE \A x \in Nodes(t) : At(t, x).key # k
    <3>1. _hash_tbl_get(t, k) = Null BY <2>2, NoKeyIs
    <3>2. _hash_tbl_get(r, k) = _hash_tbl_get(c, k)
      BY <1>4, <2>2 DEF AllSet, Nodes, At
    <3>. QED BY <1>1, <3>1, <3>2
  <2>. QED BY <2>1, <2>2
<1>. QED BY <1>1, <1>4, <1>5 DEF AllSet, r

\* The next size of a table is a size of a table.
LEMMA RehashSize ==
  ASSUME NEW t, Good(t)
  PROVE  FHASH_REHASH_SIZE(t) \in 1..UINT32_MAX
<1>1. t.index_size \in 1..UINT32_MAX /\ UINT32_MAX \in Nat BY TableIs DEF Good
<1>2. UINT32_MAX \div 2 \in Nat /\ (UINT32_MAX \div 2) * 2 <= UINT32_MAX BY <1>1
<1>3. CASE t.index_size <= UINT32_MAX \div 2
  <2>1. t.index_size * 2 <= (UINT32_MAX \div 2) * 2 BY <1>1, <1>2, <1>3
  <2>. QED BY <1>1, <1>2, <1>3, <2>1 DEF FHASH_REHASH_SIZE
<1>4. CASE ~(t.index_size <= UINT32_MAX \div 2) BY <1>1, <1>4 DEF FHASH_REHASH_SIZE
<1>. QED BY <1>3, <1>4

\* The rehash that is done when the table is too full.
LEMMA TryRehashIs ==
  ASSUME NEW t, Good(t)
  PROVE  LET r == _hash_try_rehash(t)
         IN  Good(r) /\ \A k \in Key : _hash_tbl_get(r, k) = _hash_tbl_get(t, k)
BY RehashIs, RehashSize DEF _hash_try_rehash, MustRehash

-----------------------------------------------------------------------------
(* The invariant.                                                          *)

Iterator == [open : BOOLEAN, index : 1..(UINT32_MAX + 1), slot : Nat]

\* A manager has every key once.
OneEach(d) == /\ IsMgr(d)
              /\ \A r, s \in Occupied(d) : d.list[r].key = d.list[s].key => r = s

\* The keys of the delayed actions are not in the table.
Apart(t, d) == \A s \in Occupied(d) : Slots(t, d.list[s].key) = {}

\* An iterator that is not open is at the start.
Iterators(f) == /\ f \in [Iter -> Iterator]
                /\ \A i \in Iter : ~f[i].open => f[i] = Closed

\* Without an iterator nothing waits.
Idle(f, d) == (\A i \in Iter : ~f[i].open) => Occupied(d) = {}

IInv == /\ Good(current) /\ OneEach(delayed) /\ Apart(current, delayed)
        /\ Iterators(iter) /\ Idle(iter, delayed)

\* The number of iterators.
LEMMA RefsAre ==
  /\ iter_refs = 0 <=> \A i \in Iter : ~iter[i].open
  /\ iter_refs = 1 <=> \E i \in Iter : \A j \in Iter : iter[j].open <=> j = i
<1>. DEFINE O == {i \in Iter : iter[i].open}
<1>1. IsFiniteSet(O)
  <2>1. IsFiniteSet(Iter) BY FhashAssumption
  <2>. QED BY <2>1, FS_Subset
<1>2. iter_refs = Cardinality(O) BY DEF iter_refs
<1>3. O = {} <=> \A i \in Iter : ~iter[i].open OBVIOUS
<1>4. (\E i : O = {i}) <=> \E i \in Iter : \A j \in Iter : iter[j].open <=> j = i
  <2>1. ASSUME NEW i, O = {i} PROVE i \in Iter /\ \A j \in Iter : iter[j].open <=> j = i
    BY <2>1
  <2>2. ASSUME NEW i \in Iter, \A j \in Iter : iter[j].open <=> j = i PROVE O = {i}
    BY <2>2
  <2>. HIDE DEF O
  <2>. QED BY <2>1, <2>2
<1>. HIDE DEF O
<1>. QED BY <1>1, <1>2, <1>3, <1>4, FS_EmptySet, FS_Singleton, Zenon

\* The node of a key.
LEMMA NodeOfKey ==
  ASSUME NEW d, OneEach(d), NEW k \in Key
  PROVE  /\ \A s \in Occupied(d) : d.list[s].key = k =>
              /\ _hash_nodemgr_find(d, k) = {s}
              /\ _hash_nodemgr_get(d, k) = d.list[s].val /\ _hash_nodemgr_get(d, k) # Null
              /\ Min(_hash_nodemgr_find(d, k)) = s
         /\ (\A s \in Occupied(d) : d.list[s].key # k) =>
              _hash_nodemgr_find(d, k) = {} /\ _hash_nodemgr_get(d, k) = Null
<1>1. \A s \in Occupied(d) : s \in Nat \ {0} /\ d.list[s] \in Node
  BY MgrIs DEF OneEach, IsMgr
<1>2. ASSUME NEW s \in Occupied(d), d.list[s].key = k
      PROVE  /\ _hash_nodemgr_find(d, k) = {s}
             /\ _hash_nodemgr_get(d, k) = d.list[s].val /\ _hash_nodemgr_get(d, k) # Null
             /\ Min(_hash_nodemgr_find(d, k)) = s
  <2>. DEFINE f == _hash_nodemgr_find(d, k)
  <2>1. f = {s} BY <1>2 DEF OneEach, _hash_nodemgr_find
  <2>2. Min(f) = s
    <3>1. f \in SUBSET Nat /\ f # {} BY <1>1, <2>1
    <3>2. Min(f) \in f BY <3>1, Least
    <3>. QED BY <2>1, <3>2
  <2>3. _hash_nodemgr_get(d, k) = d.list[s].val
    BY <2>1, <2>2 DEF _hash_nodemgr_get
  <2>4. d.list[s].val # Null BY <1>1, FhashAssumption DEF Node
  <2>. QED BY <2>1, <2>2, <2>3, <2>4
<1>3. ASSUME \A s \in Occupied(d) : d.list[s].key # k
      PROVE  _hash_nodemgr_find(d, k) = {} /\ _hash_nodemgr_get(d, k) = Null
  BY <1>3 DEF _hash_nodemgr_get, _hash_nodemgr_find
<1>. QED BY <1>2, <1>3

\* At first.
LEMMA InitInv == Init => IInv
<1>. SUFFICES ASSUME Init PROVE IInv OBVIOUS
<1>1. InitSize \in 1..UINT32_MAX /\ UINT32_MAX \in Nat BY FhashAssumption
<1>2. Good(current) BY <1>1, CreateIs DEF Init
<1>3. IsMgr(delayed) /\ Occupied(delayed) = {} BY MgrInit DEF Init
<1>4. iter = [i \in Iter |-> Closed] BY DEF Init
<1>5. Closed \in Iterator BY <1>1 DEF Closed, Iterator
<1>6. Iterators(iter) BY <1>4, <1>5 DEF Iterators
<1>. QED BY <1>2, <1>3, <1>6 DEF IInv, OneEach, Apart, Idle

\* The delayed actions are performed: no key is in the table, every key is once.
LEMMA PerformIs ==
  ASSUME IInv
  PROVE  LET r == _hash_perform_actions(current)
         IN  /\ Good(r)
             /\ \A k \in Key : _hash_tbl_get(r, k) =
                  IF Delayed(k) # Null THEN Delayed(k) ELSE _hash_tbl_get(current, k)
<1>. DEFINE g == <<delayed>>
            r == _hash_perform_actions(current)
<1>1. /\ Good(current) /\ OneEach(delayed) /\ delayed \in Mgr
  BY DEF IInv, OneEach, IsMgr
<1>2. g \in Seq(Mgr) /\ Len(g) = 1 /\ g[1] = delayed BY <1>1
<1>3. \A x \in ValidNodes(g) : /\ x = <<1, x[2]>> /\ x[2] \in Occupied(delayed)
                               /\ NodeAt(g, x) = delayed.list[x[2]]
                               /\ delayed.list[x[2]].key \in Key
  <2>1. \A x \in ValidNodes(g) : /\ x[1] \in 1..1 /\ x[2] \in Occupied(g[x[1]])
                                 /\ x = <<x[1], x[2]>> /\ NodeAt(g, x) \in Node
    BY <1>2, ValidNodesIs
  <2>2. \A x \in ValidNodes(g) : x[1] = 1 BY <2>1
  <2>3. \A x \in ValidNodes(g) : NodeAt(g, x) = delayed.list[x[2]]
    BY <1>2, <2>2 DEF NodeAt
  <2>. HIDE DEF g
  <2>. QED BY <1>2, <2>1, <2>2, <2>3 DEF Node
<1>4. \A s \in Occupied(delayed) : <<1, s>> \in ValidNodes(g)
  <2>1. 1 \in 1..1 OBVIOUS
  <2>2. \A s : <<1, s>> \in ValidNodes(g) <=> 1 \in 1..1 /\ s \in Occupied(delayed)
    BY <1>2, ValidNodesIs
  <2>. QED BY <2>1, <2>2
<1>. HIDE DEF g
<1>5. Distinct(g) BY <1>1, <1>3 DEF Distinct, OneEach
<1>6. AllSet(current, g, ValidNodes(g), r)
  BY <1>1, <1>2, <1>5, SetNodesIs DEF _hash_perform_actions, g
<1>. HIDE DEF r
<1>7. ASSUME NEW k \in Key
      PROVE  _hash_tbl_get(r, k) =
               IF Delayed(k) # Null THEN Delayed(k) ELSE _hash_tbl_get(current, k)
  <2>1. CASE \E s \in Occupied(delayed) : delayed.list[s].key = k
    <3>1. PICK s \in Occupied(delayed) : delayed.list[s].key = k BY <2>1
    <3>2. Delayed(k) = delayed.list[s].val /\ Delayed(k) # Null
      BY <1>1, <3>1, NodeOfKey DEF Delayed
    <3>. DEFINE x == <<1, s>>
    <3>3. x \in ValidNodes(g) BY <1>4
    <3>4. NodeAt(g, x) = delayed.list[s] BY <1>3, <3>3
    <3>5. _hash_tbl_get(r, NodeAt(g, x).key) = NodeAt(g, x).val
      BY <1>6, <3>3 DEF AllSet
    <3>. QED BY <3>1, <3>2, <3>4, <3>5
  <2>2. CASE \A s \in Occupied(delayed) : delayed.list[s].key # k
    <3>1. Delayed(k) = Null BY <1>1, <2>2, NodeOfKey DEF Delayed
    <3>2. \A x \in ValidNodes(g) : NodeAt(g, x).key # k BY <1>3, <2>2
    <3>. QED BY <1>6, <3>1, <3>2 DEF AllSet
  <2>. QED BY <2>1, <2>2
<1>. QED BY <1>6, <1>7 DEF AllSet, r

\* Nothing waits after that.
LEMMA PerformedIs ==
  ASSUME IsMgr(delayed)
  PROVE  IsMgr(Performed) /\ Occupied(Performed) = {}
<1>. DEFINE l == [s \in DOMAIN delayed.list |-> Null]
<1>1. /\ delayed \in Mgr /\ delayed.used = Cardinality(Occupied(delayed))
      /\ delayed.used \in Nat /\ Len(delayed.list) \in Nat
      /\ DOMAIN delayed.list = 1..Len(delayed.list)
  BY MgrIs DEF IsMgr
<1>2. l \in [1..Len(delayed.list) -> Node \cup {Null}] BY <1>1
<1>3. l \in Seq(Node \cup {Null}) BY <1>1, <1>2, SeqDef
<1>4. Performed.used = 0 /\ Performed.list = l BY <1>1 DEF Performed
<1>5. Performed \in Mgr BY <1>1, <1>3 DEF Performed, Mgr
<1>6. Occupied(Performed) = {} BY <1>4 DEF Occupied, Valid
<1>. QED BY <1>4, <1>5, <1>6, FS_EmptySet DEF IsMgr

\* Where nothing waits, the release inside of a rehash loses nothing.
LEMMA NothingLost ==
  ASSUME IsMgr(delayed), Occupied(delayed) = {}, NEW b, InnerRelease(b)
  PROVE  UNCHANGED delayed
<1>1. /\ delayed \in Mgr /\ delayed.used = 0 /\ DOMAIN delayed.list = 1..Len(delayed.list)
  BY MgrIs, FS_EmptySet DEF IsMgr
<1>2. delayed = [used |-> delayed.used, list |-> delayed.list] BY <1>1 DEF Mgr
<1>3. delayed.list \in [1..Len(delayed.list) -> Node \cup {Null}] BY <1>1, SeqDef DEF Mgr
<1>4. \A s \in DOMAIN delayed.list : delayed.list[s] = Null BY DEF Occupied, Valid
<1>5. [s \in DOMAIN delayed.list |-> Null] = delayed.list BY <1>3, <1>4
<1>6. Performed.used = 0 /\ Performed = [used |-> Performed.used, list |-> delayed.list]
  BY <1>1, <1>5, FS_EmptySet DEF Performed
<1>. QED BY <1>1, <1>2, <1>6 DEF InnerRelease

\* A node is set among the delayed actions.
LEMMA DelayIs ==
  ASSUME OneEach(delayed), NEW n \in Node, NEW d, d \in _hash_set_delay(n)
  PROVE  /\ OneEach(d)
         /\ \A s \in Occupied(d) : d.list[s].key = n.key \/
              (s \in Occupied(delayed) /\ d.list[s] = delayed.list[s])
         /\ \A j \in Key : _hash_nodemgr_get(d, j) =
              IF j = n.key THEN n.val ELSE Delayed(j)
<1>. DEFINE k == n.key
            Given(s) == /\ Written(delayed, d, s, n)
                        /\ \A r \in Occupied(delayed) : delayed.list[r].key = k <=> r = s
<1>1. k \in Key /\ n.val \in Value /\ IsMgr(delayed) BY DEF Node, OneEach
<1>2. IsMgr(d) /\ \E s : Given(s)
  <2>1. CASE \E s \in Occupied(delayed) : delayed.list[s].key = k
    <3>1. PICK s \in Occupied(delayed) : delayed.list[s].key = k BY <2>1
    <3>2. /\ _hash_nodemgr_find(delayed, k) = {s}
          /\ Min(_hash_nodemgr_find(delayed, k)) = s
      BY <1>1, <3>1, NodeOfKey
    <3>3. d = _hash_nodemgr_set(delayed, s, n) BY <3>2 DEF _hash_set_delay
    <3>4. IsMgr(d) /\ Written(delayed, d, s, n) BY <1>1, <3>3, SetWritten
    <3>5. \A r \in Occupied(delayed) : delayed.list[r].key = k <=> r = s
      BY <3>1 DEF OneEach
    <3>. QED BY <3>4, <3>5
  <2>2. CASE \A s \in Occupied(delayed) : delayed.list[s].key # k
    <3>1. _hash_nodemgr_find(delayed, k) = {} BY <1>1, <2>2, NodeOfKey
    <3>2. d \in _hash_nodemgr_add(delayed, n) BY <3>1 DEF _hash_set_delay
    <3>3. IsMgr(d) /\ \E s : Written(delayed, d, s, n) /\ s \notin Occupied(delayed)
      BY <1>1, <3>2, AddWritten
    <3>. QED BY <2>2, <3>3
  <2>. QED BY <2>1, <2>2
<1>3. PICK s : Given(s) BY <1>2
<1>4. /\ Occupied(d) = Occupied(delayed) \cup {s} /\ d.list[s] = n
      /\ \A r \in Occupied(delayed) : r # s => d.list[r] = delayed.list[r]
  BY <1>3, NodesValid DEF Written
<1>5. OneEach(d)
  <2>1. ASSUME NEW r \in Occupied(d), NEW q \in Occupied(d), d.list[r].key = d.list[q].key
        PROVE  r = q
    <3>1. CASE r = s /\ q = s BY <3>1
    <3>2. CASE r = s /\ q # s BY <1>3, <1>4, <2>1, <3>2
    <3>3. CASE r # s /\ q = s BY <1>3, <1>4, <2>1, <3>3
    <3>4. CASE r # s /\ q # s BY <1>4, <2>1, <3>4 DEF OneEach
    <3>. QED BY <3>1, <3>2, <3>3, <3>4
  <2>. QED BY <1>2, <2>1 DEF OneEach
<1>6. \A r \in Occupied(d) : d.list[r].key = k \/
        (r \in Occupied(delayed) /\ d.list[r] = delayed.list[r])
  BY <1>4
<1>7. ASSUME NEW j \in Key
      PROVE  _hash_nodemgr_get(d, j) = IF j = k THEN n.val ELSE Delayed(j)
  <2>1. CASE j = k BY <1>4, <1>5, <2>1, NodeOfKey
  <2>2. CASE j # k /\ \E r \in Occupied(delayed) : delayed.list[r].key = j
    <3>1. PICK r \in Occupied(delayed) : delayed.list[r].key = j BY <2>2
    <3>2. r # s BY <1>3, <2>2, <3>1
    <3>3. r \in Occupied(d) /\ d.list[r] = delayed.list[r] BY <1>4, <3>2
    <3>4. _hash_nodemgr_get(d, j) = d.list[r].val BY <1>5, <3>1, <3>3, NodeOfKey
    <3>5. _hash_nodemgr_get(delayed, j) = delayed.list[r].val BY <3>1, NodeOfKey
    <3>. QED BY <2>2, <3>3, <3>4, <3>5 DEF Delayed
  <2>3. CASE j # k /\ \A r \in Occupied(delayed) : delayed.list[r].key # j
    <3>1. \A r \in Occupied(d) : d.list[r].key # j BY <1>4, <2>3
    <3>2. _hash_nodemgr_get(d, j) = Null BY <1>5, <3>1, NodeOfKey
    <3>3. _hash_nodemgr_get(delayed, j) = Null BY <2>3, NodeOfKey
    <3>. QED BY <2>3, <3>2, <3>3 DEF Delayed
  <2>. QED BY <2>1, <2>2, <2>3
<1>. QED BY <1>5, <1>6, <1>7

-----------------------------------------------------------------------------
(* What an iterator has left.                                              *)

Left(t, it) == IF it.open THEN {At(t, x).key : x \in Ahead(t, it)} ELSE {}

\* Where an iterator still has to go, in the terms of a table.
LEMMA AheadIs ==
  ASSUME NEW t, NEW it
  PROVE  /\ Ahead(t, it) = {x \in Nodes(t) : Before(<<it.index, it.slot>>, x)}
         /\ Ahead(t, it) \in SUBSET Nodes(t)
BY DEF Ahead, Nodes

\* A key with another value is still ahead.
LEMMA LeftReplaced ==
  ASSUME NEW t, NEW r, Nodes(r) = Nodes(t),
         \A z \in Nodes(t) : At(r, z).key = At(t, z).key, NEW it
  PROVE  Left(r, it) = Left(t, it)
<1>1. Ahead(r, it) = Ahead(t, it) /\ Ahead(t, it) \in SUBSET Nodes(t) BY AheadIs
<1>. QED BY <1>1 DEF Left

\* A deleted key is not.
LEMMA LeftDeleted ==
  ASSUME NEW t, NEW r, NEW k,
         \A x : x \in Nodes(r) <=> x \in Nodes(t) /\ At(t, x).key # k,
         \A z \in Nodes(r) : At(r, z) = At(t, z), NEW it
  PROVE  \A j : j \in Left(r, it) <=> j \in Left(t, it) /\ j # k
<1>1. Ahead(r, it) = {x \in Ahead(t, it) : At(t, x).key # k} BY AheadIs
<1>2. \A x \in Ahead(r, it) : At(r, x) = At(t, x) BY AheadIs
<1>3. CASE it.open
  <2>1. Left(r, it) = {At(t, x).key : x \in Ahead(r, it)} BY <1>2, <1>3 DEF Left
  <2>2. Left(t, it) = {At(t, x).key : x \in Ahead(t, it)} BY <1>3 DEF Left
  <2>. QED BY <1>1, <2>1, <2>2
<1>4. CASE ~it.open BY <1>4 DEF Left
<1>. QED BY <1>3, <1>4

\* A new iterator has every key ahead.
LEMMA LeftNew ==
  ASSUME NEW t, Good(t), NEW it, it.open, it.index = 1, it.slot = 0
  PROVE  Left(t, it) = {k \in Key : _hash_tbl_get(t, k) # Null}
<1>1. \A x \in Nodes(t) : At(t, x).key \in Key BY NodesIs DEF Good
<1>2. ASSUME NEW x \in Nodes(t) PROVE Before(<<1, 0>>, x)
  <2>1. t.index_size \in Nat /\ x[1] \in 1..t.index_size /\ x[2] \in Nat \ {0}
    BY NodesIs, TableIs DEF Good
  <2>2. <<1, 0>>[1] = 1 /\ <<1, 0>>[2] = 0 OBVIOUS
  <2>3. 1 < x[1] \/ (1 = x[1] /\ 0 < x[2]) BY <2>1
  <2>. QED BY <2>2, <2>3 DEF Before
<1>3. Ahead(t, it) = Nodes(t) BY <1>2, AheadIs
<1>4. Left(t, it) = {At(t, x).key : x \in Nodes(t)} BY <1>3 DEF Left
<1>. QED BY <1>1, <1>4, NoKeyIs

\* One that moves has the key it moves to behind it.
LEMMA LeftMoved ==
  ASSUME NEW t, Good(t), NEW it \in Iterator, it.open, Ahead(t, it) # {}
  PROVE  LET e == Earliest(Ahead(t, it))
             f == [it EXCEPT !.index = e[1], !.slot = e[2]]
         IN  /\ f \in Iterator /\ f.open
             /\ At(t, e).key \in Left(t, it)
             /\ Left(t, f) = Left(t, it) \ {At(t, e).key}
<1>. DEFINE A == Ahead(t, it)
            e == Earliest(A)
            f == [it EXCEPT !.index = e[1], !.slot = e[2]]
            p == <<it.index, it.slot>>
<1>1. Sized(t) /\ Placed(t) BY DEF Good
<1>2. UINT32_MAX \in Nat /\ t.index_size \in 1..UINT32_MAX BY <1>1, TableIs
<1>3. p \in Positions BY <1>2 DEF Iterator, Positions
<1>4. Nodes(t) \in SUBSET Positions /\ A \in SUBSET Nodes(t) BY <1>1, NodesIs, AheadIs
<1>5. e \in A /\ \A y \in A : y = e \/ Before(e, y)
  <2>1. A \in SUBSET Positions /\ A # {} BY <1>4
  <2>. HIDE DEF A
  <2>. QED BY <2>1, EarliestIs
<1>6. /\ e[1] \in 1..t.index_size /\ e[2] \in Nat /\ e = <<e[1], e[2]>> /\ e \in Positions
      /\ e \in Nodes(t) /\ Before(p, e)
  BY <1>1, <1>4, <1>5, NodesIs, AheadIs
<1>. HIDE DEF e
<1>7. f \in Iterator /\ f.open /\ f.index = e[1] /\ f.slot = e[2]
  <2>1. e[1] \in 1..(UINT32_MAX + 1) BY <1>2, <1>6
  <2>. QED BY <1>6, <2>1 DEF Iterator
<1>. HIDE DEF f
<1>8. Ahead(t, f) = A \ {e}
  <2>1. ASSUME NEW x \in Nodes(t) PROVE x \in Ahead(t, f) <=> x \in A \ {e}
    <3>1. x \in Ahead(t, f) <=> Before(e, x) BY <1>6, <1>7, AheadIs
    <3>2. x \in A <=> Before(p, x) BY AheadIs
    <3>3. x \in Positions BY <1>4
    <3>4. ~Before(e, e) BY <1>6, Ordered
    <3>5. Before(e, x) => Before(p, x) BY <1>3, <1>6, <3>3, Ordered
    <3>. HIDE DEF A
    <3>. QED BY <1>5, <3>1, <3>2, <3>4, <3>5
  <2>2. Ahead(t, f) \in SUBSET Nodes(t) BY AheadIs
  <2>. HIDE DEF A
  <2>. QED BY <1>4, <2>1, <2>2
<1>9. Left(t, it) = {At(t, x).key : x \in A} /\ Left(t, f) = {At(t, x).key : x \in A \ {e}}
  BY <1>7, <1>8 DEF Left
<1>. HIDE DEF A
<1>10. \A x \in A : At(t, x).key = At(t, e).key => x = e
  BY <1>1, <1>4, <1>6 DEF Placed
<1>11. Left(t, f) = Left(t, it) \ {At(t, e).key} BY <1>9, <1>10
<1>. QED BY <1>5, <1>7, <1>9, <1>11 DEF f, e, A

\* One that is at the end has nothing ahead, and stays so.
LEMMA LeftEnded ==
  ASSUME NEW t, Good(t), NEW it \in Iterator, it.open, Ahead(t, it) = {}
  PROVE  LET f == [it EXCEPT !.index = t.index_size + 1, !.slot = 0]
         IN  f \in Iterator /\ f.open /\ Left(t, f) = {} /\ Left(t, it) = {}
<1>. DEFINE f == [it EXCEPT !.index = t.index_size + 1, !.slot = 0]
<1>1. Sized(t) BY DEF Good
<1>2. UINT32_MAX \in Nat /\ t.index_size \in 1..UINT32_MAX BY <1>1, TableIs
<1>3. f \in Iterator /\ f.open /\ f.index = t.index_size + 1 /\ f.slot = 0
  <2>1. t.index_size + 1 \in 1..(UINT32_MAX + 1) BY <1>2
  <2>. QED BY <2>1 DEF Iterator
<1>. HIDE DEF f
<1>4. ASSUME NEW x \in Nodes(t) PROVE ~Before(<<f.index, f.slot>>, x)
  <2>1. x[1] \in 1..t.index_size BY <1>1, NodesIs
  <2>. QED BY <1>2, <1>3, <2>1 DEF Before
<1>5. Ahead(t, f) = {} BY <1>4, AheadIs
<1>. QED BY <1>3, <1>5 DEF Left, f

-----------------------------------------------------------------------------
(* Every step keeps the invariant and is one of the map.                   *)

\* What the abstract map sees.
ToMap(t) == [k \in Key |-> _hash_tbl_get(t, k)]
ToWaiting(d) == [k \in Key |-> _hash_nodemgr_get(d, k)]
ToOpen(f) == {i \in Iter : f[i].open}
ToLeft(t, f) == [i \in Iter |-> Left(t, f[i])]

\* The refinement mapping in these terms, now and after a step.
LEMMA Mapped ==
  /\ [k \in Key |-> Delayed(k)] = ToWaiting(delayed)
  /\ [i \in Iter |-> KeysAhead(i)] = ToLeft(current, iter)
  /\ [k \in Key |-> Delayed(k)]' = ToWaiting(delayed')
  /\ [i \in Iter |-> KeysAhead(i)]' = ToLeft(current', iter')
  /\ [k \in Key |-> _hash_tbl_get(current, k)] = ToMap(current)
  /\ [k \in Key |-> _hash_tbl_get(current, k)]' = ToMap(current')
  /\ {i \in Iter : iter[i].open} = ToOpen(iter)
  /\ {i \in Iter : iter[i].open}' = ToOpen(iter')
BY DEF Delayed, KeysAhead, ToWaiting, ToLeft, Left, At, ToMap, ToOpen

\* The invariant after a step.
LEMMA InvNext ==
  IInv' <=> /\ Good(current') /\ OneEach(delayed') /\ Apart(current', delayed')
            /\ Iterators(iter') /\ Idle(iter', delayed')
BY DEF IInv

\* Slots that are empty stay empty when keys keep their places.
LEMMA ApartReplaced ==
  ASSUME NEW t, Good(t), NEW r, Good(r), Nodes(r) = Nodes(t),
         \A z \in Nodes(t) : At(r, z).key = At(t, z).key,
         NEW d, IsMgr(d), Apart(t, d)
  PROVE  Apart(r, d)
<1>1. ASSUME NEW s \in Occupied(d) PROVE Slots(r, d.list[s].key) = {}
  <2>1. d.list[s].key \in Key BY MgrIs DEF IsMgr, Node
  <2>2. \A z \in Nodes(t) : At(t, z).key # d.list[s].key
    BY <2>1, NoKeyIs DEF Apart
  <2>. QED BY <2>1, <2>2, NoKeyIs
<1>. QED BY <1>1 DEF Apart

\* fhash_set without an iterator: the key joins the table, which may be rehashed.
LEMMA SetAlone ==
  ASSUME IInv, NEW k \in Key, NEW v \in Value, MayAdd,
         NEW t \in _hash_tbl_set(current, [key |-> k, val |-> v]),
         current' = _hash_try_rehash(t), UNCHANGED <<delayed, iter>>
  PROVE  /\ IInv' /\ ToMap(current') = [ToMap(current) EXCEPT ![k] = v]
         /\ ToOpen(iter) = {} /\ ToLeft(current', iter') = ToLeft(current, iter)
<1>. DEFINE n == [key |-> k, val |-> v]
<1>1. n \in Node /\ n.key = k /\ n.val = v BY DEF Node
<1>2. Good(t) /\ Reads(current, t, k, v)
  <2>1. t \in _hash_tbl_set(current, n) OBVIOUS
  <2>. HIDE DEF n
  <2>. QED BY <1>1, <2>1, SetIs DEF IInv, SetIn
<1>3. /\ Good(current')
      /\ \A j \in Key : _hash_tbl_get(current', j) = _hash_tbl_get(t, j)
  BY <1>2, TryRehashIs
<1>4. \A i \in Iter : ~iter[i].open BY RefsAre DEF MayAdd
<1>5. Occupied(delayed) = {} BY <1>4 DEF IInv, Idle
<1>6. IInv' BY <1>3, <1>5, InvNext DEF IInv, Apart
<1>7. ToMap(current') = [ToMap(current) EXCEPT ![k] = v]
  BY <1>2, <1>3 DEF ToMap, Reads
<1>8. ToLeft(current', iter') = ToLeft(current, iter) BY <1>4 DEF ToLeft, Left
<1>. QED BY <1>4, <1>6, <1>7, <1>8 DEF ToOpen

\* fhash_set of a key the table has, in an iteration.
LEMMA SetOver ==
  ASSUME IInv, NEW k \in Key, NEW v \in Value, Slots(current, k) # {},
         current' = Replace(current, [key |-> k, val |-> v]), UNCHANGED <<delayed, iter>>
  PROVE  /\ IInv' /\ ToMap(current') = [ToMap(current) EXCEPT ![k] = v]
         /\ ToMap(current)[k] # Null /\ ToLeft(current', iter') = ToLeft(current, iter)
<1>. DEFINE n == [key |-> k, val |-> v]
<1>1. n \in Node /\ n.key = k /\ n.val = v BY DEF Node
<1>2. /\ Good(current') /\ Reads(current, current', k, v)
      /\ Nodes(current') = Nodes(current)
      /\ \A z \in Nodes(current) : At(current', z).key = At(current, z).key
  <2>1. current' = Replace(current, n) OBVIOUS
  <2>. HIDE DEF n
  <2>. QED BY <1>1, <2>1, ReplaceIs DEF IInv, SetIn
<1>3. Apart(current', delayed) BY <1>2, ApartReplaced DEF IInv, OneEach
<1>4. IInv' BY <1>2, <1>3, InvNext DEF IInv
<1>5. ToMap(current') = [ToMap(current) EXCEPT ![k] = v] BY <1>2 DEF ToMap, Reads
<1>6. \A i \in Iter : Left(current', iter[i]) = Left(current, iter[i])
  BY <1>2, LeftReplaced
<1>7. ToMap(current)[k] # Null BY NoKeyIs DEF ToMap, IInv
<1>. QED BY <1>4, <1>5, <1>6, <1>7 DEF ToLeft

\* fhash_set of a new key in an iteration.
LEMMA SetLater ==
  ASSUME IInv, NEW k \in Key, NEW v \in Value, Slots(current, k) = {}, ~MayAdd,
         delayed' \in _hash_set_delay([key |-> k, val |-> v]), UNCHANGED <<current, iter>>
  PROVE  /\ IInv' /\ ToWaiting(delayed') = [ToWaiting(delayed) EXCEPT ![k] = v]
         /\ ToOpen(iter) # {} /\ ToMap(current)[k] = Null
<1>. DEFINE n == [key |-> k, val |-> v]
<1>1. n \in Node /\ n.key = k /\ n.val = v BY DEF Node
<1>2. /\ OneEach(delayed')
      /\ \A s \in Occupied(delayed') : delayed'.list[s].key = k \/
           (s \in Occupied(delayed) /\ delayed'.list[s] = delayed.list[s])
      /\ \A j \in Key : _hash_nodemgr_get(delayed', j) = IF j = k THEN v ELSE Delayed(j)
  <2>1. delayed' \in _hash_set_delay(n) OBVIOUS
  <2>. HIDE DEF n
  <2>. QED BY <1>1, <2>1, DelayIs DEF IInv
<1>3. Apart(current, delayed') BY <1>2 DEF IInv, Apart
<1>4. \E i \in Iter : iter[i].open BY RefsAre DEF MayAdd
<1>5. IInv' BY <1>2, <1>3, <1>4, InvNext DEF IInv, Idle
<1>6. ToWaiting(delayed') = [ToWaiting(delayed) EXCEPT ![k] = v]
  BY <1>2 DEF ToWaiting, Delayed
<1>7. ToMap(current)[k] = Null BY NoKeyIs DEF ToMap, IInv
<1>. QED BY <1>4, <1>5, <1>6, <1>7 DEF ToOpen

\* fhash_set is Set of the map.
LEMMA SetStep ==
  ASSUME IInv, NEW k \in Key, NEW v \in Value, fhash_set(k, v)
  PROVE  IInv' /\ Map!Set(k, v)
<1>1. CASE /\ MayAdd
           /\ \E t \in _hash_tbl_set(current, [key |-> k, val |-> v]) :
                current' = _hash_try_rehash(t) /\ InnerRelease(MustRehash(t))
           /\ UNCHANGED iter
  <2>0. Occupied(delayed) = {} BY <1>1, RefsAre DEF MayAdd, IInv, Idle
  <2>3. UNCHANGED delayed BY <1>1, <2>0, NothingLost DEF IInv, OneEach
  <2>1. /\ IInv' /\ ToMap(current') = [ToMap(current) EXCEPT ![k] = v]
        /\ ToOpen(iter) = {} /\ ToLeft(current', iter') = ToLeft(current, iter)
    BY <1>1, <2>3, SetAlone
  <2>2. ToOpen(iter') = ToOpen(iter) /\ ToWaiting(delayed') = ToWaiting(delayed) BY <1>1, <2>3
  <2>. QED BY <2>1, <2>2, Mapped DEF Map!Set
<1>2. CASE /\ ~MayAdd /\ Slots(current, k) # {}
           /\ current' = Replace(current, [key |-> k, val |-> v])
           /\ UNCHANGED <<delayed, iter>>
  <2>1. /\ IInv' /\ ToMap(current') = [ToMap(current) EXCEPT ![k] = v]
        /\ ToMap(current)[k] # Null /\ ToLeft(current', iter') = ToLeft(current, iter)
    BY <1>2, SetOver
  <2>2. ToOpen(iter') = ToOpen(iter) /\ ToWaiting(delayed') = ToWaiting(delayed) BY <1>2
  <2>. QED BY <2>1, <2>2, Mapped DEF Map!Set
<1>3. CASE /\ ~MayAdd /\ Slots(current, k) = {}
           /\ delayed' \in _hash_set_delay([key |-> k, val |-> v])
           /\ UNCHANGED <<current, iter>>
  <2>1. /\ IInv' /\ ToWaiting(delayed') = [ToWaiting(delayed) EXCEPT ![k] = v]
        /\ ToOpen(iter) # {} /\ ToMap(current)[k] = Null
    BY <1>3, SetLater
  <2>2. /\ ToOpen(iter') = ToOpen(iter) /\ ToMap(current') = ToMap(current)
        /\ ToLeft(current', iter') = ToLeft(current, iter)
    BY <1>3
  <2>. QED BY <2>1, <2>2, Mapped DEF Map!Set
<1>. QED BY <1>1, <1>2, <1>3 DEF fhash_set

\* fhash_del is Del of the map.
LEMMA DelStep ==
  ASSUME IInv, NEW k \in Key, fhash_del(k)
  PROVE  IInv' /\ Map!Del(k)
<1>1. current' = _hash_tbl_del(current, k) /\ delayed' = delayed /\ iter' = iter
  BY DEF fhash_del
<1>2. /\ Good(current') /\ Reads(current, current', k, Null)
      /\ Nodes(current') = {x \in Nodes(current) : At(current, x).key # k}
      /\ \A z \in Nodes(current') : At(current', z) = At(current, z)
  BY <1>1, DelIs DEF IInv
<1>3. Apart(current', delayed)
  <2>1. ASSUME NEW s \in Occupied(delayed) PROVE Slots(current', delayed.list[s].key) = {}
    <3>1. delayed.list[s].key \in Key BY MgrIs DEF IInv, OneEach, IsMgr, Node
    <3>2. \A z \in Nodes(current) : At(current, z).key # delayed.list[s].key
      BY <3>1, NoKeyIs DEF IInv, Apart
    <3>. QED BY <1>2, <3>1, <3>2, NoKeyIs
  <2>. QED BY <2>1 DEF Apart
<1>4. IInv' BY <1>1, <1>2, <1>3, InvNext DEF IInv
<1>5. ToMap(current') = [ToMap(current) EXCEPT ![k] = Null] BY <1>2 DEF ToMap, Reads
<1>6. ToLeft(current', iter') = [i \in Iter |-> ToLeft(current, iter)[i] \ {k}]
  <2>1. ASSUME NEW i \in Iter
        PROVE  Left(current', iter[i]) = Left(current, iter[i]) \ {k}
    <3>1. /\ \A x : x \in Nodes(current') <=> x \in Nodes(current) /\ At(current, x).key # k
          /\ \A z \in Nodes(current') : At(current', z) = At(current, z)
      BY <1>2
    <3>2. \A j : j \in Left(current', iter[i]) <=> j \in Left(current, iter[i]) /\ j # k
      BY <3>1, LeftDeleted, ZenonT(60)
    <3>. QED BY <3>2
  <2>2. \A i \in Iter : ToLeft(current, iter)[i] = Left(current, iter[i]) BY DEF ToLeft
  <2>3. ToLeft(current', iter') = [i \in Iter |-> Left(current', iter[i])]
    BY <1>1 DEF ToLeft
  <2>. QED BY <2>1, <2>2, <2>3
<1>7. ToOpen(iter') = ToOpen(iter) /\ ToWaiting(delayed') = ToWaiting(delayed) BY <1>1
<1>. QED BY <1>4, <1>5, <1>6, <1>7, Mapped DEF Map!Del

\* One iterator changes.
LEMMA IterChanged ==
  ASSUME IInv, NEW i \in Iter, NEW f \in Iterator, iter' = [iter EXCEPT ![i] = f],
         UNCHANGED <<current, delayed>>, f.open
  PROVE  /\ IInv' /\ ToLeft(current', iter') = [ToLeft(current, iter) EXCEPT ![i] = Left(current, f)]
         /\ ToOpen(iter') = ToOpen(iter) \cup {i}
         /\ ToMap(current') = ToMap(current) /\ ToWaiting(delayed') = ToWaiting(delayed)
<1>1. /\ iter \in [Iter -> Iterator] /\ \A j \in Iter : ~iter[j].open => iter[j] = Closed
  BY DEF IInv, Iterators
<1>2. \A j \in Iter : iter'[j] = IF j = i THEN f ELSE iter[j] BY <1>1
<1>3. Iterators(iter') BY <1>1, <1>2 DEF Iterators
<1>4. Idle(iter', delayed') BY <1>2 DEF Idle
<1>5. IInv' BY <1>3, <1>4, InvNext DEF IInv
<1>6. ToLeft(current', iter') = [ToLeft(current, iter) EXCEPT ![i] = Left(current, f)]
  <2>1. ToLeft(current', iter') = [j \in Iter |-> Left(current, iter'[j])] BY DEF ToLeft
  <2>2. \A j \in Iter : Left(current, iter'[j]) = IF j = i THEN Left(current, f)
                                                          ELSE ToLeft(current, iter)[j]
    BY <1>2 DEF ToLeft
  <2>3. ToLeft(current, iter) = [j \in Iter |-> ToLeft(current, iter)[j]] BY DEF ToLeft
  <2>. QED BY <2>1, <2>2, <2>3
<1>7. ToOpen(iter') = ToOpen(iter) \cup {i} BY <1>2 DEF ToOpen
<1>. QED BY <1>5, <1>6, <1>7

\* fhash_iter_new is Open of the map.
LEMMA NewStep ==
  ASSUME IInv, NEW i \in Iter, fhash_iter_new(i)
  PROVE  IInv' /\ Map!Open(i)
<1>. DEFINE f == [iter[i] EXCEPT !.open = TRUE]
<1>1. iter[i] = Closed /\ ~iter[i].open /\ iter[i] \in Iterator
  BY DEF fhash_iter_new, IInv, Iterators
<1>2. f \in Iterator /\ f.open /\ f.index = 1 /\ f.slot = 0
  <2>1. iter[i].index = 1 /\ iter[i].slot = 0 BY <1>1 DEF Closed
  <2>2. f \in Iterator /\ f.open BY <1>1 DEF Iterator
  <2>3. f.index = iter[i].index /\ f.slot = iter[i].slot BY <1>1 DEF Iterator
  <2>. QED BY <2>1, <2>2, <2>3
<1>3. iter' = [iter EXCEPT ![i] = f] /\ UNCHANGED <<current, delayed>>
  BY DEF fhash_iter_new
<1>. HIDE DEF f
<1>4. /\ IInv' /\ ToLeft(current', iter') = [ToLeft(current, iter) EXCEPT ![i] = Left(current, f)]
      /\ ToOpen(iter') = ToOpen(iter) \cup {i}
      /\ ToMap(current') = ToMap(current) /\ ToWaiting(delayed') = ToWaiting(delayed)
  BY <1>2, <1>3, IterChanged
<1>5. Left(current, f) = {k \in Key : ToMap(current)[k] # Null}
  BY <1>2, LeftNew DEF IInv, ToMap
<1>6. i \notin ToOpen(iter) BY <1>1 DEF ToOpen
<1>7. ToLeft(current', iter') = [ToLeft(current, iter) EXCEPT ![i] = Map!Keys(ToMap(current))]
  BY <1>4, <1>5 DEF Map!Keys
<1>. QED BY <1>4, <1>6, <1>7, Mapped DEF Map!Open

\* fhash_next is Visit of the map, and nothing at the end.
LEMMA NextStep ==
  ASSUME IInv, NEW i \in Iter, fhash_next(i)
  PROVE  IInv' /\ (Map!Visit(i) \/ UNCHANGED Map!vars)
<1>1. iter[i].open /\ iter[i] \in Iterator /\ UNCHANGED <<current, delayed>>
      /\ Good(current) /\ iter \in [Iter -> Iterator]
  BY DEF fhash_next, IInv, Iterators
<1>2. i \in ToOpen(iter) /\ ToLeft(current, iter)[i] = Left(current, iter[i])
  BY <1>1 DEF ToOpen, ToLeft
<1>3. CASE Ahead(current, iter[i]) # {}
  <2>. DEFINE e == Earliest(Ahead(current, iter[i]))
              f == [iter[i] EXCEPT !.index = e[1], !.slot = e[2]]
              k == At(current, e).key
  <2>1. /\ f \in Iterator /\ f.open /\ k \in Left(current, iter[i])
        /\ Left(current, f) = Left(current, iter[i]) \ {k}
    BY <1>1, <1>3, LeftMoved
  <2>2. iter' = [iter EXCEPT ![i] = f]
    BY <1>1, <1>3 DEF fhash_next
  <2>. HIDE DEF f, k
  <2>3. /\ IInv'
        /\ ToLeft(current', iter') = [ToLeft(current, iter) EXCEPT ![i] = Left(current, f)]
        /\ ToOpen(iter') = ToOpen(iter) \cup {i}
        /\ ToMap(current') = ToMap(current) /\ ToWaiting(delayed') = ToWaiting(delayed)
    BY <1>1, <2>1, <2>2, IterChanged
  <2>4. ToOpen(iter') = ToOpen(iter) BY <1>2, <2>3
  <2>5. k \in ToLeft(current, iter)[i]
        /\ ToLeft(current', iter') = [ToLeft(current, iter) EXCEPT ![i] = @ \ {k}]
    BY <1>2, <2>1, <2>3
  <2>. QED BY <1>2, <2>3, <2>4, <2>5, Mapped DEF Map!Visit
<1>4. CASE Ahead(current, iter[i]) = {}
  <2>. DEFINE f == [iter[i] EXCEPT !.index = current.index_size + 1, !.slot = 0]
  <2>1. f \in Iterator /\ f.open /\ Left(current, f) = {} /\ Left(current, iter[i]) = {}
    BY <1>1, <1>4, LeftEnded
  <2>2. iter' = [iter EXCEPT ![i] = f] BY <1>1, <1>4 DEF fhash_next
  <2>. HIDE DEF f
  <2>3. /\ IInv'
        /\ ToLeft(current', iter') = [ToLeft(current, iter) EXCEPT ![i] = Left(current, f)]
        /\ ToOpen(iter') = ToOpen(iter) \cup {i}
        /\ ToMap(current') = ToMap(current) /\ ToWaiting(delayed') = ToWaiting(delayed)
    BY <1>1, <2>1, <2>2, IterChanged
  <2>4. ToOpen(iter') = ToOpen(iter) BY <1>2, <2>3
  <2>5. ToLeft(current', iter') = ToLeft(current, iter)
    BY <1>2, <2>1, <2>3 DEF ToLeft
  <2>. QED BY <2>3, <2>4, <2>5, Mapped DEF Map!vars
<1>. QED BY <1>3, <1>4

\* fhash_iter_release is Close of the map.
LEMMA ReleaseStep ==
  ASSUME IInv, NEW i \in Iter, fhash_iter_release(i)
  PROVE  IInv' /\ Map!Close(i)
<1>1. iter[i].open /\ iter \in [Iter -> Iterator]
      /\ \A j \in Iter : ~iter[j].open => iter[j] = Closed
  BY DEF fhash_iter_release, IInv, Iterators
<1>2. UINT32_MAX \in Nat BY FhashAssumption
<1>3. iter' = [iter EXCEPT ![i] = Closed] BY DEF fhash_iter_release
<1>4. Closed \in Iterator /\ ~Closed.open BY <1>2 DEF Closed, Iterator
<1>5. \A j \in Iter : iter'[j] = IF j = i THEN Closed ELSE iter[j] BY <1>1, <1>3
<1>6. Iterators(iter') BY <1>1, <1>3, <1>4, <1>5 DEF Iterators
<1>7. ToOpen(iter') = ToOpen(iter) \ {i} /\ i \in ToOpen(iter)
  BY <1>1, <1>4, <1>5 DEF ToOpen
<1>8. CASE iter_refs = 1
  <2>1. \A j \in Iter : iter[j].open <=> j = i BY <1>1, <1>8, RefsAre
  <2>2. ToOpen(iter') = {} BY <1>4, <1>5, <2>1 DEF ToOpen
  <2>. DEFINE c == _hash_perform_actions(current)
  <2>3. current' = _hash_try_rehash(c) /\ delayed' = Performed
    BY <1>8 DEF fhash_iter_release
  <2>4. /\ Good(c)
        /\ \A k \in Key : _hash_tbl_get(c, k) =
             IF Delayed(k) # Null THEN Delayed(k) ELSE _hash_tbl_get(current, k)
    BY PerformIs
  <2>. HIDE DEF c
  <2>5. /\ Good(current')
        /\ \A k \in Key : _hash_tbl_get(current', k) = _hash_tbl_get(c, k)
    BY <2>3, <2>4, TryRehashIs
  <2>6. IsMgr(delayed') /\ Occupied(delayed') = {} BY <2>3, PerformedIs DEF IInv, OneEach
  <2>7. OneEach(delayed') /\ Apart(current', delayed') /\ Idle(iter', delayed')
    BY <2>6 DEF OneEach, Apart, Idle
  <2>8. IInv' BY <1>6, <2>5, <2>7, InvNext
  <2>9. \A k \in Key : _hash_nodemgr_get(delayed', k) = Null BY <2>6, <2>7, NodeOfKey
  <2>10. ToWaiting(delayed') = [k \in Key |-> Null] BY <2>9 DEF ToWaiting
  <2>11. ToMap(current') = Map!Joined
    <3>1. \A k \in Key : ToMap(current')[k] = IF ToWaiting(delayed)[k] # Null
                                              THEN ToWaiting(delayed)[k]
                                              ELSE ToMap(current)[k]
      BY <2>4, <2>5 DEF ToMap, ToWaiting, Delayed
    <3>2. ToMap(current') = [k \in Key |-> ToMap(current')[k]] BY DEF ToMap
    <3>. QED BY <3>1, <3>2, Mapped DEF Map!Joined
  <2>12. \A j \in Iter : Left(current', iter'[j]) = IF j = i THEN {}
                                                   ELSE ToLeft(current, iter)[j]
    BY <1>4, <1>5, <2>1 DEF ToLeft, Left
  <2>13. ToLeft(current', iter') = [ToLeft(current, iter) EXCEPT ![i] = {}]
    BY <2>12 DEF ToLeft
  <2>. QED BY <1>7, <2>2, <2>8, <2>10, <2>11, <2>13, Mapped DEF Map!Close, Map!Nothing
<1>9. CASE iter_refs # 1
  <2>1. UNCHANGED <<current, delayed>> BY <1>9 DEF fhash_iter_release
  <2>2. PICK j \in Iter : iter[j].open /\ j # i BY <1>1, <1>9, RefsAre
  <2>3. iter'[j].open BY <1>5, <2>2
  <2>4. IInv' BY <1>6, <2>1, <2>3, InvNext DEF IInv, Idle
  <2>5. ToOpen(iter') # {} BY <2>3 DEF ToOpen
  <2>6. ToMap(current') = ToMap(current) /\ ToWaiting(delayed') = ToWaiting(delayed)
    BY <2>1
  <2>7. ToLeft(current', iter') = [ToLeft(current, iter) EXCEPT ![i] = {}]
    BY <1>4, <1>5, <2>1 DEF ToLeft, Left
  <2>. QED BY <1>7, <2>4, <2>5, <2>6, <2>7, Mapped DEF Map!Close
<1>. QED BY <1>8, <1>9

\* fhash_rehash is nothing to the map.
LEMMA RehashStep ==
  ASSUME IInv, NEW n \in 0..UINT32_MAX, fhash_rehash(n)
  PROVE  IInv' /\ UNCHANGED Map!vars
<1>1. UNCHANGED <<delayed, iter>> /\ Good(current)
  <2>1. CASE ~_hash_can_rehash(current, iter_refs)
    BY <2>1 DEF fhash_rehash, InnerRelease, IInv
  <2>2. CASE _hash_can_rehash(current, iter_refs)
    <3>1. \A i \in Iter : ~iter[i].open BY <2>2, RefsAre DEF _hash_can_rehash
    <3>2. Occupied(delayed) = {} BY <3>1 DEF IInv, Idle
    <3>. QED BY <3>2, NothingLost DEF fhash_rehash, IInv, OneEach
  <2>. QED BY <2>1, <2>2
<1>2. CASE ~(_hash_can_rehash(current, iter_refs) /\ n # current.index_size)
  <2>1. current' = current BY <1>2 DEF fhash_rehash
  <2>2. IInv' BY <1>1, <2>1, InvNext DEF IInv
  <2>3. /\ ToMap(current') = ToMap(current) /\ ToWaiting(delayed') = ToWaiting(delayed)
        /\ ToLeft(current', iter') = ToLeft(current, iter) /\ ToOpen(iter') = ToOpen(iter)
    BY <1>1, <2>1
  <2>. QED BY <2>2, <2>3, Mapped DEF Map!vars
<1>3. CASE _hash_can_rehash(current, iter_refs) /\ n # current.index_size
  <2>. DEFINE s == IF n = 0 THEN FHASH_REHASH_SIZE(current) ELSE n
  <2>1. current' = _hash_rehash(current, s) BY <1>3 DEF fhash_rehash
  <2>2. s \in 1..UINT32_MAX BY <1>1, RehashSize
  <2>. HIDE DEF s
  <2>3. /\ Good(current')
        /\ \A k \in Key : _hash_tbl_get(current', k) = _hash_tbl_get(current, k)
    BY <1>1, <2>1, <2>2, RehashIs
  <2>4. \A i \in Iter : ~iter[i].open BY <1>3, RefsAre DEF _hash_can_rehash
  <2>5. Occupied(delayed) = {} BY <2>4 DEF IInv, Idle
  <2>6. IInv' BY <1>1, <2>3, <2>5, InvNext DEF IInv, Apart
  <2>7. /\ ToMap(current') = ToMap(current) /\ ToWaiting(delayed') = ToWaiting(delayed)
        /\ ToLeft(current', iter') = ToLeft(current, iter) /\ ToOpen(iter') = ToOpen(iter)
    BY <1>1, <2>3, <2>4 DEF ToMap, ToLeft, Left
  <2>. QED BY <2>6, <2>7, Mapped DEF Map!vars
<1>. QED BY <1>2, <1>3

\* Every step is one of the map, or none.
LEMMA NextStepIs ==
  ASSUME IInv, [Next]_vars
  PROVE  IInv' /\ [Map!Next]_(Map!vars)
<1>1. ASSUME NEW k \in Key, NEW v \in Value, fhash_set(k, v)
      PROVE  IInv' /\ Map!Next
  BY <1>1, SetStep DEF Map!Next
<1>2. ASSUME NEW k \in Key, fhash_del(k) PROVE IInv' /\ Map!Next
  BY <1>2, DelStep DEF Map!Next
<1>3. ASSUME NEW i \in Iter, fhash_iter_new(i) PROVE IInv' /\ Map!Next
  BY <1>3, NewStep DEF Map!Next
<1>4. ASSUME NEW i \in Iter, fhash_next(i) PROVE IInv' /\ [Map!Next]_(Map!vars)
  BY <1>4, NextStep DEF Map!Next
<1>5. ASSUME NEW i \in Iter, fhash_iter_release(i) PROVE IInv' /\ Map!Next
  BY <1>5, ReleaseStep DEF Map!Next
<1>6. ASSUME NEW n \in 0..UINT32_MAX, fhash_rehash(n) PROVE IInv' /\ UNCHANGED Map!vars
  BY <1>6, RehashStep
<1>7. CASE UNCHANGED vars
  <2>1. UNCHANGED <<current, delayed, iter>> BY <1>7 DEF vars
  <2>2. IInv' BY <2>1, InvNext DEF IInv
  <2>3. /\ ToMap(current') = ToMap(current) /\ ToWaiting(delayed') = ToWaiting(delayed)
        /\ ToLeft(current', iter') = ToLeft(current, iter) /\ ToOpen(iter') = ToOpen(iter)
    BY <2>1
  <2>. QED BY <2>2, <2>3, Mapped DEF Map!vars
<1>. QED BY <1>1, <1>2, <1>3, <1>4, <1>5, <1>6, <1>7 DEF Next

\* The map is empty at first.
LEMMA MapInit == Init => Map!Init
<1>. SUFFICES ASSUME Init PROVE Map!Init OBVIOUS
<1>1. \A k \in Key : _hash_tbl_get(current, k) = Null
  <2>1. InitSize \in 1..UINT32_MAX BY FhashAssumption
  <2>. QED BY <2>1, CreateIs DEF Init
<1>2. \A k \in Key : _hash_nodemgr_get(delayed, k) = Null
  <2>1. IInv /\ Occupied(delayed) = {} BY InitInv, MgrInit DEF Init
  <2>. QED BY <2>1, NodeOfKey DEF IInv
<1>3. \A i \in Iter : ~iter[i].open BY DEF Init, Closed
<1>4. ToMap(current) = Map!Nothing BY <1>1 DEF ToMap, Map!Nothing
<1>5. ToWaiting(delayed) = Map!Nothing BY <1>2 DEF ToWaiting, Map!Nothing
<1>6. ToOpen(iter) = {} BY <1>3 DEF ToOpen
<1>7. ToLeft(current, iter) = [i \in Iter |-> {}] BY <1>3 DEF ToLeft, Left
<1>. QED BY <1>4, <1>5, <1>6, <1>7, Mapped DEF Map!Init

-----------------------------------------------------------------------------
(* What the invariant says.                                                *)

\* The types.
LEMMA InvTypes == IInv => TypeOK
<1>. SUFFICES ASSUME IInv PROVE TypeOK OBVIOUS
<1>1. current \in Tables /\ Len(current.node_mgr) = current.index_size
  BY DEF IInv, Good, Sized
<1>2. delayed \in Mgr BY DEF IInv, OneEach, IsMgr
<1>3. iter \in [Iter -> Iterator] BY DEF IInv, Iterators
<1>. QED BY <1>1, <1>2, <1>3 DEF TypeOK, Tables, Iterator

\* The counters.
LEMMA InvCounters == IInv => CountersRight
<1>. SUFFICES ASSUME IInv PROVE CountersRight OBVIOUS
<1>1. IsMgr(delayed) /\ \A y \in 1..current.index_size : IsMgr(current.node_mgr[y])
  BY DEF IInv, OneEach, Good, Sized
<1>2. \A mgr \in {current.node_mgr[x] : x \in 1..current.index_size} \cup {delayed} :
        IsMgr(mgr)
  BY <1>1
<1>3. \A mgr \in {current.node_mgr[x] : x \in 1..current.index_size} \cup {delayed} :
        mgr.used = Len(mgr.list) - Cardinality(Invalid(mgr))
  BY <1>2, MgrCounts
<1>4. current.slots_used = Cardinality(ValidNodes(current.node_mgr))
  BY DEF IInv, Good, Nodes
<1>. QED BY <1>3, <1>4 DEF CountersRight

\* The place of a key.
LEMMA InvPlaces == IInv => OnePlace
<1>. SUFFICES ASSUME IInv PROVE OnePlace OBVIOUS
<1>1. Good(current) /\ Sized(current) /\ OneEach(delayed) /\ IsMgr(delayed)
  BY DEF IInv, Good, OneEach
<1>2. ASSUME NEW x \in ValidNodes(current.node_mgr)
      PROVE  LET k == NodeAt(current.node_mgr, x).key
             IN  x[1] = _hash_tbl_calculate_idx(current, k) /\ Slots(current, k) = {x[2]}
  <2>1. x \in Nodes(current) BY DEF Nodes
  <2>2. At(current, x).key \in Key BY <1>1, <2>1, NodesIs
  <2>. QED BY <1>1, <2>1, <2>2, KeyAtIs DEF At, Idx
<1>3. ASSUME NEW k \in Key
      PROVE  /\ Cardinality(_hash_nodemgr_find(delayed, k)) <= 1
             /\ Delayed(k) # Null => Slots(current, k) = {}
  <2>1. CASE \E s \in Occupied(delayed) : delayed.list[s].key = k
    <3>1. PICK s \in Occupied(delayed) : delayed.list[s].key = k BY <2>1
    <3>2. _hash_nodemgr_find(delayed, k) = {s} BY <1>1, <3>1, NodeOfKey
    <3>3. Cardinality({s}) = 1 BY FS_Singleton
    <3>4. Slots(current, k) = {} BY <3>1 DEF IInv, Apart
    <3>. QED BY <3>2, <3>3, <3>4
  <2>2. CASE ~ \E s \in Occupied(delayed) : delayed.list[s].key = k
    <3>1. _hash_nodemgr_find(delayed, k) = {} /\ Delayed(k) = Null
      BY <1>1, <2>2, NodeOfKey DEF Delayed
    <3>2. Cardinality({}) = 0 BY FS_EmptySet
    <3>. QED BY <3>1, <3>2
  <2>. QED BY <2>1, <2>2
<1>4. iter_refs = 0 => delayed.used = 0
  <2>1. ASSUME iter_refs = 0 PROVE Occupied(delayed) = {}
    BY <2>1, RefsAre DEF IInv, Idle
  <2>. QED BY <1>1, <2>1, FS_EmptySet DEF IsMgr
<1>. QED BY <1>2, <1>3, <1>4 DEF OnePlace

-----------------------------------------------------------------------------
(* Theorems.                                                               *)

\* The invariant holds in every state.
LEMMA Invariant == Spec => []IInv
<1>1. Init => IInv BY InitInv
<1>2. IInv /\ [Next]_vars => IInv' BY NextStepIs
<1>. QED BY <1>1, <1>2, PTL DEF Spec

\* Every index, counter, list and iterator stays in its range, however often the
\* table is rehashed: index_size never exceeds UINT32_MAX.
THEOREM TypeCorrect == Spec => []TypeOK
BY Invariant, InvTypes, PTL

\* used and slots_used count what they stand for, whatever is set, deleted, delayed
\* and rehashed, so a manager that is not full has an invalid slot, as the assert in
\* _hash_nodemgr_add says.
THEOREM CountersCorrect == Spec => []CountersRight
BY Invariant, InvCounters, PTL

\* A key is in one slot of the list its hash selects or among the delayed actions,
\* never in two places, and nothing is delayed once no iterator is open.
THEOREM KeyInOnePlace == Spec => []OnePlace
BY Invariant, InvPlaces, PTL

\* Every behaviour of the table is one of the map with iterators: every key has the
\* value it was last given, through every rehash and every delay, and an iterator
\* visits once each key that was there when it was created and still is.
THEOREM Refinement == Spec => ImplementsMap
<1>1. Init => Map!Init BY MapInit
<1>2. IInv /\ [Next]_vars => [Map!Next]_(Map!vars) BY NextStepIs
<1>. QED BY <1>1, <1>2, Invariant, PTL DEF Spec, ImplementsMap, Map!Spec
=============================================================================
