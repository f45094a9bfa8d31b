------------------------------ MODULE FhashMap ------------------------------
(***************************************************************************)
(* What an fhash promises its caller: a map with iterators, without tables,*)
(* slots or an order.  An iterator has a set of keys left to visit.  While *)
(* an iterator is open, keys that were not there are kept apart in p: they *)
(* can be read, and join the map when the last iterator is released.       *)
(***************************************************************************)
CONSTANTS Key, Value, Iter,
          Null       \* no value

VARIABLES m,         \* the map: [Key -> Value \cup {Null}]
          p,         \* the keys added during iterations, and their values
          open,      \* the iterators in use
          left       \* for each of them, the keys it has not visited yet

vars == <<m, p, open, left>>

Nothing == [k \in Key |-> Null]
Keys(f) == {k \in Key : f[k] # Null}

\* The map with the keys of p.
Joined == [k \in Key |-> IF p[k] # Null THEN p[k] ELSE m[k]]

Init == /\ m = Nothing /\ p = Nothing
        /\ open = {} /\ left = [i \in Iter |-> {}]

Set(k, v) == /\ UNCHANGED <<open, left>>
             /\ IF open = {} \/ m[k] # Null
                THEN m' = [m EXCEPT ![k] = v] /\ UNCHANGED p
                ELSE p' = [p EXCEPT ![k] = v] /\ UNCHANGED m

\* A key added during an iteration cannot be deleted before it has ended.
Del(k) == /\ UNCHANGED <<open, p>>
          /\ m' = [m EXCEPT ![k] = Null]
          /\ left' = [i \in Iter |-> left[i] \ {k}]

\* A new iterator visits the keys of the map as it is now, each at most once, in
\* any order, and those only that are still there when it comes to them.
Open(i) == /\ i \notin open
           /\ open' = open \cup {i}
           /\ left' = [left EXCEPT ![i] = Keys(m)]
           /\ UNCHANGED <<m, p>>

Visit(i) == /\ i \in open
            /\ UNCHANGED <<open, m, p>>
            /\ \E k \in left[i] : left' = [left EXCEPT ![i] = @ \ {k}]

Close(i) == /\ i \in open
            /\ open' = open \ {i}
            /\ left' = [left EXCEPT ![i] = {}]
            /\ IF open' = {}
               THEN m' = Joined /\ p' = Nothing
               ELSE UNCHANGED <<m, p>>

Next == \/ \E k \in Key : (\E v \in Value : Set(k, v)) \/ Del(k)
        \/ \E i \in Iter : Open(i) \/ Visit(i) \/ Close(i)

Spec == Init /\ [][Next]_vars
=============================================================================
