----------------------------- MODULE FcacheList -----------------------------
(***************************************************************************)
(* fcache/fcache_list.c: doubly linked lists with a node count and a sum   *)
(* of data sizes.  The calls are operators on l, the memory the lists are  *)
(* made of:                                                                *)
(*   head, tail, size, total   the struct _fcache_list_mgr of each list    *)
(*   prev, next, owner, dsize  the private part of each node               *)
(* Sizes are size_t and wrap around at SizeMod.  As in the code, the prev  *)
(* of a node is not cleared when it becomes the head.                      *)
(***************************************************************************)
EXTENDS Naturals, FiniteSets

CONSTANTS Node, List, Null,
          SizeMod                  \* 2^(bits of size_t)

ASSUME ListAssumption ==
  /\ IsFiniteSet(Node)
  /\ Null \notin Node /\ Null \notin List
  /\ SizeMod \in Nat \ {0}

\* size_t arithmetic.
Plus(a, b) == (a + b) % SizeMod
Minus(a, b) == ((a + SizeMod) - b) % SizeMod

\* fcache_list_create, and nodes as calloc returns them.
NoLists == [head |-> [p \in List |-> Null], tail |-> [p \in List |-> Null],
            size |-> [p \in List |-> 0],    total |-> [p \in List |-> 0],
            prev |-> [n \in Node |-> Null], next |-> [n \in Node |-> Null],
            owner |-> [n \in Node |-> Null], dsize |-> [n \in Node |-> 0]]

\* Memory that was freed keeps no meaning, so freeing a node clears it too.
fcache_list_make_node(l, n) ==
  [l EXCEPT !.prev[n] = Null, !.next[n] = Null, !.owner[n] = Null, !.dsize[n] = 0]

fcache_list_destroy_node(l, n) == fcache_list_make_node(l, n)

fcache_list_empty(l, p) == l.tail[p] = Null /\ l.head[p] = Null /\ l.size[p] = 0

fcache_list_push(l, p, n, data_size) ==
  LET empty == fcache_list_empty(l, p)
      linked == IF empty THEN l.next ELSE [l.next EXCEPT ![l.tail[p]] = n]
  IN  [l EXCEPT !.next = [linked EXCEPT ![n] = Null],
                !.prev[n] = l.tail[p],
                !.owner[n] = p,
                !.dsize[n] = data_size,
                !.head[p] = IF empty THEN n ELSE @,
                !.tail[p] = n,
                !.size[p] = @ + 1,
                !.total[p] = Plus(@, data_size)]

\* A node that leaves its list, with the list's two counters.
Leave(l, p, n) ==
  [l EXCEPT !.prev[n] = Null, !.next[n] = Null, !.owner[n] = Null,
            !.size[p] = @ - 1, !.total[p] = Minus(@, l.dsize[n])]

\* The list without its head, which is the node that is returned.
fcache_list_pop(l, p) ==
  LET n == l.head[p]
  IN  Leave([l EXCEPT !.head[p] = l.next[n],
                      !.tail[p] = IF l.next[n] = Null THEN Null ELSE @], p, n)

\* (Mutant: the last node but one keeps its link to the deleted node.)
Unlink_Tail(l, p, n) ==
  IF n = l.head[p] /\ n = l.tail[p] THEN [l EXCEPT !.head[p] = Null, !.tail[p] = Null]
  ELSE IF n = l.head[p] THEN [l EXCEPT !.head[p] = l.next[n]]
  ELSE IF n = l.tail[p] THEN [l EXCEPT !.tail[p] = l.prev[n]]
  ELSE [l EXCEPT !.next[l.prev[n]] = l.next[n], !.prev[l.next[n]] = l.prev[n]]

\* The four cases of fcache_list_delete_node.
Unlink(l, p, n) ==
  IF n = l.head[p] /\ n = l.tail[p] THEN [l EXCEPT !.head[p] = Null, !.tail[p] = Null]
  ELSE IF n = l.head[p] THEN [l EXCEPT !.head[p] = l.next[n]]
  ELSE IF n = l.tail[p] THEN [l EXCEPT !.tail[p] = l.prev[n], !.next[l.prev[n]] = Null]
  ELSE [l EXCEPT !.next[l.prev[n]] = l.next[n], !.prev[l.next[n]] = l.prev[n]]

fcache_list_delete_node(l, n) ==
  IF l.owner[n] = Null THEN l ELSE Leave(Unlink(l, l.owner[n], n), l.owner[n], n)

fcache_list_move_node(l, n, to) ==
  IF l.owner[n] = to /\ l.size[to] = 1
  THEN l
  ELSE fcache_list_push(fcache_list_delete_node(l, n), to, n, l.dsize[n])

\* The sum follows the new size; data_size of the node does not.
fcache_list_update_node(l, n, size) ==
  [l EXCEPT !.total[l.owner[n]] = Plus(Minus(@, l.dsize[n]), size)]
=============================================================================
