------------------------------- MODULE Fcache -------------------------------
(***************************************************************************)
(* fcache/fcache.c: a cache of at most max_size bytes in two lists.  A new *)
(* object enters the inactive list; one that is asked for moves to the     *)
(* tail of the active list.  Room is made by dropping from the head of the *)
(* inactive list, after moving the older part of the active list over when *)
(* the inactive one has not enough (balance).                              *)
(*                                                                         *)
(* phash_node_index is external here (module Fhash): the set of keys it    *)
(* maps to a node.  There is one node per key, so a node is named by its   *)
(* key.  A value is the caller's object; obj_free gives it back.  held is  *)
(* a history variable: the values the cache has taken over and not freed.  *)
(* Rejected calls change nothing and are not steps.  The caller passes     *)
(* the string length as key_size, and under one key no value that is in    *)
(* the cache under another.  Memory is always available.                   *)
(***************************************************************************)
EXTENDS FcacheList, Sequences, SequencesExt, FiniteSetsExt

CONSTANTS Value,
          max_size,
          FCACHE_BALANCE_INTERVAL,
          Size,                    \* the sizes of objects
          MaxResized               \* bound on the updates that change a size

Active == "active"
Inactive == "inactive"

ASSUME FcacheAssumption ==
  /\ List = {Active, Inactive} /\ Node # {}
  /\ Null \notin Value
  /\ max_size \in 1..(SizeMod - 1)
  /\ FCACHE_BALANCE_INTERVAL \in Nat \ {0}
  /\ Size \subseteq 0..(SizeMod - 1)
  /\ MaxResized \in Nat

VARIABLES pcache,          \* lists, index and the data of the nodes; held
          enable_balance,
          op_count,
          resized,         \* how many updates have changed the size of an object
          fault            \* undefined behaviour the program has run into

vars == <<pcache, enable_balance, op_count, resized, fault>>

Key == Node

fcache_create == [list |-> NoLists, index |-> {}, data |-> [k \in Node |-> Null], held |-> {}]

Init == /\ pcache = fcache_create
        /\ enable_balance = FALSE /\ op_count = 0
        /\ resized = 0 /\ fault = "none"

-----------------------------------------------------------------------------
(* Nodes: what the calls below do to c, the lists and the index.           *)

obj_free(c, v) == [c EXCEPT !.held = @ \ {v}]

_fcache_add_node(c, k, v, size) ==
  [list |-> fcache_list_push(fcache_list_make_node(c.list, k), Inactive, k, size),
   index |-> c.index \cup {k},
   data |-> [c.data EXCEPT ![k] = v],
   held |-> c.held \cup ({v} \ {Null})]

\* (Mutant: the value that is replaced is not freed.)
_fcache_update_node_Leaks(c, k, v, size) ==
  [c EXCEPT !.data[k] = v, !.held = @ \cup {v},
            !.list = fcache_list_update_node(@, k, size)]

_fcache_update_node(c, k, v, size) ==
  LET freed == IF c.data[k] # v THEN obj_free(c, c.data[k]) ELSE c
  IN  [freed EXCEPT !.data[k] = v, !.held = @ \cup {v},
                    !.list = fcache_list_update_node(@, k, size)]

_fcache_del_node(c, k) ==
  [obj_free(c, c.data[k]) EXCEPT
     !.index = @ \ {k},
     !.data[k] = Null,
     !.list = fcache_list_destroy_node(fcache_list_delete_node(@, k), k)]

\* (Mutant: the newest node is taken.)
MoveOldest_Newest(l) ==
  LET n == l.tail[Active]
  IN  IF fcache_list_empty(l, Active)
      THEN l
      ELSE fcache_list_push(fcache_list_delete_node(l, n), Inactive, n, l.dsize[n])

\* The head of the active list becomes the tail of the inactive one.
MoveOldest(l) ==
  LET n == l.head[Active]
  IN  IF fcache_list_empty(l, Active)
      THEN l
      ELSE fcache_list_push(fcache_list_pop(l, Active), Inactive, n, l.dsize[n])

_fcache_balance_nodes(l) ==
  LET avg_length == (l.size[Inactive] + l.size[Active]) \div 2
      need_move_count == IF l.size[Active] <= avg_length THEN 0 ELSE l.size[Active] - avg_length
      moved[x \in 0..need_move_count] == IF x = 0 THEN l ELSE MoveOldest(moved[x - 1])
  IN  moved[need_move_count]

\* (Mutant: one list is counted.)
_fcache_free_size_Inactive(l) == Minus(max_size, l.total[Inactive])

_fcache_free_size(l) == Minus(Minus(max_size, l.total[Active]), l.total[Inactive])

\* The dropping loop; at most all nodes go.
DropNodes(c, drop_size) ==
  LET drop[x \in 0..Cardinality(Node)] ==
        IF x = 0 THEN [c |-> c, dropped |-> 0]
        ELSE LET d == drop[x - 1]
                 n == d.c.list.head[Inactive]
             IN  IF d.dropped >= drop_size \/ fcache_list_empty(d.c.list, Inactive)
                 THEN d
                 ELSE [c |-> _fcache_del_node([d.c EXCEPT !.list = fcache_list_pop(@, Inactive)], n),
                       dropped |-> Plus(d.dropped, d.c.list.dsize[n])]
  IN  drop[Cardinality(Node)].c

GrowSize(c, k, target_size) ==
  IF k \notin c.index THEN target_size
  ELSE IF c.list.dsize[k] <= target_size THEN target_size - c.list.dsize[k] ELSE 0

\* A node that is updated is moved to the tail of the inactive list before others are
\* dropped.  (Mutant: it stays where it is.)
ToTail_Not(c, l, k) == l

ToTail(c, l, k) == IF k \in c.index THEN fcache_list_move_node(l, k, Inactive) ELSE l

\* What _fcache_check_and_drop_nodes leaves, and whether it succeeds.
_fcache_check_and_drop_nodes(c, k, target_size) ==
  LET grow_size == GrowSize(c, k, target_size)
      free_size == _fcache_free_size(c.list)
      drop_size == grow_size - free_size
      balanced == IF c.list.total[Inactive] < drop_size
                  THEN _fcache_balance_nodes(c.list) ELSE c.list
  IN  IF grow_size = 0 \/ free_size >= grow_size THEN [ok |-> TRUE, c |-> c]
      ELSE IF balanced.total[Inactive] < drop_size
           THEN [ok |-> FALSE, c |-> [c EXCEPT !.list = balanced]]
           ELSE [ok |-> TRUE, c |-> DropNodes([c EXCEPT !.list = ToTail(c, balanced, k)], drop_size)]

-----------------------------------------------------------------------------
(* The interface.                                                          *)

\* The check at the end of fcache_set_obj, with its two divisions.
CurrentSize(l) == Plus(l.total[Inactive], l.total[Active])
NodeCount(l) == l.size[Inactive] + l.size[Active]
DividesByZero(l) == NodeCount(l) = 0 \/ CurrentSize(l) \div NodeCount(l) = 0
NearlyFull(l) ==
  Minus(max_size, CurrentSize(l)) \div (CurrentSize(l) \div NodeCount(l))
    <= FCACHE_BALANCE_INTERVAL

CheckBalance(l) ==
  IF enable_balance THEN UNCHANGED <<enable_balance, fault>>
  ELSE IF DividesByZero(l) THEN fault' = "division" /\ UNCHANGED enable_balance
  ELSE enable_balance' = NearlyFull(l) /\ UNCHANGED fault

\* What the caller may pass.
Accepted(k, v, size) ==
  /\ v # Null => size # 0
  /\ size <= max_size
  /\ v \in pcache.held => k \in pcache.index /\ pcache.data[k] = v

Finish(c) == pcache' = c /\ CheckBalance(c.list)

\* The ends of fcache_set_obj, after _fcache_check_and_drop_nodes has returned r.
\* Refused: there is not enough to drop; the lists may have been balanced.
SetRefused(r) ==
  /\ ~r.ok
  /\ pcache' = r.c
  /\ UNCHANGED <<enable_balance, resized, fault>>

\* The key was not in the cache.
SetAdds(r, k, v, size) ==
  /\ r.ok /\ k \notin pcache.index
  /\ Finish(_fcache_add_node(r.c, k, v, size))
  /\ UNCHANGED resized

\* It was, and still is.
SetUpdates(r, k, v, size) ==
  LET changes == size # pcache.list.dsize[k]
  IN  /\ r.ok /\ k \in r.c.index /\ v # Null
      /\ changes => resized < MaxResized
      /\ Finish(_fcache_update_node(r.c, k, v, size))
      /\ resized' = IF changes THEN resized + 1 ELSE resized

SetDrops(r, k, v) ==
  /\ r.ok /\ k \in r.c.index /\ v = Null
  /\ Finish(_fcache_del_node(r.c, k))
  /\ UNCHANGED resized

\* It was, and its node was dropped to make room for itself: the rest of the call
\* works on freed memory.
SetFreed(r, k) ==
  /\ r.ok /\ k \in pcache.index /\ k \notin r.c.index
  /\ pcache' = r.c
  /\ fault' = "freed"
  /\ UNCHANGED <<enable_balance, resized>>

fcache_set_obj(k, v, size) ==
  LET r == _fcache_check_and_drop_nodes(pcache, k, size)
  IN  /\ fault = "none" /\ Accepted(k, v, size)
      /\ \/ SetRefused(r)
         \/ SetAdds(r, k, v, size)
         \/ SetUpdates(r, k, v, size)
         \/ SetDrops(r, k, v)
         \/ SetFreed(r, k)
      /\ UNCHANGED op_count

BalanceDue == enable_balance /\ op_count + 1 = FCACHE_BALANCE_INTERVAL

\* Every FCACHE_BALANCE_INTERVAL calls the lists are balanced first.
fcache_get_obj(k) ==
  LET l == IF BalanceDue THEN _fcache_balance_nodes(pcache.list) ELSE pcache.list
  IN  /\ fault = "none"
      /\ op_count' = IF BalanceDue THEN 0
                     ELSE IF enable_balance THEN op_count + 1 ELSE op_count
      /\ pcache' = [pcache EXCEPT !.list =
                      IF k \in pcache.index THEN fcache_list_move_node(l, k, Active) ELSE l]
      /\ UNCHANGED <<enable_balance, resized, fault>>

\* The list is popped until it is empty.
_fcache_destroy_list(c, p) ==
  LET pop[x \in 0..Cardinality(Node)] ==
        IF x = 0 THEN c
        ELSE LET d == pop[x - 1]
                 n == d.list.head[p]
             IN  IF fcache_list_empty(d.list, p) THEN d
                 ELSE [obj_free(d, d.data[n]) EXCEPT !.list = fcache_list_pop(@, p)]
  IN  pop[Cardinality(Node)]

\* fcache_destroy, and a new cache.
fcache_destroy ==
  LET c == _fcache_destroy_list(_fcache_destroy_list(pcache, Active), Inactive)
  IN  /\ fault = "none"
      /\ pcache' = [fcache_create EXCEPT !.held = c.held]
      /\ enable_balance' = FALSE /\ op_count' = 0
      /\ UNCHANGED <<resized, fault>>

Next ==
  \/ \E k \in Key : \/ \E size \in Size, v \in Value \cup {Null} : fcache_set_obj(k, v, size)
                    \/ fcache_get_obj(k)
  \/ fcache_destroy

Spec == Init /\ [][Next]_vars

-----------------------------------------------------------------------------
(* Properties.                                                             *)

Nodes(p) == {k \in Node : pcache.list.owner[k] = p}

\* A list as the sequence of its nodes, from the head along next.
ChainOf(l, p) ==
  LET walk[x \in 0..Cardinality(Node)] ==
        IF x = 0 THEN <<>>
        ELSE LET w == walk[x - 1]
                 n == IF w = <<>> THEN l.head[p] ELSE l.next[Last(w)]
             IN  IF Len(w) < x - 1 \/ n = Null THEN w ELSE Append(w, n)
  IN  walk[Cardinality(Node)]

Chain(p) == ChainOf(pcache.list, p)

\* Type invariant.
TypeOK ==
  /\ pcache.index \subseteq Key
  /\ pcache.data \in [Key -> Value \cup {Null}] /\ pcache.held \subseteq Value
  /\ \A p \in List : /\ pcache.list.size[p] \in 0..Cardinality(Node)
                     /\ pcache.list.total[p] \in 0..(SizeMod - 1)
  /\ enable_balance \in BOOLEAN /\ op_count \in 0..(FCACHE_BALANCE_INTERVAL - 1)
  /\ resized \in 0..MaxResized
  /\ fault \in {"none", "division", "freed"}

\* The links are right whatever was pushed, popped, moved and deleted, although a
\* new head keeps a stale prev: walking a list along next meets each node that
\* names the list as its owner once and ends at the tail, and prev leads back.
Linked ==
  \A p \in List :
    LET w == Chain(p) IN
      /\ ToSet(w) = Nodes(p) /\ IsInjective(w)
      /\ Len(w) = pcache.list.size[p]
      /\ pcache.list.tail[p] = IF w = <<>> THEN Null ELSE Last(w)
      /\ \A x \in 2..Len(w) : pcache.list.prev[w[x]] = w[x - 1]

\* The hash table knows exactly the nodes that are in one of the lists, and each
\* value the cache has taken over and not freed is the data of one of them: nothing
\* is leaked, freed twice, or freed while it can still be returned ("will call it
\* when the node is not in the cache", fcache.h).
Owned ==
  /\ pcache.index = Nodes(Active) \cup Nodes(Inactive)
  /\ pcache.held = {pcache.data[k] : k \in pcache.index} \ {Null}
  /\ \A j, k \in pcache.index :
       pcache.data[j] = pcache.data[k] /\ j # k => pcache.data[k] = Null

\* max_size bounds the objects as long as no update has changed the size of one:
\* the sums are those of the nodes, and together no more than max_size.
Bounded ==
  resized = 0 =>
    /\ \A p \in List :
         pcache.list.total[p] = MapThenSumSet(LAMBDA k : pcache.list.dsize[k], Nodes(p))
    /\ pcache.list.total[Active] + pcache.list.total[Inactive] <= max_size

\* The nodes in the order in which they would be dropped.
DropOrder == Chain(Inactive) \o Chain(Active)

\* A sequence without the key k.
Others(s, k) ==
  LET at == {x \in DOMAIN s : s[x] = k}
  IN  IF at = {} THEN s ELSE RemoveAt(s, CHOOSE x \in at : TRUE)

\* Nodes are dropped oldest first, those of the inactive list before those of the
\* active one, in every call: apart from the key the call is about, what is left is
\* the newer end of what was there ("remove node only from inactive list").
OldestFirst ==
  [][\E old \in {DropOrder}, new \in {DropOrder'} :
       \E k \in Key : IsSuffix(Others(new, k), Others(old, k))]_pcache

\* An update that has to make room drops the node it is about last, if at all: it
\* runs into its own freed node only when nothing else was left on the inactive list.
UpdatedLast == fault = "freed" => Chain(Inactive) = <<>>
=============================================================================
