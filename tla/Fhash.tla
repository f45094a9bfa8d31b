-------------------------------- MODULE Fhash --------------------------------
(***************************************************************************)
(* fhash/fhash_core.c: a hash table of node lists that grows by rehashing, *)
(* with iterators.  While an iterator is open nothing is added to the      *)
(* table and its size does not change: new keys wait in delayed_actions.   *)
(*                                                                         *)
(* A table is a record of its struct's fields.  A node manager is [used,   *)
(* list]; a slot of the list holds a node [key, val] or, when its valid    *)
(* flag is 0, Null.  Indexes and slots count from 1 here.  The sizes of    *)
(* keys and values only decide which invalid slot a new node takes, which  *)
(* is left open.  fhash_foreach is an iterator whose callback runs between *)
(* two calls of fhash_next, and stops at any of them.  index_used, which   *)
(* only fhash_profile reports, is left out.                                *)
(***************************************************************************)
EXTENDS Naturals, Sequences, FiniteSets, FiniteSetsExt, Folds

CONSTANTS Key, Value, Iter, Null,
          Hash,                    \* opt.hash_alg, as a function of the key
          InitSize,                \* init_size of fhash_create
          auto_rehash,             \* its flag FHASH_MASK_AUTO_REHASH
          UINT32_MAX,              \* the largest index_size
          AUTO_REHASH_THRESHOLD

Node == [key : Key, val : Value]

ASSUME FhashAssumption ==
  /\ Hash \in [Key -> Nat]
  /\ Null \notin Value /\ Null \notin Node
  /\ IsFiniteSet(Iter)
  /\ UINT32_MAX \in Nat /\ InitSize \in 1..UINT32_MAX
  /\ auto_rehash \in BOOLEAN
  /\ AUTO_REHASH_THRESHOLD \in Nat

VARIABLES current,       \* the table
          delayed,       \* delayed_actions: a node manager
          iter           \* the caller's iterators

vars == <<current, delayed, iter>>

Valid(n) == n # Null

iter_refs == Cardinality({i \in Iter : iter[i].open})

-----------------------------------------------------------------------------
(* Node managers.                                                          *)

_hash_nodemgr_init == [used |-> 0, list |-> <<>>]

\* The valid slots, those of them with key key, and the invalid slots.
Occupied(mgr) == {s \in DOMAIN mgr.list : Valid(mgr.list[s])}
_hash_nodemgr_find(mgr, key) == {s \in Occupied(mgr) : mgr.list[s].key = key}
Invalid(mgr) == DOMAIN mgr.list \ Occupied(mgr)

\* The valid nodes of several managers, by index and slot.
ValidNodes(mgrs) == UNION {{y} \X Occupied(mgrs[y]) : y \in DOMAIN mgrs}
NodeAt(mgrs, x) == mgrs[x[1]].list[x[2]]

\* The list doubles; the new slots are invalid.
_hash_nodemgr_enlarge(list) ==
  list \o [s \in 1..(IF list = <<>> THEN 1 ELSE Len(list)) |-> Null]

Fill(mgr, s, node) == [used |-> mgr.used + 1, list |-> [mgr.list EXCEPT ![s] = node]]

AddEnlarged(mgr, node) ==
  Fill([mgr EXCEPT !.list = _hash_nodemgr_enlarge(@)], Len(mgr.list) + 1, node)

\* The managers that may result: _hash_nodemgr_applicable_node compares sizes.
_hash_nodemgr_add(mgr, node) ==
  IF mgr.used = Len(mgr.list)
  THEN {AddEnlarged(mgr, node)}
  ELSE {Fill(mgr, s, node) : s \in Invalid(mgr)}

_hash_nodemgr_add_node(mgr, node) ==
  IF mgr.used = Len(mgr.list)
  THEN AddEnlarged(mgr, node)
  ELSE Fill(mgr, Min(Invalid(mgr)), node)

_hash_nodemgr_set(mgr, s, node) == [mgr EXCEPT !.list[s] = node]

\* (Mutant: the counter is left alone.)
_hash_nodemgr_del_NoCount(mgr, s) == [mgr EXCEPT !.list[s] = Null]

_hash_nodemgr_del(mgr, s) == [used |-> mgr.used - 1, list |-> [mgr.list EXCEPT ![s] = Null]]

-----------------------------------------------------------------------------
(* Tables.                                                                 *)

_hash_tbl_create(size) ==
  [index_size |-> size, slots_used |-> 0,
   node_mgr |-> [x \in 1..size |-> _hash_nodemgr_init]]

_hash_tbl_calculate_idx(t, key) == (Hash[key] % t.index_size) + 1

MgrOf(t, key) == t.node_mgr[_hash_tbl_calculate_idx(t, key)]
Slots(t, key) == _hash_nodemgr_find(MgrOf(t, key), key)
SetMgr(t, key, mgr) == [t EXCEPT !.node_mgr[_hash_tbl_calculate_idx(t, key)] = mgr]

\* With one slot more or less in use.
Added(t, key, mgr) == [SetMgr(t, key, mgr) EXCEPT !.slots_used = @ + 1]
Deleted(t, key, mgr) == [SetMgr(t, key, mgr) EXCEPT !.slots_used = @ - 1]

Replace(t, node) ==
  SetMgr(t, node.key,
         _hash_nodemgr_set(MgrOf(t, node.key), Min(Slots(t, node.key)), node))

_hash_tbl_set(t, node) ==
  IF Slots(t, node.key) # {}
  THEN {Replace(t, node)}
  ELSE {Added(t, node.key, mgr) : mgr \in _hash_nodemgr_add(MgrOf(t, node.key), node)}

_hash_tbl_set_node(t, node) ==
  IF Slots(t, node.key) # {}
  THEN Replace(t, node)
  ELSE Added(t, node.key, _hash_nodemgr_add_node(MgrOf(t, node.key), node))

_hash_nodemgr_get(mgr, key) ==
  LET found == _hash_nodemgr_find(mgr, key)
  IN  IF found = {} THEN Null ELSE mgr.list[Min(found)].val

_hash_tbl_get(t, key) == _hash_nodemgr_get(MgrOf(t, key), key)

_hash_tbl_del(t, key) ==
  IF Slots(t, key) = {}
  THEN t
  ELSE Deleted(t, key, _hash_nodemgr_del(MgrOf(t, key), Min(Slots(t, key))))

\* The order of an iteration, and where an iterator still has to go: the valid nodes
\* from its position on.
Before(x, y) == x[1] < y[1] \/ (x[1] = y[1] /\ x[2] < y[2])

Ahead(t, it) == {x \in ValidNodes(t.node_mgr) : Before(<<it.index, it.slot>>, x)}

Earliest(S) == CHOOSE x \in S : \A y \in S : y = x \/ Before(x, y)
Latest(S) == CHOOSE x \in S : \A y \in S : y = x \/ Before(y, x)

-----------------------------------------------------------------------------
(* Rehashing and delayed actions.                                          *)

\* The valid nodes of mgrs are set in t, one after the other.
SetNodes(t, mgrs) ==
  MapThenFoldSet(LAMBDA node, tbl : _hash_tbl_set_node(tbl, node), t,
                 LAMBDA x : NodeAt(mgrs, x), Latest, ValidNodes(mgrs))

\* The new table.  When the iterator _hash_rehash uses is released, what is delayed is
\* performed on the old one, which is then deleted: InnerRelease.  The rehashing flag
\* keeps that release from rehashing in turn.
_hash_rehash(t, new_size) == SetNodes(_hash_tbl_create(new_size), t.node_mgr)

\* (Mutant: the size doubles without a limit.)
FHASH_REHASH_SIZE_Unbounded(t) == t.index_size * 2

FHASH_REHASH_SIZE(t) == IF t.index_size <= UINT32_MAX \div 2 THEN t.index_size * 2
                                                            ELSE UINT32_MAX

_hash_need_rehash(t) == t.slots_used \div t.index_size > AUTO_REHASH_THRESHOLD

\* (Mutant: iterators are not looked at.)
_hash_can_rehash_Iterating(t, refs) == t.index_size # UINT32_MAX

_hash_can_rehash(t, refs) == refs = 0 /\ t.index_size # UINT32_MAX

MustRehash(t) == auto_rehash /\ _hash_can_rehash(t, 0) /\ _hash_need_rehash(t)

_hash_try_rehash(t) == IF MustRehash(t) THEN _hash_rehash(t, FHASH_REHASH_SIZE(t)) ELSE t

\* (Mutant: the list is not searched for the key.)
_hash_set_delay_Blind(node) == _hash_nodemgr_add(delayed, node)

_hash_set_delay(node) ==
  LET found == _hash_nodemgr_find(delayed, node.key)
  IN  IF found # {} THEN {_hash_nodemgr_set(delayed, Min(found), node)}
                    ELSE _hash_nodemgr_add(delayed, node)

\* The delayed nodes move into the table one after the other.
_hash_perform_actions(t) == SetNodes(t, <<delayed>>)

Performed == [used |-> delayed.used - Cardinality(Occupied(delayed)),
              list |-> [s \in DOMAIN delayed.list |-> Null]]

\* What a rehash leaves of the delayed actions.
InnerRelease(rehashed) == delayed' = IF rehashed THEN Performed ELSE delayed

-----------------------------------------------------------------------------
(* The interface.                                                          *)

Closed == [open |-> FALSE, index |-> 1, slot |-> 0]

\* fhash_create
Init == /\ current = _hash_tbl_create(InitSize)
        /\ delayed = _hash_nodemgr_init
        /\ iter = [i \in Iter |-> Closed]

MayAdd == iter_refs = 0

fhash_set(k, v) ==
  /\ LET node == [key |-> k, val |-> v]
     IN  \/ /\ MayAdd
            /\ \E t \in _hash_tbl_set(current, node) :
                 current' = _hash_try_rehash(t) /\ InnerRelease(MustRehash(t))
         \/ /\ ~MayAdd /\ Slots(current, k) # {}
            /\ current' = Replace(current, node)
            /\ UNCHANGED delayed
         \/ /\ ~MayAdd /\ Slots(current, k) = {}
            /\ delayed' \in _hash_set_delay(node)
            /\ UNCHANGED current
  /\ UNCHANGED iter

\* What fhash_get, which changes nothing, returns for a key the table does not have.
Delayed(k) == _hash_nodemgr_get(delayed, k)

\* fhash_del, and fhash_fetch_and_del, which returns _hash_tbl_get(current, k).
fhash_del(k) == /\ current' = _hash_tbl_del(current, k)
                /\ UNCHANGED <<delayed, iter>>

fhash_iter_new(i) == /\ ~iter[i].open
                     /\ iter' = [iter EXCEPT ![i].open = TRUE]
                     /\ UNCHANGED <<current, delayed>>

\* Moves to the node it returns.  At the end the index is index_size, the slot 0,
\* NULL is returned, and so it stays.
fhash_next(i) ==
  /\ iter[i].open
  /\ LET S == Ahead(current, iter[i])
     IN  iter' = IF S = {}
                 THEN [iter EXCEPT ![i].index = current.index_size + 1, ![i].slot = 0]
                 ELSE [iter EXCEPT ![i].index = Earliest(S)[1], ![i].slot = Earliest(S)[2]]
  /\ UNCHANGED <<current, delayed>>

fhash_iter_release(i) ==
  /\ iter[i].open
  /\ iter' = [iter EXCEPT ![i] = Closed]
  /\ IF iter_refs = 1
     THEN /\ current' = _hash_try_rehash(_hash_perform_actions(current))
          /\ delayed' = Performed
     ELSE UNCHANGED <<current, delayed>>

\* With the size it has, or when it cannot rehash, the call returns 1.
fhash_rehash(new_size) ==
  LET rehash == _hash_can_rehash(current, iter_refs) /\ new_size # current.index_size
  IN  /\ current' = IF rehash
                    THEN _hash_rehash(current, IF new_size = 0 THEN FHASH_REHASH_SIZE(current)
                                                               ELSE new_size)
                    ELSE current
      /\ InnerRelease(rehash)
      /\ UNCHANGED iter

Next == \/ \E k \in Key : \/ \E v \in Value : fhash_set(k, v)
                          \/ fhash_del(k)
        \/ \E i \in Iter : fhash_iter_new(i) \/ fhash_next(i) \/ fhash_iter_release(i)
        \/ \E n \in 0..UINT32_MAX : fhash_rehash(n)

Spec == Init /\ [][Next]_vars

-----------------------------------------------------------------------------
(* Properties.                                                             *)

Mgr == [used : Nat, list : Seq(Node \cup {Null})]

\* Type invariant.
TypeOK ==
  /\ current \in [index_size : 1..UINT32_MAX, slots_used : Nat, node_mgr : Seq(Mgr)]
  /\ Len(current.node_mgr) = current.index_size
  /\ delayed \in Mgr
  /\ iter \in [Iter -> [open : BOOLEAN, index : 1..(UINT32_MAX + 1), slot : Nat]]

\* The counters the code decides by are what they count: a manager with room
\* has an invalid slot (assert(node) in _hash_nodemgr_add), and slots_used, which
\* triggers the rehash, is the number of keys.
CountersRight ==
  /\ \A mgr \in {current.node_mgr[x] : x \in 1..current.index_size} \cup {delayed} :
       mgr.used = Len(mgr.list) - Cardinality(Invalid(mgr))
  /\ current.slots_used = Cardinality(ValidNodes(current.node_mgr))

\* A key is in one place: in one slot, of the list its hash selects, or among the
\* delayed actions, never in both; and actions are only delayed while an iterator
\* is open, so that a rehash has none to lose (assert in _hash_perform_actions).
OnePlace ==
  /\ \A x \in ValidNodes(current.node_mgr) :
       LET k == NodeAt(current.node_mgr, x).key
       IN  x[1] = _hash_tbl_calculate_idx(current, k) /\ Slots(current, k) = {x[2]}
  /\ \A k \in Key : /\ Cardinality(_hash_nodemgr_find(delayed, k)) <= 1
                    /\ Delayed(k) # Null => Slots(current, k) = {}
  /\ iter_refs = 0 => delayed.used = 0

\* The table implements the map with iterators: whatever is set, deleted, iterated
\* and rehashed in between, a key has the value it was last given, and an iterator
\* visits every key that was there when it was created and has not been deleted
\* since, each once, and no other.
KeysAhead(i) ==
  IF iter[i].open THEN {NodeAt(current.node_mgr, x).key : x \in Ahead(current, iter[i])}
                  ELSE {}

Map == INSTANCE FhashMap WITH
         m <- [k \in Key |-> _hash_tbl_get(current, k)],
         p <- [k \in Key |-> Delayed(k)],
         open <- {i \in Iter : iter[i].open},
         left <- [i \in Iter |-> KeysAhead(i)]

ImplementsMap == Map!Spec
=============================================================================
