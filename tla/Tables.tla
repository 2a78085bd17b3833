------------------------------- MODULE Tables -------------------------------
(***************************************************************************)
(* A program that uses the hash table and the lists of hw3 in every way    *)
(* their headers offer: it keeps lists of its own, and works in place on   *)
(* the list ht_get has led it to, as server.c does on a join and a leave.  *)
(* It does not give ht_set the list it replaces, which ht_set would read   *)
(* after freeing it, and memory suffices: the code faults when malloc      *)
(* fails.                                                                  *)
(***************************************************************************)
EXTENDS Hashtable, FiniteSets

CONSTANT Vars    \* variables of the program

\* A block belongs to one pool, the pools are finite, and NULL is no block, value or
\* key, nor anything made of them.
ASSUME TablesAssumption ==
  /\ Keys \subseteq Nat
  /\ Bins # {} /\ ht_hash \in [Keys -> Bins]
  /\ \A S \in {ListBlocks, NodeBlocks, EntryBlocks} : IsFiniteSet(S)
  /\ ListBlocks \cap (NodeBlocks \cup EntryBlocks \cup Bins) = {}
  /\ NodeBlocks \cap (EntryBlocks \cup Bins) = {}
  /\ EntryBlocks \cap Bins = {}
  /\ NULL \notin Blocks \cup Texts \cup Keys \cup Nat
  /\ NULL \notin Seq(Texts) /\ NULL \notin [Keys -> Seq(Texts) \cup {NULL}]
  /\ Vars \cap Keys = {}

VARIABLES
  heap,          \* what is in each block
  entry_count,   \* ht->entry_count
  own            \* the list in each variable

vars == <<heap, entry_count, own>>

Created == \E b \in Bins : heap[b].kind = "bin"

\* The list a variable or a key leads to.
List(r) ==
  IF r \in Vars THEN own[r] ELSE IF Created THEN ht_get(heap, r) ELSE NULL
Held == {r \in Vars \cup Keys : List(r) # NULL}

Room(lists, nodes, entries) ==
  /\ Cardinality(Unused(heap, ListBlocks)) >= lists
  /\ Cardinality(Unused(heap, NodeBlocks)) >= nodes
  /\ Cardinality(Unused(heap, EntryBlocks)) >= entries

Init ==
  /\ heap = [b \in Blocks |-> Freed]
  /\ entry_count = 0
  /\ own = [v \in Vars |-> NULL]

-----------------------------------------------------------------------------
(* The table *)

Create ==
  /\ ~Created
  /\ heap' = ht_create(heap)
  /\ entry_count' = 0
  /\ UNCHANGED own

Destroy ==
  /\ Created
  /\ heap' = ht_free(heap)
  /\ entry_count' = 0
  /\ UNCHANGED own

Set(k, r) ==
  /\ Created /\ r \in Held /\ r # k
  /\ LET new == IF ht_contains(heap, k) THEN 0 ELSE 1
     IN Room(new, heap[List(r)].data, new)
  /\ heap' = ht_set(heap, k, List(r))
  /\ entry_count' = IF ht_contains(heap, k) THEN entry_count ELSE entry_count + 1
  /\ UNCHANGED own

Unset(k) ==
  /\ Created
  /\ heap' = ht_remove(heap, k)
  /\ entry_count' = IF ht_contains(heap, k) THEN entry_count - 1 ELSE entry_count
  /\ UNCHANGED own

-----------------------------------------------------------------------------
(* Lists *)

\* A list is changed in place.
Changes(h) == heap' = h /\ UNCHANGED <<entry_count, own>>

New(v) ==
  /\ own[v] = NULL /\ Room(1, 0, 0)
  /\ heap' = ll_create(heap)
  /\ own' = [own EXCEPT ![v] = malloc(heap, ListBlocks)]
  /\ UNCHANGED entry_count

Drop(v) ==
  /\ own[v] # NULL
  /\ heap' = ll_free(heap, own[v])
  /\ own' = [own EXCEPT ![v] = NULL]
  /\ UNCHANGED entry_count

Copy(v, r) ==
  /\ own[v] = NULL /\ r \in Held /\ Room(1, heap[List(r)].data, 0)
  /\ heap' = ll_copy(heap, List(r))
  /\ own' = [own EXCEPT ![v] = malloc(heap, ListBlocks)]
  /\ UNCHANGED entry_count

Prepend(r, t)     == r \in Held /\ Room(0, 1, 0) /\ Changes(ll_prepend(heap, List(r), t))
Delete(r, i)      == r \in Held /\ Changes(ll_remove(heap, List(r), i))
DeleteValue(r, t) == r \in Held /\ Changes(ll_remove_value(heap, List(r), t))

-----------------------------------------------------------------------------

Refs    == Vars \cup Keys
Indices == 0..Cardinality(NodeBlocks)

Next ==
  \/ Create \/ Destroy
  \/ \E k \in Keys : Unset(k) \/ \E r \in Refs : Set(k, r)
  \/ \E v \in Vars : New(v) \/ Drop(v) \/ \E r \in Refs : Copy(v, r)
  \/ \E r \in Refs, t \in Texts : Prepend(r, t) \/ DeleteValue(r, t)
  \/ \E r \in Refs, i \in Indices : Delete(r, i)

Spec == Init /\ [][Next]_vars

-----------------------------------------------------------------------------
(* Properties *)

\* Every block in use is led to by one pointer and every other block by none:
\* nothing leaks, nothing is freed twice or used after it is freed, and no list of
\* the table shares a node with another or with one of the program's.
Leading(b) ==
  {c \in Blocks : heap[c].next = b} \cup {c \in Blocks : heap[c].value = b}
    \cup {v \in Vars : own[v] = b}
OwnedOnce ==
  \A b \in Blocks \ Bins : Cardinality(Leading(b)) = IF heap[b].kind = "free" THEN 0 ELSE 1

\* The bins hold their own keys only, in increasing order: that is what lets
\* every walk stop early.
Sorted ==
  \A b \in Blocks : heap[b].next \in EntryBlocks =>
    LET e == heap[heap[b].next] IN
      \/ heap[b].kind = "bin" /\ ht_hash[e.data] = b
      \/ heap[b].kind = "entry" /\ ht_hash[heap[b].data] = ht_hash[e.data]
                                /\ heap[b].data < e.data

\* What one finds in the blocks themselves.
Stored(k)   == {heap[e].value : e \in {f \in EntryBlocks : heap[f].kind = "entry" /\ heap[f].data = k}}
Sequence(l) == LET c == Chain(heap, l) IN [i \in DOMAIN c |-> heap[c[i]].data]

\* Nothing else is read: a walk that stops early misses no entry, one that goes by
\* size ends where the list does, and entry_count counts the entries.
ReadsRight ==
  /\ entry_count = Cardinality(Entries(heap))
  /\ Created => \A k \in Keys : /\ Stored(k) = {ht_get(heap, k)} \ {NULL}
                                /\ ht_contains(heap, k) <=> Stored(k) # {}
  /\ \A r, q \in Held : ll_equal(heap, List(r), List(q)) <=> Sequence(List(r)) = Sequence(List(q))
  /\ \A r \in Held : \E s \in {Sequence(List(r))} :
       /\ ll_str(heap, List(r)) = s
       /\ \A i \in Indices :
            ll_get(heap, List(r), i) = IF i < Len(s) THEN s[i + 1] ELSE NULL

Map == INSTANCE TableMap
Abstract ==
  LET content(lists) == IF lists = {} THEN NULL ELSE Sequence(CHOOSE l \in lists : TRUE)
  IN [map   |-> IF Created THEN [k \in Keys |-> content(Stored(k))] ELSE NULL,
      local |-> [v \in Vars |-> content({own[v]} \ {NULL})]]

\* A step that is an operation, and does to the map m what it promises.
MapStep(m, n) ==
  \/ n = Map!Create(m) /\ Create
  \/ n = Map!Destroy(m) /\ Destroy
  \/ \E k \in Keys : \/ Created /\ n = Map!Unset(m, k) /\ Unset(k)
                     \/ \E r \in Refs : Created /\ n = Map!Set(m, k, r) /\ Set(k, r)
  \/ \E v \in Vars : \/ n = Map!New(m, v) /\ New(v)
                     \/ n = Map!Drop(m, v) /\ Drop(v)
                     \/ \E r \in Refs : n = Map!Copy(m, v, r) /\ Copy(v, r)
  \/ \E r \in {q \in Refs : Map!Content(m, q) # NULL} :
       \/ \E t \in Texts : \/ n = Map!Prepend(m, r, t) /\ Prepend(r, t)
                           \/ n = Map!DeleteValue(m, r, t) /\ DeleteValue(r, t)
       \/ \E i \in Indices : n = Map!Delete(m, r, i) /\ Delete(r, i)

\* Each operation does to the table and the lists what it does to a map of
\* sequences: a copy shares nothing with what it was made from, and an entry is
\* linked in and out where its key belongs.
ImplementsMap ==
  /\ Abstract = Map!Nothing
  /\ [][\E m \in {Abstract}, n \in {Abstract'} : MapStep(m, n)]_vars

=============================================================================
