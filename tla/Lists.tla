-------------------------------- MODULE Lists --------------------------------
(***************************************************************************)
(* The linked list of hw3 (linked_list.c) on a heap of blocks, as its      *)
(* only user instantiates it: values are texts, copied and freed with the  *)
(* node that holds them.  An operation is an operator from heap to heap;   *)
(* its caller sees that there is memory for it, as the code faults when    *)
(* malloc fails.                                                           *)
(*                                                                         *)
(* The head of a list is the next field of its block, as that of a bin of  *)
(* the hash table is.                                                      *)
(***************************************************************************)
EXTENDS Integers, Sequences, SequencesExt

CONSTANTS
  Texts,        \* values of list elements
  Keys,         \* keys of the table, ordered as strcmp orders them
  ListBlocks,   \* memory for lists
  NodeBlocks,   \* ... for list nodes
  EntryBlocks,  \* ... for table entries
  Bins,         \* the cells of table
  NULL

Blocks   == ListBlocks \cup NodeBlocks \cup EntryBlocks \cup Bins
Pointers == Blocks \cup {NULL}

\* data is a size, a text or a key; value leads from an entry to its list.
Block(kind, data, value, next) ==
  [kind |-> kind, data |-> data, value |-> value, next |-> next]
Freed == Block("free", NULL, NULL, NULL)
Kinds == {"free", "list", "node", "entry", "bin"}
Data  == Texts \cup Keys \cup Nat \cup {NULL}

Unused(h, pool) == {b \in pool : h[b].kind = "free"}

\* malloc returns a block nobody uses; which one is of no consequence.
malloc(h, pool) == CHOOSE b \in pool : h[b].kind = "free"
free(h, blocks) == [b \in Blocks |-> IF b \in blocks THEN Freed ELSE h[b]]

\* The blocks that follow b, in order.
Chain(h, b) ==
  LET after[p \in Pointers] == IF p = NULL THEN <<>> ELSE <<p>> \o after[h[p].next]
  IN after[h[b].next]

\* The values ll_str prints: as many as size says.
ll_str(h, ll) == LET c == Chain(h, ll) IN [i \in 1..h[ll].data |-> h[c[i]].data]

ll_create(h) == [h EXCEPT ![malloc(h, ListBlocks)] = Block("list", 0, NULL, NULL)]

ll_free(h, ll) == free(h, {ll} \cup ToSet(Chain(h, ll)))

lln_create(h, value, next) ==
  [h EXCEPT ![malloc(h, NodeBlocks)] = Block("node", value, NULL, next)]

\* Mutant: size is not incremented.
ll_prependKeepsSize(h, ll, elem) ==
  [lln_create(h, elem, h[ll].next) EXCEPT ![ll].next = malloc(h, NodeBlocks)]

ll_prepend(h, ll, elem) ==
  [lln_create(h, elem, h[ll].next) EXCEPT ![ll].next = malloc(h, NodeBlocks),
                                          ![ll].data = @ + 1]

ll_get(h, ll, idx) == IF idx >= h[ll].data THEN NULL ELSE h[Chain(h, ll)[idx + 1]].data

\* The node at position i goes, and last->next or ll->head leads past it.
Cut(h, ll, i) ==
  LET c == <<ll>> \o Chain(h, ll)
  IN free([h EXCEPT ![c[i]].next = h[c[i + 1]].next, ![ll].data = @ - 1], {c[i + 1]})

ll_remove(h, ll, idx) == IF idx >= h[ll].data THEN h ELSE Cut(h, ll, idx + 1)

\* The first node with that value, if there is one.
ll_remove_value(h, ll, value) ==
  LET c == Chain(h, ll)
  IN IF \E i \in DOMAIN c : h[c[i]].data = value
     THEN Cut(h, ll, SelectInSeq(c, LAMBDA b : h[b].data = value))
     ELSE h

\* Mutant: from the first to the last.
ll_copyReversed(h, ll) ==
  LET new  == malloc(h, ListBlocks)
      size == h[ll].data
      after[n \in 0..size] == IF n = 0 THEN ll_create(h)
                              ELSE ll_prepend(after[n - 1], new, ll_get(h, ll, n - 1))
  IN after[size]

\* Prepends the values to a new list from the last to the first.
ll_copy(h, ll) ==
  LET new  == malloc(h, ListBlocks)
      size == h[ll].data
      after[n \in 0..size] == IF n = 0 THEN ll_create(h)
                              ELSE ll_prepend(after[n - 1], new, ll_get(h, ll, size - n))
  IN after[size]

\* The sizes, then the values along the first list.
ll_equal(h, ll, other) ==
  LET c == Chain(h, ll)
      d == Chain(h, other)
  IN h[ll].data = h[other].data /\ \A i \in DOMAIN c : h[c[i]].data = h[d[i]].data

=============================================================================
