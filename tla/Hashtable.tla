------------------------------ MODULE Hashtable ------------------------------
(***************************************************************************)
(* The hash table of hw3 (hashtable.c): bins of entries sorted by key, on  *)
(* the heap of Lists.  Its values are lists, copied by ll_copy and freed   *)
(* by ll_free, as those of group_to_clients in server.c are.  The copy of  *)
(* a key is part of its entry, and goes with it.                           *)
(***************************************************************************)
EXTENDS Lists

CONSTANT ht_hash    \* the bin of each key: any function

\* ht_create: no entries in any bin.
ht_create(h) ==
  [b \in Blocks |-> IF b \in Bins THEN Block("bin", NULL, NULL, NULL) ELSE h[b]]

free_ht_entry(h, e) == free(ll_free(h, h[e].value), {e})

Entries(h) == {e \in EntryBlocks : h[e].kind = "entry"}

\* ht_free: along every bin its entries and their lists, and the bins.
ht_free(h) ==
  LET walked == UNION {ToSet(Chain(h, b)) : b \in Bins}
      lists  == {h[e].value : e \in walked}
  IN free(h, Bins \cup walked \cup lists \cup UNION {ToSet(Chain(h, l)) : l \in lists})

\* Mutant: the whole bin is passed over when the key is not there.
BeforeEnd(h, key) ==
  LET c == <<ht_hash[key]>> \o Chain(h, ht_hash[key])
  IN IF \E i \in 2..Len(c) : h[c[i]].data = key
     THEN c[(CHOOSE i \in 2..Len(c) : h[c[i]].data = key) - 1] ELSE c[Len(c)]

\* The walk of ht_set, entry_for_key and ht_remove: last, or the bin, is where it
\* stops; what follows has a key that is not smaller, or is NULL.
Before(h, key) ==
  LET c == <<ht_hash[key]>> \o Chain(h, ht_hash[key])
  IN c[CHOOSE i \in DOMAIN c :
         /\ i = Len(c) \/ h[c[i + 1]].data >= key
         /\ \A j \in 2..i : h[c[j]].data < key]

entry_for_key(h, key) ==
  LET pair == h[Before(h, key)].next
  IN IF pair # NULL /\ h[pair].data = key THEN pair ELSE NULL

ht_contains(h, key) == entry_for_key(h, key) # NULL
ht_get(h, key) ==
  LET pair == entry_for_key(h, key) IN IF pair = NULL THEN NULL ELSE h[pair].value

\* An entry with copies of key and value.
ht_newpair(h, key, value) ==
  [ll_copy(h, value) EXCEPT ![malloc(h, EntryBlocks)] =
     Block("entry", key, malloc(h, ListBlocks), NULL)]

\* A value that is there is freed before the new one is copied.
ht_set(h, key, value) ==
  LET pair == entry_for_key(h, key)
      last == Before(h, key)
      new  == malloc(h, EntryBlocks)
      kept == ll_free(h, h[pair].value)
  IN IF pair # NULL
     THEN [ll_copy(kept, value) EXCEPT ![pair].value = malloc(kept, ListBlocks)]
     ELSE [ht_newpair(h, key, value) EXCEPT ![new].next = h[last].next, ![last].next = new]

\* Mutant: the value is not freed.
ht_removeKeeps(h, key) ==
  LET pair == entry_for_key(h, key)
  IN IF pair = NULL THEN h
     ELSE [free(h, {pair}) EXCEPT ![Before(h, key)].next = h[pair].next]

ht_remove(h, key) ==
  LET pair == entry_for_key(h, key)
  IN IF pair = NULL THEN h
     ELSE [free_ht_entry(h, pair) EXCEPT ![Before(h, key)].next = h[pair].next]

=============================================================================
