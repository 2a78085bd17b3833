---------------------------- MODULE TablesProofs ----------------------------
(***************************************************************************)
(* Proofs about Tables, for any keys, hash function, texts and memory: the *)
(* lists and bins are chains that share nothing.                           *)
(***************************************************************************)
EXTENDS Tables, FiniteSetTheorems, SequenceTheorems, WellFoundedInduction, TLAPS

Heads   == ListBlocks \cup Bins            \* what chains start from
Cells   == NodeBlocks \cup EntryBlocks     \* what they consist of
Pool(b) == IF b \in Bins THEN EntryBlocks ELSE NodeBlocks

Fields == [kind: Kinds, data: Data, value: Pointers, next: Pointers]
Heap   == [Blocks -> Fields]

\* What follows the first i - 1 blocks of a chain.
Nth(c, i) == IF i <= Len(c) THEN c[i] ELSE NULL

\* Each pool has blocks of its own kind.
Typed(h) ==
  /\ h \in Heap
  /\ \A b \in ListBlocks :
       /\ h[b].kind \in {"free", "list"} /\ h[b].value = NULL
       /\ h[b].kind = "list" => h[b].data \in Nat
  /\ \A b \in NodeBlocks :
       /\ h[b].kind \in {"free", "node"} /\ h[b].value = NULL
       /\ h[b].kind = "node" => h[b].data \in Texts
  /\ \A b \in EntryBlocks :
       /\ h[b].kind \in {"free", "entry"}
       /\ h[b].kind = "free" => h[b].value = NULL
       /\ h[b].kind = "entry" => h[b].data \in Keys /\ h[b].value \in ListBlocks
  /\ \A b \in Bins : h[b].kind \in {"free", "bin"} /\ h[b].value = NULL

\* C has the chain of each list and bin: next leads along them, a list knows the
\* length of its own, and every cell in use is on one chain, once.
Linked(h, C) ==
  /\ \A b \in Heads : h[b].next = Nth(C[b], 1)
  /\ \A b \in Heads : \A i \in 1..Len(C[b]) :
       /\ C[b][i] \in Pool(b) /\ h[C[b][i]].kind # "free"
       /\ h[C[b][i]].next = Nth(C[b], i + 1)
Sized(h, C) ==
  /\ \A b \in Heads : h[b].kind = "free" => C[b] = <<>>
  /\ \A b \in ListBlocks : h[b].kind = "list" => h[b].data = Len(C[b])
Disjoint(C) ==
  \A b, c \in Heads : \A i \in 1..Len(C[b]), j \in 1..Len(C[c]) :
    C[b][i] = C[c][j] => b = c /\ i = j
Covered(h, C) ==
  \A x \in Cells : IF h[x].kind = "free" THEN h[x].next = NULL
                   ELSE \E b \in Heads : \E i \in 1..Len(C[b]) : x = C[b][i]

Chains == [Heads -> Seq(Cells)]
Chained(h, C) ==
  C \in Chains /\ Linked(h, C) /\ Sized(h, C) /\ Disjoint(C) /\ Covered(h, C)

\* A bin holds its own keys, in increasing order.
Keyed(h, C) ==
  \A b \in Bins : \A i \in 1..Len(C[b]) :
    /\ ht_hash[h[C[b][i]].data] = b
    /\ \A j \in 1..Len(C[b]) : i < j => h[C[b][i]].data < h[C[b][j]].data

Shape(h, C) == Typed(h) /\ Chained(h, C) /\ Keyed(h, C)

-----------------------------------------------------------------------------
(* Blocks and chains                                                       *)

LEMMA Pools ==
  /\ Heads \subseteq Blocks /\ Cells \subseteq Blocks /\ Blocks = Heads \cup Cells
  /\ Heads \cap Cells = {} /\ NodeBlocks \cap EntryBlocks = {}
  /\ ListBlocks \cap Bins = {}
  /\ NULL \notin Blocks /\ NULL \notin Texts /\ NULL \notin Keys /\ NULL \notin Nat
  /\ \A b \in Heads : Pool(b) \subseteq Cells
BY TablesAssumption DEF Heads, Cells, Pool, Blocks

\* What holds of some number holds of a least one: what follows by induction rests
\* on it.
LEMMA LeastOf ==
  ASSUME NEW B \in SUBSET Nat, B # {}
  PROVE  \E m \in B : \A k \in B : ~(k < m)
<1>1. PICK m \in B : \A k \in B : ~(<<k, m>> \in OpToRel(<, Nat))
  BY NatLessThanWellFounded, WFMin
<1>2. \A k \in B : k < m => <<k, m>> \in OpToRel(<, Nat)
  BY DEF OpToRel
<1>3. QED
  BY <1>1, <1>2

LEMMA ChainTypes ==
  ASSUME NEW h, NEW C, Chained(h, C), NEW b \in Heads
  PROVE  /\ C[b] \in Seq(Cells) /\ Len(C[b]) \in Nat
         /\ DOMAIN C[b] = 1..Len(C[b])
         /\ \A i \in 1..Len(C[b]) : C[b][i] \in Cells /\ C[b][i] \in Blocks
                                    /\ C[b][i] \notin Heads /\ C[b][i] # NULL
<1>1. C[b] \in Seq(Cells)
  BY DEF Chained, Chains
<1>2. /\ Len(C[b]) \in Nat /\ DOMAIN C[b] = 1..Len(C[b])
      /\ \A i \in 1..Len(C[b]) : C[b][i] \in Cells
  BY <1>1, LenProperties, ElementOfSeq
<1>3. QED
  BY <1>1, <1>2, Pools

\* The rest of a chain, from position i.
From(c, i) == SubSeq(c, i, Len(c))

LEMMA FromNth ==
  ASSUME NEW S, NEW c \in Seq(S)
  PROVE  /\ From(c, 1) = c
         /\ From(c, Len(c) + 1) = <<>>
         /\ \A i \in 1..Len(c) : From(c, i) = <<c[i]>> \o From(c, i + 1)
<1>1. Len(c) \in Nat
  BY LenProperties
<1>2. From(c, 1) = c
  BY SubSeqFull DEF From
<1>3. From(c, Len(c) + 1) = <<>>
  BY <1>1, SubSeqEmpty DEF From
<1>4. ASSUME NEW i \in 1..Len(c)
      PROVE  From(c, i) = <<c[i]>> \o From(c, i + 1)
  <2>1. Len(c) \in i..Len(c)
    BY <1>1
  <2>2. QED
    BY <2>1, SubSeqRecursiveFirst DEF From
<1>5. QED
  BY <1>2, <1>3, <1>4

\* F is the walk that defines Chain.
Follows(F, h) ==
  F = [p \in Pointers |-> IF p = NULL THEN <<>> ELSE <<p>> \o F[h[p].next]]

\* There is such a walk.
LEMMA FollowsExists ==
  ASSUME NEW h, NEW C, Typed(h), Chained(h, C)
  PROVE  \E F : Follows(F, h)
<1> DEFINE Rest(p, s) == \E b \in Heads : \E i \in 1..Len(C[b]) : p = C[b][i] /\ s = From(C[b], i)
           On(p) == \E s : Rest(p, s)
           G == [p \in Pointers |->
                   IF p = NULL THEN <<>>
                   ELSE IF p \in Heads THEN <<p>> \o C[p]
                   ELSE IF On(p) THEN CHOOSE s : Rest(p, s) ELSE <<p>>]
<1>1. ASSUME NEW b \in Heads, NEW i \in 1..Len(C[b])
      PROVE  G[C[b][i]] = From(C[b], i)
  <2>1. C[b][i] \in Pointers /\ C[b][i] # NULL /\ C[b][i] \notin Heads
    BY ChainTypes DEF Pointers
  <2>2. Rest(C[b][i], From(C[b], i))
    OBVIOUS
  <2>3. \A s : Rest(C[b][i], s) => s = From(C[b], i)
    BY DEF Chained, Disjoint
  <2>4. (CHOOSE s : Rest(C[b][i], s)) = From(C[b], i)
    <3> HIDE DEF Rest
    <3> QED BY <2>2, <2>3
  <2>5. G[C[b][i]] = CHOOSE s : Rest(C[b][i], s)
    <3>1. On(C[b][i])
      BY <2>2
    <3> HIDE DEF Rest, On
    <3> QED BY <2>1, <3>1
  <2> QED BY <2>4, <2>5
<1>2. NULL \in Pointers /\ G[NULL] = <<>>
  BY DEF Pointers
<1>3. ASSUME NEW b \in Heads, NEW i \in 1..(Len(C[b]) + 1)
      PROVE  G[Nth(C[b], i)] = From(C[b], i)
  <2>1. C[b] \in Seq(Cells) /\ Len(C[b]) \in Nat
    BY ChainTypes
  <2> HIDE DEF G
  <2>2. CASE i <= Len(C[b])
    BY <2>1, <2>2, <1>1 DEF Nth
  <2>3. CASE i = Len(C[b]) + 1
    BY <2>1, <2>3, <1>2, FromNth DEF Nth
  <2> QED BY <2>1, <2>2, <2>3
<1>4. ASSUME NEW p \in Pointers, p # NULL
      PROVE  G[p] = <<p>> \o G[h[p].next]
  <2>1. CASE p \in Heads
    <3>1. C[p] \in Seq(Cells) /\ Len(C[p]) \in Nat
      BY <2>1, ChainTypes
    <3>2. G[p] = <<p>> \o C[p]
      BY <2>1, <1>4
    <3> HIDE DEF G
    <3>3. h[p].next = Nth(C[p], 1)
      BY <2>1 DEF Chained, Linked
    <3>4. G[Nth(C[p], 1)] = From(C[p], 1)
      BY <2>1, <3>1, <1>3
    <3>5. From(C[p], 1) = C[p]
      BY <3>1, FromNth
    <3> QED BY <3>2, <3>3, <3>4, <3>5
  <2>2. ASSUME NEW b \in Heads, NEW i \in 1..Len(C[b]), p = C[b][i]
        PROVE  G[p] = <<p>> \o G[h[p].next]
    <3>1. C[b] \in Seq(Cells) /\ Len(C[b]) \in Nat
      BY ChainTypes
    <3>2. G[p] = From(C[b], i)
      BY <2>2, <1>1
    <3> HIDE DEF G
    <3>3. h[p].next = Nth(C[b], i + 1)
      BY <2>2 DEF Chained, Linked
    <3>4. G[Nth(C[b], i + 1)] = From(C[b], i + 1)
      BY <3>1, <1>3
    <3>5. From(C[b], i) = <<C[b][i]>> \o From(C[b], i + 1)
      BY <3>1, FromNth
    <3> QED BY <3>2, <3>3, <3>4, <3>5, <2>2
  <2>3. CASE p \notin Heads /\ ~ \E b \in Heads : \E i \in 1..Len(C[b]) : p = C[b][i]
    <3>1. p \in Cells
      BY <2>3, <1>4, Pools DEF Pointers
    <3>2. h[p].next = NULL
      BY <2>3, <3>1 DEF Chained, Covered
    <3>3. ~On(p)
      BY <2>3
    <3>4. G[p] = <<p>>
      <4> HIDE DEF On
      <4> QED BY <1>4, <2>3, <3>3
    <3>5. <<p>> \o <<>> = <<p>>
      <4>1. <<p>> \in Seq(Pointers)
        OBVIOUS
      <4> QED BY <4>1, ConcatEmptySeq
    <3> HIDE DEF G
    <3> QED BY <1>2, <3>2, <3>4, <3>5
  <2> QED BY <2>1, <2>2, <2>3
<1>5. G = [p \in Pointers |-> G[p]]
  OBVIOUS
<1>6. Follows(G, h)
  <2> HIDE DEF G
  <2>1. \A p \in Pointers : G[p] = IF p = NULL THEN <<>> ELSE <<p>> \o G[h[p].next]
    BY <1>2, <1>4
  <2> QED BY <2>1, <1>5 DEF Follows
<1> QED BY <1>6

\* Chain finds the chains.
LEMMA ChainIs ==
  ASSUME NEW h, NEW C, Typed(h), Chained(h, C), NEW b \in Heads
  PROVE  Chain(h, b) = C[b]
<1> DEFINE F == CHOOSE F : Follows(F, h)
<1>1. Chain(h, b) = F[h[b].next]
  BY DEF Chain, Follows
<1>2. Follows(F, h)
  BY FollowsExists
<1> HIDE DEF F
<1>3. \A p \in Pointers : F[p] = IF p = NULL THEN <<>> ELSE <<p>> \o F[h[p].next]
  BY <1>2 DEF Follows
<1> DEFINE n == Len(C[b])
           Off == {k \in 0..n : F[Nth(C[b], n + 1 - k)] # From(C[b], n + 1 - k)}
<1>4. n \in Nat /\ C[b] \in Seq(Cells)
  BY ChainTypes
<1>5. ASSUME Off # {} PROVE FALSE
  <2>1. Off \in SUBSET Nat
    BY <1>4
  <2>2. PICK k \in Off : \A j \in Off : ~(j < k)
    BY <1>5, <2>1, LeastOf
  <2>3. k # 0
    <3>1. F[NULL] = <<>>
      BY <1>3 DEF Pointers
    <3>2. Nth(C[b], n + 1) = NULL
      BY <1>4 DEF Nth
    <3>3. From(C[b], n + 1) = <<>>
      BY <1>4, FromNth
    <3>4. k = 0 => n + 1 - k = n + 1
      BY <1>4
    <3> QED BY <2>2, <3>1, <3>2, <3>3, <3>4
  <2> DEFINE i == n + 1 - k
  <2>4. i \in 1..n /\ n + 1 - (k - 1) = i + 1 /\ k - 1 \in 0..n
    BY <2>2, <2>3, <1>4
  <2>5. F[Nth(C[b], i + 1)] = From(C[b], i + 1)
    BY <2>2, <2>4, <1>4
  <2>6. F[Nth(C[b], i)] # From(C[b], i)
    BY <2>2
  <2> HIDE DEF i
  <2>7. Nth(C[b], i) = C[b][i] /\ C[b][i] \in Pointers /\ C[b][i] # NULL
    BY <2>4, <1>4, ChainTypes DEF Nth, Pointers
  <2>8. h[C[b][i]].next = Nth(C[b], i + 1)
    BY <2>4 DEF Chained, Linked
  <2>9. F[C[b][i]] = <<C[b][i]>> \o F[Nth(C[b], i + 1)]
    BY <2>7, <2>8, <1>3
  <2> QED BY <2>4, <2>5, <2>6, <2>7, <2>9, <1>4, FromNth
<1>6. F[Nth(C[b], 1)] = From(C[b], 1)
  <2>1. n \in 0..n /\ n + 1 - n = 1
    BY <1>4
  <2>2. n \notin Off
    BY <1>5
  <2> QED BY <2>1, <2>2
<1>7. h[b].next = Nth(C[b], 1)
  BY DEF Chained, Linked
<1> QED BY <1>1, <1>4, <1>6, <1>7, FromNth

-----------------------------------------------------------------------------
(* A cell put into a chain, or taken out                                   *)

LEMMA InsertAtIs ==
  ASSUME NEW S, NEW c \in Seq(S), NEW p \in 1..(Len(c) + 1), NEW x \in S
  PROVE  /\ InsertAt(c, p, x) \in Seq(S)
         /\ Len(InsertAt(c, p, x)) = Len(c) + 1
         /\ \A i \in 1..(Len(c) + 1) :
              InsertAt(c, p, x)[i] = IF i < p THEN c[i] ELSE IF i = p THEN x ELSE c[i - 1]
<1> DEFINE s == SubSeq(c, 1, p - 1)
           t == SubSeq(c, p, Len(c))
           u == s \o <<x>>
<1>1. Len(c) \in Nat /\ \A i \in 1..Len(c) : c[i] \in S
  BY LenProperties, ElementOfSeq
<1>2. /\ s \in Seq(S) /\ Len(s) = p - 1
      /\ \A i \in 1..(p - 1) : s[i] = c[i]
  BY <1>1, SubSeqProperties
<1>3. /\ t \in Seq(S) /\ Len(t) = Len(c) - p + 1
      /\ \A i \in 1..(Len(c) - p + 1) : t[i] = c[p + i - 1]
  BY <1>1, SubSeqProperties
<1>4. <<x>> \in Seq(S) /\ Len(<<x>>) = 1 /\ <<x>>[1] = x
  OBVIOUS
<1> HIDE DEF s, t
<1>5. /\ u \in Seq(S) /\ Len(u) = p
      /\ \A i \in 1..p : u[i] = IF i < p THEN c[i] ELSE x
  <2>1. /\ u \in Seq(S) /\ Len(u) = Len(s) + Len(<<x>>)
        /\ \A i \in 1..(Len(s) + Len(<<x>>)) :
             u[i] = IF i <= Len(s) THEN s[i] ELSE <<x>>[i - Len(s)]
    BY <1>2, <1>4, ConcatProperties
  <2> HIDE DEF u
  <2> QED BY <2>1, <1>1, <1>2, <1>4
<1> HIDE DEF u
<1>6. /\ u \o t \in Seq(S) /\ Len(u \o t) = Len(u) + Len(t)
      /\ \A i \in 1..(Len(u) + Len(t)) :
           (u \o t)[i] = IF i <= Len(u) THEN u[i] ELSE t[i - Len(u)]
  BY <1>3, <1>5, ConcatProperties
<1>7. InsertAt(c, p, x) = u \o t
  BY DEF InsertAt, s, t, u
<1>8. ASSUME NEW i \in 1..(Len(c) + 1)
      PROVE  (u \o t)[i] = IF i < p THEN c[i] ELSE IF i = p THEN x ELSE c[i - 1]
  <2>1. CASE i <= p
    BY <2>1, <1>1, <1>3, <1>5, <1>6
  <2>2. CASE i > p
    <3>1. i - p \in 1..(Len(c) - p + 1) /\ p + (i - p) - 1 = i - 1
      BY <2>2, <1>1
    <3>2. (u \o t)[i] = t[i - p]
      BY <2>2, <1>1, <1>3, <1>5, <1>6
    <3>3. t[i - p] = c[i - 1]
      BY <3>1, <1>3
    <3> QED BY <2>2, <3>2, <3>3, <1>1
  <2>3. i <= p \/ i > p
    BY <1>1
  <2> QED BY <2>1, <2>2, <2>3
<1>9. Len(u) + Len(t) = Len(c) + 1
  BY <1>1, <1>3, <1>5
<1> QED BY <1>6, <1>7, <1>8, <1>9

LEMMA RemoveAtIs ==
  ASSUME NEW S, NEW c \in Seq(S), NEW p \in 1..Len(c)
  PROVE  /\ RemoveAt(c, p) \in Seq(S)
         /\ Len(RemoveAt(c, p)) = Len(c) - 1
         /\ \A i \in 1..(Len(c) - 1) :
              RemoveAt(c, p)[i] = IF i < p THEN c[i] ELSE c[i + 1]
<1> DEFINE s == SubSeq(c, 1, p - 1)
           t == SubSeq(c, p + 1, Len(c))
<1>1. Len(c) \in Nat /\ \A i \in 1..Len(c) : c[i] \in S
  BY LenProperties, ElementOfSeq
<1>2. /\ s \in Seq(S) /\ Len(s) = p - 1
      /\ \A i \in 1..(p - 1) : s[i] = c[i]
  BY <1>1, SubSeqProperties
<1>3. /\ t \in Seq(S) /\ Len(t) = Len(c) - p
      /\ \A i \in 1..(Len(c) - p) : t[i] = c[p + i]
  <2>1. /\ t \in Seq(S) /\ Len(t) = IF p + 1 <= Len(c) THEN Len(c) - (p + 1) + 1 ELSE 0
        /\ \A i \in 1..(Len(c) - (p + 1) + 1) : t[i] = c[(p + 1) + i - 1]
    BY <1>1, SubSeqProperties
  <2> HIDE DEF t
  <2> QED BY <2>1, <1>1
<1> HIDE DEF s, t
<1>4. /\ s \o t \in Seq(S) /\ Len(s \o t) = Len(s) + Len(t)
      /\ \A i \in 1..(Len(s) + Len(t)) :
           (s \o t)[i] = IF i <= Len(s) THEN s[i] ELSE t[i - Len(s)]
  BY <1>2, <1>3, ConcatProperties
<1>5. RemoveAt(c, p) = s \o t
  BY DEF RemoveAt, s, t
<1>6. ASSUME NEW i \in 1..(Len(c) - 1)
      PROVE  (s \o t)[i] = IF i < p THEN c[i] ELSE c[i + 1]
  <2>1. CASE i < p
    BY <2>1, <1>1, <1>2, <1>3, <1>4
  <2>2. CASE i >= p
    <3>1. i - (p - 1) \in 1..(Len(c) - p) /\ p + (i - (p - 1)) = i + 1
      BY <2>2, <1>1
    <3>2. (s \o t)[i] = t[i - (p - 1)]
      BY <2>2, <1>1, <1>2, <1>3, <1>4
    <3>3. t[i - (p - 1)] = c[i + 1]
      BY <3>1, <1>3
    <3> QED BY <2>2, <3>2, <3>3, <1>1
  <2>3. i < p \/ i >= p
    BY <1>1
  <2> QED BY <2>1, <2>2, <2>3
<1>7. Len(s) + Len(t) = Len(c) - 1
  BY <1>1, <1>2, <1>3
<1> QED BY <1>4, <1>5, <1>6, <1>7

\* The block before position p of the chain that starts from b.
CellBefore(C, b, p) == IF p = 1 THEN b ELSE C[b][p - 1]

LEMMA LastIs ==
  ASSUME NEW h, NEW C, Chained(h, C), NEW b \in Heads, h[b].kind # "free",
         NEW p \in 1..(Len(C[b]) + 1)
  PROVE  /\ CellBefore(C, b, p) \in Blocks /\ h[CellBefore(C, b, p)].kind # "free"
         /\ h[CellBefore(C, b, p)].next = Nth(C[b], p)
         /\ \A a \in Heads : a # b => CellBefore(C, b, p) # a
         /\ p # 1 => CellBefore(C, b, p) # b
         /\ \A a \in Heads : \A i \in 1..Len(C[a]) :
              CellBefore(C, b, p) = C[a][i] <=> a = b /\ i = p - 1
<1>1. Len(C[b]) \in Nat
  BY ChainTypes
<1>2. CASE p = 1
  <2>1. CellBefore(C, b, p) = b /\ b \in Blocks
    BY <1>2, Pools DEF CellBefore
  <2>2. \A a \in Heads : \A i \in 1..Len(C[a]) : C[a][i] # b
    BY ChainTypes
  <2> QED BY <1>1, <1>2, <2>1, <2>2 DEF Chained, Linked
<1>3. CASE p # 1
  <2>1. p - 1 \in 1..Len(C[b]) /\ CellBefore(C, b, p) = C[b][p - 1] /\ (p - 1) + 1 = p
    BY <1>1, <1>3 DEF CellBefore
  <2>2. C[b][p - 1] \in Blocks /\ C[b][p - 1] \notin Heads
    BY <2>1, ChainTypes
  <2>3. h[C[b][p - 1]].kind # "free" /\ h[C[b][p - 1]].next = Nth(C[b], p)
    BY <2>1 DEF Chained, Linked
  <2>4. \A a \in Heads : \A i \in 1..Len(C[a]) :
          C[b][p - 1] = C[a][i] <=> a = b /\ i = p - 1
    BY <2>1 DEF Chained, Disjoint
  <2> QED BY <1>3, <2>1, <2>2, <2>3, <2>4
<1> QED BY <1>2, <1>3

\* A free cell n, linked in behind what was before position p of the chain from b.
LinkedIn(h, g, C, b, p, n) ==
  /\ \A x \in Blocks \ {n, CellBefore(C, b, p)} : g[x].next = h[x].next
  /\ g[n].next = h[CellBefore(C, b, p)].next
  /\ g[CellBefore(C, b, p)].next = n
  /\ \A x \in Blocks \ {n} : g[x].kind = h[x].kind
  /\ g[n].kind # "free"
  /\ \A l \in ListBlocks : g[l].data = IF l = b THEN h[l].data + 1 ELSE h[l].data

LEMMA CellIn ==
  ASSUME NEW h, NEW g, NEW C, Chained(h, C), NEW b \in Heads, h[b].kind # "free",
         b \in ListBlocks => h[b].kind = "list",
         NEW p \in 1..(Len(C[b]) + 1), NEW n \in Pool(b), h[n].kind = "free",
         LinkedIn(h, g, C, b, p, n)
  PROVE  Chained(g, [C EXCEPT ![b] = InsertAt(C[b], p, n)])
<1> DEFINE c == C[b]
           D == [C EXCEPT ![b] = InsertAt(c, p, n)]
           last == CellBefore(C, b, p)
<1>1. /\ c \in Seq(Cells) /\ Len(c) \in Nat /\ n \in Cells /\ C \in Chains
      /\ n \in Blocks /\ n \notin Heads
  BY ChainTypes, Pools DEF Chained
<1>2. D \in Chains /\ D[b] = InsertAt(c, p, n) /\ \A a \in Heads : a # b => D[a] = C[a]
  <2>1. InsertAt(c, p, n) \in Seq(Cells)
    BY <1>1, InsertAtIs
  <2> QED BY <2>1, <1>1 DEF Chains
<1>3. /\ Len(D[b]) = Len(c) + 1
      /\ \A i \in 1..(Len(c) + 1) :
           D[b][i] = IF i < p THEN c[i] ELSE IF i = p THEN n ELSE c[i - 1]
  <2>1. /\ Len(InsertAt(c, p, n)) = Len(c) + 1
        /\ \A i \in 1..(Len(c) + 1) :
             InsertAt(c, p, n)[i] = IF i < p THEN c[i] ELSE IF i = p THEN n ELSE c[i - 1]
    <3>1. c \in Seq(Cells) /\ n \in Cells /\ p \in 1..(Len(c) + 1)
      BY <1>1
    <3> HIDE DEF c, D
    <3> QED BY ONLY <3>1, InsertAtIs
  <2>2. D[b] = InsertAt(c, p, n)
    BY <1>2
  <2> HIDE DEF D
  <2> QED BY <2>1, <2>2
<1>4. /\ last \in Blocks /\ h[last].kind # "free"
      /\ h[last].next = Nth(C[b], p)
      /\ \A a \in Heads : a # b => last # a
      /\ p # 1 => last # b
      /\ \A a \in Heads : \A i \in 1..Len(C[a]) :
           last = C[a][i] <=> a = b /\ i = p - 1
  BY LastIs
<1>5. p = 1 => last = b
  BY DEF CellBefore
<1>l. /\ \A x \in Blocks \ {n, last} : g[x].next = h[x].next
      /\ g[n].next = h[last].next
      /\ g[last].next = n
      /\ \A x \in Blocks \ {n} : g[x].kind = h[x].kind
      /\ g[n].kind # "free"
      /\ \A l \in ListBlocks : g[l].data = IF l = b THEN h[l].data + 1 ELSE h[l].data
  BY DEF LinkedIn
<1>n. \A a \in Heads : \A i \in 1..Len(C[a]) : C[a][i] # n
  BY DEF Chained, Linked
<1>c. \A a \in Heads : \A i \in 1..Len(C[a]) : C[a][i] \in Blocks
  BY ChainTypes
<1> HIDE DEF D, last
<1>6. ASSUME NEW a \in Heads
      PROVE  g[a].next = Nth(D[a], 1)
  <2>1. a \in Blocks /\ a # n /\ h[a].next = Nth(C[a], 1)
    BY <1>1, Pools DEF Chained, Linked
  <2>2. CASE a # b
    BY <2>1, <2>2, <1>2, <1>4, <1>l
  <2>3. CASE a = b /\ p = 1
    <3>1. D[b][1] = n /\ Len(D[b]) >= 1
      BY <2>3, <1>1, <1>3
    <3> QED BY <2>3, <3>1, <1>5, <1>l DEF Nth
  <2>4. CASE a = b /\ p # 1
    <3>1. D[b][1] = c[1] /\ Len(D[b]) >= 1 /\ Len(c) >= 1
      BY <2>4, <1>1, <1>3
    <3>2. g[b].next = h[b].next
      BY <2>1, <2>4, <1>4, <1>l
    <3> QED BY <2>1, <2>4, <3>1, <3>2 DEF Nth
  <2> QED BY <2>2, <2>3, <2>4
<1>7. ASSUME NEW a \in Heads, NEW i \in 1..Len(D[a])
      PROVE  /\ D[a][i] \in Pool(a) /\ g[D[a][i]].kind # "free"
             /\ g[D[a][i]].next = Nth(D[a], i + 1)
  <2>1. ASSUME NEW j \in 1..Len(C[a])
        PROVE  /\ C[a][j] \in Pool(a) /\ g[C[a][j]].kind # "free"
               /\ h[C[a][j]].next = Nth(C[a], j + 1)
               /\ ~(a = b /\ j = p - 1) => g[C[a][j]].next = Nth(C[a], j + 1)
    <3>1. /\ C[a][j] \in Pool(a) /\ h[C[a][j]].kind # "free"
          /\ h[C[a][j]].next = Nth(C[a], j + 1)
      BY DEF Chained, Linked
    <3>2. C[a][j] \in Blocks /\ C[a][j] # n
      BY <1>n, <1>c
    <3>3. ~(a = b /\ j = p - 1) => C[a][j] # last
      BY <1>4
    <3> QED BY <3>1, <3>2, <3>3, <1>l
  <2>2. CASE a # b
    BY <2>1, <2>2, <1>2
  <2>3. CASE a = b /\ i < p
    <3>1. i \in 1..Len(c) /\ D[b][i] = c[i]
      BY <2>3, <1>1, <1>3
    <3>2. CASE i = p - 1
      <4>1. last = c[i]
        BY <3>1, <3>2, <1>4
      <4>2. D[b][i + 1] = n /\ i + 1 <= Len(D[b])
        BY <3>2, <2>3, <1>1, <1>3
      <4> QED BY <2>1, <2>3, <3>1, <4>1, <4>2, <1>l DEF Nth
    <3>3. CASE i # p - 1
      <4>1. D[b][i + 1] = c[i + 1] /\ i + 1 <= Len(D[b]) /\ i + 1 <= Len(c)
        BY <3>3, <2>3, <1>1, <1>3
      <4> QED BY <2>1, <2>3, <3>1, <3>3, <4>1 DEF Nth
    <3> QED BY <3>2, <3>3
  <2>4. CASE a = b /\ i = p
    <3>1. D[b][i] = n
      BY <2>4, <1>1, <1>3
    <3>2. g[n].next = Nth(c, p)
      BY <1>4, <1>l
    <3>3. Nth(c, p) = Nth(D[b], p + 1)
      <4>1. p <= Len(c) <=> p + 1 <= Len(D[b])
        BY <1>1, <1>3
      <4>2. p <= Len(c) => D[b][p + 1] = c[p]
        BY <1>1, <1>3
      <4> QED BY <4>1, <4>2 DEF Nth
    <3> QED BY <2>4, <3>1, <3>2, <3>3, <1>l
  <2>5. CASE a = b /\ i > p
    <3>1. i - 1 \in 1..Len(c) /\ D[b][i] = c[i - 1] /\ i - 1 # p - 1 /\ (i - 1) + 1 = i
      BY <2>5, <1>1, <1>3
    <3>2. Nth(c, i) = Nth(D[b], i + 1)
      <4>1. i <= Len(c) <=> i + 1 <= Len(D[b])
        BY <1>1, <1>3, <2>5
      <4>2. i <= Len(c) => D[b][i + 1] = c[i]
        BY <1>1, <1>3, <2>5
      <4> QED BY <4>1, <4>2 DEF Nth
    <3> QED BY <2>1, <2>5, <3>1, <3>2
  <2>6. i \in Nat
    OBVIOUS
  <2> QED BY <2>2, <2>3, <2>4, <2>5, <2>6, <1>1
<1>8. Sized(g, D)
  <2>1. ASSUME NEW a \in Heads, g[a].kind = "free"
        PROVE  D[a] = <<>>
    <3>1. h[a].kind = "free"
      BY <2>1, <1>l, <1>1, Pools
    <3> QED BY <3>1, <1>2 DEF Chained, Sized
  <2>2. ASSUME NEW a \in ListBlocks, g[a].kind = "list"
        PROVE  g[a].data = Len(D[a])
    <3>1. a \in Heads /\ a \in Blocks /\ a # n
      BY <1>1, Pools DEF Heads
    <3>2. h[a].kind = "list" /\ h[a].data = Len(C[a])
      BY <3>1, <2>2, <1>l DEF Chained, Sized
    <3>3. g[a].data = IF a = b THEN h[a].data + 1 ELSE h[a].data
      BY <1>l
    <3> QED BY <3>1, <3>2, <3>3, <1>2, <1>3
  <2> QED BY <2>1, <2>2 DEF Sized
<1>9. Disjoint(D)
  <2> SUFFICES ASSUME NEW a \in Heads, NEW d \in Heads, NEW i \in 1..Len(D[a]),
                      NEW j \in 1..Len(D[d]), D[a][i] = D[d][j]
               PROVE  a = d /\ i = j
    BY DEF Disjoint
  <2>1. ASSUME NEW e \in Heads, NEW k \in 1..Len(D[e])
        PROVE  \/ e = b /\ k = p /\ D[e][k] = n
               \/ /\ ~(e = b /\ k = p)
                  /\ \E m \in 1..Len(C[e]) : /\ D[e][k] = C[e][m]
                                             /\ m = IF e = b /\ k > p THEN k - 1 ELSE k
    <3>1. CASE e # b
      BY <3>1, <1>2
    <3>2. CASE e = b /\ k = p
      BY <3>2, <1>1, <1>3
    <3>3. CASE e = b /\ k # p
      <4> DEFINE m == IF k > p THEN k - 1 ELSE k
      <4>1. m \in 1..Len(C[e]) /\ D[e][k] = C[e][m]
        BY <3>3, <1>1, <1>3
      <4> QED BY <3>3, <4>1
    <3> QED BY <3>1, <3>2, <3>3
  <2>2. CASE a = b /\ i = p
    BY <2>1, <2>2, <1>n
  <2>3. CASE d = b /\ j = p
    BY <2>1, <2>3, <1>n
  <2>4. CASE ~(a = b /\ i = p) /\ ~(d = b /\ j = p)
    <3>1. PICK m \in 1..Len(C[a]) : /\ D[a][i] = C[a][m]
                                    /\ m = IF a = b /\ i > p THEN i - 1 ELSE i
      BY <2>1, <2>4
    <3>2. PICK k \in 1..Len(C[d]) : /\ D[d][j] = C[d][k]
                                    /\ k = IF d = b /\ j > p THEN j - 1 ELSE j
      BY <2>1, <2>4
    <3>3. C[a][m] = C[d][k]
      BY <3>1, <3>2
    <3>4. a = d /\ m = k
      BY <3>3 DEF Chained, Disjoint
    <3> QED BY <3>1, <3>2, <3>4, <2>4
  <2> QED BY <2>2, <2>3, <2>4
<1>10. Covered(g, D)
  <2> SUFFICES ASSUME NEW x \in Cells
               PROVE  IF g[x].kind = "free" THEN g[x].next = NULL
                      ELSE \E a \in Heads : \E i \in 1..Len(D[a]) : x = D[a][i]
    BY DEF Covered
  <2>1. x \in Blocks
    BY Pools
  <2>2. CASE x = n
    <3>1. p \in 1..Len(D[b]) /\ D[b][p] = n
      BY <1>1, <1>3
    <3> QED BY <2>2, <3>1, <1>l
  <2>3. CASE x # n /\ h[x].kind = "free"
    <3>1. h[x].next = NULL
      BY <2>3 DEF Chained, Covered
    <3>2. x # last
      BY <2>3, <1>4
    <3> QED BY <2>1, <2>3, <3>1, <3>2, <1>l
  <2>4. CASE x # n /\ h[x].kind # "free"
    <3>1. PICK a \in Heads : \E i \in 1..Len(C[a]) : x = C[a][i]
      BY <2>4 DEF Chained, Covered
    <3>2. PICK i \in 1..Len(C[a]) : x = C[a][i]
      BY <3>1
    <3>3. g[x].kind # "free"
      BY <2>1, <2>4, <1>l
    <3>4. CASE a # b
      BY <3>2, <3>3, <3>4, <1>2
    <3>5. CASE a = b
      <4> DEFINE k == IF i < p THEN i ELSE i + 1
      <4>1. k \in 1..Len(D[b]) /\ D[b][k] = c[i]
        BY <3>5, <1>1, <1>3
      <4> QED BY <3>2, <3>3, <3>5, <4>1
    <3> QED BY <3>4, <3>5
  <2> QED BY <2>2, <2>3, <2>4
<1> QED BY <1>2, <1>6, <1>7, <1>8, <1>9, <1>10 DEF Chained, Linked, D

\* The cell at position p of the chain from b, led past and freed.
CutOut(h, g, C, b, p) ==
  /\ \A x \in Blocks \ {C[b][p], CellBefore(C, b, p)} : g[x].next = h[x].next
  /\ g[C[b][p]].next = NULL
  /\ g[CellBefore(C, b, p)].next = h[C[b][p]].next
  /\ \A x \in Blocks \ {C[b][p]} : g[x].kind = h[x].kind
  /\ g[C[b][p]].kind = "free"
  /\ \A l \in ListBlocks : g[l].data = IF l = b THEN h[l].data - 1 ELSE h[l].data

LEMMA CellOut ==
  ASSUME NEW h, NEW g, NEW C, Chained(h, C), NEW b \in Heads, h[b].kind # "free",
         b \in ListBlocks => h[b].kind = "list",
         NEW p \in 1..Len(C[b]), CutOut(h, g, C, b, p)
  PROVE  Chained(g, [C EXCEPT ![b] = RemoveAt(C[b], p)])
<1> DEFINE c == C[b]
           n == C[b][p]
           D == [C EXCEPT ![b] = RemoveAt(c, p)]
           last == CellBefore(C, b, p)
<1>1. /\ c \in Seq(Cells) /\ Len(c) \in Nat /\ n \in Cells /\ C \in Chains
      /\ n \in Blocks /\ n \notin Heads /\ p \in 1..(Len(c) + 1)
  BY ChainTypes, Pools DEF Chained
<1>2. D \in Chains /\ D[b] = RemoveAt(c, p) /\ \A a \in Heads : a # b => D[a] = C[a]
  <2>1. RemoveAt(c, p) \in Seq(Cells)
    BY <1>1, RemoveAtIs
  <2> QED BY <2>1, <1>1 DEF Chains
<1>3. /\ Len(D[b]) = Len(c) - 1
      /\ \A i \in 1..(Len(c) - 1) : D[b][i] = IF i < p THEN c[i] ELSE c[i + 1]
  <2>1. /\ Len(RemoveAt(c, p)) = Len(c) - 1
        /\ \A i \in 1..(Len(c) - 1) :
             RemoveAt(c, p)[i] = IF i < p THEN c[i] ELSE c[i + 1]
    <3>1. c \in Seq(Cells) /\ p \in 1..Len(c)
      BY <1>1
    <3> HIDE DEF c, D, n
    <3> QED BY ONLY <3>1, RemoveAtIs
  <2>2. D[b] = RemoveAt(c, p)
    BY <1>2
  <2> HIDE DEF D
  <2> QED BY <2>1, <2>2
<1>4. /\ last \in Blocks /\ h[last].kind # "free"
      /\ h[last].next = Nth(C[b], p)
      /\ \A a \in Heads : a # b => last # a
      /\ p # 1 => last # b
      /\ \A a \in Heads : \A i \in 1..Len(C[a]) :
           last = C[a][i] <=> a = b /\ i = p - 1
  BY <1>1, LastIs
<1>5. p = 1 => last = b
  BY DEF CellBefore
<1>l. /\ \A x \in Blocks \ {n, last} : g[x].next = h[x].next
      /\ g[n].next = NULL
      /\ g[last].next = h[n].next
      /\ \A x \in Blocks \ {n} : g[x].kind = h[x].kind
      /\ g[n].kind = "free"
      /\ \A l \in ListBlocks : g[l].data = IF l = b THEN h[l].data - 1 ELSE h[l].data
  BY DEF CutOut
<1>n. \A a \in Heads : \A i \in 1..Len(C[a]) : C[a][i] = n <=> a = b /\ i = p
  BY DEF Chained, Disjoint
<1>c. \A a \in Heads : \A i \in 1..Len(C[a]) : C[a][i] \in Blocks
  BY ChainTypes
<1>h. h[n].next = Nth(c, p + 1)
  BY DEF Chained, Linked
<1> HIDE DEF D, last, n
<1>6. ASSUME NEW a \in Heads
      PROVE  g[a].next = Nth(D[a], 1)
  <2>1. a \in Blocks /\ a # n /\ h[a].next = Nth(C[a], 1)
    BY <1>1, Pools DEF Chained, Linked
  <2>2. CASE a # b
    BY <2>1, <2>2, <1>2, <1>4, <1>l
  <2>3. CASE a = b /\ p = 1
    <3>1. Nth(D[b], 1) = Nth(c, 2)
      <4>1. Len(D[b]) >= 1 <=> Len(c) >= 2
        BY <1>1, <1>3
      <4>2. Len(c) >= 2 => D[b][1] = c[2]
        BY <2>3, <1>1, <1>3
      <4> QED BY <4>1, <4>2 DEF Nth
    <3> QED BY <2>3, <3>1, <1>5, <1>l, <1>h
  <2>4. CASE a = b /\ p # 1
    <3>1. D[b][1] = c[1] /\ Len(D[b]) >= 1 /\ Len(c) >= 1
      BY <2>4, <1>1, <1>3
    <3>2. g[b].next = h[b].next
      BY <2>1, <2>4, <1>4, <1>l
    <3> QED BY <2>1, <2>4, <3>1, <3>2 DEF Nth
  <2> QED BY <2>2, <2>3, <2>4
<1>7. ASSUME NEW a \in Heads, NEW i \in 1..Len(D[a])
      PROVE  /\ D[a][i] \in Pool(a) /\ g[D[a][i]].kind # "free"
             /\ g[D[a][i]].next = Nth(D[a], i + 1)
  <2>1. ASSUME NEW j \in 1..Len(C[a]), ~(a = b /\ j = p)
        PROVE  /\ C[a][j] \in Pool(a) /\ g[C[a][j]].kind # "free"
               /\ ~(a = b /\ j = p - 1) => g[C[a][j]].next = Nth(C[a], j + 1)
    <3>1. /\ C[a][j] \in Pool(a) /\ h[C[a][j]].kind # "free"
          /\ h[C[a][j]].next = Nth(C[a], j + 1)
      BY DEF Chained, Linked
    <3>2. C[a][j] \in Blocks /\ C[a][j] # n
      BY <1>n, <1>c, <2>1
    <3>3. ~(a = b /\ j = p - 1) => C[a][j] # last
      BY <1>4
    <3> QED BY <3>1, <3>2, <3>3, <1>l
  <2>2. CASE a # b
    BY <2>1, <2>2, <1>2
  <2>3. CASE a = b /\ i < p
    <3>1. i \in 1..Len(c) /\ i # p /\ D[b][i] = c[i]
      BY <2>3, <1>1, <1>3
    <3>2. CASE i = p - 1
      <4>1. last = c[i]
        BY <3>1, <3>2, <1>4
      <4>2. Nth(D[b], i + 1) = Nth(c, p + 1)
        <5>1. i + 1 <= Len(D[b]) <=> p + 1 <= Len(c)
          BY <3>2, <1>1, <1>3
        <5>2. p + 1 <= Len(c) => D[b][i + 1] = c[p + 1]
          BY <3>2, <2>3, <1>1, <1>3
        <5> QED BY <5>1, <5>2 DEF Nth
      <4> QED BY <2>1, <2>3, <3>1, <4>1, <4>2, <1>l, <1>h
    <3>3. CASE i # p - 1
      <4>1. D[b][i + 1] = c[i + 1] /\ i + 1 <= Len(D[b]) /\ i + 1 <= Len(c)
        <5>1. i + 1 \in 1..(Len(c) - 1) /\ i + 1 < p
          BY <3>1, <3>3, <2>3, <1>1
        <5> QED BY <5>1, <1>1, <1>3
      <4> QED BY <2>1, <2>3, <3>1, <3>3, <4>1 DEF Nth
    <3> QED BY <3>2, <3>3
  <2>4. CASE a = b /\ i >= p
    <3>1. i + 1 \in 1..Len(c) /\ D[b][i] = c[i + 1] /\ i + 1 # p - 1 /\ i + 1 # p
      BY <2>4, <1>1, <1>3
    <3>2. Nth(c, (i + 1) + 1) = Nth(D[b], i + 1)
      <4>1. (i + 1) + 1 <= Len(c) <=> i + 1 <= Len(D[b])
        BY <1>1, <1>3, <2>4
      <4>2. (i + 1) + 1 <= Len(c) => D[b][i + 1] = c[(i + 1) + 1]
        BY <1>1, <1>3, <2>4
      <4> QED BY <4>1, <4>2 DEF Nth
    <3> QED BY <2>1, <2>4, <3>1, <3>2
  <2>5. i < p \/ i >= p
    BY <1>1
  <2> QED BY <2>2, <2>3, <2>4, <2>5
<1>8. Sized(g, D)
  <2>1. ASSUME NEW a \in Heads, g[a].kind = "free"
        PROVE  D[a] = <<>>
    <3>1. h[a].kind = "free"
      BY <2>1, <1>l, <1>1, Pools
    <3> QED BY <3>1, <1>2 DEF Chained, Sized
  <2>2. ASSUME NEW a \in ListBlocks, g[a].kind = "list"
        PROVE  g[a].data = Len(D[a])
    <3>1. a \in Heads /\ a \in Blocks /\ a # n
      BY <1>1, Pools DEF Heads
    <3>2. h[a].kind = "list" /\ h[a].data = Len(C[a])
      BY <3>1, <2>2, <1>l DEF Chained, Sized
    <3>3. g[a].data = IF a = b THEN h[a].data - 1 ELSE h[a].data
      BY <1>l
    <3> QED BY <3>1, <3>2, <3>3, <1>2, <1>3
  <2> QED BY <2>1, <2>2 DEF Sized
<1>m. ASSUME NEW e \in Heads, NEW k \in 1..Len(D[e])
      PROVE  \E m \in 1..Len(C[e]) : /\ D[e][k] = C[e][m]
                                     /\ m = IF e = b /\ k >= p THEN k + 1 ELSE k
  <2>1. CASE e # b
    BY <2>1, <1>2
  <2>2. CASE e = b
    <3> DEFINE m == IF k >= p THEN k + 1 ELSE k
    <3>1. m \in 1..Len(C[e]) /\ D[e][k] = C[e][m]
      BY <2>2, <1>1, <1>3
    <3> QED BY <2>2, <3>1
  <2> QED BY <2>1, <2>2
<1>9. Disjoint(D)
  <2> SUFFICES ASSUME NEW a \in Heads, NEW d \in Heads, NEW i \in 1..Len(D[a]),
                      NEW j \in 1..Len(D[d]), D[a][i] = D[d][j]
               PROVE  a = d /\ i = j
    BY DEF Disjoint
  <2>1. PICK m \in 1..Len(C[a]) : /\ D[a][i] = C[a][m]
                                  /\ m = IF a = b /\ i >= p THEN i + 1 ELSE i
    BY <1>m
  <2>2. PICK k \in 1..Len(C[d]) : /\ D[d][j] = C[d][k]
                                  /\ k = IF d = b /\ j >= p THEN j + 1 ELSE j
    BY <1>m
  <2>3. C[a][m] = C[d][k]
    BY <2>1, <2>2
  <2>4. a = d /\ m = k
    BY <2>3 DEF Chained, Disjoint
  <2> QED BY <2>1, <2>2, <2>4
<1>10. Covered(g, D)
  <2> SUFFICES ASSUME NEW x \in Cells
               PROVE  IF g[x].kind = "free" THEN g[x].next = NULL
                      ELSE \E a \in Heads : \E i \in 1..Len(D[a]) : x = D[a][i]
    BY DEF Covered
  <2>1. x \in Blocks
    BY Pools
  <2>2. CASE x = n
    BY <2>2, <1>l
  <2>3. CASE x # n /\ h[x].kind = "free"
    <3>1. h[x].next = NULL
      BY <2>3 DEF Chained, Covered
    <3>2. x # last
      BY <2>3, <1>4
    <3> QED BY <2>1, <2>3, <3>1, <3>2, <1>l
  <2>4. CASE x # n /\ h[x].kind # "free"
    <3>1. PICK a \in Heads : \E i \in 1..Len(C[a]) : x = C[a][i]
      BY <2>4 DEF Chained, Covered
    <3>2. PICK i \in 1..Len(C[a]) : x = C[a][i]
      BY <3>1
    <3>3. g[x].kind # "free"
      BY <2>1, <2>4, <1>l
    <3>4. CASE a # b
      BY <3>2, <3>3, <3>4, <1>2
    <3>5. CASE a = b
      <4> DEFINE k == IF i < p THEN i ELSE i - 1
      <4>1. i # p
        BY <3>2, <3>5, <2>4, <1>n
      <4>2. k \in 1..Len(D[b]) /\ D[b][k] = c[i]
        BY <3>5, <4>1, <1>1, <1>3
      <4> QED BY <3>2, <3>3, <3>5, <4>2
    <3> QED BY <3>4, <3>5
  <2> QED BY <2>2, <2>3, <2>4
<1> QED BY <1>2, <1>6, <1>7, <1>8, <1>9, <1>10 DEF Chained, Linked, D

\* The blocks of the chains that start from the heads B, with the heads.
Whole(C, B) == B \cup {x \in Cells : \E b \in B : \E i \in 1..Len(C[b]) : x = C[b][i]}

\* They are freed.
Emptied(C, B) == [a \in Heads |-> IF a \in B THEN <<>> ELSE C[a]]

LEMMA ChainsOut ==
  ASSUME NEW h, NEW g, NEW C, Chained(h, C), NEW B \in SUBSET Heads,
         \A x \in Blocks \ Whole(C, B) :
           /\ g[x].kind = h[x].kind /\ g[x].next = h[x].next
           /\ x \in ListBlocks => g[x].data = h[x].data,
         \A x \in Whole(C, B) : g[x].kind = "free" /\ g[x].next = NULL
  PROVE  Chained(g, Emptied(C, B))
<1> DEFINE D == Emptied(C, B)
           X == Whole(C, B)
<1>0. <<>> \in Seq(Cells) /\ Len(<<>>) = 0
  OBVIOUS
<1>1. C \in Chains /\ D \in Chains
  BY <1>0 DEF Emptied, Chained, Chains
<1>2. \A a \in Heads : D[a] = IF a \in B THEN <<>> ELSE C[a]
  BY DEF Emptied
<1>3. ASSUME NEW a \in Heads, a \notin B
      PROVE  a \in Blocks \ X /\ \A i \in 1..Len(C[a]) : C[a][i] \in Blocks \ X
  <2>1. a \notin X /\ a \in Blocks
    BY <1>3, Pools DEF Whole
  <2>2. \A i \in 1..Len(C[a]) : C[a][i] \in Blocks /\ C[a][i] \notin Heads
    BY ChainTypes
  <2>3. ASSUME NEW i \in 1..Len(C[a]), C[a][i] \in X PROVE FALSE
    <3>1. PICK b \in B : \E j \in 1..Len(C[b]) : C[a][i] = C[b][j]
      BY <2>2, <2>3 DEF Whole
    <3> QED BY <3>1, <1>3 DEF Chained, Disjoint
  <2> QED BY <2>1, <2>2, <2>3
<1>4. B \subseteq X /\ X \subseteq Blocks
  BY Pools DEF Whole
<1> HIDE DEF D, X
<1>5. ASSUME NEW a \in Heads
      PROVE  g[a].next = Nth(D[a], 1)
  <2>1. CASE a \in B
    BY <2>1, <1>2, <1>4, <1>0 DEF X, Nth
  <2>2. CASE a \notin B
    BY <2>2, <1>2, <1>3 DEF X, Chained, Linked
  <2> QED BY <2>1, <2>2
<1>6. ASSUME NEW a \in Heads, NEW i \in 1..Len(D[a])
      PROVE  /\ D[a][i] \in Pool(a) /\ g[D[a][i]].kind # "free"
             /\ g[D[a][i]].next = Nth(D[a], i + 1)
  <2>1. a \notin B /\ D[a] = C[a]
    BY <1>0, <1>2
  <2>2. C[a][i] \in Blocks \ X
    BY <2>1, <1>3
  <2> QED BY <2>1, <2>2 DEF X, Chained, Linked
<1>7. Sized(g, D)
  <2>1. ASSUME NEW a \in Heads
        PROVE  /\ g[a].kind = "free" => D[a] = <<>>
               /\ a \in ListBlocks /\ g[a].kind = "list" => g[a].data = Len(D[a])
    <3>1. CASE a \in B
      BY <3>1, <1>2, <1>4 DEF X
    <3>2. CASE a \notin B
      BY <3>2, <1>2, <1>3 DEF X, Chained, Sized
    <3> QED BY <3>1, <3>2
  <2> QED BY <2>1 DEF Sized, Heads
<1>8. Disjoint(D)
  <2> SUFFICES ASSUME NEW a \in Heads, NEW d \in Heads, NEW i \in 1..Len(D[a]),
                      NEW j \in 1..Len(D[d]), D[a][i] = D[d][j]
               PROVE  a = d /\ i = j
    BY DEF Disjoint
  <2>1. D[a] = C[a] /\ D[d] = C[d]
    BY <1>0, <1>2
  <2> QED BY <2>1 DEF Chained, Disjoint
<1>9. Covered(g, D)
  <2> SUFFICES ASSUME NEW x \in Cells
               PROVE  IF g[x].kind = "free" THEN g[x].next = NULL
                      ELSE \E a \in Heads : \E i \in 1..Len(D[a]) : x = D[a][i]
    BY DEF Covered
  <2>1. x \in Blocks
    BY Pools
  <2>2. CASE x \in X
    BY <2>2 DEF X
  <2>3. CASE x \notin X
    <3>1. g[x].kind = h[x].kind /\ g[x].next = h[x].next
      BY <2>1, <2>3 DEF X
    <3>2. CASE h[x].kind = "free"
      BY <3>1, <3>2 DEF Chained, Covered
    <3>3. CASE h[x].kind # "free"
      <4>1. PICK a \in Heads : \E i \in 1..Len(C[a]) : x = C[a][i]
        BY <3>3 DEF Chained, Covered
      <4>2. a \notin B
        BY <4>1, <2>3 DEF X, Whole
      <4> QED BY <3>1, <3>3, <4>1, <4>2, <1>2
    <3> QED BY <3>2, <3>3
  <2> QED BY <2>2, <2>3
<1> QED BY <1>1, <1>5, <1>6, <1>7, <1>8, <1>9 DEF Chained, Linked, D

-----------------------------------------------------------------------------
(* What the heap is after an assignment                                    *)

LEMMA BlockIs ==
  ASSUME NEW k \in Kinds, NEW d \in Data, NEW v \in Pointers, NEW p \in Pointers
  PROVE  /\ Block(k, d, v, p) \in Fields
         /\ Block(k, d, v, p).kind = k /\ Block(k, d, v, p).data = d
         /\ Block(k, d, v, p).value = v /\ Block(k, d, v, p).next = p
BY DEF Block, Fields

LEMMA FreedIs ==
  /\ Freed \in Fields
  /\ Freed.kind = "free" /\ Freed.value = NULL /\ Freed.next = NULL
<1>1. "free" \in Kinds /\ NULL \in Data /\ NULL \in Pointers
  BY DEF Kinds, Data, Pointers
<1> QED BY <1>1, BlockIs DEF Freed

LEMMA HeapFields ==
  ASSUME NEW h \in Heap, NEW x \in Blocks
  PROVE  /\ h[x] \in Fields
         /\ h[x].kind \in Kinds /\ h[x].data \in Data
         /\ h[x].value \in Pointers /\ h[x].next \in Pointers
BY DEF Heap, Fields

LEMMA Put ==
  ASSUME NEW h \in Heap, NEW b \in Blocks, NEW r \in Fields
  PROVE  /\ [h EXCEPT ![b] = r] \in Heap
         /\ \A x \in Blocks : [h EXCEPT ![b] = r][x] = IF x = b THEN r ELSE h[x]
BY DEF Heap

LEMMA PutNext ==
  ASSUME NEW h \in Heap, NEW b \in Blocks, NEW p \in Pointers
  PROVE  /\ [h EXCEPT ![b].next = p] \in Heap
         /\ \A x \in Blocks :
              LET r == [h EXCEPT ![b].next = p][x] IN
                /\ x # b => r = h[x]
                /\ r.next = IF x = b THEN p ELSE h[x].next
                /\ r.kind = h[x].kind /\ r.data = h[x].data /\ r.value = h[x].value
<1> DEFINE r == [h[b] EXCEPT !.next = p]
<1>1. h[b] \in Fields
  BY HeapFields
<1>2. /\ r \in Fields /\ r.next = p
      /\ r.kind = h[b].kind /\ r.data = h[b].data /\ r.value = h[b].value
  BY <1>1 DEF Fields
<1>3. [h EXCEPT ![b].next = p] = [h EXCEPT ![b] = r]
  OBVIOUS
<1> HIDE DEF r
<1> QED BY <1>2, <1>3, Put

LEMMA PutValue ==
  ASSUME NEW h \in Heap, NEW b \in Blocks, NEW p \in Pointers
  PROVE  /\ [h EXCEPT ![b].value = p] \in Heap
         /\ \A x \in Blocks :
              LET r == [h EXCEPT ![b].value = p][x] IN
                /\ x # b => r = h[x]
                /\ r.value = IF x = b THEN p ELSE h[x].value
                /\ r.kind = h[x].kind /\ r.data = h[x].data /\ r.next = h[x].next
<1> DEFINE r == [h[b] EXCEPT !.value = p]
<1>1. h[b] \in Fields
  BY HeapFields
<1>2. /\ r \in Fields /\ r.value = p
      /\ r.kind = h[b].kind /\ r.data = h[b].data /\ r.next = h[b].next
  BY <1>1 DEF Fields
<1>3. [h EXCEPT ![b].value = p] = [h EXCEPT ![b] = r]
  OBVIOUS
<1> HIDE DEF r
<1> QED BY <1>2, <1>3, Put

LEMMA PutData ==
  ASSUME NEW h \in Heap, NEW b \in Blocks, NEW d \in Data
  PROVE  /\ [h EXCEPT ![b].data = d] \in Heap
         /\ \A x \in Blocks :
              LET r == [h EXCEPT ![b].data = d][x] IN
                /\ x # b => r = h[x]
                /\ r.kind = h[x].kind /\ r.value = h[x].value /\ r.next = h[x].next
<1> DEFINE r == [h[b] EXCEPT !.data = d]
<1>1. h[b] \in Fields
  BY HeapFields
<1>2. /\ r \in Fields /\ r.data = d
      /\ r.kind = h[b].kind /\ r.value = h[b].value /\ r.next = h[b].next
  BY <1>1 DEF Fields
<1>3. [h EXCEPT ![b].data = d] = [h EXCEPT ![b] = r]
  OBVIOUS
<1> HIDE DEF r
<1> QED BY <1>2, <1>3, Put

LEMMA FreeIs ==
  ASSUME NEW h \in Heap, NEW S
  PROVE  /\ free(h, S) \in Heap
         /\ \A x \in Blocks : free(h, S)[x] = IF x \in S THEN Freed ELSE h[x]
BY FreedIs DEF free, Heap

\* malloc finds a free block where there is one.
LEMMA MallocIs ==
  ASSUME NEW h, NEW pool, Unused(h, pool) # {}
  PROVE  malloc(h, pool) \in pool /\ h[malloc(h, pool)].kind = "free"
<1>1. \E b \in pool : h[b].kind = "free"
  BY DEF Unused
<1> QED BY <1>1 DEF malloc

-----------------------------------------------------------------------------
(* The operations on lists                                                 *)

\* The lists there are, and what is in them.
InUse(h)      == {l \in ListBlocks : h[l].kind = "list"}
Text(h, C, l) == [i \in 1..Len(C[l]) |-> h[C[l][i]].data]

\* An operation on lists leaves the table alone.
Elsewhere(h, C, g, D) ==
  /\ \A b \in EntryBlocks \cup Bins : g[b] = h[b]
  /\ \A b \in Bins : D[b] = C[b]

LEMMA KeyedSame ==
  ASSUME NEW h, NEW C, NEW g, NEW D, Chained(h, C), Keyed(h, C), Elsewhere(h, C, g, D)
  PROVE  Keyed(g, D)
<1>1. ASSUME NEW b \in Bins, NEW i \in 1..Len(C[b])
      PROVE  g[C[b][i]].data = h[C[b][i]].data
  <2>1. C[b][i] \in EntryBlocks
    BY DEF Chained, Linked, Pool, Heads
  <2> QED BY <2>1 DEF Elsewhere
<1>2. \A b \in Bins : D[b] = C[b]
  BY DEF Elsewhere
<1> QED BY <1>1, <1>2 DEF Keyed

LEMMA TextIs ==
  ASSUME NEW h, NEW C, Shape(h, C), NEW l \in ListBlocks
  PROVE  /\ Text(h, C, l) \in Seq(Texts) /\ Len(Text(h, C, l)) = Len(C[l])
         /\ \A i \in 1..Len(C[l]) : Text(h, C, l)[i] = h[C[l][i]].data
         /\ l \in InUse(h) => h[l].data = Len(Text(h, C, l))
         /\ \A i \in 1..Len(C[l]) : C[l][i] \in NodeBlocks /\ h[C[l][i]].kind = "node"
<1>1. l \in Heads /\ l \notin Bins /\ Chained(h, C)
  BY Pools DEF Heads, Shape
<1>2. C[l] \in Seq(Cells) /\ Len(C[l]) \in Nat
  BY <1>1, ChainTypes
<1>3. \A i \in 1..Len(C[l]) : C[l][i] \in NodeBlocks /\ h[C[l][i]].kind # "free"
  BY <1>1 DEF Chained, Linked, Pool
<1>4. \A i \in 1..Len(C[l]) : h[C[l][i]].kind = "node" /\ h[C[l][i]].data \in Texts
  BY <1>3 DEF Shape, Typed
<1>5. Text(h, C, l) \in Seq(Texts)
  BY <1>2, <1>4, IsASeq DEF Text
<1>6. Len(Text(h, C, l)) = Len(C[l])
  BY <1>2 DEF Text
<1>7. l \in InUse(h) => h[l].data = Len(C[l])
  BY <1>1 DEF InUse, Chained, Sized
<1> QED BY <1>3, <1>4, <1>5, <1>6, <1>7 DEF Text

\* A list whose chain and nodes are the same has the same in it.
LEMMA TextSame ==
  ASSUME NEW h, NEW C, NEW g, NEW D, NEW l, D[l] = C[l],
         \A i \in 1..Len(C[l]) : g[C[l][i]].data = h[C[l][i]].data
  PROVE  Text(g, D, l) = Text(h, C, l)
BY DEF Text

LEMMA CreateStep ==
  ASSUME NEW h, NEW C, Shape(h, C), Unused(h, ListBlocks) # {}
  PROVE  LET n == malloc(h, ListBlocks)
             g == ll_create(h)
         IN /\ n \in ListBlocks \ InUse(h)
            /\ Shape(g, C) /\ Elsewhere(h, C, g, C)
            /\ InUse(g) = InUse(h) \cup {n}
            /\ \A b \in NodeBlocks : g[b] = h[b]
            /\ \A l \in ListBlocks : Text(g, C, l) = Text(h, C, l)
            /\ Text(g, C, n) = <<>>
<1> DEFINE n == malloc(h, ListBlocks)
           g == ll_create(h)
           r == Block("list", 0, NULL, NULL)
<1>1. h \in Heap /\ Typed(h) /\ Chained(h, C) /\ Keyed(h, C)
  BY DEF Shape, Typed
<1>2. n \in ListBlocks /\ h[n].kind = "free" /\ n \in Heads /\ n \in Blocks
  BY MallocIs, Pools DEF Heads
<1>3. /\ r \in Fields
      /\ r.kind = "list" /\ r.data = 0 /\ r.value = NULL /\ r.next = NULL
  <2>1. "list" \in Kinds /\ 0 \in Data /\ NULL \in Pointers
    BY DEF Kinds, Data, Pointers
  <2> QED BY <2>1, BlockIs
<1> HIDE DEF r
<1>4. g \in Heap /\ \A x \in Blocks : g[x] = IF x = n THEN r ELSE h[x]
  BY <1>1, <1>2, <1>3, Put DEF ll_create, r
<1>5. C[n] = <<>> /\ h[n].next = NULL
  <2>1. C[n] = <<>>
    BY <1>1, <1>2 DEF Chained, Sized
  <2>2. h[n].next = Nth(C[n], 1)
    BY <1>1, <1>2 DEF Chained, Linked
  <2> QED BY <2>1, <2>2 DEF Nth
<1> HIDE DEF n, g
<1>6. \A x \in Blocks : x # n => g[x] = h[x]
  BY <1>4
<1>7. \A x \in Cells \cup Bins : x # n /\ g[x] = h[x] /\ x \in Blocks
  BY <1>2, <1>6, Pools DEF Heads
<1>8. Typed(g)
  <2>1. \A l \in ListBlocks :
          /\ g[l].kind \in {"free", "list"} /\ g[l].value = NULL
          /\ g[l].kind = "list" => g[l].data \in Nat
    BY <1>1, <1>3, <1>4, Pools DEF Typed, Heads
  <2> QED BY <1>1, <1>4, <1>7, <2>1 DEF Typed, Cells
<1>9. Chained(g, C)
  <2>1. \A b \in Heads : g[b].next = Nth(C[b], 1)
    <3>1. \A b \in Heads : g[b].next = h[b].next
      BY <1>3, <1>4, <1>5, Pools
    <3> QED BY <3>1, <1>1 DEF Chained, Linked
  <2>2. \A b \in Heads : \A i \in 1..Len(C[b]) : g[C[b][i]] = h[C[b][i]]
    BY <1>1, <1>7, ChainTypes
  <2>3. Linked(g, C)
    BY <1>1, <2>1, <2>2 DEF Chained, Linked
  <2>4. Sized(g, C)
    <3>1. Len(C[n]) = 0 /\ g[n].data = 0 /\ g[n].kind = "list"
      BY <1>2, <1>3, <1>4, <1>5
    <3>2. \A a \in Heads : a # n => g[a] = h[a]
      BY <1>6, Pools
    <3>3. Sized(h, C)
      BY <1>1 DEF Chained
    <3> QED BY <3>1, <3>2, <3>3, <1>5 DEF Sized, Heads
  <2>5. Covered(g, C)
    BY <1>1, <1>7 DEF Chained, Covered
  <2> QED BY <1>1, <2>3, <2>4, <2>5 DEF Chained
<1>10. Elsewhere(h, C, g, C)
  BY <1>7 DEF Elsewhere, Cells
<1>11. InUse(g) = InUse(h) \cup {n}
  BY <1>2, <1>3, <1>4, Pools DEF InUse, Heads
<1>12. ASSUME NEW l \in ListBlocks PROVE Text(g, C, l) = Text(h, C, l)
  <2>1. \A i \in 1..Len(C[l]) : g[C[l][i]] = h[C[l][i]]
    BY <1>1, <1>7, ChainTypes DEF Heads
  <2> QED BY <2>1, TextSame
<1>13. Text(g, C, n) = <<>>
  <2>1. Len(<<>>) = 0
    OBVIOUS
  <2> QED BY <1>5, <2>1 DEF Text
<1>14. n \in ListBlocks \ InUse(h)
  BY <1>2 DEF InUse
<1>15. Keyed(g, C)
  BY <1>1, <1>10, KeyedSame
<1>16. \A b \in NodeBlocks : g[b] = h[b]
  BY <1>7 DEF Cells
<1> QED BY <1>8, <1>9, <1>10, <1>11, <1>12, <1>13, <1>14, <1>15, <1>16 DEF Shape, n, g

LEMMA PrependStep ==
  ASSUME NEW h, NEW C, Shape(h, C), NEW ll \in InUse(h), NEW t \in Texts,
         Unused(h, NodeBlocks) # {}
  PROVE  LET n == malloc(h, NodeBlocks)
             g == ll_prepend(h, ll, t)
             D == [C EXCEPT ![ll] = InsertAt(C[ll], 1, n)]
         IN /\ n \in Unused(h, NodeBlocks)
            /\ Shape(g, D) /\ Elsewhere(h, C, g, D)
            /\ InUse(g) = InUse(h)
            /\ Unused(g, NodeBlocks) = Unused(h, NodeBlocks) \ {n}
            /\ \A l \in ListBlocks :
                 Text(g, D, l) = IF l = ll THEN Cons(t, Text(h, C, ll)) ELSE Text(h, C, l)
<1> DEFINE n == malloc(h, NodeBlocks)
           g == ll_prepend(h, ll, t)
           c == C[ll]
           D == [C EXCEPT ![ll] = InsertAt(c, 1, n)]
           r == Block("node", t, NULL, h[ll].next)
           h1 == [h EXCEPT ![n] = r]
           h2 == [h1 EXCEPT ![ll].next = n]
<1>1. h \in Heap /\ Typed(h) /\ Chained(h, C) /\ Keyed(h, C)
  BY DEF Shape, Typed
<1>2. /\ n \in NodeBlocks /\ h[n].kind = "free" /\ n \in Cells /\ n \in Blocks /\ n \notin Heads
      /\ n \in Pointers /\ n \notin EntryBlocks
  BY MallocIs, Pools DEF Cells, Pointers
<1>3. /\ ll \in ListBlocks /\ ll \in Heads /\ ll \in Blocks /\ h[ll].kind = "list" /\ ll \notin Bins
      /\ ll # n /\ ll \notin EntryBlocks
  BY <1>2, Pools DEF InUse, Heads, Cells
<1>4. /\ r \in Fields
      /\ r.kind = "node" /\ r.data = t /\ r.value = NULL /\ r.next = h[ll].next
  <2>1. "node" \in Kinds /\ t \in Data /\ NULL \in Pointers /\ h[ll].next \in Pointers
    BY <1>1, <1>3, HeapFields DEF Kinds, Data, Pointers
  <2> QED BY <2>1, BlockIs
<1> HIDE DEF r
<1>5. h1 \in Heap /\ \A x \in Blocks : h1[x] = IF x = n THEN r ELSE h[x]
  BY <1>1, <1>2, <1>4, Put
<1> HIDE DEF h1
<1>6. /\ h2 \in Heap
      /\ \A x \in Blocks :
           /\ x # ll => h2[x] = h1[x]
           /\ h2[x].next = IF x = ll THEN n ELSE h1[x].next
           /\ h2[x].kind = h1[x].kind /\ h2[x].data = h1[x].data /\ h2[x].value = h1[x].value
  BY <1>2, <1>3, <1>5, PutNext
<1>7. h[ll].data \in Nat /\ h[ll].data + 1 \in Data /\ h[ll].data + 1 \in Nat /\ h[ll].data = Len(c)
  BY <1>1, <1>3 DEF Typed, Data, Chained, Sized
<1>8. g = [h2 EXCEPT ![ll].data = h[ll].data + 1]
  <2>1. h2[ll].data = h[ll].data
    BY <1>3, <1>5, <1>6
  <2>2. g = [h2 EXCEPT ![ll].data = @ + 1]
    BY DEF ll_prepend, lln_create, h1, r
  <2> HIDE DEF h2, g
  <2> QED BY <2>1, <2>2
<1> HIDE DEF h2
<1>9. /\ g \in Heap /\ g[ll].data = h[ll].data + 1
      /\ \A x \in Blocks :
           /\ x # ll => g[x] = h2[x]
           /\ g[x].kind = h2[x].kind /\ g[x].value = h2[x].value /\ g[x].next = h2[x].next
  <2> DEFINE d == h[ll].data + 1
  <2>1. h2 \in Heap /\ ll \in Blocks /\ d \in Data /\ g = [h2 EXCEPT ![ll].data = d]
    BY <1>3, <1>6, <1>7, <1>8
  <2> HIDE DEF g, d
  <2> DEFINE k == [h2 EXCEPT ![ll].data = d]
  <2>2. /\ k \in Heap /\ k[ll].data = d
        /\ \A x \in Blocks :
             /\ x # ll => k[x] = h2[x]
             /\ k[x].kind = h2[x].kind /\ k[x].value = h2[x].value /\ k[x].next = h2[x].next
    <3>0. h2 \in Heap /\ ll \in Blocks /\ d \in Data
      BY <2>1
    <3>1. k \in Heap
      BY ONLY <3>0, PutData
    <3>2. k[ll].data = d
      BY <3>0 DEF Heap, Fields
    <3>3. \A x \in Blocks : x # ll => k[x] = h2[x]
      BY ONLY <3>0, PutData
    <3>4. \A x \in Blocks : k[x].kind = h2[x].kind /\ k[x].value = h2[x].value /\ k[x].next = h2[x].next
      BY ONLY <3>0, PutData
    <3> QED BY <3>1, <3>2, <3>3, <3>4
  <2>3. g = k
    BY <2>1
  <2> HIDE DEF k
  <2> QED BY <2>2, <2>3 DEF d
<1> HIDE DEF n, g
<1>10. /\ \A x \in Blocks \ {n, ll} : g[x] = h[x]
       /\ g[n] = r
       /\ g[ll].kind = "list" /\ g[ll].value = h[ll].value /\ g[ll].next = n
       /\ g[ll].data = h[ll].data + 1
  BY <1>2, <1>3, <1>5, <1>6, <1>9
<1>11. g[ll].value = NULL
  BY <1>1, <1>3, <1>10 DEF Typed
<1>12. Typed(g)
  <2>1. \A l \in ListBlocks :
          /\ g[l].kind \in {"free", "list"} /\ g[l].value = NULL
          /\ g[l].kind = "list" => g[l].data \in Nat
    <3>1. ASSUME NEW l \in ListBlocks PROVE l = ll \/ g[l] = h[l]
      BY <1>2, <1>10, Pools DEF Heads
    <3> QED BY <3>1, <1>1, <1>7, <1>10, <1>11 DEF Typed
  <2>2. \A b \in NodeBlocks :
          /\ g[b].kind \in {"free", "node"} /\ g[b].value = NULL
          /\ g[b].kind = "node" => g[b].data \in Texts
    <3>1. ASSUME NEW b \in NodeBlocks PROVE b = n \/ g[b] = h[b]
      BY <1>3, <1>10, Pools DEF Cells
    <3> QED BY <3>1, <1>1, <1>4, <1>10 DEF Typed
  <2>3. \A b \in EntryBlocks \cup Bins : g[b] = h[b]
    BY <1>2, <1>3, <1>10, Pools DEF Heads, Cells
  <2> QED BY <1>1, <1>9, <2>1, <2>2, <2>3 DEF Typed
<1>13. Chained(g, D)
  <2>1. CellBefore(C, ll, 1) = ll
    BY DEF CellBefore
  <2>2. \A l \in ListBlocks : l \in Blocks /\ l # n
    BY <1>2, Pools DEF Heads
  <2>3. LinkedIn(h, g, C, ll, 1, n)
    BY <1>2, <1>3, <1>4, <1>10, <2>1, <2>2 DEF LinkedIn
  <2>4. n \in Pool(ll) /\ 1 \in 1..(Len(C[ll]) + 1)
    BY <1>1, <1>2, <1>3, <1>7, ChainTypes DEF Pool
  <2> QED BY <1>1, <1>2, <1>3, <2>3, <2>4, CellIn
<1>14. \A b \in Heads : b # ll => D[b] = C[b]
  BY <1>1 DEF Chained, Chains
<1>15. Elsewhere(h, C, g, D)
  <2>1. \A b \in EntryBlocks \cup Bins : g[b] = h[b]
    BY <1>2, <1>3, <1>10, Pools DEF Heads, Cells
  <2> HIDE DEF D
  <2> QED BY <1>3, <1>14, <2>1 DEF Elsewhere, Heads
<1>16. Keyed(g, D)
  BY <1>1, <1>15, KeyedSame
<1>17. InUse(g) = InUse(h)
  BY <1>2, <1>3, <1>10, Pools DEF InUse, Heads
<1>18. Unused(g, NodeBlocks) = Unused(h, NodeBlocks) \ {n} /\ n \in Unused(h, NodeBlocks)
  <2>1. \A b \in NodeBlocks : b = n \/ g[b] = h[b]
    BY <1>3, <1>10, Pools DEF Cells
  <2> QED BY <1>2, <1>4, <1>10, <2>1 DEF Unused
<1>19. ASSUME NEW l \in ListBlocks, l # ll
       PROVE  Text(g, D, l) = Text(h, C, l)
  <2>1. D[l] = C[l]
    BY <1>14, <1>19 DEF Heads
  <2>2. \A i \in 1..Len(C[l]) : C[l][i] \in Blocks /\ C[l][i] # ll /\ h[C[l][i]].kind # "free"
    BY <1>1, <1>3, ChainTypes DEF Chained, Linked, Heads
  <2>3. \A i \in 1..Len(C[l]) : g[C[l][i]] = h[C[l][i]]
    BY <1>2, <1>10, <2>2
  <2> HIDE DEF D
  <2> QED BY <2>1, <2>3, TextSame
<1>20. Text(g, D, ll) = Cons(t, Text(h, C, ll))
  <2> DEFINE s == Text(h, C, ll)
             w == Text(g, D, ll)
  <2>1. /\ c \in Seq(Cells) /\ Len(c) \in Nat
        /\ \A i \in 1..Len(c) : c[i] \in Blocks /\ c[i] # ll /\ c[i] # n
    BY <1>1, <1>2, <1>3, ChainTypes DEF Chained, Linked
  <2>2. /\ Len(D[ll]) = Len(c) + 1
        /\ \A i \in 1..(Len(c) + 1) : D[ll][i] = IF i = 1 THEN n ELSE c[i - 1]
    <3>1. D[ll] = InsertAt(c, 1, n)
      BY <1>1, <1>3 DEF Chained, Chains
    <3>2. c \in Seq(Cells) /\ n \in Cells /\ 1 \in 1..(Len(c) + 1)
      BY <1>2, <2>1
    <3>3. /\ Len(InsertAt(c, 1, n)) = Len(c) + 1
          /\ \A i \in 1..(Len(c) + 1) :
               InsertAt(c, 1, n)[i] = IF i < 1 THEN c[i] ELSE IF i = 1 THEN n ELSE c[i - 1]
      <4> HIDE DEF c, D
      <4> QED BY ONLY <3>2, InsertAtIs
    <3> HIDE DEF D
    <3> QED BY <2>1, <3>1, <3>3
  <2> HIDE DEF D
  <2>3. /\ s \in Seq(Texts) /\ Len(s) = Len(c)
        /\ \A i \in 1..Len(c) : s[i] = h[c[i]].data
    BY <1>3, TextIs
  <2>4. w \in Seq(Texts) /\ Len(w) = Len(c) + 1 /\ \A i \in 1..(Len(c) + 1) : w[i] = g[D[ll][i]].data
    <3>1. Shape(g, D)
      BY <1>12, <1>13, <1>16 DEF Shape
    <3> QED BY <1>3, <2>2, <3>1, TextIs
  <2> HIDE DEF s, w
  <2>5. <<t>> \in Seq(Texts) /\ Len(<<t>>) = 1 /\ <<t>>[1] = t
    OBVIOUS
  <2>6. /\ <<t>> \o s \in Seq(Texts) /\ Len(<<t>> \o s) = 1 + Len(s)
        /\ \A i \in 1..(1 + Len(s)) : (<<t>> \o s)[i] = IF i <= 1 THEN <<t>>[i] ELSE s[i - 1]
    BY <2>3, <2>5, ConcatProperties
  <2>7. ASSUME NEW i \in 1..Len(w) PROVE w[i] = (<<t>> \o s)[i]
    <3>1. i \in 1..(Len(c) + 1) /\ i \in 1..(1 + Len(s))
      BY <2>1, <2>3, <2>4
    <3>2. CASE i = 1
      <4>1. w[i] = t
        BY <1>4, <1>10, <2>2, <2>4, <3>1, <3>2
      <4> QED BY <2>5, <2>6, <3>1, <3>2, <4>1
    <3>3. CASE i # 1
      <4>1. i - 1 \in 1..Len(c) /\ ~(i <= 1)
        BY <2>1, <3>1, <3>3
      <4>2. w[i] = g[c[i - 1]].data
        BY <2>2, <2>4, <3>1, <3>3
      <4>3. g[c[i - 1]] = h[c[i - 1]]
        BY <1>10, <2>1, <4>1
      <4>4. (<<t>> \o s)[i] = s[i - 1]
        BY <2>6, <3>1, <4>1
      <4> QED BY <2>3, <4>1, <4>2, <4>3, <4>4
    <3> QED BY <3>2, <3>3
  <2>8. Len(w) = Len(<<t>> \o s)
    BY <2>1, <2>3, <2>4, <2>6
  <2>9. w = <<t>> \o s
    BY <2>4, <2>6, <2>7, <2>8, SeqEqual
  <2> QED BY <2>9 DEF Cons, w, s
<1>21. \A l \in ListBlocks :
         Text(g, D, l) = IF l = ll THEN Cons(t, Text(h, C, ll)) ELSE Text(h, C, l)
  BY <1>19, <1>20
<1> HIDE DEF D
<1> QED BY <1>12, <1>13, <1>15, <1>16, <1>17, <1>18, <1>21 DEF Shape, D, n, g

\* The path from a head along its chain, as the walks of the code take it.
LEMMA PathIs ==
  ASSUME NEW h, NEW C, Typed(h), Chained(h, C), NEW b \in Heads
  PROVE  LET c == <<b>> \o Chain(h, b)
         IN /\ Len(c) = Len(C[b]) + 1 /\ DOMAIN c = 1..(Len(C[b]) + 1)
            /\ \A i \in 1..Len(C[b]) : c[i + 1] = C[b][i]
            /\ \A i \in 1..(Len(C[b]) + 1) : c[i] = CellBefore(C, b, i)
<1> DEFINE c == <<b>> \o C[b]
<1>1. Chain(h, b) = C[b]
  BY ChainIs
<1>2. C[b] \in Seq(Cells) /\ Len(C[b]) \in Nat
  BY ChainTypes
<1>3. C[b] \in Seq(Blocks) /\ <<b>> \in Seq(Blocks) /\ Len(<<b>>) = 1 /\ <<b>>[1] = b
  <2>1. Cells \subseteq Blocks /\ b \in Blocks
    BY Pools
  <2>2. C[b] \in Seq(Blocks)
    BY <1>2, <2>1, SeqMonotonic
  <2> QED BY <2>1, <2>2
<1>4. /\ c \in Seq(Blocks) /\ Len(c) = 1 + Len(C[b])
      /\ \A i \in 1..(1 + Len(C[b])) : c[i] = IF i <= 1 THEN <<b>>[i] ELSE C[b][i - 1]
  BY <1>3, ConcatProperties
<1>5. DOMAIN c = 1..Len(c)
  BY <1>4, LenProperties
<1> HIDE DEF c
<1>6. \A i \in 1..Len(C[b]) : c[i + 1] = C[b][i]
  BY <1>2, <1>4
<1>7. \A i \in 1..(Len(C[b]) + 1) : c[i] = CellBefore(C, b, i)
  BY <1>2, <1>3, <1>4 DEF CellBefore
<1>8. Len(c) = Len(C[b]) + 1
  BY <1>2, <1>4
<1> QED BY <1>1, <1>5, <1>6, <1>7, <1>8 DEF c

LEMMA CutStep ==
  ASSUME NEW h, NEW C, Shape(h, C), NEW ll \in InUse(h), NEW p \in 1..Len(C[ll])
  PROVE  LET g == Cut(h, ll, p)
             D == [C EXCEPT ![ll] = RemoveAt(C[ll], p)]
         IN /\ Shape(g, D) /\ Elsewhere(h, C, g, D)
            /\ InUse(g) = InUse(h)
            /\ \A l \in ListBlocks :
                 Text(g, D, l) = IF l = ll THEN RemoveAt(Text(h, C, ll), p) ELSE Text(h, C, l)
<1> DEFINE g == Cut(h, ll, p)
           c == C[ll]
           n == C[ll][p]
           last == CellBefore(C, ll, p)
           D == [C EXCEPT ![ll] = RemoveAt(c, p)]
           h1 == [h EXCEPT ![last].next = h[n].next]
           d == h[ll].data - 1
           h2 == [h1 EXCEPT ![ll].data = d]
<1>1. h \in Heap /\ Typed(h) /\ Chained(h, C) /\ Keyed(h, C)
  BY DEF Shape, Typed
<1>2. /\ ll \in ListBlocks /\ ll \in Heads /\ ll \in Blocks /\ h[ll].kind = "list" /\ ll \notin Bins
      /\ ll \notin EntryBlocks
  BY Pools DEF InUse, Heads, Cells
<1>c. c \in Seq(Cells) /\ Len(c) \in Nat /\ p \in 1..(Len(c) + 1)
  BY <1>1, <1>2, ChainTypes
<1>3. n \in NodeBlocks /\ n \in Blocks /\ n \notin Heads /\ n \notin EntryBlocks /\ h[n].kind = "node"
  BY <1>1, <1>2, TextIs, Pools DEF Cells
<1>4. /\ last \in Blocks /\ last # n /\ h[last].kind # "free"
      /\ last \notin EntryBlocks /\ last \notin Bins
  <2>1. last \in Blocks /\ last # n /\ h[last].kind # "free"
    BY <1>1, <1>2, <1>c, LastIs
  <2>2. CASE p = 1
    BY <2>1, <2>2, <1>2 DEF CellBefore
  <2>3. CASE p # 1
    <3>1. p - 1 \in 1..Len(c) /\ last = C[ll][p - 1]
      BY <2>3, <1>c DEF CellBefore
    <3>2. last \in NodeBlocks
      BY <3>1, <1>2, TextIs
    <3> QED BY <2>1, <3>2, Pools DEF Cells, Heads
  <2> QED BY <2>2, <2>3
<1>5. /\ h1 \in Heap
      /\ \A x \in Blocks :
           /\ x # last => h1[x] = h[x]
           /\ h1[x].next = IF x = last THEN h[n].next ELSE h[x].next
           /\ h1[x].kind = h[x].kind /\ h1[x].data = h[x].data /\ h1[x].value = h[x].value
  <2>1. h[n].next \in Pointers
    BY <1>1, <1>3, HeapFields
  <2> HIDE DEF last, n
  <2> QED BY <1>1, <1>4, <2>1, PutNext
<1>6. d \in Data /\ d \in Nat /\ h[ll].data = Len(c) /\ h1[ll].data = h[ll].data
  <2>1. h[ll].data = Len(c)
    BY <1>1, <1>2 DEF Chained, Sized
  <2>2. d \in Nat
    BY <2>1, <1>c
  <2> QED BY <2>1, <2>2, <1>2, <1>5 DEF Data
<1>7. g = free(h2, {n})
  <2> DEFINE q == <<ll>> \o Chain(h, ll)
  <2>1. q[p] = last /\ q[p + 1] = n
    BY <1>1, <1>2, <1>c, PathIs
  <2>2. g = free([[h EXCEPT ![q[p]].next = h[q[p + 1]].next] EXCEPT ![ll].data = @ - 1], {q[p + 1]})
    BY DEF Cut
  <2> HIDE DEF q, g, n, last
  <2>3. g = free([h1 EXCEPT ![ll].data = @ - 1], {n})
    BY <2>1, <2>2
  <2> HIDE DEF h1
  <2>4. [h1 EXCEPT ![ll].data = @ - 1] = h2
    BY <1>6
  <2> QED BY <2>3, <2>4
<1> HIDE DEF h1, d, g, last, n
<1>8. /\ h2 \in Heap /\ h2[ll].data = d
      /\ \A x \in Blocks : x # ll => h2[x] = h1[x]
      /\ \A x \in Blocks : h2[x].kind = h1[x].kind /\ h2[x].value = h1[x].value /\ h2[x].next = h1[x].next
  <2>1. h1 \in Heap /\ ll \in Blocks /\ d \in Data
    BY <1>2, <1>5, <1>6
  <2>2. h2 \in Heap
    BY ONLY <2>1, PutData
  <2>3. h2[ll].data = d
    BY <2>1 DEF Heap, Fields
  <2>4. \A x \in Blocks : x # ll => h2[x] = h1[x]
    BY ONLY <2>1, PutData
  <2>5. \A x \in Blocks : h2[x].kind = h1[x].kind /\ h2[x].value = h1[x].value /\ h2[x].next = h1[x].next
    BY ONLY <2>1, PutData
  <2> QED BY <2>2, <2>3, <2>4, <2>5
<1> HIDE DEF h2
<1>9. g \in Heap /\ \A x \in Blocks : g[x] = IF x = n THEN Freed ELSE h2[x]
  BY <1>7, <1>8, FreeIs
<1>10. /\ \A x \in Blocks : x \notin {n, last, ll} => g[x] = h[x]
       /\ \A x \in Blocks : x # n => /\ g[x].kind = h[x].kind /\ g[x].value = h[x].value
                                     /\ x # ll => g[x].data = h[x].data
                                     /\ x # last => g[x].next = h[x].next
       /\ g[n].kind = "free" /\ g[n].next = NULL /\ g[n].value = NULL
       /\ g[last].next = h[n].next
       /\ g[ll].data = h[ll].data - 1
  <2>1. ll # n
    BY <1>2, <1>3
  <2>2. g[n] = Freed
    BY <1>3, <1>9
  <2>3. \A x \in Blocks : x # n => g[x] = h2[x]
    BY <1>9
  <2>4. \A x \in Blocks : x \notin {n, last, ll} => g[x] = h[x]
    BY <2>3, <1>5, <1>8
  <2>5. \A x \in Blocks : x # n => /\ g[x].kind = h[x].kind /\ g[x].value = h[x].value
                                   /\ x # ll => g[x].data = h[x].data
                                   /\ x # last => g[x].next = h[x].next
    BY <2>3, <1>5, <1>8
  <2>6. g[last].next = h[n].next
    BY <2>3, <1>4, <1>5, <1>8
  <2>7. g[ll].data = h[ll].data - 1
    BY <2>1, <2>3, <1>2, <1>8 DEF d
  <2> QED BY <2>2, <2>4, <2>5, <2>6, <2>7, FreedIs
<1>11. \A x \in EntryBlocks \cup Bins : g[x] = h[x]
  <2>1. ASSUME NEW x \in EntryBlocks \cup Bins
        PROVE  x \in Blocks /\ x \notin {n, last, ll}
    BY <1>2, <1>3, <1>4, Pools DEF Heads, Cells
  <2> QED BY <2>1, <1>10
<1>12. Typed(g)
  <2>1. \A l \in ListBlocks :
          /\ g[l].kind \in {"free", "list"} /\ g[l].value = NULL
          /\ g[l].kind = "list" => g[l].data \in Nat
    <3>1. ASSUME NEW l \in ListBlocks
          PROVE  l \in Blocks /\ l # n
      BY <1>3, Pools DEF Heads
    <3>2. h[ll].data - 1 \in Nat
      BY <1>6 DEF d
    <3> QED BY <3>1, <3>2, <1>1, <1>10 DEF Typed
  <2>2. \A b \in NodeBlocks :
          /\ g[b].kind \in {"free", "node"} /\ g[b].value = NULL
          /\ g[b].kind = "node" => g[b].data \in Texts
    <3>1. ASSUME NEW b \in NodeBlocks
          PROVE  b \in Blocks /\ b # ll
      BY <1>2, Pools DEF Cells
    <3> QED BY <3>1, <1>1, <1>10 DEF Typed
  <2> QED BY <1>1, <1>9, <1>11, <2>1, <2>2 DEF Typed
<1>13. Chained(g, D)
  <2>1. \A l \in ListBlocks : l \in Blocks /\ l # n
    BY <1>3, Pools DEF Heads
  <2>2. \A l \in ListBlocks : g[l].data = IF l = ll THEN h[l].data - 1 ELSE h[l].data
    BY <1>10, <2>1
  <2>3. CutOut(h, g, C, ll, p)
    BY <1>10, <2>2 DEF CutOut, n, last
  <2> QED BY <1>1, <1>2, <2>3, CellOut
<1>14. \A b \in Heads : b # ll => D[b] = C[b]
  BY <1>1 DEF Chained, Chains
<1>15. Elsewhere(h, C, g, D)
  <2> HIDE DEF D
  <2> QED BY <1>2, <1>11, <1>14 DEF Elsewhere, Heads
<1>16. Keyed(g, D)
  BY <1>1, <1>15, KeyedSame
<1>17. InUse(g) = InUse(h)
  BY <1>3, <1>10, Pools DEF InUse, Heads
<1>18. \A a \in Heads : \A i \in 1..Len(C[a]) :
         ~(a = ll /\ i = p) => g[C[a][i]].data = h[C[a][i]].data
  <2>1. \A a \in Heads : \A i \in 1..Len(C[a]) :
          C[a][i] \in Blocks /\ C[a][i] # ll /\ (C[a][i] = n => a = ll /\ i = p)
    BY <1>1, <1>2, ChainTypes DEF Chained, Disjoint, n
  <2> QED BY <2>1, <1>10
<1>19. ASSUME NEW l \in ListBlocks, l # ll
       PROVE  Text(g, D, l) = Text(h, C, l)
  <2>1. D[l] = C[l]
    BY <1>14, <1>19 DEF Heads
  <2> HIDE DEF D
  <2> QED BY <1>18, <1>19, <2>1, TextSame DEF Heads
<1>20. Text(g, D, ll) = RemoveAt(Text(h, C, ll), p)
  <2> DEFINE s == Text(h, C, ll)
             w == Text(g, D, ll)
  <2>2. /\ Len(D[ll]) = Len(c) - 1
        /\ \A i \in 1..(Len(c) - 1) : D[ll][i] = IF i < p THEN c[i] ELSE c[i + 1]
    <3>1. D[ll] = RemoveAt(c, p)
      BY <1>1, <1>2 DEF Chained, Chains
    <3>2. c \in Seq(Cells) /\ p \in 1..Len(c)
      BY <1>c
    <3>3. /\ Len(RemoveAt(c, p)) = Len(c) - 1
          /\ \A i \in 1..(Len(c) - 1) :
               RemoveAt(c, p)[i] = IF i < p THEN c[i] ELSE c[i + 1]
      <4> HIDE DEF c, D
      <4> QED BY ONLY <3>2, RemoveAtIs
    <3> HIDE DEF D
    <3> QED BY <3>1, <3>3
  <2> HIDE DEF D
  <2>3. /\ s \in Seq(Texts) /\ Len(s) = Len(c)
        /\ \A i \in 1..Len(c) : s[i] = h[c[i]].data
    BY <1>2, TextIs
  <2>4. w \in Seq(Texts) /\ Len(w) = Len(c) - 1 /\ \A i \in 1..(Len(c) - 1) : w[i] = g[D[ll][i]].data
    <3>1. Shape(g, D)
      BY <1>12, <1>13, <1>16 DEF Shape
    <3> QED BY <1>2, <2>2, <3>1, TextIs
  <2> HIDE DEF s, w
  <2>5. /\ RemoveAt(s, p) \in Seq(Texts) /\ Len(RemoveAt(s, p)) = Len(s) - 1
        /\ \A i \in 1..(Len(s) - 1) :
             RemoveAt(s, p)[i] = IF i < p THEN s[i] ELSE s[i + 1]
    <3>1. s \in Seq(Texts) /\ p \in 1..Len(s)
      BY <1>c, <2>3
    <3> QED BY ONLY <3>1, RemoveAtIs
  <2>6. ASSUME NEW i \in 1..Len(w) PROVE w[i] = RemoveAt(s, p)[i]
    <3>1. i \in 1..(Len(c) - 1) /\ i \in 1..(Len(s) - 1)
      BY <2>3, <2>4, <1>c
    <3>2. CASE i < p
      <4>1. i \in 1..Len(c) /\ i # p
        BY <3>1, <3>2, <1>c
      <4>2. w[i] = g[c[i]].data
        BY <2>2, <2>4, <3>1, <3>2
      <4>3. g[c[i]].data = h[c[i]].data
        BY <4>1, <1>2, <1>18
      <4> QED BY <2>3, <2>5, <3>1, <3>2, <4>1, <4>2, <4>3
    <3>3. CASE ~(i < p)
      <4>1. i + 1 \in 1..Len(c) /\ i + 1 # p
        BY <3>1, <3>3, <1>c
      <4>2. w[i] = g[c[i + 1]].data
        BY <2>2, <2>4, <3>1, <3>3
      <4>3. g[c[i + 1]].data = h[c[i + 1]].data
        BY <4>1, <1>2, <1>18
      <4>4. s[i + 1] = h[c[i + 1]].data
        BY <4>1, <2>3
      <4>5. RemoveAt(s, p)[i] = s[i + 1]
        BY <2>5, <3>1, <3>3
      <4> QED BY <4>2, <4>3, <4>4, <4>5
    <3> QED BY <3>2, <3>3
  <2>7. Len(w) = Len(RemoveAt(s, p))
    BY <2>3, <2>4, <2>5
  <2>8. w = RemoveAt(s, p)
    BY <2>4, <2>5, <2>6, <2>7, SeqEqual
  <2> QED BY <2>8 DEF w, s
<1>21. \A l \in ListBlocks :
         Text(g, D, l) = IF l = ll THEN RemoveAt(Text(h, C, ll), p) ELSE Text(h, C, l)
  BY <1>19, <1>20
<1> HIDE DEF D
<1> QED BY <1>12, <1>13, <1>15, <1>16, <1>17, <1>21 DEF Shape, D, g

\* The chains from some heads are freed as a whole.
LEMMA FreeWhole ==
  ASSUME NEW h, NEW C, Shape(h, C), NEW B \in SUBSET Heads,
         NEW S, \A x \in Blocks : x \in S <=> x \in Whole(C, B)
  PROVE  LET g == free(h, S)
             D == Emptied(C, B)
         IN /\ Shape(g, D)
            /\ \A x \in Blocks \ Whole(C, B) : g[x] = h[x]
            /\ \A x \in Whole(C, B) : g[x] = Freed
            /\ InUse(g) = InUse(h) \ B
            /\ \A l \in ListBlocks : Text(g, D, l) = IF l \in B THEN <<>> ELSE Text(h, C, l)
<1> DEFINE g == free(h, S)
           D == Emptied(C, B)
           X == Whole(C, B)
<1>1. h \in Heap /\ Typed(h) /\ Chained(h, C) /\ Keyed(h, C)
  BY DEF Shape, Typed
<1>2. X \subseteq Blocks
  BY Pools DEF Whole
<1>3. g \in Heap /\ \A x \in Blocks : g[x] = IF x \in X THEN Freed ELSE h[x]
  BY <1>1, FreeIs
<1>4. /\ \A x \in Blocks \ X : g[x] = h[x]
      /\ \A x \in X : g[x] = Freed
  BY <1>2, <1>3
<1>5. \A a \in Heads : D[a] = IF a \in B THEN <<>> ELSE C[a]
  BY DEF Emptied
<1> HIDE DEF g, X, D
<1>6. Typed(g)
  <2>1. \A x \in Blocks : g[x] = h[x] \/ (g[x].kind = "free" /\ g[x].value = NULL)
    BY <1>4, FreedIs
  <2> QED BY <2>1, <1>1, <1>3 DEF Typed, Blocks
<1>7. Chained(g, D)
  BY <1>1, <1>4, FreedIs, ChainsOut DEF D, X
<1>8. ASSUME NEW a \in Heads, a \notin B, NEW i \in 1..Len(C[a])
      PROVE  g[C[a][i]] = h[C[a][i]]
  <2>1. C[a][i] \in Blocks /\ C[a][i] \notin Heads
    BY <1>1, ChainTypes
  <2>2. C[a][i] \notin X
    BY <1>1, <1>8, <2>1 DEF X, Whole, Chained, Disjoint
  <2> QED BY <2>1, <2>2, <1>4
<1>9. Keyed(g, D)
  <2>1. ASSUME NEW b \in Bins, NEW i \in 1..Len(D[b])
        PROVE  b \notin B /\ D[b] = C[b]
    <3>1. Len(<<>>) = 0
      OBVIOUS
    <3> QED BY <3>1, <1>5 DEF Heads
  <2>2. \A b \in Bins : b \notin B => \A i \in 1..Len(C[b]) : g[C[b][i]] = h[C[b][i]]
    BY <1>8 DEF Heads
  <2> QED BY <2>1, <2>2, <1>1 DEF Keyed
<1>10. InUse(g) = InUse(h) \ B
  <2>1. ASSUME NEW l \in ListBlocks
        PROVE  l \in Blocks /\ (l \in X <=> l \in B)
    BY Pools DEF X, Whole, Heads
  <2> QED BY <2>1, <1>4, FreedIs DEF InUse
<1>11. \A l \in ListBlocks : Text(g, D, l) = IF l \in B THEN <<>> ELSE Text(h, C, l)
  <2>1. ASSUME NEW l \in ListBlocks, l \in B
        PROVE  Text(g, D, l) = <<>>
    <3>1. D[l] = <<>> /\ Len(<<>>) = 0
      BY <2>1, <1>5
    <3> QED BY <3>1 DEF Text
  <2>2. ASSUME NEW l \in ListBlocks, l \notin B
        PROVE  Text(g, D, l) = Text(h, C, l)
    <3>1. D[l] = C[l] /\ l \in Heads
      BY <2>2, <1>5 DEF Heads
    <3> QED BY <3>1, <2>2, <1>8, TextSame
  <2> QED BY <2>1, <2>2
<1> QED BY <1>4, <1>6, <1>7, <1>9, <1>10, <1>11 DEF Shape, g, D, X

\* List ll reads empty in g, every other list what it did in h.
Silenced(h, C, g, D, ll) ==
  \A l \in ListBlocks : Text(g, D, l) = IF l = ll THEN <<>> ELSE Text(h, C, l)

LEMMA FreeStep ==
  ASSUME NEW h, NEW C, Shape(h, C), NEW ll \in InUse(h)
  PROVE  LET g == ll_free(h, ll)
             D == Emptied(C, {ll})
         IN /\ Shape(g, D) /\ Elsewhere(h, C, g, D)
            /\ InUse(g) = InUse(h) \ {ll}
            /\ Unused(h, NodeBlocks) \subseteq Unused(g, NodeBlocks)
            /\ Silenced(h, C, g, D, ll)
<1> DEFINE S == {ll} \cup ToSet(Chain(h, ll))
           B == {ll}
           X == Whole(C, B)
           g == ll_free(h, ll)
           D == Emptied(C, B)
<1>1. Typed(h) /\ Chained(h, C)
  BY DEF Shape
<1>2. ll \in ListBlocks /\ ll \in Heads /\ ll \notin Bins /\ B \in SUBSET Heads
  BY Pools DEF InUse, Heads
<1>3. Chain(h, ll) = C[ll]
  BY <1>1, <1>2, ChainIs
<1>4. \A i \in 1..Len(C[ll]) : C[ll][i] \in NodeBlocks /\ h[C[ll][i]].kind = "node"
  BY <1>2, TextIs
<1>5. DOMAIN C[ll] = 1..Len(C[ll])
  BY <1>1, <1>2, ChainTypes
<1>6. \A x : x \in S <=> x \in X
  BY <1>3, <1>4, <1>5, Pools DEF ToSet, Whole, Cells
<1>7. g = free(h, S)
  BY DEF ll_free
<1> HIDE DEF S, g
<1>8. /\ Shape(g, D)
      /\ \A x \in Blocks \ X : g[x] = h[x]
      /\ \A x \in X : g[x] = Freed
      /\ InUse(g) = InUse(h) \ B
      /\ \A l \in ListBlocks : Text(g, D, l) = IF l \in B THEN <<>> ELSE Text(h, C, l)
  <2>1. Shape(h, C) /\ B \in SUBSET Heads /\ \A x \in Blocks : x \in S <=> x \in Whole(C, B)
    BY <1>2, <1>6
  <2> HIDE DEF B
  <2> DEFINE k == free(h, S)
  <2>2. /\ Shape(k, D)
        /\ \A x \in Blocks \ X : k[x] = h[x]
        /\ \A x \in X : k[x] = Freed
        /\ InUse(k) = InUse(h) \ B
        /\ \A l \in ListBlocks : Text(k, D, l) = IF l \in B THEN <<>> ELSE Text(h, C, l)
    BY ONLY <2>1, FreeWhole
  <2> QED BY <2>2, <1>7
<1>9. Elsewhere(h, C, g, D)
  <2>1. ASSUME NEW x \in EntryBlocks \cup Bins
        PROVE  x \in Blocks \ X
    BY <1>2, <1>4, Pools DEF Whole, Cells, Heads
  <2>2. \A b \in Bins : D[b] = C[b]
    BY <1>2 DEF Emptied, Heads
  <2> QED BY <2>1, <2>2, <1>8 DEF Elsewhere
<1>10. Unused(h, NodeBlocks) \subseteq Unused(g, NodeBlocks)
  BY <1>8, FreedIs, Pools DEF Unused, Cells
<1>11. Silenced(h, C, g, D, ll)
  BY <1>8 DEF Silenced
<1> QED BY <1>8, <1>9, <1>10, <1>11 DEF g

\* F is what ll_copy works through, up to n values from the end.
Copies(F, h, ll, n) ==
  F = [k \in 0..n |->
         IF k = 0 THEN ll_create(h)
         ELSE ll_prepend(F[k - 1], malloc(h, ListBlocks), ll_get(h, ll, h[ll].data - k))]

LEMMA CopiesExist ==
  ASSUME NEW h, NEW ll, NEW n \in Nat
  PROVE  \E F : Copies(F, h, ll, n)
<1> DEFINE new == malloc(h, ListBlocks)
           More(g, k) == ll_prepend(g, new, ll_get(h, ll, h[ll].data - k))
           Without == {k \in Nat : ~ \E F : Copies(F, h, ll, k)}
<1>1. SUFFICES ASSUME Without # {} PROVE FALSE
  OBVIOUS
<1>2. PICK m \in Without : \A k \in Without : ~(k < m)
  BY <1>1, LeastOf
<1>3. CASE m = 0
  <2> DEFINE F == [k \in 0..0 |-> ll_create(h)]
  <2>1. F = [k \in 0..0 |-> IF k = 0 THEN ll_create(h) ELSE More(F[k - 1], k)]
    OBVIOUS
  <2>2. Copies(F, h, ll, 0)
    BY <2>1 DEF Copies
  <2> QED BY <2>2, <1>3
<1>4. CASE m # 0
  <2>1. m - 1 \in Nat /\ m - 1 < m /\ m \in Nat
    BY <1>4
  <2>2. PICK Q : Copies(Q, h, ll, m - 1)
    BY <2>1, <1>2
  <2> DEFINE F == [k \in 0..m |-> IF k = m THEN More(Q[m - 1], m) ELSE Q[k]]
  <2>q. Q = [k \in 0..(m - 1) |-> IF k = 0 THEN ll_create(h) ELSE More(Q[k - 1], k)]
    BY <2>2 DEF Copies
  <2>3. ASSUME NEW k \in 0..m
        PROVE  F[k] = IF k = 0 THEN ll_create(h) ELSE More(F[k - 1], k)
    <3> HIDE DEF More
    <3>1. CASE k = m
      <4>1. m - 1 \in 0..m /\ m - 1 # m /\ m \in 0..m
        BY <2>1
      <4>2. F[m - 1] = Q[m - 1] /\ F[m] = More(Q[m - 1], m)
        BY <4>1
      <4> QED BY <3>1, <4>2, <1>4
    <3>2. CASE k = 0
      <4>1. 0 \in 0..(m - 1) /\ 0 # m /\ 0 \in 0..m
        BY <2>1
      <4>2. Q[0] = ll_create(h)
        BY <2>q, <4>1
      <4>3. F[0] = Q[0]
        BY <4>1
      <4> QED BY <3>2, <4>2, <4>3
    <3>3. CASE k # m /\ k # 0
      <4>1. k \in 0..(m - 1) /\ k - 1 \in 0..m /\ k - 1 # m
        BY <3>3, <2>1
      <4>2. Q[k] = More(Q[k - 1], k)
        BY <2>q, <4>1, <3>3
      <4>3. F[k] = Q[k] /\ F[k - 1] = Q[k - 1]
        BY <4>1, <3>3
      <4> QED BY <4>2, <4>3, <3>3
    <3> QED BY <3>1, <3>2, <3>3
  <2>4. F = [k \in 0..m |-> IF k = 0 THEN ll_create(h) ELSE More(F[k - 1], k)]
    <3> DEFINE G == [k \in 0..m |-> IF k = 0 THEN ll_create(h) ELSE More(F[k - 1], k)]
    <3>1. \A k \in 0..m : F[k] = G[k]
      BY <2>3
    <3>2. DOMAIN F = 0..m /\ DOMAIN G = 0..m /\ F = [k \in 0..m |-> F[k]]
      OBVIOUS
    <3> QED BY <3>1, <3>2
  <2>5. Copies(F, h, ll, m)
    BY <2>4 DEF Copies
  <2> QED BY <2>5
<1> QED BY <1>3, <1>4

\* A copy has in it what the list has.
LEMMA CopyStep ==
  ASSUME NEW h, NEW C, Shape(h, C), NEW ll \in InUse(h), Unused(h, ListBlocks) # {},
         Cardinality(Unused(h, NodeBlocks)) >= h[ll].data
  PROVE  LET n == malloc(h, ListBlocks)
             g == ll_copy(h, ll)
         IN /\ n \in ListBlocks \ InUse(h)
            /\ \E D : /\ Shape(g, D) /\ Elsewhere(h, C, g, D)
                      /\ InUse(g) = InUse(h) \cup {n}
                      /\ \A l \in ListBlocks :
                           Text(g, D, l) = IF l = n THEN Text(h, C, ll) ELSE Text(h, C, l)
<1> DEFINE n == malloc(h, ListBlocks)
           s == Text(h, C, ll)
           size == h[ll].data
           F == CHOOSE F : Copies(F, h, ll, size)
           Part(g, k, D) ==
             /\ Shape(g, D) /\ Elsewhere(h, C, g, D)
             /\ InUse(g) = InUse(h) \cup {n}
             /\ \A l \in ListBlocks :
                  Text(g, D, l) = IF l = n THEN From(s, size + 1 - k) ELSE Text(h, C, l)
             /\ Cardinality(Unused(g, NodeBlocks)) >= size - k
<1>1. h \in Heap /\ Typed(h) /\ Chained(h, C)
  BY DEF Shape, Typed
<1>2. ll \in ListBlocks /\ ll \in Heads
  BY DEF InUse, Heads
<1>3. /\ s \in Seq(Texts) /\ Len(s) = size /\ Len(C[ll]) = size
      /\ \A i \in 1..size : s[i] = h[C[ll][i]].data
  BY <1>2, TextIs
<1>4. size \in Nat
  BY <1>1, <1>2, <1>3, ChainTypes
<1>5. n \in ListBlocks
  BY MallocIs
<1>6. ll_copy(h, ll) = F[size]
  BY DEF ll_copy, Copies
<1>7. Copies(F, h, ll, size)
  BY <1>4, CopiesExist
<1> HIDE DEF F
<1>8. /\ F[0] = ll_create(h)
      /\ \A k \in 1..size : F[k] = ll_prepend(F[k - 1], n, ll_get(h, ll, size - k))
  BY <1>4, <1>7 DEF Copies
<1>9. ASSUME NEW k \in 1..size
      PROVE  /\ ll_get(h, ll, size - k) = s[size + 1 - k] /\ s[size + 1 - k] \in Texts
             /\ From(s, size + 1 - k) = Cons(s[size + 1 - k], From(s, size + 1 - (k - 1)))
  <2> DEFINE i == size + 1 - k
  <2>1. i \in 1..size /\ size - k = i - 1 /\ ~(i - 1 >= size) /\ (i - 1) + 1 = i
        /\ size + 1 - (k - 1) = i + 1
    BY <1>4
  <2> HIDE DEF i, s
  <2>2. Chain(h, ll) = C[ll]
    BY <1>1, <1>2, ChainIs
  <2>3. ll_get(h, ll, i - 1) = h[C[ll][i]].data
    BY <2>1, <2>2 DEF ll_get
  <2>4. s[i] \in Texts
    BY <1>3, <2>1, ElementOfSeq
  <2>5. From(s, i) = <<s[i]>> \o From(s, i + 1)
    BY <1>3, <2>1, FromNth
  <2>6. ll_get(h, ll, size - k) = s[i]
    BY <2>1, <2>3, <1>3
  <2> QED BY <2>1, <2>4, <2>5, <2>6 DEF Cons, i
<1> DEFINE Off == {k \in 0..size : ~ \E D : Part(F[k], k, D)}
<1> HIDE DEF s, size, n
<1>f. IsFiniteSet(NodeBlocks)
  BY TablesAssumption
<1>10. ASSUME Off # {} PROVE FALSE
  <2>1. Off \in SUBSET Nat
    BY <1>4
  <2>2. PICK k \in Off : \A j \in Off : ~(j < k)
    BY <1>10, <2>1, LeastOf
  <2>3. CASE k = 0
    <3> DEFINE g == F[0]
    <3>0. /\ Shape(ll_create(h), C) /\ Elsewhere(h, C, ll_create(h), C)
          /\ InUse(ll_create(h)) = InUse(h) \cup {malloc(h, ListBlocks)}
          /\ \A b \in NodeBlocks : ll_create(h)[b] = h[b]
          /\ \A l \in ListBlocks : Text(ll_create(h), C, l) = Text(h, C, l)
          /\ Text(ll_create(h), C, malloc(h, ListBlocks)) = <<>>
      BY CreateStep
    <3>1. /\ Shape(g, C) /\ Elsewhere(h, C, g, C)
          /\ InUse(g) = InUse(h) \cup {n}
          /\ \A b \in NodeBlocks : g[b] = h[b]
          /\ \A l \in ListBlocks : Text(g, C, l) = Text(h, C, l)
          /\ Text(g, C, n) = <<>>
      BY <3>0, <1>8 DEF n
    <3>2. From(s, size + 1) = <<>>
      BY <1>3, FromNth
    <3>3. Unused(g, NodeBlocks) = Unused(h, NodeBlocks)
      BY <3>1 DEF Unused
    <3>4. size + 1 - 0 = size + 1 /\ size - 0 = size
      BY <1>4
    <3>5. Cardinality(Unused(g, NodeBlocks)) >= size - 0
      BY <3>3, <3>4 DEF size
    <3>6. \A l \in ListBlocks :
            Text(g, C, l) = IF l = n THEN From(s, size + 1 - 0) ELSE Text(h, C, l)
      BY <3>1, <3>2, <3>4
    <3>7. Part(g, 0, C)
      BY <3>1, <3>5, <3>6
    <3> HIDE DEF Part
    <3> QED BY <2>2, <2>3, <3>7
  <2>4. CASE k # 0
    <3>1. k \in 1..size /\ k - 1 \in 0..size /\ k - 1 < k
      BY <2>2, <2>4, <1>4
    <3>2. PICK D : Part(F[k - 1], k - 1, D)
      BY <2>2, <3>1
    <3> DEFINE f == F[k - 1]
               g == F[k]
               t == s[size + 1 - k]
               m == malloc(f, NodeBlocks)
               E == [D EXCEPT ![n] = InsertAt(D[n], 1, m)]
    <3>3. g = ll_prepend(f, n, t) /\ t \in Texts
      BY <1>8, <1>9, <3>1
    <3>4. n \in InUse(f) /\ Shape(f, D) /\ Elsewhere(h, C, f, D)
      BY <3>2
    <3>5. IsFiniteSet(Unused(f, NodeBlocks)) /\ Cardinality(Unused(f, NodeBlocks)) \in Nat
      BY <1>f, FS_Subset, FS_CardinalityType DEF Unused
    <3>c. Cardinality(Unused(f, NodeBlocks)) >= size - (k - 1)
      BY <3>2
    <3>6. Unused(f, NodeBlocks) # {}
      <4>1. Cardinality(Unused(f, NodeBlocks)) # 0
        BY <3>1, <3>5, <3>c, <1>4
      <4> QED BY <4>1, FS_EmptySet
    <3>7. /\ m \in Unused(f, NodeBlocks)
          /\ Shape(g, E) /\ Elsewhere(f, D, g, E)
          /\ InUse(g) = InUse(f)
          /\ Unused(g, NodeBlocks) = Unused(f, NodeBlocks) \ {m}
          /\ \A l \in ListBlocks :
               Text(g, E, l) = IF l = n THEN Cons(t, Text(f, D, n)) ELSE Text(f, D, l)
      <4> HIDE DEF f, g, t
      <4>1. /\ m \in Unused(f, NodeBlocks)
            /\ Shape(ll_prepend(f, n, t), E) /\ Elsewhere(f, D, ll_prepend(f, n, t), E)
            /\ InUse(ll_prepend(f, n, t)) = InUse(f)
            /\ Unused(ll_prepend(f, n, t), NodeBlocks) = Unused(f, NodeBlocks) \ {m}
            /\ \A l \in ListBlocks :
                 Text(ll_prepend(f, n, t), E, l) =
                   IF l = n THEN Cons(t, Text(f, D, n)) ELSE Text(f, D, l)
        <5>1. Shape(f, D) /\ n \in InUse(f) /\ t \in Texts /\ Unused(f, NodeBlocks) # {}
          BY <3>3, <3>4, <3>6
        <5> DEFINE k1 == ll_prepend(f, n, t)
        <5>2. m \in Unused(f, NodeBlocks)
          BY ONLY <5>1, PrependStep
        <5>3. Shape(k1, E)
          BY ONLY <5>1, PrependStep
        <5>4. Elsewhere(f, D, k1, E)
          BY ONLY <5>1, PrependStep
        <5>5. InUse(k1) = InUse(f)
          BY ONLY <5>1, PrependStep
        <5>6. Unused(k1, NodeBlocks) = Unused(f, NodeBlocks) \ {m}
          BY ONLY <5>1, PrependStep
        <5>7. ASSUME NEW l \in ListBlocks
              PROVE  Text(k1, E, l) = IF l = n THEN Cons(t, Text(f, D, n)) ELSE Text(f, D, l)
          BY ONLY <5>1, PrependStep
        <5> QED BY <5>2, <5>3, <5>4, <5>5, <5>6, <5>7
      <4> QED BY <3>3, <4>1
    <3> HIDE DEF f, g, t, m, E
    <3>8. Elsewhere(h, C, g, E)
      BY <3>4, <3>7 DEF Elsewhere
    <3>9. Cardinality(Unused(g, NodeBlocks)) >= size - k
      <4>1. Cardinality(Unused(g, NodeBlocks)) = Cardinality(Unused(f, NodeBlocks)) - 1
        BY <3>5, <3>7, FS_RemoveElement
      <4> QED BY <4>1, <3>1, <3>5, <3>c, <1>4
    <3>10. ASSUME NEW l \in ListBlocks
           PROVE  Text(g, E, l) = IF l = n THEN From(s, size + 1 - k) ELSE Text(h, C, l)
      <4>1. Text(f, D, l) = IF l = n THEN From(s, size + 1 - (k - 1)) ELSE Text(h, C, l)
        BY <3>2 DEF f
      <4>2. From(s, size + 1 - k) = Cons(t, From(s, size + 1 - (k - 1)))
        BY <3>1, <1>9 DEF t
      <4> QED BY <4>1, <4>2, <3>7
    <3>11. InUse(g) = InUse(h) \cup {n}
      BY <3>2, <3>7 DEF f
    <3>12. Part(g, k, E)
      BY <3>7, <3>8, <3>9, <3>10, <3>11
    <3> HIDE DEF Part
    <3> QED BY <2>2, <3>12 DEF g
  <2> QED BY <2>3, <2>4
<1>11. \E D : Part(F[size], size, D)
  <2>1. size \in 0..size
    BY <1>4
  <2> HIDE DEF Part
  <2> QED BY <1>10, <2>1
<1>12. From(s, size + 1 - size) = s
  <2>1. size + 1 - size = 1
    BY <1>4
  <2>2. From(s, 1) = s
    BY <1>3, FromNth
  <2> QED BY <2>1, <2>2
<1>13. n \notin InUse(h)
  BY CreateStep DEF n
<1> QED BY <1>5, <1>6, <1>11, <1>12, <1>13 DEF n, s

-----------------------------------------------------------------------------
(* The walks along a bin                                                   *)

\* e is the entry of key k.
Entry(h, e, k) == e \in EntryBlocks /\ h[e].kind = "entry" /\ h[e].data = k

LEMMA BinCells ==
  ASSUME NEW h, NEW C, Shape(h, C), NEW b \in Bins, NEW i \in 1..Len(C[b])
  PROVE  /\ C[b][i] \in EntryBlocks /\ h[C[b][i]].kind = "entry"
         /\ h[C[b][i]].data \in Keys /\ h[C[b][i]].data \in Nat
         /\ ht_hash[h[C[b][i]].data] = b
         /\ h[C[b][i]].value \in ListBlocks
<1>1. Typed(h) /\ Chained(h, C) /\ Keyed(h, C) /\ b \in Heads
  BY DEF Shape, Heads
<1>2. C[b][i] \in EntryBlocks /\ h[C[b][i]].kind # "free"
  BY <1>1 DEF Chained, Linked, Pool
<1>3. /\ h[C[b][i]].kind = "entry" /\ h[C[b][i]].data \in Keys
      /\ h[C[b][i]].value \in ListBlocks
  BY <1>1, <1>2 DEF Typed
<1> QED BY <1>1, <1>2, <1>3, TablesAssumption DEF Keyed

\* An entry is in the bin of its key, and a key has one.
LEMMA EntryAt ==
  ASSUME NEW h, NEW C, Shape(h, C), NEW k \in Keys, NEW e, Entry(h, e, k)
  PROVE  \E i \in 1..Len(C[ht_hash[k]]) : e = C[ht_hash[k]][i]
<1>1. Chained(h, C) /\ Keyed(h, C)
  BY DEF Shape
<1>2. e \in EntryBlocks /\ h[e].kind = "entry" /\ h[e].data = k /\ e \in Cells
  BY DEF Entry, Cells
<1>3. PICK b \in Heads : \E i \in 1..Len(C[b]) : e = C[b][i]
  BY <1>1, <1>2 DEF Chained, Covered
<1>4. PICK i \in 1..Len(C[b]) : e = C[b][i]
  BY <1>3
<1>5. C[b][i] \in Pool(b)
  BY <1>1 DEF Chained, Linked
<1>6. b \in Bins
  BY <1>2, <1>4, <1>5, Pools DEF Pool
<1>7. ht_hash[h[C[b][i]].data] = b
  BY <1>1, <1>6 DEF Keyed
<1>8. ht_hash[k] = b
  BY <1>2, <1>4, <1>7
<1> QED BY <1>4, <1>8

LEMMA EntryOne ==
  ASSUME NEW h, NEW C, Shape(h, C), NEW k \in Keys, NEW e, Entry(h, e, k), NEW f, Entry(h, f, k)
  PROVE  e = f
<1> DEFINE b == ht_hash[k]
<1>1. b \in Bins /\ b \in Heads
  BY TablesAssumption DEF Heads
<1>2. PICK i \in 1..Len(C[b]) : e = C[b][i]
  BY EntryAt
<1>3. PICK j \in 1..Len(C[b]) : f = C[b][j]
  BY EntryAt
<1>4. h[C[b][i]].data = k /\ h[C[b][j]].data = k /\ k \in Nat
  BY <1>2, <1>3, TablesAssumption DEF Entry
<1>5. Keyed(h, C) /\ Len(C[b]) \in Nat
  BY <1>1, ChainTypes DEF Shape
<1> HIDE DEF b
<1>6. ~(i < j) /\ ~(j < i)
  <2>1. i < j => h[C[b][i]].data < h[C[b][j]].data
    BY <1>1, <1>5 DEF Keyed
  <2>2. j < i => h[C[b][j]].data < h[C[b][i]].data
    BY <1>1, <1>5 DEF Keyed
  <2> QED BY <1>4, <2>1, <2>2
<1>7. i = j
  BY <1>5, <1>6
<1> QED BY <1>2, <1>3, <1>7

\* What the walk for key k has found when it stops before position p of its bin.
Stops(h, C, k, p) ==
  /\ \A j \in 1..Len(C[ht_hash[k]]) :
       /\ j < p => h[C[ht_hash[k]][j]].data < k
       /\ j > p => k < h[C[ht_hash[k]][j]].data
       /\ j = p => k <= h[C[ht_hash[k]][j]].data
  /\ IF \E e : Entry(h, e, k)
     THEN /\ p \in 1..Len(C[ht_hash[k]]) /\ Entry(h, C[ht_hash[k]][p], k)
          /\ entry_for_key(h, k) = C[ht_hash[k]][p]
     ELSE /\ entry_for_key(h, k) = NULL
          /\ \A j \in 1..Len(C[ht_hash[k]]) : j = p => k < h[C[ht_hash[k]][j]].data

LEMMA WalkIs ==
  ASSUME NEW h, NEW C, Shape(h, C), NEW k \in Keys, h[ht_hash[k]].kind = "bin"
  PROVE  \E p \in 1..(Len(C[ht_hash[k]]) + 1) :
           Before(h, k) = CellBefore(C, ht_hash[k], p) /\ Stops(h, C, k, p)
<1> DEFINE b == ht_hash[k]
           n == Len(C[b])
           c == <<b>> \o Chain(h, b)
           At(i) == /\ i = Len(c) \/ h[c[i + 1]].data >= k
                    /\ \A j \in 2..i : h[c[j]].data < k
           Ends == {i \in 1..(n + 1) : i = n + 1 \/ h[C[b][i]].data >= k}
<1>1. b \in Bins /\ b \in Heads /\ Typed(h) /\ Chained(h, C) /\ Keyed(h, C) /\ k \in Nat
  BY TablesAssumption DEF Heads, Shape
<1>2. n \in Nat
  BY <1>1, ChainTypes
<1>3. /\ Len(c) = n + 1 /\ DOMAIN c = 1..(n + 1)
      /\ \A i \in 1..n : c[i + 1] = C[b][i]
      /\ \A i \in 1..(n + 1) : c[i] = CellBefore(C, b, i)
  BY <1>1, PathIs
<1>4. \A i \in 1..n : h[C[b][i]].data \in Nat
  BY <1>1, BinCells
<1>5. Before(h, k) = c[CHOOSE i \in DOMAIN c : At(i)]
  BY DEF Before
<1> HIDE DEF b, n, c
<1>6. \E i \in DOMAIN c : At(i)
  <2>1. n + 1 \in Ends /\ Ends \in SUBSET Nat
    BY <1>2
  <2>2. PICK m \in Ends : \A i \in Ends : ~(i < m)
    BY <2>1, LeastOf
  <2>3. m \in 1..(n + 1) /\ (m = n + 1 \/ h[C[b][m]].data >= k)
    BY <2>2
  <2>4. m = Len(c) \/ h[c[m + 1]].data >= k
    <3>1. m # n + 1 => m \in 1..n
      BY <1>2, <2>3
    <3> QED BY <3>1, <2>3, <1>3
  <2>5. ASSUME NEW j \in 2..m PROVE h[c[j]].data < k
    <3>1. j - 1 \in 1..n /\ j - 1 \in 1..(n + 1) /\ j - 1 < m /\ (j - 1) + 1 = j /\ j - 1 # n + 1
      BY <1>2, <2>3
    <3>2. j - 1 \notin Ends
      BY <3>1, <2>2
    <3>3. ~(h[C[b][j - 1]].data >= k)
      BY <3>1, <3>2
    <3>4. c[j] = C[b][j - 1]
      BY <3>1, <1>3
    <3> QED BY <3>1, <3>3, <3>4, <1>1, <1>4
  <2> QED BY <2>3, <2>4, <2>5, <1>3
<1> DEFINE p == CHOOSE i \in DOMAIN c : At(i)
<1>7. p \in DOMAIN c /\ At(p)
  <2> HIDE DEF At
  <2> QED BY <1>6
<1>8. Before(h, k) = c[p]
  BY <1>5
<1> HIDE DEF p
<1>9. p \in 1..(n + 1) /\ Before(h, k) = CellBefore(C, b, p)
  BY <1>3, <1>7, <1>8
<1>10. ASSUME NEW j \in 1..n, j < p PROVE h[C[b][j]].data < k
  <2>1. j + 1 \in 2..p
    BY <1>2, <1>9, <1>10
  <2>2. h[c[j + 1]].data < k
    BY <2>1, <1>7
  <2> QED BY <2>2, <1>3
<1>11. ASSUME NEW j \in 1..n, j = p PROVE k <= h[C[b][j]].data
  <2>1. p # n + 1
    BY <1>2, <1>11
  <2>2. h[c[p + 1]].data >= k
    BY <2>1, <1>3, <1>7
  <2>3. c[p + 1] = C[b][j]
    BY <1>3, <1>11
  <2> QED BY <2>2, <2>3, <1>1, <1>4
<1>12. ASSUME NEW j \in 1..n, j > p PROVE k < h[C[b][j]].data
  <2>1. p \in 1..n
    BY <1>2, <1>9, <1>12
  <2>2. h[C[b][p]].data < h[C[b][j]].data
    BY <2>1, <1>1, <1>12 DEF Keyed, n
  <2>3. k <= h[C[b][p]].data
    BY <2>1, <1>11
  <2> QED BY <2>1, <2>2, <2>3, <1>1, <1>4
<1>13. h[Before(h, k)].next = Nth(C[b], p)
  BY <1>1, <1>9, LastIs DEF b, n
<1>14. CASE \E e : Entry(h, e, k)
  <2>1. PICK e : Entry(h, e, k)
    BY <1>14
  <2>2. PICK i \in 1..n : e = C[b][i]
    BY <2>1, EntryAt DEF b, n
  <2>3. h[C[b][i]].data = k
    BY <2>1, <2>2 DEF Entry
  <2>4. i = p
    <3>1. ~(i < p) /\ ~(i > p)
      BY <2>3, <1>1, <1>10, <1>12
    <3> QED BY <3>1, <1>2, <1>9
  <2>5. Nth(C[b], p) = e /\ e # NULL
    <3>1. Nth(C[b], p) = C[b][p]
      BY <2>2, <2>4, <1>2 DEF Nth, n
    <3>2. e \in EntryBlocks
      BY <2>1 DEF Entry
    <3> QED BY <3>1, <3>2, <2>2, <2>4, Pools DEF Cells
  <2>6. entry_for_key(h, k) = e
    BY <2>1, <2>5, <1>13 DEF entry_for_key, Entry
  <2>7. p \in 1..n /\ Entry(h, C[b][p], k) /\ entry_for_key(h, k) = C[b][p]
    BY <2>1, <2>2, <2>4, <2>6
  <2>8. Stops(h, C, k, p)
    BY <2>7, <1>10, <1>11, <1>12, <1>14 DEF Stops, b, n
  <2> QED BY <2>8, <1>9 DEF b, n
<1>15. CASE ~ \E e : Entry(h, e, k)
  <2>1. ASSUME NEW j \in 1..n PROVE h[C[b][j]].data # k
    <3>1. C[b][j] \in EntryBlocks /\ h[C[b][j]].kind = "entry"
      BY <1>1, BinCells DEF n
    <3> QED BY <3>1, <1>15 DEF Entry
  <2>2. ASSUME NEW j \in 1..n, j = p PROVE k < h[C[b][j]].data
    BY <2>1, <2>2, <1>1, <1>4, <1>11
  <2>3. entry_for_key(h, k) = NULL
    <3>1. CASE p = n + 1
      <4>1. Nth(C[b], p) = NULL
        BY <3>1, <1>2 DEF Nth, n
      <4> QED BY <4>1, <1>13 DEF entry_for_key
    <3>2. CASE p # n + 1
      <4>1. p \in 1..n
        BY <3>2, <1>2, <1>9
      <4>2. Nth(C[b], p) = C[b][p]
        BY <4>1, <1>2 DEF Nth, n
      <4>3. h[C[b][p]].data # k
        BY <4>1, <2>1
      <4> QED BY <4>2, <4>3, <1>13 DEF entry_for_key
    <3> QED BY <3>1, <3>2
  <2>4. Stops(h, C, k, p)
    BY <2>2, <2>3, <1>10, <1>11, <1>12, <1>15 DEF Stops, b, n
  <2> QED BY <2>4, <1>9 DEF b, n
<1> QED BY <1>14, <1>15

\* A lookup finds the entry of the key where there is one, and nothing where not.
LEMMA GetIs ==
  ASSUME NEW h, NEW C, Shape(h, C), NEW k \in Keys, h[ht_hash[k]].kind = "bin"
  PROVE  /\ ht_contains(h, k) <=> \E e : Entry(h, e, k)
         /\ \A e : Entry(h, e, k) => /\ entry_for_key(h, k) = e /\ ht_get(h, k) = h[e].value
                                     /\ h[e].value \in ListBlocks /\ ht_get(h, k) # NULL
         /\ (~ \E e : Entry(h, e, k)) => entry_for_key(h, k) = NULL /\ ht_get(h, k) = NULL
<1>1. PICK p \in 1..(Len(C[ht_hash[k]]) + 1) :
        Before(h, k) = CellBefore(C, ht_hash[k], p) /\ Stops(h, C, k, p)
  BY WalkIs
<1>2. ASSUME NEW e, Entry(h, e, k)
      PROVE  /\ entry_for_key(h, k) = e /\ ht_get(h, k) = h[e].value
             /\ h[e].value \in ListBlocks /\ ht_get(h, k) # NULL /\ ht_contains(h, k)
  <2>1. /\ Entry(h, C[ht_hash[k]][p], k)
        /\ entry_for_key(h, k) = C[ht_hash[k]][p]
    BY <1>1, <1>2 DEF Stops
  <2>2. e = C[ht_hash[k]][p]
    BY <1>2, <2>1, EntryOne
  <2>3. e \in EntryBlocks /\ h[e].value \in ListBlocks
    BY <1>2 DEF Entry, Shape, Typed
  <2>4. e # NULL /\ h[e].value # NULL
    BY <2>3, Pools DEF Heads, Cells
  <2> QED BY <2>1, <2>2, <2>3, <2>4 DEF ht_get, ht_contains
<1>3. ASSUME ~ \E e : Entry(h, e, k)
      PROVE  entry_for_key(h, k) = NULL /\ ht_get(h, k) = NULL /\ ~ht_contains(h, k)
  BY <1>1, <1>3 DEF Stops, ht_get, ht_contains
<1> QED BY <1>2, <1>3

-----------------------------------------------------------------------------
(* Entries put into a bin, or taken out                                    *)

\* Lists are left alone.
ListsSame(h, C, g, D) ==
  /\ \A x \in ListBlocks \cup NodeBlocks : g[x] = h[x]
  /\ \A l \in ListBlocks : D[l] = C[l]

LEMMA ListsSameText ==
  ASSUME NEW h, NEW C, Shape(h, C), NEW g, NEW D, ListsSame(h, C, g, D)
  PROVE  /\ InUse(g) = InUse(h)
         /\ \A l \in ListBlocks : Text(g, D, l) = Text(h, C, l)
<1>1. InUse(g) = InUse(h)
  BY DEF InUse, ListsSame
<1>2. ASSUME NEW l \in ListBlocks PROVE Text(g, D, l) = Text(h, C, l)
  <2>1. \A i \in 1..Len(C[l]) : g[C[l][i]] = h[C[l][i]]
    BY TextIs DEF ListsSame
  <2>2. D[l] = C[l]
    BY DEF ListsSame
  <2> QED BY <2>1, <2>2, TextSame
<1> QED BY <1>1, <1>2

\* The heap with an entry e at position p of a bin.
LinkEntry(h, C, k, e, n, p) ==
  LET last == CellBefore(C, ht_hash[k], p)
  IN [[[h EXCEPT ![e] = Block("entry", k, n, NULL)]
         EXCEPT ![e].next = h[last].next] EXCEPT ![last].next = e]

\* All other blocks stay what they are, but for where they lead.
OthersSame(h, g, e) ==
  \A x \in Blocks \ {e} :
    g[x].kind = h[x].kind /\ g[x].data = h[x].data /\ g[x].value = h[x].value
EntryPut(h, g, e, k, n) ==
  OthersSame(h, g, e) /\ g[e].kind = "entry" /\ g[e].data = k /\ g[e].value = n
EntryGone(h, g, e) ==
  OthersSame(h, g, e) /\ g[e].kind = "free" /\ g[e].value = NULL

LEMMA EntryIn ==
  ASSUME NEW h, NEW C, Shape(h, C), NEW k \in Keys, h[ht_hash[k]].kind = "bin",
         NEW e \in EntryBlocks, h[e].kind = "free", NEW n \in ListBlocks,
         NEW p \in 1..(Len(C[ht_hash[k]]) + 1),
         \A j \in 1..Len(C[ht_hash[k]]) :
           IF j < p THEN h[C[ht_hash[k]][j]].data < k ELSE k < h[C[ht_hash[k]][j]].data
  PROVE  LET b == ht_hash[k]
             g == LinkEntry(h, C, k, e, n, p)
             D == [C EXCEPT ![b] = InsertAt(C[b], p, e)]
         IN /\ Shape(g, D) /\ ListsSame(h, C, g, D)
            /\ EntryPut(h, g, e, k, n)
<1> DEFINE b == ht_hash[k]
           c == C[b]
           last == CellBefore(C, b, p)
           q == h[last].next
           r == Block("entry", k, n, NULL)
           h1 == [h EXCEPT ![e] = r]
           h2 == [h1 EXCEPT ![e].next = q]
           g == [h2 EXCEPT ![last].next = e]
           D == [C EXCEPT ![b] = InsertAt(c, p, e)]
<1>1. h \in Heap /\ Typed(h) /\ Chained(h, C) /\ Keyed(h, C)
  BY DEF Shape, Typed
<1>2. b \in Bins /\ b \in Heads /\ b \in Blocks /\ b \notin ListBlocks /\ h[b].kind # "free" /\ b # e
  BY TablesAssumption, Pools DEF Heads, Cells
<1>3. c \in Seq(Cells) /\ Len(c) \in Nat
  BY <1>1, <1>2, ChainTypes
<1>4. /\ e \in Blocks /\ e \in Cells /\ e \in Pointers /\ e \notin Heads /\ e \in Pool(b)
      /\ e \notin NodeBlocks /\ n \in Pointers
  BY <1>2, Pools DEF Cells, Heads, Pointers, Pool
<1>5. /\ last \in Blocks /\ h[last].kind # "free" /\ last # e
      /\ last \notin ListBlocks /\ last \notin NodeBlocks
  <2>1. last \in Blocks /\ h[last].kind # "free"
    BY <1>1, <1>2, LastIs
  <2>2. CASE p = 1
    BY <2>1, <2>2, <1>2, Pools DEF CellBefore, Cells
  <2>3. CASE p # 1
    <3>1. p - 1 \in 1..Len(c)
      BY <2>3, <1>3
    <3>2. last \in EntryBlocks
      BY <2>3, <3>1, <1>2, BinCells DEF CellBefore
    <3> QED BY <2>1, <3>2, Pools DEF Heads, Cells
  <2> QED BY <2>2, <2>3
<1>6. q \in Pointers
  BY <1>1, <1>5, HeapFields
<1>7. /\ r \in Fields
      /\ r.kind = "entry" /\ r.data = k /\ r.value = n
  <2>1. "entry" \in Kinds /\ k \in Data /\ NULL \in Pointers
    BY DEF Kinds, Data, Pointers
  <2> QED BY <1>4, <2>1, BlockIs
<1> HIDE DEF b, last, q, r
<1>8. h1 \in Heap /\ \A x \in Blocks : h1[x] = IF x = e THEN r ELSE h[x]
  BY <1>1, <1>4, <1>7, Put
<1> HIDE DEF h1
<1>9. /\ h2 \in Heap
      /\ \A x \in Blocks :
           /\ x # e => h2[x] = h1[x]
           /\ h2[x].next = IF x = e THEN q ELSE h1[x].next
           /\ h2[x].kind = h1[x].kind /\ h2[x].data = h1[x].data /\ h2[x].value = h1[x].value
  BY <1>4, <1>6, <1>8, PutNext
<1> HIDE DEF h2
<1>10. /\ g \in Heap
       /\ \A x \in Blocks :
            /\ x # last => g[x] = h2[x]
            /\ g[x].next = IF x = last THEN e ELSE h2[x].next
            /\ g[x].kind = h2[x].kind /\ g[x].data = h2[x].data /\ g[x].value = h2[x].value
  BY <1>4, <1>5, <1>9, PutNext
<1> HIDE DEF g
<1>11. /\ \A x \in Blocks \ {e, last} : g[x] = h[x]
       /\ \A x \in Blocks \ {e} :
            g[x].kind = h[x].kind /\ g[x].data = h[x].data /\ g[x].value = h[x].value
       /\ g[e].kind = "entry" /\ g[e].data = k /\ g[e].value = n /\ g[e].next = q
       /\ g[last].next = e
  BY <1>4, <1>5, <1>7, <1>8, <1>9, <1>10
<1>12. \A x \in ListBlocks \cup NodeBlocks : g[x] = h[x]
  BY <1>4, <1>5, <1>11, Pools DEF Heads, Cells
<1>13. Typed(g)
  <2>1. \A x \in EntryBlocks :
          /\ g[x].kind \in {"free", "entry"}
          /\ g[x].kind = "free" => g[x].value = NULL
          /\ g[x].kind = "entry" => g[x].data \in Keys /\ g[x].value \in ListBlocks
    <3>1. \A x \in EntryBlocks : x = e \/ x \in Blocks \ {e}
      BY Pools DEF Cells
    <3> QED BY <3>1, <1>1, <1>11 DEF Typed
  <2>2. \A x \in Bins : g[x].kind \in {"free", "bin"} /\ g[x].value = NULL
    <3>1. \A x \in Bins : x \in Blocks \ {e}
      BY <1>4, Pools DEF Heads
    <3> QED BY <3>1, <1>1, <1>11 DEF Typed
  <2> QED BY <1>1, <1>10, <1>12, <2>1, <2>2 DEF Typed
<1>14. Chained(g, D)
  <2>1. \A l \in ListBlocks : g[l].data = IF l = b THEN h[l].data + 1 ELSE h[l].data
    BY <1>2, <1>12
  <2>2. LinkedIn(h, g, C, b, p, e)
    BY <1>4, <1>11, <2>1 DEF LinkedIn, last, q
  <2>3. p \in 1..(Len(C[b]) + 1)
    BY DEF b
  <2> QED BY <1>1, <1>2, <1>4, <2>2, <2>3, CellIn
<1>15. \A a \in Heads : a # b => D[a] = C[a]
  BY <1>1 DEF Chained, Chains
<1>16. /\ Len(D[b]) = Len(c) + 1
       /\ \A i \in 1..(Len(c) + 1) :
            D[b][i] = IF i < p THEN c[i] ELSE IF i = p THEN e ELSE c[i - 1]
  <2>1. D[b] = InsertAt(c, p, e)
    BY <1>1, <1>2 DEF Chained, Chains
  <2>2. c \in Seq(Cells) /\ e \in Cells /\ p \in 1..(Len(c) + 1)
    BY <1>3, <1>4 DEF b
  <2>3. /\ Len(InsertAt(c, p, e)) = Len(c) + 1
        /\ \A i \in 1..(Len(c) + 1) :
             InsertAt(c, p, e)[i] = IF i < p THEN c[i] ELSE IF i = p THEN e ELSE c[i - 1]
    <3> HIDE DEF c, D
    <3> QED BY ONLY <2>2, InsertAtIs
  <2> HIDE DEF D
  <2> QED BY <1>3, <2>1, <2>3
<1> HIDE DEF D
<1>17. ListsSame(h, C, g, D)
  BY <1>2, <1>12, <1>15 DEF ListsSame, Heads
<1>18. ASSUME NEW a \in Bins, NEW i \in 1..Len(C[a])
       PROVE  /\ g[C[a][i]].data = h[C[a][i]].data
              /\ h[C[a][i]].data \in Nat /\ ht_hash[h[C[a][i]].data] = a
  <2>1. /\ C[a][i] \in EntryBlocks /\ h[C[a][i]].kind = "entry"
        /\ h[C[a][i]].data \in Nat /\ ht_hash[h[C[a][i]].data] = a
    BY BinCells
  <2>2. C[a][i] \in Blocks \ {e}
    BY <2>1, Pools DEF Cells
  <2> QED BY <2>1, <2>2, <1>11
<1>19. ASSUME NEW a \in Bins, a # b, NEW i \in 1..Len(D[a])
       PROVE  /\ ht_hash[g[D[a][i]].data] = a
              /\ \A j \in 1..Len(D[a]) : i < j => g[D[a][i]].data < g[D[a][j]].data
  <2>1. D[a] = C[a]
    BY <1>15, <1>19 DEF Heads
  <2> QED BY <2>1, <1>1, <1>18 DEF Keyed
<1> DEFINE key(i) == IF i < p THEN h[c[i]].data ELSE IF i = p THEN k ELSE h[c[i - 1]].data
<1>k. k \in Nat /\ ht_hash[k] = b
  BY TablesAssumption DEF b
<1>o. /\ p \in 1..(Len(c) + 1)
      /\ \A j \in 1..Len(c) : IF j < p THEN h[c[j]].data < k ELSE k < h[c[j]].data
  BY DEF b
<1>20. ASSUME NEW i \in 1..(Len(c) + 1)
       PROVE  /\ g[D[b][i]].data = key(i) /\ key(i) \in Nat /\ ht_hash[key(i)] = b
              /\ i < p => i \in 1..Len(c)
              /\ i > p => i - 1 \in 1..Len(c)
  <2>1. (i < p => i \in 1..Len(c)) /\ (i > p => i - 1 \in 1..Len(c))
    BY <1>3, <1>o
  <2>2. CASE i < p
    <3>1. D[b][i] = c[i] /\ i \in 1..Len(c)
      BY <2>1, <2>2, <1>16
    <3> QED BY <3>1, <2>1, <2>2, <1>2, <1>18
  <2>3. CASE i = p
    <3>1. D[b][i] = e
      BY <2>3, <1>16, <1>o
    <3> QED BY <3>1, <2>1, <2>3, <1>11, <1>k
  <2>4. CASE i > p
    <3>1. D[b][i] = c[i - 1] /\ i - 1 \in 1..Len(c) /\ ~(i < p) /\ i # p
      BY <2>1, <2>4, <1>16, <1>o
    <3>2. key(i) = h[c[i - 1]].data
      BY <3>1
    <3> HIDE DEF key
    <3> QED BY <3>1, <3>2, <2>1, <1>2, <1>18
  <2>5. i < p \/ i = p \/ i > p
    BY <1>o
  <2> QED BY <2>2, <2>3, <2>4, <2>5
<1>21. ASSUME NEW i \in 1..(Len(c) + 1), NEW j \in 1..(Len(c) + 1), i < j
       PROVE  key(i) < key(j)
  <2>1. \A x, y \in 1..Len(c) : x < y => h[c[x]].data < h[c[y]].data
    BY <1>1, <1>2 DEF Keyed
  <2>2. \A x \in 1..Len(c) : h[c[x]].data \in Nat
    BY <1>2, <1>18
  <2>3. CASE j < p
    <3>1. i \in 1..Len(c) /\ j \in 1..Len(c) /\ i < p
      BY <2>3, <1>3, <1>o, <1>21
    <3> QED BY <3>1, <2>1, <2>3, <1>21
  <2>4. CASE j = p
    <3>1. i \in 1..Len(c) /\ i < p
      BY <2>4, <1>3, <1>o, <1>21
    <3>2. h[c[i]].data < k
      BY <3>1, <1>o
    <3>3. key(i) = h[c[i]].data /\ key(j) = k
      BY <3>1, <2>4, <1>o
    <3> HIDE DEF key
    <3> QED BY <3>2, <3>3
  <2>5. CASE j > p
    <3>1. j - 1 \in 1..Len(c) /\ ~(j < p) /\ j # p /\ ~(j - 1 < p)
      BY <2>5, <1>3, <1>o
    <3>2. key(j) = h[c[j - 1]].data
      BY <3>1
    <3>3. k < h[c[j - 1]].data
      BY <3>1, <1>o
    <3>4. CASE i < p
      <4>1. i \in 1..Len(c) /\ key(i) = h[c[i]].data
        BY <3>4, <1>20
      <4>2. h[c[i]].data < k
        BY <3>4, <4>1, <1>o
      <4>3. h[c[i]].data \in Nat /\ h[c[j - 1]].data \in Nat /\ k \in Nat
        BY <3>1, <4>1, <2>2, <1>k
      <4>4. h[c[i]].data < h[c[j - 1]].data
        BY <3>3, <4>2, <4>3
      <4> HIDE DEF key
      <4> QED BY <3>2, <4>1, <4>4
    <3>5. CASE i = p
      <4>1. key(i) = k
        BY <3>5, <1>o
      <4> HIDE DEF key
      <4> QED BY <3>2, <3>3, <4>1
    <3>6. CASE i > p
      <4>1. i - 1 \in 1..Len(c) /\ ~(i < p) /\ i # p /\ i - 1 < j - 1
        BY <3>6, <1>3, <1>o, <1>21
      <4>2. key(i) = h[c[i - 1]].data
        BY <4>1
      <4> HIDE DEF key
      <4> QED BY <3>1, <3>2, <4>1, <4>2, <2>1
    <3>7. i < p \/ i = p \/ i > p
      BY <1>o
    <3> QED BY <3>4, <3>5, <3>6, <3>7
  <2>6. j < p \/ j = p \/ j > p
    BY <1>o
  <2> QED BY <2>3, <2>4, <2>5, <2>6
<1>22. Keyed(g, D)
  <2> HIDE DEF key
  <2>1. ASSUME NEW i \in 1..Len(D[b])
        PROVE  /\ ht_hash[g[D[b][i]].data] = b
               /\ \A j \in 1..Len(D[b]) : i < j => g[D[b][i]].data < g[D[b][j]].data
    BY <1>16, <1>20, <1>21
  <2> QED BY <2>1, <1>19 DEF Keyed
<1>23. Shape(g, D)
  BY <1>13, <1>14, <1>22 DEF Shape
<1>24. LinkEntry(h, C, k, e, n, p) = g
  BY DEF LinkEntry, g, h2, h1, r, q, last, b
<1>25. EntryPut(h, g, e, k, n)
  BY <1>11 DEF EntryPut, OthersSame
<1> QED BY <1>17, <1>23, <1>24, <1>25 DEF D, b

\* The heap without the entry at position p of bin b.
CutEntry(h, C, b, p) ==
  [free(h, {C[b][p]}) EXCEPT ![CellBefore(C, b, p)].next = h[C[b][p]].next]

LEMMA EntryOut ==
  ASSUME NEW h, NEW C, Shape(h, C), NEW b \in Bins, h[b].kind = "bin", NEW p \in 1..Len(C[b])
  PROVE  LET e == C[b][p]
             g == CutEntry(h, C, b, p)
             D == [C EXCEPT ![b] = RemoveAt(C[b], p)]
         IN /\ Shape(g, D) /\ ListsSame(h, C, g, D)
            /\ EntryGone(h, g, e)
<1> DEFINE c == C[b]
           last == CellBefore(C, b, p)
           e == C[b][p]
           q == h[e].next
           h1 == free(h, {e})
           g == [h1 EXCEPT ![last].next = q]
           D == [C EXCEPT ![b] = RemoveAt(c, p)]
<1>1. h \in Heap /\ Typed(h) /\ Chained(h, C) /\ Keyed(h, C)
  BY DEF Shape, Typed
<1>2. b \in Heads /\ b \in Blocks /\ b \notin ListBlocks /\ h[b].kind # "free"
  BY Pools DEF Heads
<1>3. c \in Seq(Cells) /\ Len(c) \in Nat /\ p \in 1..(Len(c) + 1)
  BY <1>1, <1>2, ChainTypes
<1>4. /\ e \in EntryBlocks /\ e \in Blocks /\ e \in Cells /\ e \notin Heads /\ e \notin NodeBlocks
  BY BinCells, Pools DEF Cells
<1>5. /\ last \in Blocks /\ last # e
      /\ last \notin ListBlocks /\ last \notin NodeBlocks
  <2>1. last \in Blocks /\ last # e
    BY <1>1, <1>2, <1>3, LastIs
  <2>2. CASE p = 1
    BY <2>1, <2>2, <1>2, Pools DEF CellBefore, Cells
  <2>3. CASE p # 1
    <3>1. p - 1 \in 1..Len(c)
      BY <2>3, <1>3
    <3>2. last \in EntryBlocks
      BY <2>3, <3>1, <1>2, BinCells DEF CellBefore
    <3> QED BY <2>1, <3>2, Pools DEF Heads, Cells
  <2> QED BY <2>2, <2>3
<1>6. q \in Pointers
  BY <1>1, <1>4, HeapFields
<1> HIDE DEF last, q, e
<1>7. h1 \in Heap /\ \A x \in Blocks : h1[x] = IF x = e THEN Freed ELSE h[x]
  <2>1. h1 \in Heap /\ \A x \in Blocks : h1[x] = IF x \in {e} THEN Freed ELSE h[x]
    BY <1>1, FreeIs
  <2> QED BY <2>1
<1> HIDE DEF h1
<1>8. /\ g \in Heap
      /\ \A x \in Blocks :
           /\ x # last => g[x] = h1[x]
           /\ g[x].next = IF x = last THEN q ELSE h1[x].next
           /\ g[x].kind = h1[x].kind /\ g[x].data = h1[x].data /\ g[x].value = h1[x].value
  BY <1>5, <1>6, <1>7, PutNext
<1> HIDE DEF g
<1>9. /\ \A x \in Blocks \ {e, last} : g[x] = h[x]
      /\ \A x \in Blocks \ {e} :
           g[x].kind = h[x].kind /\ g[x].data = h[x].data /\ g[x].value = h[x].value
      /\ g[e].kind = "free" /\ g[e].value = NULL /\ g[e].next = NULL
      /\ g[last].next = q
  BY <1>4, <1>5, <1>7, <1>8, FreedIs
<1>10. \A x \in ListBlocks \cup NodeBlocks : g[x] = h[x]
  BY <1>4, <1>5, <1>9, Pools DEF Heads, Cells
<1>11. Typed(g)
  <2>1. \A x \in EntryBlocks :
          /\ g[x].kind \in {"free", "entry"}
          /\ g[x].kind = "free" => g[x].value = NULL
          /\ g[x].kind = "entry" => g[x].data \in Keys /\ g[x].value \in ListBlocks
    <3>1. \A x \in EntryBlocks : x = e \/ x \in Blocks \ {e}
      BY Pools DEF Cells
    <3> QED BY <3>1, <1>1, <1>9 DEF Typed
  <2>2. \A x \in Bins : g[x].kind \in {"free", "bin"} /\ g[x].value = NULL
    <3>1. \A x \in Bins : x \in Blocks \ {e}
      BY <1>4, Pools DEF Heads
    <3> QED BY <3>1, <1>1, <1>9 DEF Typed
  <2> QED BY <1>1, <1>8, <1>10, <2>1, <2>2 DEF Typed
<1>12. Chained(g, D)
  <2>1. \A l \in ListBlocks : g[l].data = IF l = b THEN h[l].data - 1 ELSE h[l].data
    BY <1>2, <1>10
  <2>2. CutOut(h, g, C, b, p)
    BY <1>9, <2>1 DEF CutOut, last, e, q
  <2> QED BY <1>1, <1>2, <2>2, CellOut
<1>13. \A a \in Heads : a # b => D[a] = C[a]
  BY <1>1 DEF Chained, Chains
<1>14. /\ Len(D[b]) = Len(c) - 1
       /\ \A i \in 1..(Len(c) - 1) : D[b][i] = IF i < p THEN c[i] ELSE c[i + 1]
  <2>1. D[b] = RemoveAt(c, p)
    BY <1>1, <1>2 DEF Chained, Chains
  <2>2. c \in Seq(Cells) /\ p \in 1..Len(c)
    BY <1>3
  <2>3. /\ Len(RemoveAt(c, p)) = Len(c) - 1
        /\ \A i \in 1..(Len(c) - 1) :
             RemoveAt(c, p)[i] = IF i < p THEN c[i] ELSE c[i + 1]
    <3> HIDE DEF c, D
    <3> QED BY ONLY <2>2, RemoveAtIs
  <2> HIDE DEF D
  <2> QED BY <1>3, <2>1, <2>3
<1> HIDE DEF D
<1>15. ListsSame(h, C, g, D)
  BY <1>2, <1>10, <1>13 DEF ListsSame, Heads
<1>16. ASSUME NEW a \in Bins, NEW i \in 1..Len(C[a]), ~(a = b /\ i = p)
       PROVE  g[C[a][i]].data = h[C[a][i]].data
  <2>1. C[a][i] \in Blocks
    BY <1>1, ChainTypes DEF Heads
  <2>2. C[a][i] # e
    BY <1>1, <1>2, <1>16 DEF Chained, Disjoint, e, Heads
  <2> QED BY <2>1, <2>2, <1>9
<1>17. Keyed(g, D)
  <2>1. ASSUME NEW a \in Bins, a # b, NEW i \in 1..Len(D[a])
        PROVE  /\ ht_hash[g[D[a][i]].data] = a
               /\ \A j \in 1..Len(D[a]) : i < j => g[D[a][i]].data < g[D[a][j]].data
    <3>1. D[a] = C[a]
      BY <2>1, <1>13 DEF Heads
    <3> QED BY <3>1, <2>1, <1>1, <1>16 DEF Keyed
  <2>2. ASSUME NEW i \in 1..(Len(c) - 1)
        PROVE  \E m \in 1..Len(c) :
                 /\ D[b][i] = c[m] /\ m # p /\ m = IF i < p THEN i ELSE i + 1
                 /\ g[D[b][i]].data = h[c[m]].data
    <3> DEFINE m == IF i < p THEN i ELSE i + 1
    <3>1. m \in 1..Len(c) /\ m # p
      BY <1>3
    <3>2. D[b][i] = c[m]
      BY <1>14
    <3> HIDE DEF m
    <3>3. g[c[m]].data = h[c[m]].data
      BY <3>1, <1>16
    <3> QED BY <3>1, <3>2, <3>3 DEF m
  <2>3. ASSUME NEW i \in 1..(Len(c) - 1)
        PROVE  /\ ht_hash[g[D[b][i]].data] = b
               /\ \A j \in 1..(Len(c) - 1) : i < j => g[D[b][i]].data < g[D[b][j]].data
    <3>1. PICK m \in 1..Len(c) : /\ m = IF i < p THEN i ELSE i + 1
                                 /\ g[D[b][i]].data = h[c[m]].data
      BY <2>2
    <3>2. ht_hash[h[c[m]].data] = b
      BY <1>1 DEF Keyed
    <3>3. ASSUME NEW j \in 1..(Len(c) - 1), i < j
          PROVE  g[D[b][i]].data < g[D[b][j]].data
      <4>1. PICK o \in 1..Len(c) : /\ o = IF j < p THEN j ELSE j + 1
                                   /\ g[D[b][j]].data = h[c[o]].data
        BY <2>2
      <4>2. m < o
        BY <3>1, <3>3, <4>1, <1>3
      <4>3. h[c[m]].data < h[c[o]].data
        BY <4>2, <1>1 DEF Keyed
      <4> QED BY <3>1, <4>1, <4>3
    <3> QED BY <3>1, <3>2, <3>3
  <2> QED BY <2>1, <2>3, <1>14 DEF Keyed
<1>18. Shape(g, D)
  BY <1>11, <1>12, <1>17 DEF Shape
<1>19. CutEntry(h, C, b, p) = g
  BY DEF CutEntry, g, h1, q, last, e
<1>20. EntryGone(h, g, e)
  BY <1>9 DEF EntryGone, OthersSame
<1> QED BY <1>15, <1>18, <1>19, <1>20 DEF D, e

-----------------------------------------------------------------------------
(* The operations on the table                                             *)

\* Entries that keep their keys and values; bins that stay what they are.
Keeps(h, g, es) == \A f \in es : g[f].data = h[f].data /\ g[f].value = h[f].value
BinsSame(h, g)  == \A b \in Bins : g[b].kind = h[b].kind

LEMMA ValueStep ==
  ASSUME NEW h, NEW C, Shape(h, C), NEW e \in Entries(h), NEW n \in ListBlocks
  PROVE  LET g == [h EXCEPT ![e].value = n]
         IN /\ Shape(g, C) /\ ListsSame(h, C, g, C) /\ BinsSame(h, g)
            /\ Entries(g) = Entries(h) /\ Keeps(h, g, Entries(h) \ {e})
            /\ g[e].data = h[e].data /\ g[e].value = n
<1> DEFINE g == [h EXCEPT ![e].value = n]
<1>1. h \in Heap /\ Typed(h) /\ Chained(h, C) /\ Keyed(h, C)
  BY DEF Shape, Typed
<1>2. /\ e \in EntryBlocks /\ e \in Blocks /\ h[e].kind = "entry"
      /\ e \notin NodeBlocks /\ e \notin Heads /\ n \in Pointers
  BY Pools DEF Entries, Cells, Heads, Pointers
<1>3. /\ g \in Heap
      /\ \A x \in Blocks :
           /\ x # e => g[x] = h[x]
           /\ g[x].value = IF x = e THEN n ELSE h[x].value
           /\ g[x].kind = h[x].kind /\ g[x].data = h[x].data /\ g[x].next = h[x].next
  BY <1>1, <1>2, PutValue
<1> HIDE DEF g
<1>4. \A x \in ListBlocks \cup NodeBlocks \cup Bins : x \in Blocks /\ x # e /\ g[x] = h[x]
  BY <1>2, <1>3, Pools DEF Heads, Cells
<1>5. \A x \in EntryBlocks : x \in Blocks
  BY Pools DEF Cells
<1>6. Typed(g)
  BY <1>1, <1>2, <1>3, <1>4, <1>5 DEF Typed
<1>7. Chained(g, C)
  <2>1. \A b \in Heads : b \in Blocks /\ \A i \in 1..Len(C[b]) : C[b][i] \in Blocks
    BY <1>1, ChainTypes, Pools
  <2>2. Linked(g, C)
    BY <1>1, <1>3, <2>1 DEF Chained, Linked
  <2>3. Sized(g, C)
    BY <1>1, <1>3, <2>1 DEF Chained, Sized, Heads
  <2>4. Covered(g, C)
    BY <1>1, <1>3, Pools DEF Chained, Covered
  <2> QED BY <1>1, <2>2, <2>3, <2>4 DEF Chained
<1>8. Keyed(g, C)
  <2>1. \A b \in Bins : \A i \in 1..Len(C[b]) : g[C[b][i]].data = h[C[b][i]].data
    BY <1>1, <1>3, ChainTypes DEF Heads
  <2> QED BY <2>1, <1>1 DEF Keyed
<1>9. ListsSame(h, C, g, C) /\ BinsSame(h, g)
  BY <1>4 DEF ListsSame, BinsSame
<1>10. /\ Entries(g) = Entries(h) /\ Keeps(h, g, Entries(h) \ {e})
       /\ g[e].data = h[e].data /\ g[e].value = n
  BY <1>2, <1>3, <1>5 DEF Entries, Keeps
<1> QED BY <1>6, <1>7, <1>8, <1>9, <1>10 DEF Shape, g

\* An operation on lists leaves entries and bins what they are.
LEMMA ElsewhereSame ==
  ASSUME NEW h, NEW C, NEW g, NEW D, Elsewhere(h, C, g, D)
  PROVE  Entries(g) = Entries(h) /\ Keeps(h, g, Entries(h)) /\ BinsSame(h, g)
BY DEF Elsewhere, Entries, Keeps, BinsSame

\* ht_set with a key that is not there: a copy of the list, in an entry of its own.
LEMMA SetNewStep ==
  ASSUME NEW h, NEW C, Shape(h, C), NEW k \in Keys, h[ht_hash[k]].kind = "bin",
         ~ \E e : Entry(h, e, k), NEW ll \in InUse(h),
         Unused(h, ListBlocks) # {}, Unused(h, EntryBlocks) # {},
         Cardinality(Unused(h, NodeBlocks)) >= h[ll].data
  PROVE  LET n == malloc(h, ListBlocks)
             e == malloc(h, EntryBlocks)
             g == ht_set(h, k, ll)
         IN /\ n \in ListBlocks \ InUse(h) /\ e \in EntryBlocks \ Entries(h)
            /\ \E D : /\ Shape(g, D) /\ BinsSame(h, g)
                      /\ InUse(g) = InUse(h) \cup {n}
                      /\ Entries(g) = Entries(h) \cup {e} /\ Keeps(h, g, Entries(h))
                      /\ g[e].data = k /\ g[e].value = n
                      /\ \A l \in ListBlocks :
                           Text(g, D, l) = IF l = n THEN Text(h, C, ll) ELSE Text(h, C, l)
<1> DEFINE n == malloc(h, ListBlocks)
           e == malloc(h, EntryBlocks)
           g == ht_set(h, k, ll)
           b == ht_hash[k]
           f == ll_copy(h, ll)
<1>1. Typed(h) /\ Chained(h, C) /\ b \in Bins /\ b \in Heads
  BY TablesAssumption DEF Shape, Heads
<1>2. e \in EntryBlocks /\ h[e].kind = "free" /\ e \notin Entries(h)
  <2>1. e \in EntryBlocks /\ h[e].kind = "free"
    BY MallocIs
  <2> QED BY <2>1 DEF Entries
<1>3. n \in ListBlocks \ InUse(h)
  BY CopyStep
<1>4. PICK D : /\ Shape(f, D) /\ Elsewhere(h, C, f, D)
               /\ InUse(f) = InUse(h) \cup {n}
               /\ \A l \in ListBlocks :
                    Text(f, D, l) = IF l = n THEN Text(h, C, ll) ELSE Text(h, C, l)
  BY CopyStep
<1>5. PICK p \in 1..(Len(C[b]) + 1) : Before(h, k) = CellBefore(C, b, p) /\ Stops(h, C, k, p)
  BY WalkIs
<1>6. entry_for_key(h, k) = NULL
  BY GetIs
<1> DEFINE last == CellBefore(D, b, p)
           k1 == [[[f EXCEPT ![e] = Block("entry", k, n, NULL)]
                     EXCEPT ![e].next = f[last].next] EXCEPT ![last].next = e]
<1>7. D[b] = C[b] /\ \A x \in EntryBlocks \cup Bins : f[x] = h[x]
  BY <1>1, <1>4 DEF Elsewhere
<1>8. last = Before(h, k) /\ f[last] = h[last]
  <2>1. last = Before(h, k)
    BY <1>5, <1>7 DEF CellBefore
  <2>0. last = CellBefore(C, b, p)
    BY <1>7 DEF CellBefore
  <2> HIDE DEF last, f, b
  <2>2. CASE p = 1
    <3>1. last = b
      BY <2>0, <2>2 DEF CellBefore
    <3> QED BY <3>1, <1>1, <1>7, <2>1
  <2>3. CASE p # 1
    <3>1. p - 1 \in 1..Len(C[b])
      BY <2>3, <1>1, ChainTypes
    <3>2. C[b][p - 1] \in EntryBlocks
      BY <3>1, <1>1, BinCells
    <3>3. last = C[b][p - 1]
      BY <2>0, <2>3 DEF CellBefore
    <3> QED BY <3>2, <3>3, <1>7, <2>1
  <2> QED BY <2>1, <2>2, <2>3
<1>9. g = k1
  <2>1. g = [ht_newpair(h, k, ll) EXCEPT ![e].next = h[Before(h, k)].next,
                                         ![Before(h, k)].next = e]
    BY <1>6 DEF ht_set
  <2>2. ht_newpair(h, k, ll) = [f EXCEPT ![e] = Block("entry", k, n, NULL)]
    BY DEF ht_newpair
  <2> HIDE DEF g, e, n, f, last
  <2> QED BY <2>1, <2>2, <1>8
<1>10. /\ Shape(f, D) /\ f[ht_hash[k]].kind = "bin" /\ e \in EntryBlocks /\ f[e].kind = "free"
       /\ n \in ListBlocks /\ p \in 1..(Len(D[ht_hash[k]]) + 1)
       /\ \A j \in 1..Len(D[ht_hash[k]]) :
            IF j < p THEN f[D[ht_hash[k]][j]].data < k ELSE k < f[D[ht_hash[k]][j]].data
  <2>1. \A j \in 1..Len(C[b]) : f[C[b][j]] = h[C[b][j]]
    BY <1>1, <1>7, BinCells
  <2>2. \A j \in 1..Len(C[b]) : IF j < p THEN h[C[b][j]].data < k ELSE k < h[C[b][j]].data
    <3>1. /\ \A j \in 1..Len(C[b]) : /\ j < p => h[C[b][j]].data < k
                                     /\ j > p => k < h[C[b][j]].data
          /\ \A j \in 1..Len(C[b]) : j = p => k < h[C[b][j]].data
      BY <1>5 DEF Stops
    <3>2. \A j \in 1..Len(C[b]) : j < p \/ j = p \/ j > p
      BY <1>5
    <3> HIDE DEF b
    <3> QED BY <3>1, <3>2
  <2> QED BY <2>1, <2>2, <1>1, <1>2, <1>3, <1>4, <1>5, <1>7
<1> HIDE DEF n, e, f
<1> DEFINE m == LinkEntry(f, D, k, e, n, p)
           M == [D EXCEPT ![ht_hash[k]] = InsertAt(D[ht_hash[k]], p, e)]
<1>11. Shape(m, M)
  BY ONLY <1>10, k \in Keys, EntryIn
<1>12. ListsSame(f, D, m, M)
  BY ONLY <1>10, k \in Keys, EntryIn
<1>13. EntryPut(f, m, e, k, n)
  BY ONLY <1>10, k \in Keys, EntryIn
<1>15. g = m
  BY <1>9 DEF LinkEntry
<1> HIDE DEF m, M, g, k1
<1>14. /\ \A x \in Blocks \ {e} :
            m[x].kind = f[x].kind /\ m[x].data = f[x].data /\ m[x].value = f[x].value
       /\ m[e].kind = "entry" /\ m[e].data = k /\ m[e].value = n
  BY <1>13 DEF EntryPut, OthersSame
<1>16. /\ InUse(g) = InUse(h) \cup {n}
       /\ \A l \in ListBlocks :
            Text(g, M, l) = IF l = n THEN Text(h, C, ll) ELSE Text(h, C, l)
  BY <1>4, <1>12, <1>15, ListsSameText
<1>17. BinsSame(h, g)
  <2>1. \A x \in Bins : x \in Blocks \ {e}
    BY <1>2, Pools DEF Heads, Cells
  <2> QED BY <2>1, <1>7, <1>14, <1>15 DEF BinsSame
<1>18. Entries(g) = Entries(h) \cup {e} /\ Keeps(h, g, Entries(h))
  <2>1. \A x \in EntryBlocks : x = e \/ x \in Blocks \ {e}
    BY Pools DEF Cells
  <2> QED BY <2>1, <1>2, <1>7, <1>14, <1>15 DEF Entries, Keeps
<1>19. g[e].data = k /\ g[e].value = n
  BY <1>14, <1>15
<1>20. Shape(g, M)
  BY <1>11, <1>15
<1> QED BY <1>2, <1>3, <1>16, <1>17, <1>18, <1>19, <1>20 DEF n, e, g

\* ht_set with a key that is there: the old list is freed, the copy takes its place.
LEMMA SetOldStep ==
  ASSUME NEW h, NEW C, Shape(h, C), NEW k \in Keys, h[ht_hash[k]].kind = "bin",
         NEW e, Entry(h, e, k), h[e].value \in InUse(h),
         NEW ll \in InUse(h), ll # h[e].value,
         Cardinality(Unused(h, NodeBlocks)) >= h[ll].data
  PROVE  LET g == ht_set(h, k, ll)
         IN \E n \in ListBlocks : \E D :
              /\ n \notin InUse(h) \ {h[e].value}
              /\ Shape(g, D) /\ BinsSame(h, g)
              /\ InUse(g) = (InUse(h) \ {h[e].value}) \cup {n}
              /\ Entries(g) = Entries(h) /\ Keeps(h, g, Entries(h) \ {e})
              /\ g[e].data = k /\ g[e].value = n
              /\ Text(g, D, n) = Text(h, C, ll)
              /\ \A l \in InUse(h) : l # h[e].value => Text(g, D, l) = Text(h, C, l)
<1> DEFINE v == h[e].value
           g == ht_set(h, k, ll)
           kept == ll_free(h, v)
           K == Emptied(C, {v})
           n == malloc(kept, ListBlocks)
           f == ll_copy(kept, ll)
<1>1. Typed(h) /\ Chained(h, C) /\ e \in Entries(h) /\ h[e].data = k
  BY DEF Shape, Entry, Entries
<1>2. entry_for_key(h, k) = e /\ e # NULL
  <2>1. e \in EntryBlocks
    BY DEF Entry
  <2> QED BY <2>1, GetIs, Pools DEF Cells
<1>3. g = [f EXCEPT ![e].value = n]
  BY <1>2 DEF ht_set
<1>4. /\ Shape(kept, K) /\ Elsewhere(h, C, kept, K)
      /\ InUse(kept) = InUse(h) \ {v}
      /\ Unused(h, NodeBlocks) \subseteq Unused(kept, NodeBlocks)
      /\ \A l \in ListBlocks : Text(kept, K, l) = IF l = v THEN <<>> ELSE Text(h, C, l)
  <2>1. Shape(h, C) /\ v \in InUse(h)
    OBVIOUS
  <2> HIDE DEF v
  <2>2. Shape(ll_free(h, v), Emptied(C, {v})) /\ Elsewhere(h, C, ll_free(h, v), Emptied(C, {v}))
    BY ONLY <2>1, FreeStep
  <2>3. /\ InUse(ll_free(h, v)) = InUse(h) \ {v}
        /\ Unused(h, NodeBlocks) \subseteq Unused(ll_free(h, v), NodeBlocks)
    BY ONLY <2>1, FreeStep
  <2>4. Silenced(h, C, ll_free(h, v), Emptied(C, {v}), v)
    BY ONLY <2>1, FreeStep
  <2> QED BY ONLY <2>2, <2>3, <2>4 DEF kept, K, Silenced
<1> HIDE DEF kept, g, f
<1>5. ll \in InUse(kept) /\ v \in ListBlocks /\ ll \in ListBlocks
  BY <1>4 DEF InUse
<1>6. Unused(kept, ListBlocks) # {}
  <2>1. v \notin InUse(kept) /\ v \in ListBlocks
    BY <1>4, <1>5
  <2>2. kept[v].kind = "free"
    <3> HIDE DEF v
    <3> QED BY <2>1, <1>4 DEF InUse, Shape, Typed
  <2> QED BY <2>1, <2>2 DEF Unused
<1>7. Cardinality(Unused(kept, NodeBlocks)) >= kept[ll].data
  <2>1. kept[ll].data = h[ll].data /\ h[ll].data \in Nat
    <3>1. kept[ll].data = Len(Text(kept, K, ll))
      BY <1>4, <1>5, TextIs
    <3>2. h[ll].data = Len(Text(h, C, ll))
      BY <1>5, TextIs
    <3>3. Text(kept, K, ll) = Text(h, C, ll)
      BY <1>4, <1>5
    <3>4. h[ll].data \in Nat
      BY <1>1 DEF Typed, InUse
    <3> QED BY <3>1, <3>2, <3>3, <3>4
  <2>2. IsFiniteSet(Unused(kept, NodeBlocks))
    BY TablesAssumption, FS_Subset DEF Unused
  <2>3. /\ Cardinality(Unused(h, NodeBlocks)) <= Cardinality(Unused(kept, NodeBlocks))
        /\ Cardinality(Unused(h, NodeBlocks)) \in Nat
        /\ Cardinality(Unused(kept, NodeBlocks)) \in Nat
    BY <2>2, <1>4, FS_Subset, FS_CardinalityType
  <2> QED BY <2>1, <2>3
<1>8. /\ n \in ListBlocks \ InUse(kept)
      /\ \E D : /\ Shape(f, D) /\ Elsewhere(kept, K, f, D)
                /\ InUse(f) = InUse(kept) \cup {n}
                /\ \A l \in ListBlocks :
                     Text(f, D, l) = IF l = n THEN Text(kept, K, ll) ELSE Text(kept, K, l)
  <2>1. /\ Shape(kept, K) /\ ll \in InUse(kept) /\ Unused(kept, ListBlocks) # {}
        /\ Cardinality(Unused(kept, NodeBlocks)) >= kept[ll].data
    BY <1>4, <1>5, <1>6, <1>7
  <2> HIDE DEF K
  <2> QED BY ONLY <2>1, CopyStep DEF n, f
<1>9. PICK D : /\ Shape(f, D) /\ Elsewhere(kept, K, f, D)
               /\ InUse(f) = InUse(kept) \cup {n}
               /\ \A l \in ListBlocks :
                    Text(f, D, l) = IF l = n THEN Text(kept, K, ll) ELSE Text(kept, K, l)
  BY <1>8
<1> HIDE DEF n, K, v
<1>10. /\ Entries(kept) = Entries(h) /\ Keeps(h, kept, Entries(h)) /\ BinsSame(h, kept)
       /\ Entries(f) = Entries(kept) /\ Keeps(kept, f, Entries(kept)) /\ BinsSame(kept, f)
  BY <1>4, <1>9, ElsewhereSame
<1>11. n \in ListBlocks /\ e \in Entries(f)
  BY <1>1, <1>8, <1>10
<1> DEFINE m == [f EXCEPT ![e].value = n]
<1>12. /\ Shape(m, D) /\ ListsSame(f, D, m, D) /\ BinsSame(f, m)
       /\ Entries(m) = Entries(f) /\ Keeps(f, m, Entries(f) \ {e})
       /\ m[e].data = f[e].data /\ m[e].value = n
  BY ONLY <1>9, <1>11, ValueStep
<1>13. g = m
  BY <1>3 DEF n, v
<1> HIDE DEF m
<1>14. /\ InUse(g) = InUse(f)
       /\ \A l \in ListBlocks : Text(g, D, l) = Text(f, D, l)
  BY <1>9, <1>12, <1>13, ListsSameText
<1>15. BinsSame(h, g) /\ Entries(g) = Entries(h) /\ Keeps(h, g, Entries(h) \ {e})
  BY <1>10, <1>12, <1>13 DEF BinsSame, Keeps
<1>16. g[e].data = k /\ g[e].value = n
  BY <1>1, <1>10, <1>12, <1>13 DEF Keeps
<1>17. InUse(g) = (InUse(h) \ {v}) \cup {n} /\ n \notin InUse(h) \ {v}
  BY <1>4, <1>8, <1>9, <1>14
<1>18. Text(g, D, n) = Text(h, C, ll)
  <2>1. Text(f, D, n) = Text(kept, K, ll)
    BY <1>9, <1>11
  <2>2. Text(kept, K, ll) = Text(h, C, ll)
    BY <1>4, <1>5 DEF v
  <2> QED BY <2>1, <2>2, <1>11, <1>14
<1>19. ASSUME NEW l \in InUse(h), l # v PROVE Text(g, D, l) = Text(h, C, l)
  <2>1. l \in ListBlocks /\ l # n
    BY <1>17, <1>19 DEF InUse
  <2> QED BY <2>1, <1>4, <1>9, <1>14, <1>19
<1>20. Shape(g, D)
  BY <1>12, <1>13
<1> QED BY <1>11, <1>15, <1>16, <1>17, <1>18, <1>19, <1>20 DEF g, v

\* ht_remove: the list of the key is freed, with its entry.
LEMMA UnsetStep ==
  ASSUME NEW h, NEW C, Shape(h, C), NEW k \in Keys, h[ht_hash[k]].kind = "bin",
         NEW e, Entry(h, e, k), h[e].value \in InUse(h)
  PROVE  LET g == ht_remove(h, k)
         IN \E D : /\ Shape(g, D) /\ BinsSame(h, g)
                   /\ InUse(g) = InUse(h) \ {h[e].value}
                   /\ Entries(g) = Entries(h) \ {e} /\ Keeps(h, g, Entries(h) \ {e})
                   /\ \A l \in InUse(h) : l # h[e].value => Text(g, D, l) = Text(h, C, l)
<1> DEFINE v == h[e].value
           g == ht_remove(h, k)
           b == ht_hash[k]
           f == ll_free(h, v)
           D == Emptied(C, {v})
<1>1. Typed(h) /\ Chained(h, C) /\ e \in Entries(h) /\ h[e].data = k /\ b \in Bins /\ b \in Heads
  BY TablesAssumption DEF Shape, Entry, Entries, Heads
<1>2. e \in EntryBlocks /\ entry_for_key(h, k) = e /\ e # NULL
  <2>1. e \in EntryBlocks
    BY DEF Entry
  <2> QED BY <2>1, GetIs, Pools DEF Cells
<1>3. PICK p \in 1..(Len(C[b]) + 1) : Before(h, k) = CellBefore(C, b, p) /\ Stops(h, C, k, p)
  BY WalkIs
<1>4. p \in 1..Len(C[b]) /\ C[b][p] = e
  BY <1>2, <1>3 DEF Stops
<1>5. g = [free(f, {e}) EXCEPT ![CellBefore(C, b, p)].next = h[e].next]
  BY <1>2, <1>3 DEF ht_remove, free_ht_entry
<1>6. /\ Shape(f, D) /\ Elsewhere(h, C, f, D)
      /\ InUse(f) = InUse(h) \ {v}
      /\ \A l \in ListBlocks : Text(f, D, l) = IF l = v THEN <<>> ELSE Text(h, C, l)
  <2>1. Shape(h, C) /\ v \in InUse(h)
    OBVIOUS
  <2> HIDE DEF v
  <2>2. Shape(ll_free(h, v), Emptied(C, {v})) /\ Elsewhere(h, C, ll_free(h, v), Emptied(C, {v}))
    BY ONLY <2>1, FreeStep
  <2>3. InUse(ll_free(h, v)) = InUse(h) \ {v}
    BY ONLY <2>1, FreeStep
  <2>4. Silenced(h, C, ll_free(h, v), Emptied(C, {v}), v)
    BY ONLY <2>1, FreeStep
  <2> QED BY ONLY <2>2, <2>3, <2>4 DEF f, D, Silenced
<1> HIDE DEF f, D, g, v
<1>7. D[b] = C[b] /\ f[e] = h[e] /\ f[b] = h[b] /\ CellBefore(D, b, p) = CellBefore(C, b, p)
  BY <1>1, <1>2, <1>6 DEF Elsewhere, CellBefore
<1> HIDE DEF b
<1> DEFINE m == CutEntry(f, D, b, p)
           E == [D EXCEPT ![b] = RemoveAt(D[b], p)]
<1>8. /\ Shape(m, E) /\ ListsSame(f, D, m, E)
      /\ \A x \in Blocks \ {D[b][p]} :
           m[x].kind = f[x].kind /\ m[x].data = f[x].data /\ m[x].value = f[x].value
      /\ m[D[b][p]].kind = "free"
  <2>1. Shape(f, D) /\ b \in Bins /\ f[b].kind = "bin" /\ p \in 1..Len(D[b])
    BY <1>1, <1>4, <1>6, <1>7 DEF b
  <2>2. Shape(m, E)
    BY ONLY <2>1, EntryOut
  <2>3. ListsSame(f, D, m, E)
    BY ONLY <2>1, EntryOut
  <2>4. EntryGone(f, m, D[b][p])
    BY ONLY <2>1, EntryOut
  <2> HIDE DEF m, E
  <2> QED BY <2>2, <2>3, <2>4 DEF EntryGone, OthersSame
<1>9. g = m
  BY <1>4, <1>5, <1>7 DEF CutEntry
<1>10. D[b][p] = e
  BY <1>4, <1>7
<1> HIDE DEF m, E
<1>11. /\ InUse(g) = InUse(f)
       /\ \A l \in ListBlocks : Text(g, E, l) = Text(f, D, l)
  BY <1>6, <1>8, <1>9, ListsSameText
<1>12. Entries(f) = Entries(h) /\ Keeps(h, f, Entries(h)) /\ BinsSame(h, f)
  BY <1>6, ElsewhereSame
<1>13. BinsSame(h, g)
  <2>1. \A x \in Bins : x \in Blocks \ {e}
    BY <1>2, Pools DEF Heads, Cells
  <2> QED BY <2>1, <1>8, <1>9, <1>10, <1>12 DEF BinsSame
<1>14. Entries(g) = Entries(h) \ {e} /\ Keeps(h, g, Entries(h) \ {e})
  <2>1. \A x \in EntryBlocks : x = e \/ x \in Blocks \ {e}
    BY Pools DEF Cells
  <2>2. \A x \in EntryBlocks : f[x] = h[x]
    BY <1>6 DEF Elsewhere
  <2> QED BY <2>1, <2>2, <1>2, <1>8, <1>9, <1>10 DEF Entries, Keeps
<1>15. ASSUME NEW l \in InUse(h), l # v PROVE Text(g, E, l) = Text(h, C, l)
  <2>1. l \in ListBlocks
    BY DEF InUse
  <2> QED BY <2>1, <1>6, <1>11, <1>15
<1>16. Shape(g, E) /\ InUse(g) = InUse(h) \ {v}
  BY <1>6, <1>8, <1>9, <1>11
<1> QED BY <1>13, <1>14, <1>15, <1>16 DEF g, v

LEMMA TableCreateStep ==
  ASSUME NEW h, NEW C, Shape(h, C), \A b \in Bins : h[b].kind = "free"
  PROVE  LET g == ht_create(h)
         IN /\ Shape(g, C) /\ ListsSame(h, C, g, C)
            /\ \A b \in Bins : g[b].kind = "bin"
            /\ Entries(g) = Entries(h) /\ Keeps(h, g, Entries(h))
<1> DEFINE g == ht_create(h)
           r == Block("bin", NULL, NULL, NULL)
<1>1. h \in Heap /\ Typed(h) /\ Chained(h, C) /\ Keyed(h, C)
  BY DEF Shape, Typed
<1>2. /\ r \in Fields
      /\ r.kind = "bin" /\ r.value = NULL /\ r.next = NULL
  <2>1. "bin" \in Kinds /\ NULL \in Data /\ NULL \in Pointers
    BY DEF Kinds, Data, Pointers
  <2> QED BY <2>1, BlockIs
<1> HIDE DEF r
<1>3. g \in Heap /\ \A x \in Blocks : g[x] = IF x \in Bins THEN r ELSE h[x]
  <2>1. g = [b \in Blocks |-> IF b \in Bins THEN r ELSE h[b]]
    BY DEF ht_create, r
  <2>2. \A x \in Blocks : h[x] \in Fields
    BY <1>1, HeapFields
  <2> HIDE DEF g
  <2> QED BY <1>2, <2>1, <2>2 DEF Heap
<1> HIDE DEF g
<1>4. /\ \A x \in ListBlocks \cup NodeBlocks \cup EntryBlocks : x \in Blocks /\ g[x] = h[x]
      /\ \A b \in Bins : b \in Blocks /\ b \in Heads /\ g[b] = r
  BY <1>3, Pools DEF Heads, Cells
<1>5. Typed(g)
  BY <1>1, <1>2, <1>3, <1>4 DEF Typed
<1>6. \A b \in Bins : C[b] = <<>> /\ h[b].next = NULL
  <2>1. \A b \in Bins : C[b] = <<>> /\ h[b].next = Nth(C[b], 1)
    BY <1>1, <1>4 DEF Chained, Sized, Linked
  <2>2. Nth(<<>>, 1) = NULL
    BY DEF Nth
  <2> QED BY <2>1, <2>2
<1>7. Chained(g, C)
  <2>1. \A b \in Heads : g[b].next = h[b].next
    BY <1>2, <1>4, <1>6 DEF Heads
  <2>2. \A x \in Cells : g[x] = h[x]
    BY <1>4 DEF Cells
  <2>3. \A b \in Heads : \A i \in 1..Len(C[b]) : g[C[b][i]] = h[C[b][i]]
    BY <1>1, <2>2, ChainTypes
  <2>4. Linked(g, C)
    <3>1. Linked(h, C)
      BY <1>1 DEF Chained
    <3> QED BY <2>1, <2>3, <3>1 DEF Linked
  <2>5. Sized(g, C)
    <3>1. Sized(h, C)
      BY <1>1 DEF Chained
    <3>2. \A b \in ListBlocks : g[b] = h[b]
      BY <1>4
    <3> QED BY <3>1, <3>2, <1>6 DEF Sized, Heads
  <2>6. Covered(g, C)
    <3>1. Covered(h, C)
      BY <1>1 DEF Chained
    <3> QED BY <2>2, <3>1 DEF Covered
  <2> QED BY <1>1, <2>4, <2>5, <2>6 DEF Chained
<1>8. Keyed(g, C)
  <2>1. \A b \in Bins : \A i \in 1..Len(C[b]) : FALSE
    BY <1>6
  <2> QED BY <2>1 DEF Keyed
<1>9. ListsSame(h, C, g, C)
  BY <1>4 DEF ListsSame
<1>10. Entries(g) = Entries(h) /\ Keeps(h, g, Entries(h))
  BY <1>4 DEF Entries, Keeps
<1> QED BY <1>2, <1>4, <1>5, <1>7, <1>8, <1>9, <1>10 DEF Shape, g

\* ht_free: the bins, their entries, and the lists of these.
LEMMA TableFreeStep ==
  ASSUME NEW h, NEW C, Shape(h, C), \A e \in Entries(h) : h[e].value \in InUse(h)
  PROVE  LET g == ht_free(h)
             lists == {h[e].value : e \in Entries(h)}
         IN \E D : /\ Shape(g, D) /\ \A b \in Bins : g[b].kind = "free"
                   /\ InUse(g) = InUse(h) \ lists /\ Entries(g) = {}
                   /\ \A l \in InUse(h) \ lists : Text(g, D, l) = Text(h, C, l)
<1> DEFINE g == ht_free(h)
           lists == {h[e].value : e \in Entries(h)}
           S == Bins \cup Entries(h) \cup lists \cup UNION {ToSet(Chain(h, l)) : l \in lists}
           B == Bins \cup lists
           D == Emptied(C, B)
           X == Whole(C, B)
<1>1. Typed(h) /\ Chained(h, C)
  BY DEF Shape
<1>2. lists \subseteq ListBlocks /\ B \in SUBSET Heads
  BY DEF InUse, Heads
<1>4. ASSUME NEW l \in lists
      PROVE  ToSet(Chain(h, l)) = {x \in Cells : \E i \in 1..Len(C[l]) : x = C[l][i]}
  <2>1. l \in Heads
    BY <1>2 DEF Heads
  <2> HIDE DEF lists
  <2>2. /\ Chain(h, l) = C[l] /\ DOMAIN C[l] = 1..Len(C[l])
        /\ \A i \in 1..Len(C[l]) : C[l][i] \in Cells
    BY <1>1, <2>1, ChainIs, ChainTypes
  <2> QED BY <2>2 DEF ToSet
<1>5. Entries(h) = {x \in Cells : \E b \in Bins : \E i \in 1..Len(C[b]) : x = C[b][i]}
  <2>1. ASSUME NEW e \in Entries(h)
        PROVE  e \in Cells /\ \E b \in Bins : \E i \in 1..Len(C[b]) : e = C[b][i]
    <3>1. e \in EntryBlocks /\ h[e].data \in Keys /\ Entry(h, e, h[e].data)
      BY <1>1 DEF Entries, Typed, Entry
    <3>2. ht_hash[h[e].data] \in Bins
      BY <3>1, TablesAssumption
    <3>3. \E i \in 1..Len(C[ht_hash[h[e].data]]) : e = C[ht_hash[h[e].data]][i]
      BY <3>1, EntryAt
    <3> QED BY <3>1, <3>2, <3>3 DEF Cells
  <2>2. ASSUME NEW b \in Bins, NEW i \in 1..Len(C[b])
        PROVE  C[b][i] \in Entries(h)
    BY BinCells DEF Entries
  <2> QED BY <2>1, <2>2
<1>w. UNION {ToSet(Chain(h, b)) : b \in Bins} = Entries(h)
  <2>1. ASSUME NEW b \in Bins
        PROVE  ToSet(Chain(h, b)) = {x \in Cells : \E i \in 1..Len(C[b]) : x = C[b][i]}
    <3>1. b \in Heads
      BY DEF Heads
    <3>2. /\ Chain(h, b) = C[b] /\ DOMAIN C[b] = 1..Len(C[b])
          /\ \A i \in 1..Len(C[b]) : C[b][i] \in Cells
      BY <1>1, <3>1, ChainIs, ChainTypes
    <3> QED BY <3>2 DEF ToSet
  <2> QED BY <2>1, <1>5
<1>f. g = free(h, S)
  BY <1>w DEF ht_free
<1> HIDE DEF g
<1>6. \A x \in Blocks : x \in S <=> x \in X
  <2>1. \A x : x \in S <=> \/ x \in Bins \/ x \in Entries(h) \/ x \in lists
                           \/ \E l \in lists : x \in ToSet(Chain(h, l))
    OBVIOUS
  <2> HIDE DEF S, lists
  <2>2. \A x : x \in S <=> \/ x \in Bins \/ x \in lists
                           \/ x \in Cells /\ \E b \in Bins : \E i \in 1..Len(C[b]) : x = C[b][i]
                           \/ x \in Cells /\ \E b \in lists : \E i \in 1..Len(C[b]) : x = C[b][i]
    BY <2>1, <1>4, <1>5
  <2> QED BY <2>2 DEF Whole
<1> HIDE DEF S, B, lists
<1> DEFINE k == free(h, S)
<1>7. /\ Shape(k, D)
      /\ \A x \in Blocks \ X : k[x] = h[x]
      /\ \A x \in X : k[x] = Freed
      /\ InUse(k) = InUse(h) \ B
      /\ \A l \in ListBlocks : Text(k, D, l) = IF l \in B THEN <<>> ELSE Text(h, C, l)
  <2>1. Shape(h, C) /\ B \in SUBSET Heads /\ \A x \in Blocks : x \in S <=> x \in Whole(C, B)
    BY <1>2, <1>6
  <2> QED BY ONLY <2>1, FreeWhole
<1>8. g = k
  BY <1>f
<1> HIDE DEF k, D
<1>9. InUse(g) = InUse(h) \ lists
  BY <1>7, <1>8, Pools DEF B, InUse
<1>10. \A l \in InUse(h) \ lists : Text(g, D, l) = Text(h, C, l)
  BY <1>7, <1>8, Pools DEF B, InUse
<1>11. \A b \in Bins : g[b].kind = "free"
  BY <1>7, <1>8, FreedIs DEF B, Whole
<1>12. Entries(g) = {}
  <2>1. ASSUME NEW e \in EntryBlocks, g[e].kind = "entry"
        PROVE  FALSE
    <3>1. e \in Blocks /\ e \in Cells
      BY Pools DEF Cells
    <3>2. e \notin X
      BY <2>1, <1>7, <1>8, FreedIs
    <3>3. h[e].kind = "entry"
      BY <3>1, <3>2, <2>1, <1>7, <1>8
    <3>4. e \in Entries(h)
      BY <3>3 DEF Entries
    <3>5. PICK b \in Bins : \E i \in 1..Len(C[b]) : e = C[b][i]
      BY <3>4, <1>5
    <3> QED BY <3>1, <3>2, <3>5 DEF Whole, B
  <2> QED BY <2>1 DEF Entries
<1>13. Shape(g, D)
  BY <1>7, <1>8
<1> QED BY <1>9, <1>10, <1>11, <1>12, <1>13 DEF g, lists

-----------------------------------------------------------------------------
(* The invariant                                                           *)

\* Every list has one owner: a variable of the program, or an entry.
Owned(h, o) ==
  /\ o \in [Vars -> InUse(h) \cup {NULL}]
  /\ \A e \in Entries(h) : h[e].value \in InUse(h)
  /\ \A v, w \in Vars : o[v] = o[w] /\ o[v] # NULL => v = w
  /\ \A e, f \in Entries(h) : h[e].value = h[f].value => e = f
  /\ \A v \in Vars, e \in Entries(h) : o[v] # h[e].value
  /\ \A l \in InUse(h) :
       (\E v \in Vars : o[v] = l) \/ (\E e \in Entries(h) : h[e].value = l)

\* The bins are made and freed together.
Alike(h) == \A b, c \in Bins : h[b].kind = h[c].kind

Good(h, o, n, C) ==
  Shape(h, C) /\ Owned(h, o) /\ Alike(h) /\ n = Cardinality(Entries(h))

TableInv == \E C : Good(heap, own, entry_count, C)

\* List, in any state.
Made(h)         == \E b \in Bins : h[b].kind = "bin"
ListOf(h, o, r) == IF r \in Vars THEN o[r] ELSE IF Made(h) THEN ht_get(h, r) ELSE NULL

LEMMA EntriesFinite ==
  ASSUME NEW h
  PROVE  IsFiniteSet(Entries(h)) /\ Cardinality(Entries(h)) \in Nat
BY TablesAssumption, FS_Subset, FS_CardinalityType DEF Entries

\* What a variable or key leads to, and that no two lead to the same.
LEMMA ListOfIs ==
  ASSUME NEW h, NEW o, NEW n, NEW C, Good(h, o, n, C), NEW r \in Refs
  PROVE  /\ ListOf(h, o, r) \in InUse(h) \cup {NULL}
         /\ r \in Vars => r \notin Keys /\ ListOf(h, o, r) = o[r]
         /\ r \in Keys => /\ r \notin Vars
                          /\ \A e : Entry(h, e, r) => ListOf(h, o, r) = h[e].value
                          /\ (~ \E e : Entry(h, e, r)) => ListOf(h, o, r) = NULL
<1>1. Shape(h, C) /\ Typed(h) /\ Chained(h, C) /\ Owned(h, o) /\ Alike(h)
  BY DEF Good, Shape
<1>2. CASE r \in Vars
  BY <1>1, <1>2, TablesAssumption DEF ListOf, Owned
<1>3. CASE r \in Keys
  <2> DEFINE b == ht_hash[r]
  <2>1. r \notin Vars /\ b \in Bins /\ b \in Heads
    BY <1>3, TablesAssumption DEF Heads
  <2>2. ASSUME NEW e, Entry(h, e, r)
        PROVE  ListOf(h, o, r) = h[e].value /\ h[e].value \in InUse(h)
    <3>1. PICK i \in 1..Len(C[b]) : e = C[b][i]
      BY <1>1, <1>3, <2>2, EntryAt
    <3>2. C[b] # <<>>
      BY <3>1
    <3>3. h[b].kind = "bin"
      BY <1>1, <2>1, <3>2 DEF Chained, Sized, Typed
    <3>4. ht_get(h, r) = h[e].value
      BY <1>1, <1>3, <2>2, <3>3, GetIs
    <3>5. ListOf(h, o, r) = h[e].value
      BY <2>1, <3>3, <3>4 DEF ListOf, Made
    <3>6. e \in Entries(h)
      BY <2>2 DEF Entry, Entries
    <3> QED BY <3>5, <3>6, <1>1 DEF Owned
  <2>3. ASSUME ~ \E e : Entry(h, e, r)
        PROVE  ListOf(h, o, r) = NULL
    <3>1. CASE Made(h)
      <4>1. h[b].kind = "bin"
        BY <1>1, <2>1, <3>1 DEF Made, Alike
      <4>2. ht_get(h, r) = NULL
        BY <1>1, <1>3, <2>3, <4>1, GetIs
      <4> QED BY <2>1, <4>2 DEF ListOf
    <3> QED BY <3>1, <2>1 DEF ListOf
  <2> QED BY <2>1, <2>2, <2>3, <1>3
<1> QED BY <1>2, <1>3 DEF Refs

LEMMA OneOwner ==
  ASSUME NEW h, NEW o, NEW n, NEW C, Good(h, o, n, C), NEW r \in Refs, NEW q \in Refs,
         ListOf(h, o, r) = ListOf(h, o, q), ListOf(h, o, r) # NULL
  PROVE  r = q
<1>1. Owned(h, o)
  BY DEF Good
<1>2. ASSUME NEW x \in Refs, x \in Keys, ListOf(h, o, x) # NULL
      PROVE  \E e \in Entries(h) : h[e].data = x /\ h[e].value = ListOf(h, o, x)
  <2>1. PICK e : Entry(h, e, x)
    BY <1>2, ListOfIs
  <2>2. ListOf(h, o, x) = h[e].value
    BY <1>2, <2>1, ListOfIs
  <2> QED BY <2>1, <2>2 DEF Entry, Entries
<1>3. CASE r \in Vars /\ q \in Vars
  <2>1. o[r] = o[q] /\ o[r] # NULL
    BY <1>3, ListOfIs
  <2> QED BY <2>1, <1>1, <1>3 DEF Owned
<1>4. CASE r \in Vars /\ q \in Keys
  <2>1. o[r] = ListOf(h, o, q)
    BY <1>4, ListOfIs
  <2>2. PICK e \in Entries(h) : h[e].value = ListOf(h, o, q)
    BY <1>2, <1>4
  <2> QED BY <2>1, <2>2, <1>1, <1>4 DEF Owned
<1>5. CASE r \in Keys /\ q \in Vars
  <2>1. o[q] = ListOf(h, o, r)
    BY <1>5, ListOfIs
  <2>2. PICK e \in Entries(h) : h[e].value = ListOf(h, o, r)
    BY <1>2, <1>5
  <2> QED BY <2>1, <2>2, <1>1, <1>5 DEF Owned
<1>6. CASE r \in Keys /\ q \in Keys
  <2>1. PICK e \in Entries(h) : h[e].data = r /\ h[e].value = ListOf(h, o, r)
    BY <1>2, <1>6
  <2>2. PICK f \in Entries(h) : h[f].data = q /\ h[f].value = ListOf(h, o, q)
    BY <1>2, <1>6
  <2>3. e = f
    BY <2>1, <2>2, <1>1 DEF Owned
  <2> QED BY <2>1, <2>2, <2>3
<1> QED BY <1>3, <1>4, <1>5, <1>6 DEF Refs

\* Every list has a variable or key that leads to it.
LEMMA HasOwner ==
  ASSUME NEW h, NEW o, NEW n, NEW C, Good(h, o, n, C), NEW l \in InUse(h)
  PROVE  \E r \in Refs : ListOf(h, o, r) = l
<1>1. Owned(h, o) /\ Typed(h)
  BY DEF Good, Shape
<1>2. CASE \E v \in Vars : o[v] = l
  BY <1>2, ListOfIs DEF Refs
<1>3. ASSUME NEW e \in Entries(h), h[e].value = l
      PROVE  \E r \in Refs : ListOf(h, o, r) = l
  <2>1. h[e].data \in Keys /\ Entry(h, e, h[e].data) /\ h[e].data \in Refs
    BY <1>1 DEF Entries, Typed, Entry, Refs
  <2> QED BY <2>1, <1>3, ListOfIs
<1> QED BY <1>1, <1>2, <1>3 DEF Owned

\* A key whose entry stays leads to the same list.
LEMMA KeySame ==
  ASSUME NEW h, NEW o, NEW n, NEW C, Good(h, o, n, C),
         NEW g, NEW p, NEW m, NEW D, Good(g, p, m, D), NEW k \in Keys,
         \A e : Entry(g, e, k) <=> Entry(h, e, k),
         \A e : Entry(h, e, k) => g[e].value = h[e].value
  PROVE  ListOf(g, p, k) = ListOf(h, o, k)
<1>1. k \in Refs
  BY DEF Refs
<1>2. CASE \E e : Entry(h, e, k)
  <2>1. PICK e : Entry(h, e, k)
    BY <1>2
  <2>2. ListOf(h, o, k) = h[e].value
    BY <1>1, <2>1, ListOfIs
  <2>3. ListOf(g, p, k) = g[e].value
    BY <1>1, <2>1, ListOfIs
  <2> QED BY <2>1, <2>2, <2>3
<1>3. CASE ~ \E e : Entry(h, e, k)
  <2>1. ListOf(h, o, k) = NULL
    BY <1>1, <1>3, ListOfIs
  <2>2. ~ \E e : Entry(g, e, k)
    BY <1>3
  <2>3. ListOf(g, p, k) = NULL
    BY <1>1, <2>2, ListOfIs
  <2> QED BY <2>1, <2>3
<1> QED BY <1>2, <1>3

-----------------------------------------------------------------------------
(* What a state shows                                                      *)

\* The sequence a variable or key leads to.
Seen(h, C, o, r) ==
  IF ListOf(h, o, r) = NULL THEN NULL ELSE Text(h, C, ListOf(h, o, r))
Shown(h, C, o) ==
  [map   |-> IF Made(h) THEN [k \in Keys |-> Seen(h, C, o, k)] ELSE NULL,
   local |-> [v \in Vars |-> Seen(h, C, o, v)]]

LEMMA SeenIs ==
  ASSUME NEW h, NEW o, NEW n, NEW C, Good(h, o, n, C), NEW r \in Refs
  PROVE  /\ Seen(h, C, o, r) \in Seq(Texts) \cup {NULL}
         /\ Seen(h, C, o, r) = NULL <=> ListOf(h, o, r) = NULL
         /\ ListOf(h, o, r) # NULL => Seen(h, C, o, r) = Text(h, C, ListOf(h, o, r))
         /\ Map!Content(Shown(h, C, o), r) = Seen(h, C, o, r)
<1>1. Shape(h, C)
  BY DEF Good
<1>2. ASSUME NEW q \in Refs
      PROVE  /\ Seen(h, C, o, q) \in Seq(Texts) \cup {NULL}
             /\ Seen(h, C, o, q) = NULL <=> ListOf(h, o, q) = NULL
  <2>1. ListOf(h, o, q) \in InUse(h) \cup {NULL}
    BY ListOfIs
  <2>2. ListOf(h, o, q) # NULL => Text(h, C, ListOf(h, o, q)) \in Seq(Texts)
    BY <1>1, <2>1, TextIs DEF InUse
  <2> QED BY <2>2, TablesAssumption DEF Seen
<1>3. Map!Content(Shown(h, C, o), r) = Seen(h, C, o, r)
  <2> DEFINE m == Shown(h, C, o)
  <2>1. /\ m.local = [v \in Vars |-> Seen(h, C, o, v)]
        /\ m.map = IF Made(h) THEN [k \in Keys |-> Seen(h, C, o, k)] ELSE NULL
    BY DEF Shown
  <2>0. SUFFICES Map!Content(m, r) = Seen(h, C, o, r)
    OBVIOUS
  <2> HIDE DEF m
  <2>2. CASE r \in Vars
    BY <2>1, <2>2 DEF Map!Content
  <2>3. CASE r \notin Vars /\ Made(h)
    <3>1. r \in Keys
      BY <2>3 DEF Refs
    <3>2. \A k \in Keys : Seen(h, C, o, k) \in Seq(Texts) \cup {NULL}
      BY <1>2 DEF Refs
    <3>3. m.map \in [Keys -> Seq(Texts) \cup {NULL}]
      BY <2>1, <2>3, <3>2
    <3>4. m.map # NULL
      BY <3>3, TablesAssumption
    <3>5. m.map[r] = Seen(h, C, o, r)
      BY <2>1, <2>3, <3>1
    <3> QED BY <2>3, <3>4, <3>5 DEF Map!Content
  <2>4. CASE r \notin Vars /\ ~Made(h)
    <3>1. ListOf(h, o, r) = NULL
      BY <2>4 DEF ListOf
    <3>2. m.map = NULL
      BY <2>1, <2>4
    <3>3. Seen(h, C, o, r) = NULL
      BY <3>1 DEF Seen
    <3> QED BY <2>4, <3>2, <3>3 DEF Map!Content
  <2> QED BY <2>2, <2>3, <2>4
<1> QED BY <1>2, <1>3 DEF Seen

\* An operation that shows in one place only.
LEMMA BecomeIs ==
  ASSUME NEW h, NEW o, NEW C, NEW g, NEW p, NEW D, NEW x \in Refs, NEW s,
         Made(g) = Made(h), x \in Vars \/ Made(h),
         \A r \in Refs : Seen(g, D, p, r) = IF r = x THEN s ELSE Seen(h, C, o, r)
  PROVE  Shown(g, D, p) = Map!Become(Shown(h, C, o), x, s)
<1> DEFINE f1 == [k \in Keys |-> Seen(h, C, o, k)]
           f2 == [v \in Vars |-> Seen(h, C, o, v)]
           g1 == [k \in Keys |-> Seen(g, D, p, k)]
           g2 == [v \in Vars |-> Seen(g, D, p, v)]
<1>1. Vars \cap Keys = {}
  BY TablesAssumption
<1>2. /\ Shown(h, C, o) = [map |-> IF Made(h) THEN f1 ELSE NULL, local |-> f2]
      /\ Shown(g, D, p) = [map |-> IF Made(h) THEN g1 ELSE NULL, local |-> g2]
  BY DEF Shown
<1>3. CASE x \in Vars
  <2>1. g1 = f1
    BY <1>1, <1>3 DEF Refs
  <2>2. g2 = [f2 EXCEPT ![x] = s]
    BY <1>3 DEF Refs
  <2> HIDE DEF f1, f2, g1, g2
  <2> QED BY <2>1, <2>2, <1>2, <1>3 DEF Map!Become
<1>4. CASE x \notin Vars /\ Made(h)
  <2>1. g2 = f2
    BY <1>4 DEF Refs
  <2>2. g1 = [f1 EXCEPT ![x] = s]
    BY <1>4 DEF Refs
  <2> HIDE DEF f1, f2, g1, g2
  <2> QED BY <2>1, <2>2, <1>2, <1>4 DEF Map!Become
<1> QED BY <1>3, <1>4

\* What is somewhere else is seen as before.
LEMMA SeenSame ==
  ASSUME NEW h, NEW o, NEW n, NEW C, Good(h, o, n, C),
         NEW g, NEW p, NEW m, NEW D, Good(g, p, m, D), NEW x \in Refs,
         \A q \in Refs : q # x => ListOf(g, p, q) = ListOf(h, o, q),
         \A l \in InUse(h) : l # ListOf(h, o, x) => Text(g, D, l) = Text(h, C, l)
  PROVE  \A q \in Refs : q # x => Seen(g, D, p, q) = Seen(h, C, o, q)
<1> SUFFICES ASSUME NEW q \in Refs, q # x PROVE Seen(g, D, p, q) = Seen(h, C, o, q)
  OBVIOUS
<1>1. ListOf(g, p, q) = ListOf(h, o, q) /\ ListOf(h, o, q) \in InUse(h) \cup {NULL}
  BY ListOfIs
<1>2. ListOf(h, o, q) # NULL => ListOf(h, o, q) # ListOf(h, o, x)
  BY OneOwner
<1> QED BY <1>1, <1>2 DEF Seen

LEMMA EntrySame ==
  ASSUME NEW h, NEW g, Entries(g) = Entries(h), Keeps(h, g, Entries(h)), NEW k
  PROVE  /\ \A e : Entry(g, e, k) <=> Entry(h, e, k)
         /\ \A e : Entry(h, e, k) => g[e].value = h[e].value
<1>1. \A x, e, y : Entry(x, e, y) <=> e \in Entries(x) /\ x[e].data = y
  BY DEF Entry, Entries
<1> QED BY <1>1 DEF Keeps

LEMMA MadeSame ==
  ASSUME NEW h, NEW g, BinsSame(h, g)
  PROVE  Made(g) = Made(h) /\ (Alike(h) => Alike(g))
BY DEF BinsSame, Made, Alike

\* An operation on a list that stays where it is.
LEMMA InPlace ==
  ASSUME NEW h, NEW o, NEW n, NEW C, Good(h, o, n, C), NEW x \in Refs,
         ListOf(h, o, x) # NULL,
         NEW g, NEW D, NEW s \in Seq(Texts), Shape(g, D), Elsewhere(h, C, g, D),
         InUse(g) = InUse(h),
         \A l \in ListBlocks : Text(g, D, l) = IF l = ListOf(h, o, x) THEN s ELSE Text(h, C, l)
  PROVE  Good(g, o, n, D) /\ Shown(g, D, o) = Map!Become(Shown(h, C, o), x, s)
<1>1. Entries(g) = Entries(h) /\ Keeps(h, g, Entries(h)) /\ BinsSame(h, g)
  BY ElsewhereSame
<1>2. Good(g, o, n, D)
  <2>1. Owned(g, o)
    BY <1>1 DEF Good, Owned, Keeps
  <2> QED BY <1>1, <2>1, MadeSame DEF Good
<1>3. \A q \in Refs : ListOf(g, o, q) = ListOf(h, o, q)
  <2>1. \A q \in Vars : ListOf(g, o, q) = ListOf(h, o, q)
    BY DEF ListOf
  <2>2. \A k \in Keys : ListOf(g, o, k) = ListOf(h, o, k)
    BY <1>1, <1>2, EntrySame, KeySame
  <2> QED BY <2>1, <2>2 DEF Refs
<1>4. \A q \in Refs : q # x => Seen(g, D, o, q) = Seen(h, C, o, q)
  <2>1. \A l \in InUse(h) : l # ListOf(h, o, x) => Text(g, D, l) = Text(h, C, l)
    BY DEF InUse
  <2> QED BY <1>2, <1>3, <2>1, SeenSame
<1>5. Seen(g, D, o, x) = s
  <2>1. ListOf(h, o, x) \in ListBlocks
    BY ListOfIs DEF InUse
  <2>2. ListOf(g, o, x) = ListOf(h, o, x)
    BY <1>3
  <2> QED BY <2>1, <2>2 DEF Seen
<1>6. x \in Vars \/ Made(h)
  BY DEF ListOf
<1> QED BY <1>1, <1>2, <1>4, <1>5, <1>6, MadeSame, BecomeIs

\* A variable gets a list, or loses it.
Assigned(o, v, l, p) == p = [o EXCEPT ![v] = l]

\* A new list, in a variable.
LEMMA IntoVar ==
  ASSUME NEW h, NEW o, NEW n, NEW C, Good(h, o, n, C), NEW v \in Vars, o[v] = NULL,
         NEW b \in ListBlocks \ InUse(h),
         NEW p, Assigned(o, v, b, p), NEW g, NEW D, NEW s \in Seq(Texts), Shape(g, D), Elsewhere(h, C, g, D),
         InUse(g) = InUse(h) \cup {b},
         \A l \in ListBlocks : Text(g, D, l) = IF l = b THEN s ELSE Text(h, C, l)
  PROVE  /\ Good(g, p, n, D)
         /\ Shown(g, D, p) = Map!Become(Shown(h, C, o), v, s)
<1>1. Entries(g) = Entries(h) /\ Keeps(h, g, Entries(h)) /\ BinsSame(h, g)
  BY ElsewhereSame
<1>2. b # NULL
  BY Pools DEF Heads
<1>3. Owned(h, o) /\ o \in [Vars -> InUse(h) \cup {NULL}]
  BY DEF Good, Owned
<1>4. p \in [Vars -> InUse(g) \cup {NULL}] /\ \A w \in Vars : p[w] = IF w = v THEN b ELSE o[w]
  BY <1>3 DEF Assigned
<1>5. Good(g, p, n, D)
  <2>1. \A w \in Vars : o[w] # b
    BY <1>2, <1>3
  <2>2. \A e \in Entries(h) : h[e].value # b /\ g[e].value = h[e].value
    BY <1>1, <1>3 DEF Owned, Keeps
  <2>3. \A w, u \in Vars : p[w] = p[u] /\ p[w] # NULL => w = u
    BY <1>3, <1>4, <2>1 DEF Owned
  <2>4. \A w \in Vars, e \in Entries(g) : p[w] # g[e].value
    BY <1>1, <1>3, <1>4, <2>2 DEF Owned
  <2>5. \A l \in InUse(g) : (\E w \in Vars : p[w] = l) \/ (\E e \in Entries(g) : g[e].value = l)
    <3>1. ASSUME NEW l \in InUse(h)
          PROVE  (\E w \in Vars : p[w] = l) \/ (\E e \in Entries(g) : g[e].value = l)
      <4>1. CASE \E w \in Vars : o[w] = l
        <5>1. PICK w \in Vars : o[w] = l
          BY <4>1
        <5>2. w # v
          BY <5>1, <3>1, Pools DEF InUse, Heads
        <5> QED BY <5>1, <5>2, <1>4
      <4>2. CASE \E e \in Entries(h) : h[e].value = l
        BY <4>2, <1>1, <2>2
      <4> QED BY <4>1, <4>2, <1>3 DEF Owned
    <3> QED BY <3>1, <1>4
  <2>6. /\ \A e \in Entries(g) : g[e].value \in InUse(g)
        /\ \A e, f \in Entries(g) : g[e].value = g[f].value => e = f
    BY <1>1, <1>3, <2>2 DEF Owned
  <2>7. Owned(g, p)
    BY <1>4, <2>3, <2>4, <2>5, <2>6 DEF Owned
  <2> QED BY <1>1, <2>7, MadeSame DEF Good
<1>6. \A q \in Refs : q # v => ListOf(g, p, q) = ListOf(h, o, q)
  <2>1. \A q \in Vars : q # v => ListOf(g, p, q) = ListOf(h, o, q)
    BY <1>4 DEF ListOf
  <2>2. \A k \in Keys : ListOf(g, p, k) = ListOf(h, o, k)
    BY <1>1, <1>5, EntrySame, KeySame
  <2> QED BY <2>1, <2>2 DEF Refs
<1>7. v \in Refs
  BY DEF Refs
<1>9. \A q \in Refs : q # v => Seen(g, D, p, q) = Seen(h, C, o, q)
  <2>1. \A l \in InUse(h) : Text(g, D, l) = Text(h, C, l)
    BY DEF InUse
  <2> QED BY <1>5, <1>6, <1>7, <2>1, SeenSame
<1>10. Seen(g, D, p, v) = s
  BY <1>2, <1>4 DEF Seen, ListOf
<1>11. Shown(g, D, p) = Map!Become(Shown(h, C, o), v, s)
  <2>1. Made(g) = Made(h) /\ v \in Refs /\ (v \in Vars \/ Made(h))
    BY <1>1, <1>7, MadeSame
  <2>2. \A r \in Refs : Seen(g, D, p, r) = IF r = v THEN s ELSE Seen(h, C, o, r)
    BY <1>9, <1>10
  <2> QED BY ONLY <2>1, <2>2, BecomeIs
<1> QED BY <1>5, <1>11

\* The list of a variable is freed.
LEMMA FromVar ==
  ASSUME NEW h, NEW o, NEW n, NEW C, Good(h, o, n, C), NEW v \in Vars, o[v] # NULL,
         NEW p, Assigned(o, v, NULL, p), NEW g, NEW D, Shape(g, D), Elsewhere(h, C, g, D),
         InUse(g) = InUse(h) \ {o[v]},
         \A l \in InUse(h) : l # o[v] => Text(g, D, l) = Text(h, C, l)
  PROVE  /\ Good(g, p, n, D)
         /\ Shown(g, D, p) = Map!Become(Shown(h, C, o), v, NULL)
<1>1. Entries(g) = Entries(h) /\ Keeps(h, g, Entries(h)) /\ BinsSame(h, g)
  BY ElsewhereSame
<1>3. Owned(h, o) /\ o \in [Vars -> InUse(h) \cup {NULL}]
  BY DEF Good, Owned
<1>4. DOMAIN p = Vars /\ p = [w \in Vars |-> p[w]] /\ \A w \in Vars : p[w] = IF w = v THEN NULL ELSE o[w]
  BY <1>3 DEF Assigned
<1>5. Good(g, p, n, D)
  <2>1. \A w \in Vars : w # v => o[w] # o[v]
    BY <1>3 DEF Owned
  <2>2. \A e \in Entries(h) : h[e].value # o[v] /\ g[e].value = h[e].value
    BY <1>1, <1>3 DEF Owned, Keeps
  <2>3. \A w, u \in Vars : p[w] = p[u] /\ p[w] # NULL => w = u
    BY <1>3, <1>4 DEF Owned
  <2>4. \A w \in Vars, e \in Entries(g) : p[w] # g[e].value
    <3>1. \A e \in Entries(h) : h[e].value # NULL
      BY <1>3, Pools DEF Owned, InUse, Heads
    <3> QED BY <3>1, <1>1, <1>3, <1>4, <2>2 DEF Owned
  <2>5. \A l \in InUse(g) : (\E w \in Vars : p[w] = l) \/ (\E e \in Entries(g) : g[e].value = l)
    <3>1. ASSUME NEW l \in InUse(h), l # o[v]
          PROVE  (\E w \in Vars : p[w] = l) \/ (\E e \in Entries(g) : g[e].value = l)
      <4>1. CASE \E w \in Vars : o[w] = l
        <5>1. PICK w \in Vars : o[w] = l
          BY <4>1
        <5>2. w # v
          BY <5>1, <3>1
        <5> QED BY <5>1, <5>2, <1>4
      <4>2. CASE \E e \in Entries(h) : h[e].value = l
        BY <4>2, <1>1, <2>2
      <4> QED BY <4>1, <4>2, <1>3 DEF Owned
    <3> QED BY <3>1
  <2>6. /\ \A e \in Entries(g) : g[e].value \in InUse(g)
        /\ \A e, f \in Entries(g) : g[e].value = g[f].value => e = f
    BY <1>1, <1>3, <2>2 DEF Owned
  <2>7. p \in [Vars -> InUse(g) \cup {NULL}]
    <3>1. \A w \in Vars : p[w] \in InUse(g) \cup {NULL}
      BY <1>3, <1>4, <2>1
    <3> QED BY <3>1, <1>4
  <2>8. Owned(g, p)
    BY <2>7, <2>3, <2>4, <2>5, <2>6 DEF Owned
  <2> QED BY <1>1, <2>8, MadeSame DEF Good
<1>6. \A q \in Refs : q # v => ListOf(g, p, q) = ListOf(h, o, q)
  <2>1. \A q \in Vars : q # v => ListOf(g, p, q) = ListOf(h, o, q)
    BY <1>4 DEF ListOf
  <2>2. \A k \in Keys : ListOf(g, p, k) = ListOf(h, o, k)
    BY <1>1, <1>5, EntrySame, KeySame
  <2> QED BY <2>1, <2>2 DEF Refs
<1>7. v \in Refs /\ ListOf(h, o, v) = o[v]
  BY DEF Refs, ListOf
<1>9. \A q \in Refs : q # v => Seen(g, D, p, q) = Seen(h, C, o, q)
  <2>1. \A l \in InUse(h) : l # ListOf(h, o, v) => Text(g, D, l) = Text(h, C, l)
    BY <1>7
  <2> QED BY <1>5, <1>6, <1>7, <2>1, SeenSame
<1>10. Seen(g, D, p, v) = NULL
  BY <1>4 DEF Seen, ListOf
<1>11. Shown(g, D, p) = Map!Become(Shown(h, C, o), v, NULL)
  <2>1. Made(g) = Made(h) /\ v \in Refs /\ (v \in Vars \/ Made(h))
    BY <1>1, <1>7, MadeSame
  <2>2. \A r \in Refs : Seen(g, D, p, r) = IF r = v THEN NULL ELSE Seen(h, C, o, r)
    BY <1>9, <1>10
  <2> QED BY ONLY <2>1, <2>2, BecomeIs
<1> QED BY <1>5, <1>11

\* A key that was not there.
LEMMA IntoTable ==
  ASSUME NEW h, NEW o, NEW n, NEW C, Good(h, o, n, C), Made(h), NEW k \in Keys,
         ~ \E f : Entry(h, f, k),
         NEW b \in ListBlocks \ InUse(h), NEW e \in EntryBlocks \ Entries(h),
         NEW g, NEW D, NEW s \in Seq(Texts), Shape(g, D), BinsSame(h, g),
         InUse(g) = InUse(h) \cup {b},
         Entries(g) = Entries(h) \cup {e}, Keeps(h, g, Entries(h)),
         g[e].data = k, g[e].value = b,
         \A l \in ListBlocks : Text(g, D, l) = IF l = b THEN s ELSE Text(h, C, l)
  PROVE  Good(g, o, n + 1, D) /\ Shown(g, D, o) = Map!Become(Shown(h, C, o), k, s)
<1>1. Owned(h, o) /\ b # NULL
  BY Pools DEF Good, Heads
<1>2. \A f \in Entries(h) : h[f].value # b /\ g[f].value = h[f].value /\ g[f].data = h[f].data
  BY <1>1 DEF Owned, Keeps
<1>3. \A w \in Vars : o[w] # b
  BY <1>1 DEF Owned
<1>4. Good(g, o, n + 1, D)
  <2>1. o \in [Vars -> InUse(g) \cup {NULL}]
    <3>1. InUse(h) \cup {NULL} \subseteq InUse(g) \cup {NULL}
      OBVIOUS
    <3> QED BY <3>1, <1>1 DEF Owned
  <2>2. \A f \in Entries(g) : g[f].value \in InUse(g)
    BY <1>1, <1>2 DEF Owned
  <2>3. \A f, d \in Entries(g) : g[f].value = g[d].value => f = d
    BY <1>1, <1>2 DEF Owned
  <2>4. \A w \in Vars, f \in Entries(g) : o[w] # g[f].value
    BY <1>1, <1>2, <1>3 DEF Owned
  <2>5. \A l \in InUse(g) : (\E w \in Vars : o[w] = l) \/ (\E f \in Entries(g) : g[f].value = l)
    <3>1. ASSUME NEW l \in InUse(h)
          PROVE  (\E w \in Vars : o[w] = l) \/ (\E f \in Entries(g) : g[f].value = l)
      BY <1>1, <1>2 DEF Owned
    <3> QED BY <3>1
  <2>6. Owned(g, o)
    BY <2>1, <2>2, <2>3, <2>4, <2>5, <1>1 DEF Owned
  <2>7. n + 1 = Cardinality(Entries(g))
    BY EntriesFinite, FS_AddElement DEF Good
  <2> QED BY <2>6, <2>7, MadeSame DEF Good
<1>5. \A q \in Refs : q # k => ListOf(g, o, q) = ListOf(h, o, q)
  <2>1. \A q \in Vars : ListOf(g, o, q) = ListOf(h, o, q)
    BY DEF ListOf
  <2>2. ASSUME NEW q \in Keys, q # k
        PROVE  ListOf(g, o, q) = ListOf(h, o, q)
    <3>1. \A f : Entry(g, f, q) <=> Entry(h, f, q)
      <4>1. \A x, f, y : Entry(x, f, y) <=> f \in Entries(x) /\ x[f].data = y
        BY DEF Entry, Entries
      <4> QED BY <4>1, <1>2, <2>2
    <3>2. \A f : Entry(h, f, q) => g[f].value = h[f].value
      BY <1>2 DEF Entry, Entries
    <3> QED BY <3>1, <3>2, <1>4, KeySame
  <2> QED BY <2>1, <2>2 DEF Refs
<1>6. k \in Refs
  BY DEF Refs
<1>7. \A q \in Refs : q # k => Seen(g, D, o, q) = Seen(h, C, o, q)
  <2>1. \A l \in InUse(h) : l # ListOf(h, o, k) => Text(g, D, l) = Text(h, C, l)
    BY DEF InUse
  <2> QED BY <1>4, <1>5, <1>6, <2>1, SeenSame
<1>8. Seen(g, D, o, k) = s
  <2>1. Entry(g, e, k)
    BY DEF Entry, Entries
  <2>2. ListOf(g, o, k) = b
    BY <2>1, <1>4, <1>6, ListOfIs
  <2> QED BY <2>2, <1>1 DEF Seen
<1>9. Shown(g, D, o) = Map!Become(Shown(h, C, o), k, s)
  <2>1. Made(g) = Made(h) /\ k \in Refs /\ (k \in Vars \/ Made(h))
    BY <1>6, MadeSame
  <2>2. \A r \in Refs : Seen(g, D, o, r) = IF r = k THEN s ELSE Seen(h, C, o, r)
    BY <1>7, <1>8
  <2> QED BY ONLY <2>1, <2>2, BecomeIs
<1> QED BY <1>4, <1>9

\* A key that was there, with another list.
LEMMA WithinTable ==
  ASSUME NEW h, NEW o, NEW n, NEW C, Good(h, o, n, C), Made(h), NEW k \in Keys,
         NEW e, Entry(h, e, k), NEW b \in ListBlocks, b \notin InUse(h) \ {h[e].value},
         NEW g, NEW D, NEW s \in Seq(Texts), Shape(g, D), BinsSame(h, g),
         InUse(g) = (InUse(h) \ {h[e].value}) \cup {b},
         Entries(g) = Entries(h), Keeps(h, g, Entries(h) \ {e}),
         g[e].data = k, g[e].value = b, Text(g, D, b) = s,
         \A l \in InUse(h) : l # h[e].value => Text(g, D, l) = Text(h, C, l)
  PROVE  Good(g, o, n, D) /\ Shown(g, D, o) = Map!Become(Shown(h, C, o), k, s)
<1>1. Owned(h, o) /\ b # NULL /\ e \in Entries(h)
  BY Pools DEF Good, Heads, Entry, Entries
<1>2. \A f \in Entries(h) : f # e => /\ h[f].value # b /\ h[f].value # h[e].value
                                     /\ g[f].value = h[f].value /\ g[f].data = h[f].data
  BY <1>1 DEF Owned, Keeps
<1>3. \A w \in Vars : o[w] # b /\ o[w] # h[e].value
  <2>1. \A w \in Vars : o[w] # h[e].value /\ o[w] \in InUse(h) \cup {NULL}
    BY <1>1 DEF Owned
  <2> QED BY <2>1, <1>1
<1>4. Good(g, o, n, D)
  <2>1. o \in [Vars -> InUse(g) \cup {NULL}]
    <3>1. \A w \in Vars : o[w] \in InUse(g) \cup {NULL}
      BY <1>1, <1>3 DEF Owned
    <3> QED BY <3>1, <1>1 DEF Owned
  <2>2. \A f \in Entries(g) : g[f].value \in InUse(g)
    BY <1>1, <1>2 DEF Owned
  <2>3. \A f, d \in Entries(g) : g[f].value = g[d].value => f = d
    BY <1>1, <1>2 DEF Owned
  <2>4. \A w \in Vars, f \in Entries(g) : o[w] # g[f].value
    BY <1>1, <1>2, <1>3 DEF Owned
  <2>5. \A l \in InUse(g) : (\E w \in Vars : o[w] = l) \/ (\E f \in Entries(g) : g[f].value = l)
    <3>1. ASSUME NEW l \in InUse(h), l # h[e].value
          PROVE  (\E w \in Vars : o[w] = l) \/ (\E f \in Entries(g) : g[f].value = l)
      BY <3>1, <1>1, <1>2 DEF Owned
    <3> QED BY <3>1, <1>1
  <2>6. Owned(g, o)
    BY <2>1, <2>2, <2>3, <2>4, <2>5, <1>1 DEF Owned
  <2> QED BY <2>6, MadeSame DEF Good
<1>e. \A x, f, y : Entry(x, f, y) <=> f \in Entries(x) /\ x[f].data = y
  BY DEF Entry, Entries
<1>5. \A q \in Refs : q # k => ListOf(g, o, q) = ListOf(h, o, q)
  <2>1. \A q \in Vars : ListOf(g, o, q) = ListOf(h, o, q)
    BY DEF ListOf
  <2>2. ASSUME NEW q \in Keys, q # k
        PROVE  ListOf(g, o, q) = ListOf(h, o, q)
    <3>1. \A f : Entry(g, f, q) <=> Entry(h, f, q)
      BY <1>e, <1>2, <2>2
    <3>2. \A f : Entry(h, f, q) => g[f].value = h[f].value
      BY <1>e, <1>2, <2>2
    <3> QED BY <3>1, <3>2, <1>4, KeySame
  <2> QED BY <2>1, <2>2 DEF Refs
<1>6. k \in Refs /\ ListOf(h, o, k) = h[e].value
  <2>1. k \in Refs
    BY DEF Refs
  <2> QED BY <2>1, ListOfIs
<1>7. \A q \in Refs : q # k => Seen(g, D, o, q) = Seen(h, C, o, q)
  <2>1. \A l \in InUse(h) : l # ListOf(h, o, k) => Text(g, D, l) = Text(h, C, l)
    BY <1>6
  <2> QED BY <1>4, <1>5, <1>6, <2>1, SeenSame
<1>8. Seen(g, D, o, k) = s
  <2>1. Entry(g, e, k)
    BY <1>1, <1>e
  <2>2. ListOf(g, o, k) = b
    BY <2>1, <1>4, <1>6, ListOfIs
  <2> QED BY <2>2, <1>1 DEF Seen
<1>9. Shown(g, D, o) = Map!Become(Shown(h, C, o), k, s)
  <2>1. Made(g) = Made(h) /\ k \in Refs /\ (k \in Vars \/ Made(h))
    BY <1>6, MadeSame
  <2>2. \A r \in Refs : Seen(g, D, o, r) = IF r = k THEN s ELSE Seen(h, C, o, r)
    BY <1>7, <1>8
  <2> QED BY ONLY <2>1, <2>2, BecomeIs
<1> QED BY <1>4, <1>9

\* A key that goes.
LEMMA OutOfTable ==
  ASSUME NEW h, NEW o, NEW n, NEW C, Good(h, o, n, C), Made(h), NEW k \in Keys,
         NEW e, Entry(h, e, k), NEW g, NEW D, Shape(g, D), BinsSame(h, g),
         InUse(g) = InUse(h) \ {h[e].value},
         Entries(g) = Entries(h) \ {e}, Keeps(h, g, Entries(h) \ {e}),
         \A l \in InUse(h) : l # h[e].value => Text(g, D, l) = Text(h, C, l)
  PROVE  Good(g, o, n - 1, D) /\ Shown(g, D, o) = Map!Become(Shown(h, C, o), k, NULL)
<1>1. Owned(h, o) /\ e \in Entries(h)
  BY DEF Good, Entry, Entries
<1>2. \A f \in Entries(h) : f # e => /\ h[f].value # h[e].value
                                     /\ g[f].value = h[f].value /\ g[f].data = h[f].data
  BY <1>1 DEF Owned, Keeps
<1>3. \A w \in Vars : o[w] # h[e].value
  BY <1>1 DEF Owned
<1>4. Good(g, o, n - 1, D)
  <2>1. o \in [Vars -> InUse(g) \cup {NULL}]
    <3>1. \A w \in Vars : o[w] \in InUse(g) \cup {NULL}
      BY <1>1, <1>3 DEF Owned
    <3> QED BY <3>1, <1>1 DEF Owned
  <2>2. \A f \in Entries(g) : g[f].value \in InUse(g)
    BY <1>1, <1>2 DEF Owned
  <2>3. \A f, d \in Entries(g) : g[f].value = g[d].value => f = d
    BY <1>1, <1>2 DEF Owned
  <2>4. \A w \in Vars, f \in Entries(g) : o[w] # g[f].value
    BY <1>1, <1>2, <1>3 DEF Owned
  <2>5. \A l \in InUse(g) : (\E w \in Vars : o[w] = l) \/ (\E f \in Entries(g) : g[f].value = l)
    BY <1>1, <1>2 DEF Owned
  <2>6. Owned(g, o)
    BY <2>1, <2>2, <2>3, <2>4, <2>5, <1>1 DEF Owned
  <2>7. n - 1 = Cardinality(Entries(g))
    BY <1>1, EntriesFinite, FS_RemoveElement DEF Good
  <2> QED BY <2>6, <2>7, MadeSame DEF Good
<1>e. \A x, f, y : Entry(x, f, y) <=> f \in Entries(x) /\ x[f].data = y
  BY DEF Entry, Entries
<1>5. \A q \in Refs : q # k => ListOf(g, o, q) = ListOf(h, o, q)
  <2>1. \A q \in Vars : ListOf(g, o, q) = ListOf(h, o, q)
    BY DEF ListOf
  <2>2. ASSUME NEW q \in Keys, q # k
        PROVE  ListOf(g, o, q) = ListOf(h, o, q)
    <3>1. \A f : Entry(g, f, q) <=> Entry(h, f, q)
      BY <1>e, <1>2, <2>2
    <3>2. \A f : Entry(h, f, q) => g[f].value = h[f].value
      BY <1>e, <1>2, <2>2
    <3> QED BY <3>1, <3>2, <1>4, KeySame
  <2> QED BY <2>1, <2>2 DEF Refs
<1>6. k \in Refs /\ ListOf(h, o, k) = h[e].value
  <2>1. k \in Refs
    BY DEF Refs
  <2> QED BY <2>1, ListOfIs
<1>7. \A q \in Refs : q # k => Seen(g, D, o, q) = Seen(h, C, o, q)
  <2>1. \A l \in InUse(h) : l # ListOf(h, o, k) => Text(g, D, l) = Text(h, C, l)
    BY <1>6
  <2> QED BY <1>4, <1>5, <1>6, <2>1, SeenSame
<1>8. Seen(g, D, o, k) = NULL
  <2>1. ~ \E f : Entry(g, f, k)
    <3>1. \A f : Entry(h, f, k) => f = e
      BY EntryOne DEF Good
    <3> QED BY <3>1, <1>e, <1>2
  <2>2. ListOf(g, o, k) = NULL
    BY <2>1, <1>4, <1>6, ListOfIs
  <2> QED BY <2>2 DEF Seen
<1>9. Shown(g, D, o) = Map!Become(Shown(h, C, o), k, NULL)
  <2>1. Made(g) = Made(h) /\ k \in Refs /\ (k \in Vars \/ Made(h))
    BY <1>6, MadeSame
  <2>2. \A r \in Refs : Seen(g, D, o, r) = IF r = k THEN NULL ELSE Seen(h, C, o, r)
    BY <1>7, <1>8
  <2> QED BY ONLY <2>1, <2>2, BecomeIs
<1> QED BY <1>4, <1>9

\* There are no entries without the table.
LEMMA NoTable ==
  ASSUME NEW h, NEW o, NEW n, NEW C, Good(h, o, n, C), ~Made(h)
  PROVE  (\A b \in Bins : h[b].kind = "free") /\ Entries(h) = {}
<1>1. Shape(h, C) /\ Typed(h) /\ Chained(h, C)
  BY DEF Good, Shape
<1>2. \A b \in Bins : h[b].kind = "free" /\ C[b] = <<>>
  BY <1>1 DEF Typed, Made, Chained, Sized, Heads
<1>3. ASSUME NEW e \in Entries(h) PROVE FALSE
  <2>1. h[e].data \in Keys /\ Entry(h, e, h[e].data)
    BY <1>1 DEF Entries, Typed, Entry
  <2>2. \E i \in 1..Len(C[ht_hash[h[e].data]]) : TRUE
    BY <2>1, <1>1, EntryAt
  <2>3. ht_hash[h[e].data] \in Bins /\ Len(<<>>) = 0
    BY <2>1, TablesAssumption
  <2> QED BY <2>2, <2>3, <1>2
<1> QED BY <1>2, <1>3

LEMMA NewTable ==
  ASSUME NEW h, NEW o, NEW n, NEW C, Good(h, o, n, C), ~Made(h)
  PROVE  /\ Good(ht_create(h), o, 0, C)
         /\ Shown(ht_create(h), C, o) = Map!Create(Shown(h, C, o))
<1> DEFINE g == ht_create(h)
<1>1. /\ Shape(g, C) /\ ListsSame(h, C, g, C)
      /\ \A b \in Bins : g[b].kind = "bin"
      /\ Entries(g) = Entries(h) /\ Keeps(h, g, Entries(h))
  BY NoTable, TableCreateStep DEF Good
<1> HIDE DEF g
<1>2. /\ InUse(g) = InUse(h)
      /\ \A l \in ListBlocks : Text(g, C, l) = Text(h, C, l)
  BY <1>1, ListsSameText DEF Good
<1>3. Entries(g) = {} /\ Entries(h) = {}
  BY <1>1, NoTable
<1>4. Good(g, o, 0, C)
  <2>1. Owned(g, o)
    BY <1>2, <1>3 DEF Good, Owned
  <2>2. Alike(g)
    BY <1>1 DEF Alike
  <2> QED BY <1>1, <1>3, <2>1, <2>2, FS_EmptySet DEF Good
<1>5. \A k \in Keys : Seen(g, C, o, k) = NULL
  <2>1. ASSUME NEW k \in Keys PROVE Seen(g, C, o, k) = NULL
    <3>1. ~ \E e : Entry(g, e, k)
      BY <1>3 DEF Entry, Entries
    <3>2. ListOf(g, o, k) = NULL
      BY <3>1, <1>4, ListOfIs DEF Refs
    <3> QED BY <3>2 DEF Seen
  <2> QED BY <2>1
<1>6. \A v \in Vars : Seen(g, C, o, v) = Seen(h, C, o, v)
  <2>1. ASSUME NEW v \in Vars PROVE Seen(g, C, o, v) = Seen(h, C, o, v)
    <3>1. ListOf(g, o, v) = o[v] /\ ListOf(h, o, v) = o[v]
      BY DEF ListOf
    <3>2. o[v] # NULL => o[v] \in ListBlocks
      BY DEF Good, Owned, InUse
    <3> QED BY <3>1, <3>2, <1>2 DEF Seen
  <2> QED BY <2>1
<1>7. Made(g)
  BY <1>1, TablesAssumption DEF Made
<1>8. Shown(g, C, o) = [map |-> [k \in Keys |-> NULL], local |-> [v \in Vars |-> Seen(h, C, o, v)]]
  BY <1>5, <1>6, <1>7 DEF Shown
<1>9. Map!Create(Shown(h, C, o)) =
        [map |-> [k \in Keys |-> NULL], local |-> [v \in Vars |-> Seen(h, C, o, v)]]
  <2> DEFINE a == IF Made(h) THEN [k \in Keys |-> Seen(h, C, o, k)] ELSE NULL
             d == [v \in Vars |-> Seen(h, C, o, v)]
             x == [k \in Keys |-> NULL]
  <2>1. Shown(h, C, o) = [map |-> a, local |-> d]
    BY DEF Shown
  <2>2. Map!Create(Shown(h, C, o)) = [Shown(h, C, o) EXCEPT !.map = x]
    BY DEF Map!Create
  <2> HIDE DEF a, d, x
  <2>3. [[map |-> a, local |-> d] EXCEPT !.map = x] = [map |-> x, local |-> d]
    OBVIOUS
  <2>4. Map!Create(Shown(h, C, o)) = [map |-> x, local |-> d]
    BY <2>1, <2>2, <2>3
  <2> QED BY <2>4 DEF x, d
<1> QED BY <1>4, <1>8, <1>9 DEF g

LEMMA TableGone ==
  ASSUME NEW h, NEW o, NEW n, NEW C, Good(h, o, n, C), Made(h)
  PROVE  \E D : /\ Good(ht_free(h), o, 0, D)
                /\ Shown(ht_free(h), D, o) = Map!Destroy(Shown(h, C, o))
<1> DEFINE g == ht_free(h)
           lists == {h[e].value : e \in Entries(h)}
<1>1. Owned(h, o)
  BY DEF Good
<1>2. PICK D : /\ Shape(g, D) /\ \A b \in Bins : g[b].kind = "free"
               /\ InUse(g) = InUse(h) \ lists /\ Entries(g) = {}
               /\ \A l \in InUse(h) \ lists : Text(g, D, l) = Text(h, C, l)
  BY <1>1, TableFreeStep DEF Good, Owned
<1> HIDE DEF g
<1>3. \A v \in Vars : o[v] \in (InUse(h) \ lists) \cup {NULL}
  BY <1>1 DEF Owned
<1>4. Good(g, o, 0, D)
  <2>1. o \in [Vars -> InUse(g) \cup {NULL}]
    BY <1>1, <1>2, <1>3 DEF Owned
  <2>2. \A l \in InUse(g) : \E v \in Vars : o[v] = l
    BY <1>1, <1>2 DEF Owned
  <2>3. Owned(g, o)
    BY <1>1, <1>2, <2>1, <2>2 DEF Owned
  <2>4. Alike(g)
    BY <1>2 DEF Alike
  <2> QED BY <1>2, <2>3, <2>4, FS_EmptySet DEF Good
<1>5. \A v \in Vars : Seen(g, D, o, v) = Seen(h, C, o, v)
  <2>1. ASSUME NEW v \in Vars PROVE Seen(g, D, o, v) = Seen(h, C, o, v)
    <3>1. ListOf(g, o, v) = o[v] /\ ListOf(h, o, v) = o[v]
      BY DEF ListOf
    <3>2. o[v] # NULL => Text(g, D, o[v]) = Text(h, C, o[v])
      BY <1>2, <1>3
    <3> QED BY <3>1, <3>2 DEF Seen
  <2> QED BY <2>1
<1>6. ~Made(g)
  BY <1>2 DEF Made
<1>7. Shown(g, D, o) = [map |-> NULL, local |-> [v \in Vars |-> Seen(h, C, o, v)]]
  BY <1>5, <1>6 DEF Shown
<1>8. Map!Destroy(Shown(h, C, o)) = [map |-> NULL, local |-> [v \in Vars |-> Seen(h, C, o, v)]]
  <2> DEFINE a == IF Made(h) THEN [k \in Keys |-> Seen(h, C, o, k)] ELSE NULL
             d == [v \in Vars |-> Seen(h, C, o, v)]
             x == NULL
  <2>1. Shown(h, C, o) = [map |-> a, local |-> d]
    BY DEF Shown
  <2>2. Map!Destroy(Shown(h, C, o)) = [Shown(h, C, o) EXCEPT !.map = x]
    BY DEF Map!Destroy
  <2> HIDE DEF a, d, x
  <2>3. [[map |-> a, local |-> d] EXCEPT !.map = x] = [map |-> x, local |-> d]
    OBVIOUS
  <2>4. Map!Destroy(Shown(h, C, o)) = [map |-> x, local |-> d]
    BY <2>1, <2>2, <2>3
  <2> QED BY <2>4 DEF x, d
<1> QED BY <1>4, <1>7, <1>8 DEF g

-----------------------------------------------------------------------------
(* The operations of the program                                           *)

\* The properties' own view of a state.
StoredIn(h, k)       == {h[e].value : e \in {f \in EntryBlocks : h[f].kind = "entry" /\ h[f].data = k}}
SequenceOf(h, l)     == LET c == Chain(h, l) IN [i \in DOMAIN c |-> h[c[i]].data]
ContentOf(h, lists)  == IF lists = {} THEN NULL ELSE SequenceOf(h, CHOOSE l \in lists : TRUE)
AbstractOf(h, o) ==
  [map   |-> IF Made(h) THEN [k \in Keys |-> ContentOf(h, StoredIn(h, k))] ELSE NULL,
   local |-> [v \in Vars |-> ContentOf(h, {o[v]} \ {NULL})]]

LEMMA SequenceIs ==
  ASSUME NEW h, NEW C, Shape(h, C), NEW l \in ListBlocks
  PROVE  SequenceOf(h, l) = Text(h, C, l)
<1>1. l \in Heads /\ Typed(h) /\ Chained(h, C)
  BY DEF Heads, Shape
<1>2. Chain(h, l) = C[l] /\ DOMAIN C[l] = 1..Len(C[l])
  BY <1>1, ChainIs, ChainTypes
<1> QED BY <1>2 DEF SequenceOf, Text

LEMMA StoredIs ==
  ASSUME NEW h, NEW o, NEW n, NEW C, Good(h, o, n, C), NEW k \in Keys
  PROVE  /\ StoredIn(h, k) = {ListOf(h, o, k)} \ {NULL}
         /\ StoredIn(h, k) # {} <=> \E e : Entry(h, e, k)
<1>1. k \in Refs /\ Shape(h, C) /\ Typed(h)
  BY DEF Refs, Good, Shape
<1>2. \A x : x \in StoredIn(h, k) <=> \E e : Entry(h, e, k) /\ x = h[e].value
  BY DEF StoredIn, Entry
<1>3. ASSUME NEW e, Entry(h, e, k) PROVE h[e].value = ListOf(h, o, k) /\ h[e].value # NULL
  <2>1. h[e].value \in ListBlocks
    BY <1>1, <1>3 DEF Typed, Entry
  <2> QED BY <2>1, <1>1, <1>3, ListOfIs, Pools DEF Heads
<1>4. (~ \E e : Entry(h, e, k)) => ListOf(h, o, k) = NULL
  BY <1>1, ListOfIs
<1> QED BY <1>2, <1>3, <1>4

LEMMA AbstractIs ==
  ASSUME NEW h, NEW o, NEW n, NEW C, Good(h, o, n, C)
  PROVE  AbstractOf(h, o) = Shown(h, C, o)
<1>1. Shape(h, C)
  BY DEF Good
<1>2. ASSUME NEW r \in Refs
      PROVE  ContentOf(h, {ListOf(h, o, r)} \ {NULL}) = Seen(h, C, o, r)
  <2> DEFINE l == ListOf(h, o, r)
  <2>1. CASE l = NULL
    <3>1. {l} \ {NULL} = {}
      BY <2>1
    <3> QED BY <3>1, <2>1 DEF ContentOf, Seen
  <2>2. CASE l # NULL
    <3>1. l \in ListBlocks
      BY <2>2, ListOfIs DEF InUse
    <3>2. SequenceOf(h, l) = Text(h, C, l)
      BY <1>1, <3>1, SequenceIs
    <3> HIDE DEF l
    <3>3. (CHOOSE x \in {l} \ {NULL} : TRUE) = l /\ {l} \ {NULL} # {}
      BY <2>2
    <3> QED BY <2>2, <3>2, <3>3 DEF ContentOf, Seen, l
  <2> QED BY <2>1, <2>2
<1>3. \A k \in Keys : ContentOf(h, StoredIn(h, k)) = Seen(h, C, o, k)
  BY <1>2, StoredIs DEF Refs
<1>4. \A v \in Vars : ContentOf(h, {o[v]} \ {NULL}) = Seen(h, C, o, v)
  <2>1. ASSUME NEW v \in Vars PROVE ContentOf(h, {o[v]} \ {NULL}) = Seen(h, C, o, v)
    <3>1. v \in Refs /\ ListOf(h, o, v) = o[v]
      BY DEF Refs, ListOf
    <3>2. ContentOf(h, {ListOf(h, o, v)} \ {NULL}) = Seen(h, C, o, v)
      BY <1>2, <3>1
    <3> QED BY <3>1, <3>2
  <2> QED BY <2>1
<1> QED BY <1>3, <1>4 DEF AbstractOf, Shown

\* List and Held are what has been shown of them.
LEMMA ListIs ==
  /\ Created = Made(heap)
  /\ \A r : List(r) = ListOf(heap, own, r)
  /\ \A r \in Held : r \in Refs /\ ListOf(heap, own, r) # NULL
BY DEF List, ListOf, Created, Made, Held, Refs

LEMMA HeldIs ==
  ASSUME NEW C, Good(heap, own, entry_count, C), NEW r \in Held
  PROVE  /\ r \in Refs /\ List(r) = ListOf(heap, own, r) /\ List(r) \in InUse(heap) /\ List(r) # NULL
         /\ Map!Content(Shown(heap, C, own), r) = Text(heap, C, List(r))
         /\ Text(heap, C, List(r)) \in Seq(Texts)
         /\ heap[List(r)].data = Len(Text(heap, C, List(r)))
         /\ heap[List(r)].data \in Nat
<1>1. r \in Refs /\ List(r) = ListOf(heap, own, r) /\ List(r) # NULL
  BY ListIs
<1>2. List(r) \in InUse(heap)
  BY <1>1, ListOfIs
<1>3. Map!Content(Shown(heap, C, own), r) = Text(heap, C, List(r))
  BY <1>1, SeenIs
<1>4. Shape(heap, C) /\ Typed(heap) /\ List(r) \in ListBlocks
  BY <1>2 DEF Good, Shape, InUse
<1>5. /\ Text(heap, C, List(r)) \in Seq(Texts)
      /\ heap[List(r)].data = Len(Text(heap, C, List(r)))
  BY <1>2, <1>4, TextIs
<1>6. heap[List(r)].data \in Nat
  BY <1>2, <1>4 DEF Typed, InUse
<1> QED BY <1>1, <1>2, <1>3, <1>5, <1>6

LEMMA RoomIs ==
  ASSUME NEW l, NEW e, NEW k \in Nat, Room(l, k, e)
  PROVE  /\ l = 1 => Unused(heap, ListBlocks) # {}
         /\ e = 1 => Unused(heap, EntryBlocks) # {}
         /\ k = 1 => Unused(heap, NodeBlocks) # {}
         /\ Cardinality(Unused(heap, NodeBlocks)) >= k
BY FS_EmptySet DEF Room

LEMMA CreateIs ==
  ASSUME NEW C, Good(heap, own, entry_count, C), Create
  PROVE  \E D : /\ Good(heap', own', entry_count', D)
                /\ Shown(heap', D, own') = Map!Create(Shown(heap, C, own))
<1>1. ~Made(heap) /\ heap' = ht_create(heap) /\ entry_count' = 0 /\ own' = own
  BY ListIs DEF Create
<1> QED BY <1>1, NewTable

LEMMA DestroyIs ==
  ASSUME NEW C, Good(heap, own, entry_count, C), Destroy
  PROVE  \E D : /\ Good(heap', own', entry_count', D)
                /\ Shown(heap', D, own') = Map!Destroy(Shown(heap, C, own))
<1>1. Made(heap) /\ heap' = ht_free(heap) /\ entry_count' = 0 /\ own' = own
  BY ListIs DEF Destroy
<1> QED BY <1>1, TableGone

LEMMA BinMade ==
  ASSUME NEW h, NEW o, NEW n, NEW C, Good(h, o, n, C), Made(h), NEW k \in Keys
  PROVE  h[ht_hash[k]].kind = "bin"
BY TablesAssumption DEF Good, Alike, Made

LEMMA UnsetIs ==
  ASSUME NEW C, Good(heap, own, entry_count, C), NEW k \in Keys, Unset(k)
  PROVE  \E D : /\ Good(heap', own', entry_count', D)
                /\ Shown(heap', D, own') = Map!Unset(Shown(heap, C, own), k)
<1>1. /\ Made(heap) /\ heap' = ht_remove(heap, k) /\ own' = own
      /\ entry_count' = IF ht_contains(heap, k) THEN entry_count - 1 ELSE entry_count
  BY ListIs DEF Unset
<1>2. Shape(heap, C) /\ heap[ht_hash[k]].kind = "bin" /\ k \in Refs
  BY <1>1, BinMade DEF Good, Refs
<1>3. CASE \E e : Entry(heap, e, k)
  <2>1. PICK e : Entry(heap, e, k)
    BY <1>3
  <2>2. heap[e].value \in InUse(heap)
    BY <2>1 DEF Good, Owned, Entry, Entries
  <2>3. PICK D : /\ Shape(heap', D) /\ BinsSame(heap, heap')
                 /\ InUse(heap') = InUse(heap) \ {heap[e].value}
                 /\ Entries(heap') = Entries(heap) \ {e}
                 /\ Keeps(heap, heap', Entries(heap) \ {e})
                 /\ \A l \in InUse(heap) : l # heap[e].value => Text(heap', D, l) = Text(heap, C, l)
    BY <1>1, <1>2, <2>1, <2>2, UnsetStep
  <2>4. /\ Good(heap', own, entry_count - 1, D)
        /\ Shown(heap', D, own) = Map!Become(Shown(heap, C, own), k, NULL)
    BY <1>1, <2>1, <2>3, OutOfTable
  <2>5. entry_count' = entry_count - 1
    BY <1>1, <1>2, <2>1, GetIs
  <2> QED BY <1>1, <2>4, <2>5 DEF Map!Unset
<1>4. CASE ~ \E e : Entry(heap, e, k)
  <2>1. entry_for_key(heap, k) = NULL /\ ~ht_contains(heap, k)
    BY <1>2, <1>4, GetIs
  <2>2. heap' = heap /\ entry_count' = entry_count
    BY <1>1, <2>1 DEF ht_remove
  <2>3. Seen(heap, C, own, k) = NULL
    BY <1>2, <1>4, ListOfIs DEF Seen
  <2>4. Shown(heap, C, own) = Map!Become(Shown(heap, C, own), k, NULL)
    <3>1. \A r \in Refs : Seen(heap, C, own, r) = IF r = k THEN NULL ELSE Seen(heap, C, own, r)
      BY <2>3
    <3>2. k \in Vars \/ Made(heap)
      BY <1>1
    <3> QED BY <1>2, <3>1, <3>2, BecomeIs
  <2> QED BY <1>1, <2>2, <2>4 DEF Map!Unset
<1> QED BY <1>3, <1>4

LEMMA SetIs ==
  ASSUME NEW C, Good(heap, own, entry_count, C), NEW k \in Keys, NEW r \in Refs, Set(k, r)
  PROVE  \E D : /\ Good(heap', own', entry_count', D)
                /\ Shown(heap', D, own') = Map!Set(Shown(heap, C, own), k, r)
<1> DEFINE ll == List(r)
           s == Text(heap, C, ll)
           new == IF ht_contains(heap, k) THEN 0 ELSE 1
<1>1. /\ Made(heap) /\ r \in Held /\ r # k
      /\ Room(new, heap[ll].data, new)
      /\ heap' = ht_set(heap, k, ll) /\ own' = own
      /\ entry_count' = IF ht_contains(heap, k) THEN entry_count ELSE entry_count + 1
  BY ListIs DEF Set
<1>2. Shape(heap, C) /\ heap[ht_hash[k]].kind = "bin" /\ k \in Refs
  BY <1>1, BinMade DEF Good, Refs
<1>3. /\ ll = ListOf(heap, own, r) /\ ll \in InUse(heap) /\ ll # NULL
      /\ Map!Content(Shown(heap, C, own), r) = s
      /\ s \in Seq(Texts) /\ heap[ll].data \in Nat
  BY <1>1, HeldIs
<1>4. Map!Set(Shown(heap, C, own), k, r) = Map!Become(Shown(heap, C, own), k, s)
  BY <1>3 DEF Map!Set
<1>5. /\ new = 1 => Unused(heap, ListBlocks) # {} /\ Unused(heap, EntryBlocks) # {}
      /\ Cardinality(Unused(heap, NodeBlocks)) >= heap[ll].data
  <2> HIDE DEF new, ll
  <2> QED BY <1>1, <1>3, RoomIs
<1> HIDE DEF ll, s
<1>6. CASE \E e : Entry(heap, e, k)
  <2>1. PICK e : Entry(heap, e, k)
    BY <1>6
  <2> DEFINE v == heap[e].value
  <2>2. v \in InUse(heap)
    BY <2>1 DEF Good, Owned, Entry, Entries
  <2>3. ll # v
    <3>1. ListOf(heap, own, k) = v
      BY <1>2, <2>1, ListOfIs
    <3> QED BY <3>1, <1>1, <1>2, <1>3, OneOwner
  <2>4. \E b \in ListBlocks : \E D :
              /\ b \notin InUse(heap) \ {v}
              /\ Shape(heap', D) /\ BinsSame(heap, heap')
              /\ InUse(heap') = (InUse(heap) \ {v}) \cup {b}
              /\ Entries(heap') = Entries(heap) /\ Keeps(heap, heap', Entries(heap) \ {e})
              /\ heap'[e].data = k /\ heap'[e].value = b
              /\ Text(heap', D, b) = s
              /\ \A l \in InUse(heap) : l # v => Text(heap', D, l) = Text(heap, C, l)
    <3> DEFINE g == ht_set(heap, k, ll)
               t == Text(heap, C, ll)
    <3>1. /\ Shape(heap, C) /\ k \in Keys /\ heap[ht_hash[k]].kind = "bin"
          /\ Entry(heap, e, k) /\ heap[e].value \in InUse(heap)
          /\ ll \in InUse(heap) /\ ll # heap[e].value
          /\ Cardinality(Unused(heap, NodeBlocks)) >= heap[ll].data
      BY <1>2, <1>3, <1>5, <2>1, <2>2, <2>3
    <3>2. \E b \in ListBlocks : \E D :
              /\ b \notin InUse(heap) \ {v}
              /\ Shape(g, D) /\ BinsSame(heap, g)
              /\ InUse(g) = (InUse(heap) \ {v}) \cup {b}
              /\ Entries(g) = Entries(heap) /\ Keeps(heap, g, Entries(heap) \ {e})
              /\ g[e].data = k /\ g[e].value = b
              /\ Text(g, D, b) = t
              /\ \A l \in InUse(heap) : l # v => Text(g, D, l) = Text(heap, C, l)
      BY ONLY <3>1, SetOldStep
    <3>3. heap' = g /\ s = t
      BY <1>1 DEF s
    <3> HIDE DEF g, t, v
    <3> QED BY <3>2, <3>3
  <2>5. PICK b \in ListBlocks : \E D :
              /\ b \notin InUse(heap) \ {v}
              /\ Shape(heap', D) /\ BinsSame(heap, heap')
              /\ InUse(heap') = (InUse(heap) \ {v}) \cup {b}
              /\ Entries(heap') = Entries(heap) /\ Keeps(heap, heap', Entries(heap) \ {e})
              /\ heap'[e].data = k /\ heap'[e].value = b
              /\ Text(heap', D, b) = s
              /\ \A l \in InUse(heap) : l # v => Text(heap', D, l) = Text(heap, C, l)
    BY <2>4
  <2>6. PICK D :
              /\ b \notin InUse(heap) \ {v}
              /\ Shape(heap', D) /\ BinsSame(heap, heap')
              /\ InUse(heap') = (InUse(heap) \ {v}) \cup {b}
              /\ Entries(heap') = Entries(heap) /\ Keeps(heap, heap', Entries(heap) \ {e})
              /\ heap'[e].data = k /\ heap'[e].value = b
              /\ Text(heap', D, b) = s
              /\ \A l \in InUse(heap) : l # v => Text(heap', D, l) = Text(heap, C, l)
    BY <2>5
  <2>7. /\ Good(heap', own, entry_count, D)
        /\ Shown(heap', D, own) = Map!Become(Shown(heap, C, own), k, s)
    BY <1>1, <1>3, <2>1, <2>6, WithinTable
  <2>8. entry_count' = entry_count
    BY <1>1, <1>2, <2>1, GetIs
  <2> QED BY <1>1, <1>4, <2>7, <2>8
<1>7. CASE ~ \E e : Entry(heap, e, k)
  <2> DEFINE b == malloc(heap, ListBlocks)
             e == malloc(heap, EntryBlocks)
  <2>1. ~ht_contains(heap, k)
    BY <1>2, <1>7, GetIs
  <2>2. Unused(heap, ListBlocks) # {} /\ Unused(heap, EntryBlocks) # {}
    BY <1>5, <2>1
  <2>3. /\ b \in ListBlocks \ InUse(heap) /\ e \in EntryBlocks \ Entries(heap)
        /\ \E D : /\ Shape(heap', D) /\ BinsSame(heap, heap')
                  /\ InUse(heap') = InUse(heap) \cup {b}
                  /\ Entries(heap') = Entries(heap) \cup {e} /\ Keeps(heap, heap', Entries(heap))
                  /\ heap'[e].data = k /\ heap'[e].value = b
                  /\ \A l \in ListBlocks :
                       Text(heap', D, l) = IF l = b THEN s ELSE Text(heap, C, l)
    BY <1>1, <1>2, <1>3, <1>5, <1>7, <2>2, SetNewStep DEF s
  <2> HIDE DEF b, e
  <2>4. PICK D : /\ Shape(heap', D) /\ BinsSame(heap, heap')
                 /\ InUse(heap') = InUse(heap) \cup {b}
                 /\ Entries(heap') = Entries(heap) \cup {e} /\ Keeps(heap, heap', Entries(heap))
                 /\ heap'[e].data = k /\ heap'[e].value = b
                 /\ \A l \in ListBlocks :
                      Text(heap', D, l) = IF l = b THEN s ELSE Text(heap, C, l)
    BY <2>3
  <2>5. /\ Good(heap', own, entry_count + 1, D)
        /\ Shown(heap', D, own) = Map!Become(Shown(heap, C, own), k, s)
    BY <1>1, <1>3, <1>7, <2>3, <2>4, IntoTable
  <2>6. entry_count' = entry_count + 1
    BY <1>1, <2>1
  <2> QED BY <1>1, <1>4, <2>5, <2>6
<1> QED BY <1>6, <1>7

LEMMA NewIs ==
  ASSUME NEW C, Good(heap, own, entry_count, C), NEW v \in Vars, New(v)
  PROVE  \E D : /\ Good(heap', own', entry_count', D)
                /\ Shown(heap', D, own') = Map!New(Shown(heap, C, own), v)
<1> DEFINE b == malloc(heap, ListBlocks)
           s == <<>>
<1>1. /\ own[v] = NULL /\ Room(1, 0, 0) /\ heap' = ll_create(heap)
      /\ own' = [own EXCEPT ![v] = b] /\ entry_count' = entry_count
  BY DEF New
<1>2. Shape(heap, C) /\ Unused(heap, ListBlocks) # {}
  BY <1>1, RoomIs DEF Good
<1>3. /\ b \in ListBlocks \ InUse(heap)
      /\ Shape(heap', C) /\ Elsewhere(heap, C, heap', C)
      /\ InUse(heap') = InUse(heap) \cup {b}
      /\ \A l \in ListBlocks : Text(heap', C, l) = Text(heap, C, l)
      /\ Text(heap', C, b) = <<>>
  BY <1>1, <1>2, CreateStep
<1> HIDE DEF b
<1>4. s \in Seq(Texts)
  OBVIOUS
<1>5. \A l \in ListBlocks : Text(heap', C, l) = IF l = b THEN s ELSE Text(heap, C, l)
  BY <1>3
<1> HIDE DEF s
<1>7. Assigned(own, v, b, own')
  BY <1>1 DEF Assigned
<1>6. /\ Good(heap', own', entry_count, C)
      /\ Shown(heap', C, own') = Map!Become(Shown(heap, C, own), v, s)
  BY <1>1, <1>3, <1>4, <1>5, <1>7, IntoVar
<1> QED BY <1>1, <1>6 DEF Map!New, s

LEMMA CopyIs ==
  ASSUME NEW C, Good(heap, own, entry_count, C), NEW v \in Vars, NEW r \in Refs, Copy(v, r)
  PROVE  \E D : /\ Good(heap', own', entry_count', D)
                /\ Shown(heap', D, own') = Map!Copy(Shown(heap, C, own), v, r)
<1> DEFINE b == malloc(heap, ListBlocks)
           ll == List(r)
           s == Text(heap, C, ll)
<1>1. /\ own[v] = NULL /\ r \in Held /\ Room(1, heap[ll].data, 0) /\ heap' = ll_copy(heap, ll)
      /\ own' = [own EXCEPT ![v] = b] /\ entry_count' = entry_count
  BY DEF Copy
<1>2. /\ ll \in InUse(heap) /\ Map!Content(Shown(heap, C, own), r) = s
      /\ s \in Seq(Texts) /\ heap[ll].data \in Nat
  BY <1>1, HeldIs
<1> HIDE DEF ll
<1>3. /\ Shape(heap, C) /\ Unused(heap, ListBlocks) # {}
      /\ Cardinality(Unused(heap, NodeBlocks)) >= heap[ll].data
  BY <1>1, <1>2, RoomIs DEF Good
<1>4. /\ b \in ListBlocks \ InUse(heap)
      /\ \E D : /\ Shape(heap', D) /\ Elsewhere(heap, C, heap', D)
                /\ InUse(heap') = InUse(heap) \cup {b}
                /\ \A l \in ListBlocks :
                     Text(heap', D, l) = IF l = b THEN s ELSE Text(heap, C, l)
  BY <1>1, <1>2, <1>3, CopyStep
<1> HIDE DEF b, s
<1>5. PICK D : /\ Shape(heap', D) /\ Elsewhere(heap, C, heap', D)
               /\ InUse(heap') = InUse(heap) \cup {b}
               /\ \A l \in ListBlocks :
                    Text(heap', D, l) = IF l = b THEN s ELSE Text(heap, C, l)
  BY <1>4
<1>7. Assigned(own, v, b, own')
  BY <1>1 DEF Assigned
<1>6. /\ Good(heap', own', entry_count, D)
      /\ Shown(heap', D, own') = Map!Become(Shown(heap, C, own), v, s)
  BY <1>1, <1>2, <1>4, <1>5, <1>7, IntoVar
<1> QED BY <1>1, <1>2, <1>6 DEF Map!Copy

LEMMA DropIs ==
  ASSUME NEW C, Good(heap, own, entry_count, C), NEW v \in Vars, Drop(v)
  PROVE  \E D : /\ Good(heap', own', entry_count', D)
                /\ Shown(heap', D, own') = Map!Drop(Shown(heap, C, own), v)
<1> DEFINE ll == own[v]
           D == Emptied(C, {ll})
<1>1. /\ ll # NULL /\ heap' = ll_free(heap, ll)
      /\ own' = [own EXCEPT ![v] = NULL] /\ entry_count' = entry_count
  BY DEF Drop
<1>2. Shape(heap, C) /\ ll \in InUse(heap)
  BY <1>1 DEF Good, Owned
<1> HIDE DEF ll
<1> DEFINE g == ll_free(heap, ll)
<1>3. /\ Shape(g, D) /\ Elsewhere(heap, C, g, D)
      /\ InUse(g) = InUse(heap) \ {ll} /\ Silenced(heap, C, g, D, ll)
  BY ONLY <1>2, FreeStep
<1> HIDE DEF D, g
<1>4. \A l \in InUse(heap) : l # ll => Text(g, D, l) = Text(heap, C, l)
  BY <1>3 DEF InUse, Silenced
<1>6. Assigned(own, v, NULL, own')
  BY <1>1 DEF Assigned
<1>5. /\ Good(g, own', entry_count, D)
      /\ Shown(g, D, own') = Map!Become(Shown(heap, C, own), v, NULL)
  BY <1>1, <1>3, <1>4, <1>6, FromVar DEF ll
<1> QED BY <1>1, <1>5 DEF Map!Drop, g

LEMMA PrependIs ==
  ASSUME NEW C, Good(heap, own, entry_count, C), NEW r \in Refs, NEW t \in Texts, Prepend(r, t)
  PROVE  \E D : /\ Good(heap', own', entry_count', D)
                /\ Shown(heap', D, own') = Map!Prepend(Shown(heap, C, own), r, t)
<1> DEFINE ll == List(r)
           s == Text(heap, C, ll)
           D == [C EXCEPT ![ll] = InsertAt(C[ll], 1, malloc(heap, NodeBlocks))]
<1>1. /\ r \in Held /\ Room(0, 1, 0) /\ heap' = ll_prepend(heap, ll, t)
      /\ own' = own /\ entry_count' = entry_count
  BY DEF Prepend, Changes
<1>2. /\ ll \in InUse(heap) /\ ll = ListOf(heap, own, r) /\ ll # NULL
      /\ Map!Content(Shown(heap, C, own), r) = s /\ s \in Seq(Texts)
  BY <1>1, HeldIs
<1> HIDE DEF ll
<1>3. Shape(heap, C) /\ Unused(heap, NodeBlocks) # {}
  BY <1>1, RoomIs DEF Good
<1> DEFINE g == ll_prepend(heap, ll, t)
<1>4. /\ Shape(g, D) /\ Elsewhere(heap, C, g, D) /\ InUse(g) = InUse(heap)
      /\ \A l \in ListBlocks : Text(g, D, l) = IF l = ll THEN Cons(t, s) ELSE Text(heap, C, l)
  <2>1. Shape(heap, C) /\ ll \in InUse(heap) /\ t \in Texts /\ Unused(heap, NodeBlocks) # {}
    BY <1>2, <1>3
  <2>2. Shape(g, D)
    BY ONLY <2>1, PrependStep
  <2>3. Elsewhere(heap, C, g, D)
    BY ONLY <2>1, PrependStep
  <2>4. InUse(g) = InUse(heap)
    BY ONLY <2>1, PrependStep
  <2>5. ASSUME NEW l \in ListBlocks
        PROVE  Text(g, D, l) = IF l = ll THEN Cons(t, s) ELSE Text(heap, C, l)
    BY ONLY <2>1, PrependStep
  <2> QED BY <2>2, <2>3, <2>4, <2>5
<1>5. heap' = g
  BY <1>1
<1> HIDE DEF D, g, s
<1>6. Cons(t, s) \in Seq(Texts)
  BY <1>2, ConcatProperties DEF Cons
<1>7. /\ Good(g, own, entry_count, D)
      /\ Shown(g, D, own) = Map!Become(Shown(heap, C, own), r, Cons(t, s))
  BY <1>2, <1>4, <1>6, InPlace
<1>8. Map!Prepend(Shown(heap, C, own), r, t) = Map!Become(Shown(heap, C, own), r, Cons(t, s))
  BY <1>2 DEF Map!Prepend, Map!Cons, Cons
<1> QED BY <1>1, <1>5, <1>7, <1>8

\* The node at position p goes.
LEMMA CutIs ==
  ASSUME NEW C, Good(heap, own, entry_count, C), NEW r \in Held,
         NEW p \in 1..Len(Text(heap, C, List(r))),
         Changes(Cut(heap, List(r), p))
  PROVE  \E D : /\ Good(heap', own', entry_count', D)
                /\ Shown(heap', D, own') =
                     Map!Become(Shown(heap, C, own), r, RemoveAt(Text(heap, C, List(r)), p))
<1> DEFINE ll == List(r)
           s == Text(heap, C, ll)
           D == [C EXCEPT ![ll] = RemoveAt(C[ll], p)]
           g == Cut(heap, ll, p)
<1>1. heap' = g /\ own' = own /\ entry_count' = entry_count
  BY DEF Changes
<1>2. /\ ll \in InUse(heap) /\ ll = ListOf(heap, own, r) /\ ll # NULL /\ r \in Refs
      /\ s \in Seq(Texts) /\ ll \in ListBlocks
  BY HeldIs DEF InUse
<1>3. Shape(heap, C)
  BY DEF Good
<1>4. p \in 1..Len(C[ll])
  BY <1>2, <1>3, TextIs
<1>5. RemoveAt(s, p) \in Seq(Texts)
  BY <1>2, RemoveAtIs
<1> HIDE DEF ll
<1>6. /\ Shape(g, D) /\ Elsewhere(heap, C, g, D) /\ InUse(g) = InUse(heap)
      /\ \A l \in ListBlocks :
           Text(g, D, l) = IF l = ll THEN RemoveAt(s, p) ELSE Text(heap, C, l)
  <2>1. Shape(heap, C) /\ ll \in InUse(heap) /\ p \in 1..Len(C[ll])
    BY <1>2, <1>3, <1>4
  <2>2. Shape(g, D)
    BY ONLY <2>1, CutStep
  <2>3. Elsewhere(heap, C, g, D)
    BY ONLY <2>1, CutStep
  <2>4. InUse(g) = InUse(heap)
    BY ONLY <2>1, CutStep
  <2>5. ASSUME NEW l \in ListBlocks
        PROVE  Text(g, D, l) = IF l = ll THEN RemoveAt(s, p) ELSE Text(heap, C, l)
    BY ONLY <2>1, CutStep
  <2> QED BY <2>2, <2>3, <2>4, <2>5
<1> HIDE DEF D, g
<1>7. /\ Good(g, own, entry_count, D)
      /\ Shown(g, D, own) = Map!Become(Shown(heap, C, own), r, RemoveAt(s, p))
  <2> HIDE DEF s
  <2> QED BY <1>2, <1>5, <1>6, InPlace
<1> QED BY <1>1, <1>7 DEF ll

LEMMA DeleteIs ==
  ASSUME NEW C, Good(heap, own, entry_count, C), NEW r \in Refs, NEW i \in Nat, Delete(r, i)
  PROVE  \E D : /\ Good(heap', own', entry_count', D)
                /\ Shown(heap', D, own') = Map!Delete(Shown(heap, C, own), r, i)
<1> DEFINE ll == List(r)
           s == Text(heap, C, ll)
<1>1. r \in Held /\ Changes(ll_remove(heap, ll, i))
  BY DEF Delete
<1>2. Map!Content(Shown(heap, C, own), r) = s /\ heap[ll].data = Len(s) /\ Len(s) \in Nat
  BY <1>1, HeldIs
<1> HIDE DEF ll, s
<1>3. Map!Delete(Shown(heap, C, own), r, i) =
        IF i < Len(s) THEN Map!Become(Shown(heap, C, own), r, RemoveAt(s, i + 1))
                      ELSE Shown(heap, C, own)
  BY <1>2 DEF Map!Delete, Map!RemoveAt, RemoveAt
<1>4. CASE i < Len(s)
  <2>1. ~(i >= heap[ll].data) /\ i + 1 \in 1..Len(s)
    BY <1>2, <1>4
  <2>2. Changes(Cut(heap, ll, i + 1))
    BY <1>1, <2>1 DEF ll_remove
  <2>3. \E D : /\ Good(heap', own', entry_count', D)
               /\ Shown(heap', D, own') = Map!Become(Shown(heap, C, own), r, RemoveAt(s, i + 1))
    BY <1>1, <2>1, <2>2, CutIs DEF ll, s
  <2> QED BY <1>3, <1>4, <2>3
<1>5. CASE ~(i < Len(s))
  <2>1. i >= heap[ll].data
    BY <1>2, <1>5
  <2>2. heap' = heap /\ own' = own /\ entry_count' = entry_count
    BY <1>1, <2>1 DEF ll_remove, Changes
  <2> QED BY <1>3, <1>5, <2>2
<1> QED BY <1>4, <1>5

LEMMA MinIs ==
  ASSUME NEW S \in SUBSET Nat, S # {}
  PROVE  Min(S) \in S
<1>1. PICK m \in S : \A k \in S : ~(k < m)
  BY LeastOf
<1>2. \A k \in S : m =< k
  BY <1>1
<1> QED BY <1>1, <1>2 DEF Min

LEMMA DeleteValueIs ==
  ASSUME NEW C, Good(heap, own, entry_count, C), NEW r \in Refs, NEW t \in Texts, DeleteValue(r, t)
  PROVE  \E D : /\ Good(heap', own', entry_count', D)
                /\ Shown(heap', D, own') = Map!DeleteValue(Shown(heap, C, own), r, t)
<1> DEFINE ll == List(r)
           c == C[ll]
           s == Text(heap, C, ll)
           S == {i \in 1..Len(s) : s[i] = t}
           p == Min(S)
<1>1. r \in Held /\ Changes(ll_remove_value(heap, ll, t))
  BY DEF DeleteValue
<1>2. Map!Content(Shown(heap, C, own), r) = s /\ s \in Seq(Texts) /\ Len(s) \in Nat /\ ll \in ListBlocks
  BY <1>1, HeldIs DEF InUse
<1>3. Shape(heap, C) /\ Typed(heap) /\ Chained(heap, C) /\ ll \in Heads
  BY <1>2 DEF Good, Shape, Heads
<1> HIDE DEF ll
<1>4. /\ Chain(heap, ll) = c /\ DOMAIN c = 1..Len(s) /\ Len(c) = Len(s)
      /\ \A i \in 1..Len(s) : heap[c[i]].data = s[i]
  BY <1>2, <1>3, ChainIs, ChainTypes, TextIs
<1> HIDE DEF c, s
<1>5. Map!DeleteValue(Shown(heap, C, own), r, t) = Map!Become(Shown(heap, C, own), r, RemoveFirst(s, t))
  BY <1>2 DEF Map!DeleteValue, Map!RemoveFirst, RemoveFirst, Map!RemoveAt, RemoveAt, Map!SelectInSeq, SelectInSeq,
                Map!Min, Min
<1>6. CASE S # {}
  <2>1. p \in S /\ p \in 1..Len(s)
    <3>1. S \in SUBSET Nat
      OBVIOUS
    <3>2. p \in S
      <4> HIDE DEF S
      <4> QED BY <1>6, <3>1, MinIs
    <3> HIDE DEF p
    <3> QED BY <3>2
  <2>2. RemoveFirst(s, t) = RemoveAt(s, p)
    BY <1>6 DEF RemoveFirst, SelectInSeq
  <2>3. ll_remove_value(heap, ll, t) = Cut(heap, ll, p)
    <3>1. {i \in 1..Len(c) : heap[c[i]].data = t} = S
      BY <1>4
    <3>2. \E i \in DOMAIN c : heap[c[i]].data = t
      BY <1>4, <1>6
    <3>3. ll_remove_value(heap, ll, t) =
            Cut(heap, ll, SelectInSeq(c, LAMBDA b : heap[b].data = t))
      BY <1>4, <3>2 DEF ll_remove_value
    <3>4. SelectInSeq(c, LAMBDA b : heap[b].data = t) = p
      <4> HIDE DEF S
      <4>1. SelectInSeq(c, LAMBDA b : heap[b].data = t) = IF S # {} THEN Min(S) ELSE 0
        BY <3>1 DEF SelectInSeq
      <4> QED BY <4>1, <1>6
    <3> QED BY <3>3, <3>4
  <2> HIDE DEF p
  <2>4. Changes(Cut(heap, ll, p))
    BY <1>1, <2>3
  <2>5. \E D : /\ Good(heap', own', entry_count', D)
               /\ Shown(heap', D, own') = Map!Become(Shown(heap, C, own), r, RemoveAt(s, p))
    BY <1>1, <2>1, <2>4, CutIs DEF ll, s
  <2> QED BY <1>5, <2>2, <2>5
<1>7. CASE S = {}
  <2>1. RemoveFirst(s, t) = s
    BY <1>7 DEF RemoveFirst
  <2>2. ll_remove_value(heap, ll, t) = heap
    BY <1>4, <1>7 DEF ll_remove_value
  <2>3. heap' = heap /\ own' = own /\ entry_count' = entry_count
    BY <1>1, <2>2 DEF Changes
  <2>4. Seen(heap, C, own, r) = s
    BY <1>1, <1>2, SeenIs
  <2>5. Shown(heap, C, own) = Map!Become(Shown(heap, C, own), r, s)
    <3>1. \A q \in Refs : Seen(heap, C, own, q) = IF q = r THEN s ELSE Seen(heap, C, own, q)
      BY <2>4
    <3>2. r \in Vars \/ Made(heap)
      BY <1>1, ListIs DEF ListOf
    <3> QED BY <3>1, <3>2, BecomeIs
  <2> QED BY <1>5, <2>1, <2>3, <2>5
<1> QED BY <1>6, <1>7


-----------------------------------------------------------------------------
(* The invariant holds                                                     *)

LEMMA NothingIs ==
  ASSUME Init
  PROVE  \E C : Good(heap, own, entry_count, C) /\ Shown(heap, C, own) = Map!Nothing
<1> DEFINE C == [b \in Heads |-> <<>>]
<1>1. /\ \A b \in Blocks : heap[b] = Freed
      /\ heap = [b \in Blocks |-> Freed]
      /\ entry_count = 0 /\ own = [v \in Vars |-> NULL]
  BY DEF Init
<1>2. \A b \in Heads : C[b] = <<>> /\ Len(C[b]) = 0 /\ C[b] \in Seq(Cells)
  OBVIOUS
<1>3. C \in Chains
  BY DEF Chains
<1> HIDE DEF C
<1>4. Typed(heap)
  <2>1. Freed \in Fields
    BY DEF Freed, Block, Fields, Kinds, Data, Pointers
  <2>2. heap \in Heap
    BY <1>1, <2>1 DEF Heap
  <2> QED BY <1>1, <2>2, FreedIs, Pools DEF Typed, Heads, Cells
<1>5. Chained(heap, C)
  <2>1. Linked(heap, C)
    BY <1>1, <1>2, FreedIs, Pools DEF Linked, Nth
  <2>2. Sized(heap, C)
    BY <1>1, <1>2, FreedIs, Pools DEF Sized, Heads
  <2>3. Disjoint(C)
    BY <1>2 DEF Disjoint
  <2>4. Covered(heap, C)
    BY <1>1, FreedIs, Pools DEF Covered
  <2> QED BY <1>3, <2>1, <2>2, <2>3, <2>4 DEF Chained
<1>6. Keyed(heap, C)
  BY <1>2 DEF Keyed, Heads
<1>7. InUse(heap) = {} /\ Entries(heap) = {} /\ ~Made(heap)
  BY <1>1, FreedIs, Pools DEF InUse, Entries, Made, Heads, Cells
<1>8. Owned(heap, own)
  BY <1>1, <1>7 DEF Owned
<1>9. Alike(heap)
  BY <1>1, Pools DEF Alike, Heads
<1>10. Cardinality(Entries(heap)) = 0
  BY <1>7, FS_EmptySet
<1>11. Good(heap, own, entry_count, C)
  BY <1>1, <1>4, <1>5, <1>6, <1>8, <1>9, <1>10 DEF Good, Shape
<1>12. Shown(heap, C, own) = Map!Nothing
  <2>1. \A v \in Vars : Seen(heap, C, own, v) = NULL
    BY <1>1 DEF Seen, ListOf
  <2> QED BY <1>7, <2>1 DEF Shown, Map!Nothing
<1> QED BY <1>11, <1>12

LEMMA IndicesIs ==
  Indices \subseteq Nat
<1>1. IsFiniteSet(NodeBlocks)
  BY TablesAssumption
<1>2. Cardinality(NodeBlocks) \in Nat
  BY <1>1, FS_CardinalityType
<1> QED BY <1>2 DEF Indices

\* One block leads to another only as a chain does.
LEMMA Preceded ==
  ASSUME NEW h, NEW C, Chained(h, C), NEW c \in Blocks, h[c].next # NULL
  PROVE  \E a \in Heads : \E i \in 1..Len(C[a]) : c = CellBefore(C, a, i) /\ h[c].next = C[a][i]
<1>1. CASE c \in Heads
  <2>1. h[c].next = Nth(C[c], 1) /\ Len(C[c]) \in Nat
    BY <1>1, ChainTypes DEF Chained, Linked
  <2>2. 1 \in 1..Len(C[c]) /\ Nth(C[c], 1) = C[c][1]
    BY <2>1 DEF Nth
  <2>3. c = CellBefore(C, c, 1)
    BY DEF CellBefore
  <2> QED BY <1>1, <2>1, <2>2, <2>3
<1>2. CASE c \in Cells
  <2>1. PICK a \in Heads : \E i \in 1..Len(C[a]) : c = C[a][i]
    BY <1>2 DEF Chained, Covered
  <2>2. PICK i \in 1..Len(C[a]) : c = C[a][i]
    BY <2>1
  <2>3. h[c].next = Nth(C[a], i + 1) /\ Len(C[a]) \in Nat
    BY <2>2, ChainTypes DEF Chained, Linked
  <2>4. i + 1 \in 1..Len(C[a]) /\ Nth(C[a], i + 1) = C[a][i + 1]
    BY <2>3 DEF Nth
  <2>5. c = CellBefore(C, a, i + 1)
    <3>1. i + 1 # 1 /\ (i + 1) - 1 = i
      BY <2>3
    <3> QED BY <2>2, <3>1 DEF CellBefore
  <2> QED BY <2>3, <2>4, <2>5
<1> QED BY <1>1, <1>2, Pools

LEMMA Precedes ==
  ASSUME NEW h, NEW C, Shape(h, C), NEW a \in Heads, NEW i \in 1..Len(C[a])
  PROVE  /\ CellBefore(C, a, i) \in Blocks /\ h[CellBefore(C, a, i)].next = C[a][i]
         /\ h[a].kind # "free"
<1>1. Chained(h, C)
  BY DEF Shape
<1>2. Len(C[a]) \in Nat /\ C[a] # <<>>
  BY <1>1, ChainTypes
<1>3. h[a].kind # "free"
  BY <1>1, <1>2 DEF Chained, Sized
<1>4. i \in 1..(Len(C[a]) + 1) /\ Nth(C[a], i) = C[a][i]
  BY <1>2 DEF Nth
<1> QED BY <1>1, <1>3, <1>4, LastIs

LEMMA NextIs ==
  ASSUME TableInv, Next
  PROVE  TableInv'
<1>1. PICK C : Good(heap, own, entry_count, C)
  BY DEF TableInv
<1> SUFFICES \E D : Good(heap', own', entry_count', D)
  BY DEF TableInv
<1>2. CASE Create
  BY <1>1, <1>2, CreateIs
<1>3. CASE Destroy
  BY <1>1, <1>3, DestroyIs
<1>4. CASE \E k \in Keys : Unset(k)
  BY <1>1, <1>4, UnsetIs
<1>5. CASE \E k \in Keys : \E r \in Refs : Set(k, r)
  BY <1>1, <1>5, SetIs
<1>6. CASE \E v \in Vars : New(v)
  BY <1>1, <1>6, NewIs
<1>7. CASE \E v \in Vars : Drop(v)
  BY <1>1, <1>7, DropIs
<1>8. CASE \E v \in Vars : \E r \in Refs : Copy(v, r)
  BY <1>1, <1>8, CopyIs
<1>9. CASE \E r \in Refs, t \in Texts : Prepend(r, t)
  BY <1>1, <1>9, PrependIs
<1>10. CASE \E r \in Refs, t \in Texts : DeleteValue(r, t)
  BY <1>1, <1>10, DeleteValueIs
<1>11. CASE \E r \in Refs, i \in Indices : Delete(r, i)
  BY <1>1, <1>11, IndicesIs, DeleteIs
<1> QED BY <1>2, <1>3, <1>4, <1>5, <1>6, <1>7, <1>8, <1>9, <1>10, <1>11 DEF Next

-----------------------------------------------------------------------------
(* The safety properties follow                                            *)

\* What leads to a block: a chain to a cell, an owner to a list.
LEMMA LeadingCell ==
  ASSUME NEW C, Good(heap, own, entry_count, C), NEW b \in Cells
  PROVE  Cardinality(Leading(b)) = IF heap[b].kind = "free" THEN 0 ELSE 1
<1>1. Shape(heap, C) /\ Chained(heap, C) /\ Typed(heap) /\ Owned(heap, own)
  BY DEF Good, Shape
<1>2. b \notin ListBlocks /\ b # NULL /\ b \in Blocks
  BY Pools DEF Heads
<1>3. {c \in Blocks : heap[c].value = b} = {}
  BY <1>1, <1>2, Pools DEF Typed, Heads, Cells
<1>4. {v \in Vars : own[v] = b} = {}
  BY <1>1, <1>2 DEF Owned, InUse
<1>5. Leading(b) = {c \in Blocks : heap[c].next = b}
  BY <1>3, <1>4 DEF Leading
<1>6. ASSUME NEW c \in Blocks, heap[c].next = b
      PROVE  /\ heap[b].kind # "free"
             /\ \E a \in Heads : \E i \in 1..Len(C[a]) : c = CellBefore(C, a, i) /\ b = C[a][i]
  <2>1. \E a \in Heads : \E i \in 1..Len(C[a]) : c = CellBefore(C, a, i) /\ heap[c].next = C[a][i]
    BY <1>1, <1>2, <1>6, Preceded
  <2> QED BY <2>1, <1>1, <1>6 DEF Chained, Linked
<1>7. CASE heap[b].kind = "free"
  BY <1>5, <1>6, <1>7, FS_EmptySet
<1>8. CASE heap[b].kind # "free"
  <2>1. PICK a \in Heads : \E i \in 1..Len(C[a]) : b = C[a][i]
    BY <1>1, <1>8 DEF Chained, Covered
  <2>2. PICK i \in 1..Len(C[a]) : b = C[a][i]
    BY <2>1
  <2> DEFINE x == CellBefore(C, a, i)
  <2>3. x \in Blocks /\ heap[x].next = b
    BY <1>1, <2>2, Precedes
  <2>4. ASSUME NEW c \in Blocks, heap[c].next = b PROVE c = x
    <3>1. PICK d \in Heads : \E j \in 1..Len(C[d]) : c = CellBefore(C, d, j) /\ b = C[d][j]
      BY <1>6, <2>4
    <3>2. PICK j \in 1..Len(C[d]) : c = CellBefore(C, d, j) /\ b = C[d][j]
      BY <3>1
    <3>3. C[d][j] = C[a][i]
      BY <2>2, <3>2
    <3>4. d = a /\ j = i
      BY <1>1, <3>3 DEF Chained, Disjoint
    <3> QED BY <3>2, <3>4
  <2> HIDE DEF x
  <2>5. Leading(b) = {x}
    BY <1>5, <2>3, <2>4
  <2> QED BY <1>8, <2>5, FS_Singleton
<1> QED BY <1>7, <1>8

LEMMA LeadingList ==
  ASSUME NEW C, Good(heap, own, entry_count, C), NEW b \in ListBlocks
  PROVE  Cardinality(Leading(b)) = IF heap[b].kind = "free" THEN 0 ELSE 1
<1>1. Shape(heap, C) /\ Chained(heap, C) /\ Typed(heap) /\ Owned(heap, own)
  BY DEF Good, Shape
<1>2. b \in Heads /\ b # NULL /\ b \in Blocks
  BY Pools DEF Heads
<1>3. {c \in Blocks : heap[c].next = b} = {}
  <2>1. ASSUME NEW c \in Blocks, heap[c].next = b PROVE FALSE
    <3>1. \E a \in Heads : \E i \in 1..Len(C[a]) : heap[c].next = C[a][i]
      BY <1>1, <1>2, <2>1, Preceded
    <3> QED BY <3>1, <2>1, <1>1, <1>2, ChainTypes
  <2> QED BY <2>1
<1>4. \A c \in Blocks : heap[c].value = b => c \in Entries(heap)
  BY <1>1, <1>2, Pools DEF Typed, Heads, Cells, Entries
<1>5. \A c \in Entries(heap) : c \in Blocks
  BY Pools DEF Entries, Cells
<1>6. Leading(b) = {e \in Entries(heap) : heap[e].value = b} \cup {v \in Vars : own[v] = b}
  BY <1>3, <1>4, <1>5 DEF Leading
<1>7. CASE heap[b].kind = "free"
  <2>1. b \notin InUse(heap)
    BY <1>7 DEF InUse
  <2>2. Leading(b) = {}
    BY <1>1, <1>2, <1>6, <2>1 DEF Owned
  <2> QED BY <1>7, <2>2, FS_EmptySet
<1>8. CASE heap[b].kind # "free"
  <2>1. b \in InUse(heap)
    BY <1>1, <1>8 DEF Typed, InUse
  <2>2. \E x : Leading(b) = {x}
    <3>1. CASE \E v \in Vars : own[v] = b
      <4>1. PICK v \in Vars : own[v] = b
        BY <3>1
      <4>2. Leading(b) = {v}
        BY <1>1, <1>2, <1>6, <4>1 DEF Owned
      <4> QED BY <4>2
    <3>2. CASE \E e \in Entries(heap) : heap[e].value = b
      <4>1. PICK e \in Entries(heap) : heap[e].value = b
        BY <3>2
      <4>2. Leading(b) = {e}
        BY <1>1, <1>6, <4>1 DEF Owned
      <4> QED BY <4>2
    <3> QED BY <1>1, <2>1, <3>1, <3>2 DEF Owned
  <2>3. PICK x : Leading(b) = {x}
    BY <2>2
  <2> QED BY <1>8, <2>3, FS_Singleton
<1> QED BY <1>7, <1>8

LEMMA OwnedOnceIs ==
  ASSUME TableInv
  PROVE  OwnedOnce
<1>1. PICK C : Good(heap, own, entry_count, C)
  BY DEF TableInv
<1>2. ASSUME NEW b \in Blocks \ Bins
      PROVE  b \in Cells \/ b \in ListBlocks
  BY DEF Blocks, Cells
<1> QED BY <1>1, <1>2, LeadingCell, LeadingList DEF OwnedOnce

LEMMA SortedIs ==
  ASSUME TableInv
  PROVE  Sorted
<1>1. PICK C : Good(heap, own, entry_count, C)
  BY DEF TableInv
<1>2. Shape(heap, C) /\ Chained(heap, C) /\ Typed(heap) /\ Keyed(heap, C)
  BY <1>1 DEF Good, Shape
<1> SUFFICES ASSUME NEW b \in Blocks, heap[b].next \in EntryBlocks
             PROVE  \/ /\ heap[b].kind = "bin" /\ ht_hash[heap[heap[b].next].data] = b
                    \/ /\ heap[b].kind = "entry"
                       /\ ht_hash[heap[b].data] = ht_hash[heap[heap[b].next].data]
                       /\ heap[b].data < heap[heap[b].next].data
  BY DEF Sorted
<1> DEFINE f == heap[b].next
<1>3. f # NULL
  BY Pools DEF Cells
<1>4. PICK a \in Heads : \E i \in 1..Len(C[a]) : b = CellBefore(C, a, i) /\ f = C[a][i]
  BY <1>2, <1>3, Preceded
<1>5. PICK i \in 1..Len(C[a]) : b = CellBefore(C, a, i) /\ f = C[a][i]
  BY <1>4
<1>6. a \in Bins
  <2>1. a \notin Bins => f \in NodeBlocks
    BY <1>2, <1>5 DEF Chained, Linked, Pool
  <2> QED BY <2>1, Pools
<1>7. ht_hash[heap[f].data] = a
  BY <1>2, <1>5, <1>6 DEF Keyed
<1>8. Len(C[a]) \in Nat
  BY <1>2, ChainTypes
<1> HIDE DEF f
<1>9. CASE i = 1
  <2>1. b = a
    BY <1>5, <1>9 DEF CellBefore
  <2>2. heap[a].kind = "bin"
    BY <1>2, <1>5, <1>6, Precedes DEF Typed
  <2> QED BY <1>7, <2>1, <2>2 DEF f
<1>10. CASE i # 1
  <2> DEFINE j == i - 1
  <2>1. j \in 1..Len(C[a]) /\ j < i /\ b = C[a][j]
    BY <1>5, <1>8, <1>10 DEF CellBefore
  <2> HIDE DEF j
  <2>2. /\ heap[b].kind = "entry" /\ ht_hash[heap[b].data] = a
    BY <1>2, <1>6, <2>1, BinCells
  <2>3. heap[b].data < heap[f].data
    BY <1>2, <1>5, <1>6, <2>1 DEF Keyed
  <2> QED BY <1>7, <2>2, <2>3 DEF f
<1> QED BY <1>9, <1>10

\* What the list functions read of a list is its text.
LEMMA StrIs ==
  ASSUME NEW h, NEW C, Shape(h, C), NEW l \in InUse(h)
  PROVE  /\ ll_str(h, l) = Text(h, C, l) /\ SequenceOf(h, l) = Text(h, C, l)
         /\ h[l].data = Len(Text(h, C, l)) /\ Len(Text(h, C, l)) \in Nat
         /\ \A i \in Nat : ll_get(h, l, i) = IF i < Len(Text(h, C, l)) THEN Text(h, C, l)[i + 1] ELSE NULL
<1>1. l \in ListBlocks /\ l \in Heads /\ Typed(h) /\ Chained(h, C)
  BY DEF InUse, Heads, Shape
<1>2. /\ Chain(h, l) = C[l] /\ Len(C[l]) \in Nat
  BY <1>1, ChainIs, ChainTypes
<1>3. /\ Len(Text(h, C, l)) = Len(C[l]) /\ h[l].data = Len(C[l])
      /\ \A i \in 1..Len(C[l]) : Text(h, C, l)[i] = h[C[l][i]].data
  BY <1>1, TextIs
<1>4. ll_str(h, l) = Text(h, C, l)
  BY <1>2, <1>3 DEF ll_str, Text
<1>5. SequenceOf(h, l) = Text(h, C, l)
  BY <1>1, SequenceIs
<1>6. ASSUME NEW i \in Nat
      PROVE  ll_get(h, l, i) = IF i < Len(C[l]) THEN Text(h, C, l)[i + 1] ELSE NULL
  <2>1. ll_get(h, l, i) = IF i >= Len(C[l]) THEN NULL ELSE h[C[l][i + 1]].data
    BY <1>2, <1>3 DEF ll_get
  <2>2. i < Len(C[l]) => i + 1 \in 1..Len(C[l])
    BY <1>2
  <2> QED BY <2>1, <2>2, <1>2, <1>3
<1> QED BY <1>2, <1>3, <1>4, <1>5, <1>6

LEMMA StoredRight ==
  ASSUME NEW C, Good(heap, own, entry_count, C), Created, NEW k \in Keys
  PROVE  /\ Stored(k) = {ht_get(heap, k)} \ {NULL}
         /\ ht_contains(heap, k) <=> Stored(k) # {}
<1>1. Stored(k) = StoredIn(heap, k) /\ Made(heap)
  BY ListIs DEF Stored, StoredIn
<1>2. ListOf(heap, own, k) = ht_get(heap, k)
  BY <1>1, TablesAssumption DEF ListOf
<1>3. heap[ht_hash[k]].kind = "bin" /\ Shape(heap, C)
  BY <1>1, BinMade DEF Good
<1>4. ht_contains(heap, k) <=> \E e : Entry(heap, e, k)
  BY <1>3, GetIs
<1> QED BY <1>1, <1>2, <1>4, StoredIs

LEMMA EqualRight ==
  ASSUME NEW C, Good(heap, own, entry_count, C), NEW r \in Held, NEW q \in Held
  PROVE  ll_equal(heap, List(r), List(q)) <=> Sequence(List(r)) = Sequence(List(q))
<1> DEFINE a == List(r)
           b == List(q)
<1>1. a \in InUse(heap) /\ b \in InUse(heap) /\ Shape(heap, C)
  BY HeldIs DEF Good
<1> HIDE DEF a, b
<1>2. /\ ll_str(heap, a) = Text(heap, C, a) /\ heap[a].data = Len(Text(heap, C, a))
      /\ ll_str(heap, b) = Text(heap, C, b) /\ heap[b].data = Len(Text(heap, C, b))
  BY <1>1, StrIs
<1>3. /\ Sequence(a) = Text(heap, C, a) /\ Sequence(b) = Text(heap, C, b)
  BY <1>1, StrIs DEF Sequence, SequenceOf
<1>4. a \in ListBlocks /\ b \in ListBlocks /\ a \in Heads /\ b \in Heads
      /\ Typed(heap) /\ Chained(heap, C)
  BY <1>1 DEF InUse, Heads, Shape
<1>5. /\ Chain(heap, a) = C[a] /\ DOMAIN C[a] = 1..Len(C[a])
      /\ Chain(heap, b) = C[b] /\ DOMAIN C[b] = 1..Len(C[b])
  BY <1>4, ChainIs, ChainTypes
<1>6. /\ Len(Text(heap, C, a)) = Len(C[a]) /\ Text(heap, C, a) \in Seq(Texts)
      /\ \A i \in 1..Len(C[a]) : Text(heap, C, a)[i] = heap[C[a][i]].data
      /\ Len(Text(heap, C, b)) = Len(C[b]) /\ Text(heap, C, b) \in Seq(Texts)
      /\ \A i \in 1..Len(C[b]) : Text(heap, C, b)[i] = heap[C[b][i]].data
  BY <1>1, <1>4, TextIs
<1>7. ll_equal(heap, a, b) <=>
        /\ Len(C[a]) = Len(C[b])
        /\ \A i \in 1..Len(C[a]) : heap[C[a][i]].data = heap[C[b][i]].data
  BY <1>2, <1>5, <1>6 DEF ll_equal
<1>8. ASSUME NEW s \in Seq(Texts), NEW t \in Seq(Texts)
      PROVE  s = t <=> Len(s) = Len(t) /\ \A i \in 1..Len(s) : s[i] = t[i]
  OBVIOUS
<1> HIDE DEF Text
<1>9. ll_equal(heap, a, b) <=> Sequence(a) = Sequence(b)
  BY <1>3, <1>6, <1>7, <1>8
<1> QED BY <1>9 DEF a, b

LEMMA TextRight ==
  ASSUME NEW C, Good(heap, own, entry_count, C), NEW r \in Held
  PROVE  \E s \in {Sequence(List(r))} :
           /\ ll_str(heap, List(r)) = s
           /\ \A i \in Indices :
                ll_get(heap, List(r), i) = IF i < Len(s) THEN s[i + 1] ELSE NULL
<1> DEFINE a == List(r)
           s == Text(heap, C, a)
<1>1. a \in InUse(heap) /\ Shape(heap, C)
  BY HeldIs DEF Good
<1> HIDE DEF a
<1>2. Sequence(a) = s /\ ll_str(heap, a) = s
  BY <1>1, StrIs DEF Sequence, SequenceOf
<1>3. \A i \in Nat : ll_get(heap, a, i) = IF i < Len(s) THEN s[i + 1] ELSE NULL
  BY <1>1, StrIs
<1> HIDE DEF s
<1> QED BY <1>2, <1>3, IndicesIs DEF a

LEMMA ReadsRightIs ==
  ASSUME TableInv
  PROVE  ReadsRight
<1>1. PICK C : Good(heap, own, entry_count, C)
  BY DEF TableInv
<1>2. entry_count = Cardinality(Entries(heap))
  BY <1>1 DEF Good
<1>3. ASSUME Created, NEW k \in Keys
      PROVE  /\ Stored(k) = {ht_get(heap, k)} \ {NULL}
             /\ ht_contains(heap, k) <=> Stored(k) # {}
  BY <1>1, <1>3, StoredRight
<1>4. \A r, q \in Held : ll_equal(heap, List(r), List(q)) <=> Sequence(List(r)) = Sequence(List(q))
  BY <1>1, EqualRight
<1>5. \A r \in Held : \E s \in {Sequence(List(r))} :
        /\ ll_str(heap, List(r)) = s
        /\ \A i \in Indices :
             ll_get(heap, List(r), i) = IF i < Len(s) THEN s[i + 1] ELSE NULL
  BY <1>1, TextRight
<1> QED BY <1>2, <1>3, <1>4, <1>5 DEF ReadsRight

-----------------------------------------------------------------------------
(* Every operation is one of the map                                       *)

LEMMA AbstractHere ==
  ASSUME NEW C, Good(heap, own, entry_count, C)
  PROVE  Abstract = Shown(heap, C, own)
<1>1. Abstract = AbstractOf(heap, own)
  BY DEF Abstract, AbstractOf, Created, Made, ContentOf, Stored, StoredIn, Sequence, SequenceOf
<1> QED BY <1>1, AbstractIs

LEMMA AbstractNext ==
  ASSUME NEW D, Good(heap', own', entry_count', D)
  PROVE  Abstract' = Shown(heap', D, own')
<1>1. Abstract' = AbstractOf(heap', own')
  BY DEF Abstract, AbstractOf, Created, Made, ContentOf, Stored, StoredIn, Sequence, SequenceOf
<1> QED BY <1>1, AbstractIs

LEMMA InitImplements ==
  ASSUME Init
  PROVE  Abstract = Map!Nothing
<1>1. PICK C : Good(heap, own, entry_count, C) /\ Shown(heap, C, own) = Map!Nothing
  BY NothingIs
<1> QED BY <1>1, AbstractHere

LEMMA NextImplements ==
  ASSUME TableInv, Next
  PROVE  MapStep(Abstract, Abstract')
<1>1. PICK C : Good(heap, own, entry_count, C)
  BY DEF TableInv
<1> DEFINE m == Abstract
           n == Abstract'
<1>2. m = Shown(heap, C, own)
  BY <1>1, AbstractHere
<1>3. \A D : Good(heap', own', entry_count', D) => n = Shown(heap', D, own')
  BY AbstractNext
<1>4. \A r \in Held : r \in Refs /\ Map!Content(m, r) # NULL
  <2>1. ASSUME NEW r \in Held PROVE r \in Refs /\ Map!Content(m, r) # NULL
    <3>1. r \in Refs /\ ListOf(heap, own, r) # NULL
      BY ListIs
    <3>2. Map!Content(Shown(heap, C, own), r) # NULL
      BY <1>1, <3>1, SeenIs
    <3> QED BY <1>2, <3>1, <3>2
  <2> QED BY <2>1
<1> SUFFICES MapStep(m, n)
  OBVIOUS
<1> HIDE DEF m, n
<1>5. CASE Create
  <2>1. n = Map!Create(m)
    BY <1>1, <1>2, <1>3, <1>5, CreateIs
  <2> QED BY <2>1, <1>5 DEF MapStep
<1>6. CASE Destroy
  <2>1. n = Map!Destroy(m)
    BY <1>1, <1>2, <1>3, <1>6, DestroyIs
  <2> QED BY <2>1, <1>6 DEF MapStep
<1>7. ASSUME NEW k \in Keys, Unset(k)
      PROVE  MapStep(m, n)
  <2>1. n = Map!Unset(m, k)
    BY <1>1, <1>2, <1>3, <1>7, UnsetIs
  <2>2. Created
    BY <1>7 DEF Unset
  <2> QED BY <2>1, <2>2, <1>7 DEF MapStep
<1>8. ASSUME NEW k \in Keys, NEW r \in Refs, Set(k, r)
      PROVE  MapStep(m, n)
  <2>1. n = Map!Set(m, k, r)
    BY <1>1, <1>2, <1>3, <1>8, SetIs
  <2>2. Created
    BY <1>8 DEF Set
  <2> QED BY <2>1, <2>2, <1>8 DEF MapStep
<1>9. ASSUME NEW v \in Vars, New(v)
      PROVE  MapStep(m, n)
  <2>1. n = Map!New(m, v)
    BY <1>1, <1>2, <1>3, <1>9, NewIs
  <2> QED BY <2>1, <1>9 DEF MapStep
<1>10. ASSUME NEW v \in Vars, Drop(v)
       PROVE  MapStep(m, n)
  <2>1. n = Map!Drop(m, v)
    BY <1>1, <1>2, <1>3, <1>10, DropIs
  <2> QED BY <2>1, <1>10 DEF MapStep
<1>11. ASSUME NEW v \in Vars, NEW r \in Refs, Copy(v, r)
       PROVE  MapStep(m, n)
  <2>1. n = Map!Copy(m, v, r)
    BY <1>1, <1>2, <1>3, <1>11, CopyIs
  <2> QED BY <2>1, <1>11 DEF MapStep
<1>12. ASSUME NEW r \in Refs, NEW t \in Texts, Prepend(r, t)
       PROVE  MapStep(m, n)
  <2>1. n = Map!Prepend(m, r, t)
    BY <1>1, <1>2, <1>3, <1>12, PrependIs
  <2>2. r \in {q \in Refs : Map!Content(m, q) # NULL}
    BY <1>4, <1>12 DEF Prepend
  <2> QED BY <2>1, <2>2, <1>12 DEF MapStep
<1>13. ASSUME NEW r \in Refs, NEW t \in Texts, DeleteValue(r, t)
       PROVE  MapStep(m, n)
  <2>1. n = Map!DeleteValue(m, r, t)
    BY <1>1, <1>2, <1>3, <1>13, DeleteValueIs
  <2>2. r \in {q \in Refs : Map!Content(m, q) # NULL}
    BY <1>4, <1>13 DEF DeleteValue
  <2> QED BY <2>1, <2>2, <1>13 DEF MapStep
<1>14. ASSUME NEW r \in Refs, NEW i \in Indices, Delete(r, i)
       PROVE  MapStep(m, n)
  <2>1. n = Map!Delete(m, r, i)
    BY <1>1, <1>2, <1>3, <1>14, IndicesIs, DeleteIs
  <2>2. r \in {q \in Refs : Map!Content(m, q) # NULL}
    BY <1>4, <1>14 DEF Delete
  <2> QED BY <2>1, <2>2, <1>14 DEF MapStep
<1> QED BY <1>5, <1>6, <1>7, <1>8, <1>9, <1>10, <1>11, <1>12, <1>13, <1>14 DEF Next

-----------------------------------------------------------------------------
(* The theorems                                                            *)

\* Whatever a program does with its lists and the table: every list, node and entry
\* in use is on one chain and has one owner, every size and the number of entries is
\* what the chains say, and a bin holds its own keys in increasing order.
THEOREM TablesAreWell == Spec => []TableInv
<1>1. Init => TableInv
  BY NothingIs DEF TableInv
<1>2. TableInv /\ [Next]_vars => TableInv'
  <2>1. CASE UNCHANGED vars
    BY <2>1 DEF vars, TableInv
  <2> QED BY <2>1, NextIs
<1> QED BY <1>1, <1>2, PTL DEF Spec

\* No operation leaks a block, frees one twice or leaves a pointer to a freed one, and
\* no two lists share a node: ll_copy, ll_free, ht_set and ht_remove see to it.
THEOREM BlocksAreOwnedOnce == Spec => []OwnedOnce
BY TablesAreWell, OwnedOnceIs, PTL

\* ht_set links an entry where its key belongs in its bin, and ht_remove leaves the
\* rest in order.
THEOREM BinsAreSorted == Spec => []Sorted
BY TablesAreWell, SortedIs, PTL

\* The walks of the table that stop early miss no entry, and those of the lists that
\* go by size end where the list does.
THEOREM WhatIsThereIsRead == Spec => []ReadsRight
BY TablesAreWell, ReadsRightIs, PTL

\* The table and the lists on the heap do what a map of sequences does, operation by
\* operation: no change to one list shows in another.
THEOREM TablesImplementMap == Spec => ImplementsMap
<1>1. Init => Abstract = Map!Nothing
  BY InitImplements
<1>2. TableInv /\ [Next]_vars =>
        [\E m \in {Abstract}, n \in {Abstract'} : MapStep(m, n)]_vars
  BY NextImplements
<1>3. Spec => /\ Abstract = Map!Nothing
              /\ [][\E m \in {Abstract}, n \in {Abstract'} : MapStep(m, n)]_vars
  BY <1>1, <1>2, TablesAreWell, PTL DEF Spec
<1> QED BY <1>3 DEF ImplementsMap
=============================================================================
