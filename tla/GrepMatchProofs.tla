-------------------------- MODULE GrepMatchProofs --------------------------
(***************************************************************************)
(* What handle_file counts, for every word and every text.  CountsRight    *)
(* says it with a recursive function; the proof takes its defining         *)
(* equation, shows that a function satisfies it, and uses no more of it.   *)
(***************************************************************************)
EXTENDS GrepMatch, TLAPS, NaturalsInduction, WellFoundedInduction

\* OccursAt for a word w and a text t.
Occurs(w, t, p) ==
  /\ p + Len(w) <= Len(t)
  /\ \A k \in 1..Len(w) : t[p + k] = w[k]

\* F counts the occurrences of w in t from each offset from m on.
Counting(F, w, t, m) ==
  F = [q \in m..Len(t) |->
         IF q = Len(t) THEN 0
         ELSE IF Occurs(w, t, q) THEN 1 + F[q + Len(w)]
         ELSE F[q + 1]]

From(w, t) == CHOOSE F : Counting(F, w, t, 0)

LEMMA SameCount ==
  /\ \A p : OccursAt(p) <=> Occurs(word, text, p)
  /\ Occurrences(0) = From(word, text)[0]
  /\ Occurrences(pos - i) = From(word, text)[pos - i]
BY DEF Occurrences, From, Counting, OccursAt, Occurs

\* What holds of some number holds of a least one: the induction of this module.
LEMMA LeastOf ==
  ASSUME NEW B \in SUBSET Nat, B # {}
  PROVE  \E m \in B : \A k \in B : ~(k < m)
<1>1. PICK m \in B : \A k \in B : ~(<<k, m>> \in OpToRel(<, Nat))
  BY NatLessThanWellFounded, WFMin
<1>2. \A k \in B : k < m => <<k, m>> \in OpToRel(<, Nat)
  BY DEF OpToRel
<1>3. QED
  BY <1>1, <1>2

\* The recursion has a solution: from the end of the text back to any offset.
LEMMA CountingExists ==
  ASSUME NEW w, NEW t, Len(w) \in Nat \ {0}, Len(t) \in Nat
  PROVE  \E F : Counting(F, w, t, 0)
<1> DEFINE N == Len(t)
           B == {n \in 0..N : ~ \E F : Counting(F, w, t, N - n)}
<1>1. ASSUME B # {} PROVE FALSE
  <2>0. B \in SUBSET Nat
    OBVIOUS
  <2>1. PICK n \in B : \A k \in B : ~(k < n)
    BY <1>1, <2>0, LeastOf
  <2>2. n \in 0..N
    OBVIOUS
  <2>3. CASE n = 0
    <3> DEFINE F == [q \in N..N |-> 0]
               G == [q \in N..N |-> IF q = N THEN 0
                                    ELSE IF Occurs(w, t, q) THEN 1 + F[q + Len(w)]
                                    ELSE F[q + 1]]
    <3>1. \A q \in N..N : q = N
      OBVIOUS
    <3>2. F = G
      BY <3>1
    <3>3. N - n = N
      BY <2>3
    <3>4. Counting(F, w, t, N - n)
      BY <3>2, <3>3 DEF Counting
    <3>5. QED
      BY <2>1, <3>4
  <2>4. CASE n # 0
    <3> DEFINE m == N - n
    <3>1. n - 1 \in 0..N /\ n - 1 < n /\ N - (n - 1) = m + 1 /\ m \in 0..N /\ m < N
      BY <2>2, <2>4
    <3>2. PICK Q : Counting(Q, w, t, m + 1)
      BY <2>1, <3>1
    <3> HIDE DEF m
    <3> DEFINE Value(H, q) == IF q = N THEN 0
                              ELSE IF Occurs(w, t, q) THEN 1 + H[q + Len(w)]
                              ELSE H[q + 1]
               F == [q \in m..N |-> IF q = m THEN Value(Q, m) ELSE Q[q]]
               G == [q \in m..N |-> Value(F, q)]
    <3>3. \A q \in (m + 1)..N : Q[q] = Value(Q, q)
      BY <3>2 DEF Counting
    <3>4. \A q \in m..N : Value(F, q) = Value(Q, q)
      <4>1. \A q \in (m + 1)..N : F[q] = Q[q]
        BY <3>1
      <4>2. SUFFICES ASSUME NEW q \in m..N, q # N PROVE Value(F, q) = Value(Q, q)
        OBVIOUS
      <4>3. q + 1 \in (m + 1)..N
        BY <3>1, <4>2
      <4>4. Occurs(w, t, q) => q + Len(w) \in (m + 1)..N
        BY <3>1, <4>2 DEF Occurs
      <4>5. QED
        BY <4>1, <4>3, <4>4
    <3>5. \A q \in m..N : F[q] = Value(Q, q)
      <4>1. SUFFICES ASSUME NEW q \in m..N PROVE F[q] = Value(Q, q)
        OBVIOUS
      <4>2. CASE q = m
        BY <4>2
      <4>3. CASE q # m
        <5>1. q \in (m + 1)..N
          BY <3>1, <4>3
        <5>2. F[q] = Q[q]
          BY <4>3
        <5>3. QED
          BY <3>3, <5>1, <5>2
      <4>4. QED
        BY <4>2, <4>3
    <3> HIDE DEF Value
    <3>6. F = G
      BY <3>4, <3>5
    <3>7. Counting(F, w, t, m)
      BY <3>6 DEF Counting, Value
    <3>8. QED
      BY <2>1, <3>7 DEF m
  <2>5. QED
    BY <2>3, <2>4
<1>2. N \in 0..N /\ N - N = 0
  OBVIOUS
<1>3. \E F : Counting(F, w, t, N - N)
  BY <1>1, <1>2
<1>4. QED
  BY <1>2, <1>3

\* The counts from two neighbouring offsets, and that they are counts.
LEMMA FromIs ==
  ASSUME NEW w, NEW t, Len(w) \in Nat \ {0}, Len(t) \in Nat, NEW q \in 0..Len(t)
  PROVE  From(w, t)[q] = IF q = Len(t) THEN 0
                         ELSE IF Occurs(w, t, q) THEN 1 + From(w, t)[q + Len(w)]
                         ELSE From(w, t)[q + 1]
<1> DEFINE F == From(w, t)
<1>1. Counting(F, w, t, 0)
  BY CountingExists DEF From
<1> HIDE DEF F
<1>2. F[q] = IF q = Len(t) THEN 0
             ELSE IF Occurs(w, t, q) THEN 1 + F[q + Len(w)]
             ELSE F[q + 1]
  BY <1>1 DEF Counting
<1>3. QED
  BY <1>2 DEF F

\* Counting from further on finds less, but by starting within the length of the
\* word it misses one occurrence at most; there is none where it does not fit.
LEMMA FromBounds ==
  ASSUME NEW w, NEW t, Len(w) \in Nat \ {0}, Len(t) \in Nat
  PROVE  \A q \in 0..Len(t) :
           /\ From(w, t)[q] \in Nat
           /\ q < Len(t) => From(w, t)[q + 1] <= From(w, t)[q]
           /\ \A p \in q..Len(t) : p <= q + Len(w) => From(w, t)[q] <= 1 + From(w, t)[p]
           /\ Len(t) < q + Len(w) => From(w, t)[q] = 0
<1> DEFINE N == Len(t)
           L == Len(w)
           F == From(w, t)
           Good(q) == /\ F[q] \in Nat
                      /\ \A p \in q..N : F[p] \in Nat /\ F[p] <= F[q]
                      /\ \A p \in q..N : p <= q + L => F[q] <= 1 + F[p]
                      /\ N < q + L => F[q] = 0
           B == {n \in 0..N : ~Good(N - n)}
<1>0. \A q \in 0..N : F[q] = IF q = N THEN 0
                             ELSE IF Occurs(w, t, q) THEN 1 + F[q + L]
                             ELSE F[q + 1]
  BY FromIs
<1>l. L \in Nat \ {0} /\ N \in Nat
  OBVIOUS
<1> HIDE DEF F, L, N
<1>1. ASSUME B # {} PROVE FALSE
  <2>0. B \in SUBSET Nat
    BY <1>l
  <2>1. PICK n \in B : \A k \in B : ~(k < n)
    BY <1>1, <2>0, LeastOf
  <2> DEFINE q == N - n
  <2>2. n \in 0..N /\ q \in 0..N /\ ~Good(q)
    BY <1>l
  <2>3. CASE n = 0
    <3>1. q = N /\ F[N] = 0 /\ \A p \in N..N : p = N
      BY <1>0, <1>l, <2>3
    <3>2. QED
      BY <2>2, <3>1
  <2>4. CASE n # 0
    <3>1. /\ n - 1 \in 0..N /\ n - 1 < n /\ N - (n - 1) = q + 1 /\ q < N
          /\ q + 1 \in 0..N
      BY <1>l, <2>2, <2>4
    <3>2. Good(q + 1)
      BY <2>1, <3>1
    <3> HIDE DEF q
    <3>3. F[q + 1] \in Nat /\ \A p \in (q + 1)..N : F[p] \in Nat /\ F[p] <= F[q + 1]
      BY <3>2
    <3>4. \A p \in (q + 1)..N : p <= (q + 1) + L => F[q + 1] <= 1 + F[p]
      BY <3>2
    <3>5. \A p \in q..N : p = q \/ p \in (q + 1)..N
      BY <1>l, <2>2
    <3>6. CASE Occurs(w, t, q)
      <4>1. q + L \in (q + 1)..N /\ q + L <= (q + 1) + L
        BY <1>l, <2>2, <3>6 DEF Occurs, N, L
      <4>2. F[q] = 1 + F[q + L]
        BY <1>0, <2>2, <3>1, <3>6
      <4>3. F[q + L] \in Nat /\ F[q + 1] <= F[q]
        BY <3>3, <3>4, <4>1, <4>2
      <4>4. ASSUME NEW p \in (q + 1)..N, p <= q + L PROVE F[q] <= 1 + F[p]
        <5>1. Good(p)
          <6>1. N - p \in 0..N /\ N - p < n /\ N - (N - p) = p
            BY <1>l, <2>2, <3>1, <4>4 DEF q
          <6>2. QED
            BY <2>1, <6>1
        <5>2. q + L \in p..N
          BY <1>l, <2>2, <4>1, <4>4
        <5>3. F[q + L] <= F[p] /\ F[p] \in Nat
          BY <5>1, <5>2
        <5>4. QED
          BY <4>2, <4>3, <5>3
      <4>5. F[q] \in Nat
        BY <4>2, <4>3
      <4>6. \A p \in q..N : F[p] \in Nat /\ F[p] <= F[q]
        BY <3>3, <3>5, <4>3, <4>5
      <4>7. \A p \in q..N : p <= q + L => F[q] <= 1 + F[p]
        BY <3>5, <4>4, <4>5
      <4>8. ~(N < q + L)
        BY <1>l, <2>2, <3>6 DEF Occurs, N, L
      <4>9. QED
        BY <2>2, <4>5, <4>6, <4>7, <4>8
    <3>7. CASE ~Occurs(w, t, q)
      <4>1. F[q] = F[q + 1]
        BY <1>0, <2>2, <3>1, <3>7
      <4>2. \A p \in (q + 1)..N : p <= q + L => p <= (q + 1) + L
        BY <1>l, <2>2
      <4>3. \A p \in q..N : F[p] \in Nat /\ F[p] <= F[q]
        BY <3>3, <3>5, <4>1
      <4>4. \A p \in q..N : p <= q + L => F[q] <= 1 + F[p]
        BY <3>3, <3>4, <3>5, <4>1, <4>2
      <4>5. N < q + L => F[q] = 0
        BY <1>l, <2>2, <3>2, <4>1
      <4>6. QED
        BY <2>2, <3>3, <4>1, <4>3, <4>4, <4>5
    <3>8. QED
      BY <3>6, <3>7
  <2>5. QED
    BY <2>3, <2>4
<1>2. \A q \in 0..N : Good(q)
  <2>1. \A q \in 0..N : N - q \in 0..N /\ N - (N - q) = q
    BY <1>l
  <2>2. QED
    BY <1>1, <2>1
<1>3. \A q \in 0..N : q < N => q + 1 \in q..N
  BY <1>l
<1>4. QED
  BY <1>2, <1>3 DEF F, L, N

-----------------------------------------------------------------------------
(* The match at hand begins behind the first pos - i characters.           *)

StateOK ==
  /\ word \in Words /\ text \in Texts
  /\ pos \in 0..Len(text) /\ i \in 0..Len(word) /\ i <= pos
  /\ count \in Nat /\ done \in BOOLEAN

\* Nothing is counted twice, and if no match can begin within another nothing is
\* missed; the end has come when what is left is too short for the word.
Counted ==
  /\ Matched
  /\ count + From(word, text)[pos - i] <= From(word, text)[0]
  /\ NoTwins => count + From(word, text)[pos - i] = From(word, text)[0]
  /\ done => pos = Len(text) /\ i < Len(word)

IInv == StateOK /\ Counted

LEMMA Lengths ==
  ASSUME StateOK
  PROVE  Len(word) \in Nat \ {0} /\ Len(text) \in Nat
<1>1. word \in Seq(Chars) /\ word # <<>> /\ text \in Seq(Chars)
  BY GrepMatchAssumption DEF StateOK
<1>2. QED
  BY <1>1

LEMMA Offset == StateOK => pos - i \in 0..Len(text) /\ 0 \in 0..Len(text)
BY Lengths DEF StateOK

LEMMA OffsetNext == StateOK' => pos' - i' \in 0..Len(text') /\ 0 \in 0..Len(text')
<1>1. (StateOK => pos - i \in 0..Len(text) /\ 0 \in 0..Len(text))'
  BY Offset, PTL
<1>2. QED
  BY <1>1

LEMMA InitIInv == Init => IInv
<1> SUFFICES ASSUME Init PROVE IInv
  OBVIOUS
<1>1. word \in Seq(Chars) /\ word # <<>> /\ text \in Seq(Chars)
  BY GrepMatchAssumption DEF Init
<1>2. Len(word) \in Nat \ {0} /\ Len(text) \in Nat
  BY <1>1
<1>3. StateOK
  <2>1. 0 \in 0..Len(text) /\ 0 \in 0..Len(word) /\ 0 <= 0
    BY <1>2
  <2>2. QED
    BY <2>1 DEF Init, StateOK
<1>4. Matched
  BY DEF Init, Matched
<1>5. From(word, text)[0] \in Nat
  BY <1>2, FromBounds
<1>6. pos - i = 0 /\ count = 0 /\ ~done
  BY DEF Init
<1>7. QED
  BY <1>3, <1>4, <1>5, <1>6 DEF IInv, Counted

\* A step that keeps what is counted and begins the match at hand anew or not.
LEMMA StepKeeps ==
  ASSUME IInv, word' = word, text' = text, count' = count, StateOK', Matched',
         From(word, text)[pos' - i'] <= From(word, text)[pos - i],
         NoTwins => From(word, text)[pos' - i'] = From(word, text)[pos - i],
         done' => pos' = Len(text) /\ i' < Len(word)
  PROVE  IInv'
<1> DEFINE F == From(word, text)
<1>1. pos - i \in 0..Len(text) /\ pos' - i' \in 0..Len(text) /\ 0 \in 0..Len(text)
  BY Offset, OffsetNext DEF IInv
<1>2. F[pos - i] \in Nat /\ F[pos' - i'] \in Nat /\ F[0] \in Nat
  BY <1>1, Lengths, FromBounds DEF IInv
<1>3. NoTwins' <=> NoTwins
  BY DEF NoTwins
<1>4. From(word', text')[pos' - i'] = F[pos' - i'] /\ From(word', text')[0] = F[0]
  OBVIOUS
<1>5. count \in Nat
  BY DEF IInv, StateOK
<1> HIDE DEF F
<1>6. count + F[pos - i] <= F[0] /\ (NoTwins => count + F[pos - i] = F[0])
  BY DEF IInv, Counted, F
<1>7. count' + F[pos' - i'] <= F[0] /\ (NoTwins => count' + F[pos' - i'] = F[0])
  BY <1>2, <1>5, <1>6 DEF F
<1>8. QED
  BY <1>3, <1>4, <1>7 DEF IInv, Counted

LEMMA EndKeeps ==
  ASSUME IInv, End
  PROVE  IInv'
<1>1. StateOK' /\ Matched'
  BY DEF IInv, StateOK, Counted, Matched, End
<1>2. pos' - i' = pos - i /\ From(word, text)[pos - i] \in Nat
  <2>1. pos - i \in 0..Len(text)
    BY Lengths DEF IInv, StateOK
  <2>2. QED
    BY <2>1, Lengths, FromBounds DEF End, IInv
<1>3. QED
  BY <1>1, <1>2, StepKeeps DEF End, AtEOF

LEMMA FirstKeeps ==
  ASSUME IInv, First
  PROVE  IInv'
<1> DEFINE F == From(word, text)
<1>1. /\ Len(word) \in Nat \ {0} /\ Len(text) \in Nat
      /\ i = 0 /\ pos \in 0..Len(text) /\ pos < Len(text)
      /\ pos' = pos + 1 /\ i' = IF text[pos + 1] = word[1] THEN 1 ELSE 0
      /\ UNCHANGED <<word, text, count, done>> /\ ~done
  BY Lengths DEF IInv, StateOK, First, AtEOF, Ch
<1>2. StateOK'
  BY <1>1 DEF IInv, StateOK
<1>3. F[pos] \in Nat /\ F[pos + 1] <= F[pos] /\ pos - i = pos
  BY <1>1, FromBounds
<1>4. CASE text[pos + 1] = word[1]
  <2>1. i' = 1 /\ pos' - i' = pos
    BY <1>1, <1>4
  <2>2. Matched'
    <3>1. SUFFICES ASSUME NEW k \in 1..i' PROVE text'[pos' - i' + k] = word'[k]
      BY DEF Matched
    <3>2. k = 1
      BY <2>1
    <3>3. QED
      BY <1>1, <1>4, <2>1, <3>2
  <2>3. QED
    BY <1>1, <1>2, <1>3, <2>1, <2>2, StepKeeps
<1>5. CASE text[pos + 1] # word[1]
  <2>1. i' = 0 /\ pos' - i' = pos + 1
    BY <1>1, <1>5
  <2>2. Matched'
    BY <2>1 DEF Matched
  <2>3. ~Occurs(word, text, pos)
    BY <1>1, <1>5 DEF Occurs
  <2>4. F[pos] = F[pos + 1]
    BY <1>1, <2>3, FromIs
  <2>5. QED
    BY <1>1, <1>2, <1>3, <2>1, <2>2, <2>4, StepKeeps
<1>6. QED
  BY <1>4, <1>5

LEMMA MoreKeeps ==
  ASSUME IInv, More
  PROVE  IInv'
<1> DEFINE F == From(word, text)
           s == pos - i
<1>1. /\ Len(word) \in Nat \ {0} /\ Len(text) \in Nat
      /\ pos \in 0..Len(text) /\ pos < Len(text) /\ i \in 1..(Len(word) - 1) /\ i <= pos
      /\ UNCHANGED <<word, text, count, done>> /\ ~done
      /\ Matched
  BY Lengths DEF IInv, StateOK, Counted, More, AtEOF
<1>2. s \in 0..Len(text) /\ s + 1 \in 0..Len(text) /\ s + 2 \in 0..Len(text) /\ s + 1 <= pos
  BY <1>1
<1>3. F[s] \in Nat /\ F[s + 1] \in Nat /\ F[s + 2] \in Nat
  BY <1>1, <1>2, FromBounds
<1>4. ASSUME text[pos + 1] = word[i + 1], pos' = pos + 1, i' = i + 1
      PROVE  IInv'
  <2>1. pos' - i' = s
    BY <1>1, <1>4
  <2>2. StateOK'
    BY <1>1, <1>4 DEF IInv, StateOK
  <2>3. Matched'
    <3>1. SUFFICES ASSUME NEW k \in 1..i' PROVE text[s + k] = word[k]
      BY <1>1, <2>1 DEF Matched
    <3>2. CASE k = i + 1
      <4>1. s + k = pos + 1
        BY <1>1, <3>2
      <4>2. QED
        BY <1>4, <3>2, <4>1
    <3>3. CASE k # i + 1
      <4>1. k \in 1..i
        BY <1>1, <1>4, <3>3
      <4>2. QED
        BY <1>1, <4>1 DEF Matched
    <3>4. QED
      BY <3>2, <3>3
  <2>4. QED
    BY <1>1, <1>3, <2>1, <2>2, <2>3, StepKeeps
<1>5. ASSUME text[pos + 1] # word[i + 1], pos' = Seek, i' = 0
      PROVE  IInv'
  <2>1. pos' = s + 2 /\ pos' - i' = s + 2
    BY <1>1, <1>5 DEF Seek
  <2>2. StateOK'
    BY <1>1, <1>2, <1>5, <2>1 DEF IInv, StateOK
  <2>3. Matched'
    BY <1>5 DEF Matched
  <2>4. ~Occurs(word, text, s)
    <3>1. i + 1 \in 1..Len(word) /\ s + (i + 1) = pos + 1
      BY <1>1
    <3>2. QED
      BY <1>5, <3>1 DEF Occurs
  <2>5. F[s] = F[s + 1]
    BY <1>1, <1>2, <2>4, FromIs
  <2>6. F[s + 2] <= F[s + 1]
    <3>1. s + 1 < Len(text) /\ (s + 1) + 1 = s + 2
      BY <1>1, <1>2
    <3>2. F[(s + 1) + 1] <= F[s + 1]
      BY <1>1, <1>2, <3>1, FromBounds
    <3>3. QED
      BY <3>1, <3>2
  <2>7. ASSUME NoTwins PROVE F[s + 1] = F[s + 2]
    <3>1. s + 1 \in 1..(Len(text) - 1) /\ (s + 1) + 1 = s + 2 /\ s + 1 # Len(text)
      BY <1>1, <1>2
    <3>2. text[s + 1] = word[1]
      BY <1>1 DEF Matched
    <3>3. text[s + 2] # word[1]
      BY <2>7, <3>1, <3>2 DEF NoTwins
    <3>4. ~Occurs(word, text, s + 1)
      BY <1>1, <3>1, <3>3 DEF Occurs
    <3>5. F[s + 1] = F[(s + 1) + 1]
      BY <1>1, <1>2, <3>1, <3>4, FromIs
    <3>6. QED
      BY <3>1, <3>5
  <2>8. QED
    BY <1>1, <1>3, <2>1, <2>2, <2>3, <2>5, <2>6, <2>7, StepKeeps
<1>6. QED
  BY <1>4, <1>5 DEF More, Ch

LEMMA FoundKeeps ==
  ASSUME IInv, Found
  PROVE  IInv'
<1> DEFINE F == From(word, text)
           s == pos - i
<1>1. /\ Len(word) \in Nat \ {0} /\ Len(text) \in Nat
      /\ pos \in 0..Len(text) /\ i = Len(word) /\ i <= pos /\ count \in Nat
      /\ count' = count + 1 /\ i' = 0 /\ pos' = pos /\ word' = word /\ text' = text
      /\ ~done' /\ Matched
  BY Lengths DEF IInv, StateOK, Counted, Found
<1>2. s \in 0..Len(text) /\ s # Len(text) /\ s + Len(word) = pos /\ pos' - i' = pos
  BY <1>1
<1>3. Occurs(word, text, s)
  BY <1>1, <1>2 DEF Occurs, Matched
<1>4. F[s] = 1 + F[pos]
  BY <1>1, <1>2, <1>3, FromIs
<1>5. F[pos] \in Nat /\ F[0] \in Nat
  BY <1>1, FromBounds
<1>6. StateOK'
  BY <1>1 DEF IInv, StateOK, Found
<1>7. Matched' /\ (NoTwins' <=> NoTwins)
  BY <1>1 DEF Matched, NoTwins
<1>8. count + F[s] <= F[0] /\ (NoTwins => count + F[s] = F[0])
  BY DEF IInv, Counted
<1>9. From(word', text')[pos' - i'] = F[pos] /\ From(word', text')[0] = F[0]
  BY <1>1, <1>2
<1> HIDE DEF F
<1>10. count' + F[pos] <= F[0] /\ (NoTwins => count' + F[pos] = F[0])
  BY <1>1, <1>4, <1>5, <1>8
<1>11. QED
  BY <1>1, <1>6, <1>7, <1>9, <1>10 DEF IInv, Counted

\* handle_file counts no occurrence that is not there and none twice, and, if the
\* first character of the word never stands twice in a row, misses none, although
\* it seeks back by less than it has read.
THEOREM MatchCountsRight == Spec => []CountsRight
<1>1. IInv /\ UNCHANGED vars => IInv'
  BY DEF IInv, StateOK, Counted, Matched, NoTwins, vars
<1>2. IInv /\ [Next]_vars => IInv'
  BY <1>1, EndKeeps, FirstKeeps, MoreKeeps, FoundKeeps DEF Next
<1>3. IInv => CountsRight
  <2> SUFFICES ASSUME IInv PROVE CountsRight
    OBVIOUS
  <2> DEFINE F == From(word, text)
  <2>1. Matched /\ count + Occurrences(pos - i) <= Occurrences(0)
    BY SameCount DEF IInv, Counted
  <2>2. ASSUME done, NoTwins PROVE count = Occurrences(0)
    <3>1. /\ Len(word) \in Nat \ {0} /\ Len(text) \in Nat /\ count \in Nat
          /\ pos = Len(text) /\ i < Len(word) /\ i \in Nat /\ i <= pos
      BY <2>2, Lengths DEF IInv, StateOK, Counted
    <3>2. F[pos - i] = 0
      <4>1. pos - i \in 0..Len(text) /\ Len(text) < (pos - i) + Len(word)
        BY <3>1
      <4>2. QED
        BY <3>1, <4>1, FromBounds
    <3>3. count + F[pos - i] = F[0]
      BY <2>2 DEF IInv, Counted
    <3>4. QED
      BY <3>1, <3>2, <3>3, SameCount
  <2>3. QED
    BY <2>1, <2>2 DEF CountsRight
<1>4. QED
  BY <1>2, <1>3, InitIInv, PTL DEF Spec

=============================================================================
