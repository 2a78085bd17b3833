------------------------------ MODULE TableMap ------------------------------
(***************************************************************************)
(* What the hash table and the lists of hw3 promise a program.  A state m  *)
(* has m.map, the sequence of each key or NULL (NULL as a whole without a  *)
(* table), and m.local, the sequence in each variable of the program or    *)
(* NULL.  An operation on one of them never shows in another.              *)
(***************************************************************************)
EXTENDS Sequences, SequencesExt, Integers

CONSTANTS Keys, Vars, NULL

Nothing == [map |-> NULL, local |-> [v \in Vars |-> NULL]]

\* A list is the one in a variable, or the one the table keeps for a key.
Content(m, r) == IF r \in Vars THEN m.local[r] ELSE IF m.map = NULL THEN NULL ELSE m.map[r]

Become(m, r, s) == IF r \in Vars THEN [m EXCEPT !.local[r] = s] ELSE [m EXCEPT !.map[r] = s]

Create(m)            == [m EXCEPT !.map = [k \in Keys |-> NULL]]
Destroy(m)           == [m EXCEPT !.map = NULL]
Set(m, k, r)         == Become(m, k, Content(m, r))
Unset(m, k)          == Become(m, k, NULL)
New(m, v)            == Become(m, v, <<>>)
Drop(m, v)           == Become(m, v, NULL)
Copy(m, v, r)        == Become(m, v, Content(m, r))
Prepend(m, r, t)     == Become(m, r, Cons(t, Content(m, r)))
DeleteValue(m, r, t) == Become(m, r, RemoveFirst(Content(m, r), t))
Delete(m, r, i)      == IF i < Len(Content(m, r))
                        THEN Become(m, r, RemoveAt(Content(m, r), i + 1)) ELSE m

=============================================================================
