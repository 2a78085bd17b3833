----------------------------- MODULE GrepMatch -----------------------------
(***************************************************************************)
(* handle_file (mini_grep.c): counts the occurrences of a word in a file,  *)
(* reading one character at a time and seeking back after a partial match. *)
(***************************************************************************)
EXTENDS Integers, Sequences

CONSTANTS
  Chars,         \* characters
  Words, Texts   \* search strings, not empty; contents of files

ASSUME GrepMatchAssumption ==
  /\ Words \subseteq Seq(Chars) \ {<<>>}
  /\ Texts \subseteq Seq(Chars)

VARIABLES
  word, text,    \* the arguments
  pos,           \* the file offset: characters read or skipped so far
  i,             \* characters matched in the inner loop, 0 outside of it
  count,
  done

vars == <<word, text, pos, i, count, done>>

Init ==
  /\ word \in Words
  /\ text \in Texts
  /\ pos = 0
  /\ i = 0
  /\ count = 0
  /\ done = FALSE

\* fgetc: the next character, unless the file is at its end.
AtEOF == pos = Len(text)
Ch    == text[pos + 1]

\* Both loops end at the end of the file.
End ==
  /\ ~done
  /\ AtEOF /\ i < Len(word)
  /\ done' = TRUE
  /\ UNCHANGED <<word, text, pos, i, count>>

\* The outer loop looks for the first character of the word.
First ==
  /\ ~done /\ i = 0 /\ ~AtEOF
  /\ pos' = pos + 1
  /\ i' = IF Ch = word[1] THEN 1 ELSE 0
  /\ UNCHANGED <<word, text, count, done>>

\* Mutant: the match that is given up is started again at its own beginning.
SeekToStart == pos - i

\* Mutant: nothing is sought back.
SeekNowhere == pos + 1

\* fseek(fp, 1-i, SEEK_CUR), after the character that differs was read.
Seek == (pos + 1) + (1 - i)

\* The inner loop compares one more character.
More ==
  /\ ~done /\ i \in 1..(Len(word) - 1) /\ ~AtEOF
  /\ \/ /\ Ch = word[i + 1]
        /\ pos' = pos + 1
        /\ i' = i + 1
     \/ /\ Ch # word[i + 1]
        /\ pos' = Seek
        /\ i' = 0
  /\ UNCHANGED <<word, text, count, done>>

\* Mutant: the last character of the word is not compared.
FoundEarly ==
  /\ ~done /\ i > 0 /\ i + 1 >= Len(word)
  /\ count' = count + 1
  /\ i' = 0
  /\ UNCHANGED <<word, text, pos, done>>

\* The inner loop ran to its end.
Found ==
  /\ ~done /\ i = Len(word)
  /\ count' = count + 1
  /\ i' = 0
  /\ UNCHANGED <<word, text, pos, done>>

Next     == End \/ First \/ More \/ Found
Spec     == Init /\ [][Next]_vars
FairSpec == Spec /\ WF_vars(Next)

-----------------------------------------------------------------------------

\* The word occurs in the text behind its first p characters.
OccursAt(p) ==
  /\ p + Len(word) <= Len(text)
  /\ \A k \in 1..Len(word) : text[p + k] = word[k]

\* Occurrences that do not overlap, counted from offset p on, left to right.
Occurrences(p) ==
  LET from[q \in 0..Len(text)] ==
        IF q = Len(text) THEN 0
        ELSE IF OccursAt(q) THEN 1 + from[q + Len(word)]
        ELSE from[q + 1]
  IN  from[p]

\* The characters matched so far are the ones just read.
Matched == \A k \in 1..i : text[pos - i + k] = word[k]

\* Nothing is counted that is not there: what has been counted, the match at
\* hand and the occurrences still to be read never exceed those of the text; and
\* all are counted in a text in which the first character of the word never
\* stands twice in a row.
NoTwins == \A p \in 1..(Len(text) - 1) : text[p] = word[1] => text[p + 1] # word[1]
CountsRight ==
  /\ Matched
  /\ count + Occurrences(pos - i) <= Occurrences(0)
  /\ done /\ NoTwins => count = Occurrences(0)

\* The file is read to its end, although the offset goes back.
Ends == <>done

=============================================================================
