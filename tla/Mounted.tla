------------------------------ MODULE Mounted ------------------------------
(***************************************************************************)
(* What the users of a mounted BBFS are promised: every call they make is  *)
(* performed once, as it stands, on the file system below; a handle leads  *)
(* to the object it was opened for until it is released; and an answer     *)
(* says whether the call was performed.  One call may be performed and be  *)
(* answered with an error: the making of a file whose new descriptor could *)
(* not be closed.                                                          *)
(***************************************************************************)
EXTENDS HostFS

CONSTANTS Threads, Handles

VARIABLES
  asked,    \* the call each thread is asked for, or None
  answer,   \* -2 while there is none, a result, or -1 for an error
  file      \* the object each handle leads to, or None

NoAnswer == -2
Failed   == -1

InUse == {file[h] : h \in Handles} \ {None}

Init ==
  /\ StartTree
  /\ asked = [t \in Threads |-> None]
  /\ answer = [t \in Threads |-> NoAnswer]
  /\ file = [h \in Handles |-> None]

\* Thread t has been asked for r and answers a.
Answers(t, a) ==
  /\ asked[t] # None /\ answer[t] = NoAnswer
  /\ answer' = [answer EXCEPT ![t] = a]
  /\ UNCHANGED asked

Ask(t) ==
  /\ asked[t] = None /\ asked'[t] # None
  /\ asked' = [asked EXCEPT ![t] = asked'[t]]
  /\ UNCHANGED <<tree, answer, file>>

PerformPath(t) ==
  /\ Answers(t, 0)
  /\ PathCall(asked[t], InUse)
  /\ UNCHANGED file

PerformFile(t) ==
  /\ asked[t] # None /\ asked[t].h # None
  /\ file[asked[t].h] # None
  /\ \E ret \in Lengths : /\ Answers(t, ret)
                          /\ FileCall(asked[t], file[asked[t].h], ret)
  /\ UNCHANGED file

Open(t) ==
  /\ Answers(t, 0)
  /\ Opened(asked[t]) # None
  /\ file' = [file EXCEPT ![asked[t].h] = Opened(asked[t])]
  /\ UNCHANGED tree

\* A handle is gone when it is released, whatever close says.
Release(t) ==
  /\ \E a \in {0, Failed} : Answers(t, a)
  /\ asked[t].sys = "close"
  /\ file' = [file EXCEPT ![asked[t].h] = None]
  /\ UNCHANGED tree

\* Listings, and calls that do nothing.
Leave(t) ==
  /\ Answers(t, 0)
  /\ asked[t].sys \in {"readdir", "none"}
  /\ UNCHANGED <<tree, file>>

Fail(t) ==
  /\ Answers(t, Failed)
  /\ asked[t].sys \notin {"close", "none"}
  /\ UNCHANGED <<tree, file>>

\* The file has been made; its descriptor could not be closed.
FailLate(t) ==
  /\ asked[t] # None /\ asked[t].sys = "make" /\ asked[t].kind = "file"
  /\ answer[t] = 0
  /\ answer' = [answer EXCEPT ![t] = Failed]
  /\ UNCHANGED <<tree, asked, file>>

Reply(t) ==
  /\ asked[t] # None /\ answer[t] # NoAnswer
  /\ asked' = [asked EXCEPT ![t] = None]
  /\ answer' = [answer EXCEPT ![t] = NoAnswer]
  /\ UNCHANGED <<tree, file>>

Next ==
  \E t \in Threads :
    \/ Ask(t) \/ PerformPath(t) \/ PerformFile(t) \/ Open(t) \/ Release(t)
    \/ Leave(t) \/ Fail(t) \/ FailLate(t) \/ Reply(t)

Spec == Init /\ [][Next]_<<tree, asked, answer, file>>

=============================================================================
