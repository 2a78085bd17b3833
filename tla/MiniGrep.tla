------------------------------ MODULE MiniGrep ------------------------------
(***************************************************************************)
(* The parts of the hw2 parallel grep that every search strategy shares:   *)
(* the linked queue of paths (queue_utils.c) and handle_element, which     *)
(* counts a file and queues the entries of a directory (mini_grep.c).      *)
(*                                                                         *)
(* Thread 0 is main, threads 1 to NumThreads run in the slots of           *)
(* thread_args.  No access to a queue or to the dirent that all threads    *)
(* share is locked; each such access is a step, but for two pairs of       *)
(* reads: a queue pointer and the next of the element it leads to are read *)
(* at once (GetNext, Follow).  A path is known by what it leads to in the  *)
(* file tree, which does not change during a search.                       *)
(***************************************************************************)
EXTENDS Integers, Sequences, FiniteSets, SequencesExt

CONSTANTS
  NumThreads,   \* num_threads
  Dirs,         \* directories
  Files,        \* everything else that exists
  Unreadable,   \* what opendir or fopen fails on
  Root,         \* the path to search
  Nowhere,      \* what a path leads to for which lstat fails
  Names,        \* names of directory entries
  Dot, DotDot,  \* the names "." and ".."
  Listing,      \* the entries of each directory, in the order of readdir
  Target,       \* what a name leads to in each directory
  Hits,         \* occurrences handle_file counts in each file
  MaxElements   \* bound on the number of queue elements allocated

Nodes    == Dirs \cup Files
Main     == 0
Workers  == 1..NumThreads
Threads  == 0..NumThreads
Queues   == Threads      \* queue 0 is main's, queue i belongs to thread i
Elements == 1..MaxElements
NULL     == 0
Pointers == Elements \cup {NULL}

ASSUME MiniGrepAssumption ==
  /\ NumThreads \in Nat \ {0}
  /\ MaxElements \in Nat \ {0}
  /\ Root \in Dirs
  /\ Unreadable \subseteq Nodes
  /\ Nowhere \notin Nodes
  /\ {Dot, DotDot} \subseteq Names
  /\ Listing \in [Dirs -> Seq(Names)]
  /\ Target \in [Dirs -> [Names -> Nodes \cup {Nowhere}]]
  /\ Hits \in [Files -> Nat]

HandleSteps == {"stat", "read", "dot", "dotdot", "name", "return"}
InsertSteps == {"insert", "set head", "get tail", "link", "get next", "set tail"}
RemoveSteps == {"take", "follow", "advance"}

VARIABLES
  node,      \* what the path of each allocated element leads to
  next,      \* element->next
  used,      \* elements allocated so far
  freed,     \* elements that have been freed
  head,      \* queue->head
  tail,      \* queue->tail
  entry,     \* the name in the dirent that all threads share
  pc,        \* where each thread is
  local,     \* the local variables of each thread
  args,      \* thread_args
  fault      \* a NULL pointer has been dereferenced, the process is over

memory == <<node, next, used, freed>>
queue  == <<head, tail>>
grepVars == <<memory, queue, entry, pc, local, args, fault>>

\* el: the element in hand; unread: entries readdir_r has still to return; new:
\* new_element; reg: a pointer just read; found: the count to return.
Fresh == [el |-> NULL, unread |-> <<>>, new |-> NULL, reg |-> NULL, found |-> 0]

Locals == [el: Pointers, unread: Seq(Names), new: Pointers, reg: Pointers,
           found: Int]
Args   == [queue: Queues, is_running: BOOLEAN, result: Int]

At(t, step)   == pc[t] = step /\ ~fault
Goto(t, step) == pc' = [pc EXCEPT ![t] = step]

QueueOf(t) == IF t = Main THEN Main ELSE args[t].queue

-----------------------------------------------------------------------------
(* insertElement(queue, new_element)                                       *)

Insert(t) ==
  /\ At(t, "insert")
  /\ Goto(t, IF head[QueueOf(t)] = NULL THEN "set head" ELSE "get tail")
  /\ UNCHANGED <<memory, queue, entry, local, args, fault>>

\* Mutant: the tail of a queue that was empty is not set.
SetHeadOnly(t) ==
  /\ At(t, "set head")
  /\ head' = [head EXCEPT ![QueueOf(t)] = local[t].new]
  /\ local' = [local EXCEPT ![t].new = NULL]
  /\ Goto(t, "read")
  /\ UNCHANGED <<memory, tail, entry, args, fault>>

SetHead(t) ==
  /\ At(t, "set head")
  /\ head' = [head EXCEPT ![QueueOf(t)] = local[t].new]
  /\ local' = [local EXCEPT ![t].reg = local[t].new]
  /\ Goto(t, "set tail")
  /\ UNCHANGED <<memory, tail, entry, args, fault>>

GetTail(t) ==
  /\ At(t, "get tail")
  /\ local' = [local EXCEPT ![t].reg = tail[QueueOf(t)]]
  /\ Goto(t, "link")
  /\ UNCHANGED <<memory, queue, entry, args, fault>>

\* (queue->tail)->next = element
Link(t) ==
  /\ At(t, "link")
  /\ LET last == local[t].reg IN
       \/ /\ last # NULL
          /\ next' = [next EXCEPT ![last] = local[t].new]
          /\ Goto(t, "get next")
          /\ UNCHANGED fault
       \/ /\ last = NULL
          /\ fault' = TRUE
          /\ UNCHANGED <<next, pc>>
  /\ UNCHANGED <<node, used, freed, queue, entry, local, args>>

\* The reads of queue->tail = (queue->tail)->next, both in one step.
GetNext(t) ==
  /\ At(t, "get next")
  /\ LET last == tail[QueueOf(t)] IN
       \/ /\ last # NULL
          /\ local' = [local EXCEPT ![t].reg = next[last]]
          /\ Goto(t, "set tail")
          /\ UNCHANGED fault
       \/ /\ last = NULL
          /\ fault' = TRUE
          /\ UNCHANGED <<local, pc>>
  /\ UNCHANGED <<memory, queue, entry, args>>

SetTail(t) ==
  /\ At(t, "set tail")
  /\ tail' = [tail EXCEPT ![QueueOf(t)] = local[t].reg]
  /\ local' = [local EXCEPT ![t].new = NULL, ![t].reg = NULL]
  /\ Goto(t, "read")
  /\ UNCHANGED <<memory, head, entry, args, fault>>

-----------------------------------------------------------------------------
(* removeElement(queue), called when queue->head was found not to be NULL  *)

Take(t) ==
  /\ At(t, "take")
  /\ local' = [local EXCEPT ![t].el = head[QueueOf(t)]]
  /\ Goto(t, "follow")
  /\ UNCHANGED <<memory, queue, entry, args, fault>>

\* Mutant: head keeps its value.
FollowStays(t) ==
  /\ At(t, "follow")
  /\ local' = [local EXCEPT ![t].reg = head[QueueOf(t)]]
  /\ Goto(t, "advance")
  /\ UNCHANGED <<memory, queue, entry, args, fault>>

\* (queue->head)->next: head is read again, and its next in the same step.
Follow(t) ==
  /\ At(t, "follow")
  /\ local' = [local EXCEPT ![t].reg = next[head[QueueOf(t)]]]
  /\ Goto(t, "advance")
  /\ UNCHANGED <<memory, queue, entry, args, fault>>

Advance(t, then) ==
  /\ At(t, "advance")
  /\ head' = [head EXCEPT ![QueueOf(t)] = local[t].reg]
  /\ local' = [local EXCEPT ![t].reg = NULL]
  /\ Goto(t, then)
  /\ UNCHANGED <<memory, tail, entry, args, fault>>

-----------------------------------------------------------------------------
(* handle_element(element, queue, entry, search_string)                    *)

\* What handle_element returns for a path.
Yield(n) ==
  CASE n = Nowhere                 -> -1
    [] n \in Files \ Unreadable    -> Hits[n]
    [] n \in Dirs \cup Unreadable  -> 0

Listed(n) == n \in Dirs \ Unreadable

\* lstat, then a file is counted and its element freed; what cannot be opened
\* is not freed.
Stat(t) ==
  /\ At(t, "stat")
  /\ LET n == node[local[t].el] IN
       \/ /\ Listed(n)
          /\ local' = [local EXCEPT ![t].unread = Listing[n]]
          /\ Goto(t, "read")
          /\ UNCHANGED freed
       \/ /\ ~Listed(n)
          /\ local' = [local EXCEPT ![t].found = Yield(n)]
          /\ Goto(t, "return")
          /\ freed' = IF n \in Unreadable THEN freed ELSE freed \cup {local[t].el}
  /\ UNCHANGED <<node, next, used, queue, entry, args, fault>>

\* readdir_r into the shared dirent, or the end of the directory, after which
\* handle_element frees the element.  (main calls handle_dir itself.)
Read(t) ==
  /\ At(t, "read")
  /\ LET unread == local[t].unread IN
       \/ /\ unread # <<>>
          /\ entry' = Head(unread)
          /\ local' = [local EXCEPT ![t].unread = Tail(unread)]
          /\ Goto(t, "dot")
          /\ UNCHANGED freed
       \/ /\ unread = <<>>
          /\ freed' = IF t = Main THEN freed ELSE freed \cup {local[t].el}
          /\ Goto(t, "return")
          /\ UNCHANGED <<entry, local>>
  /\ UNCHANGED <<node, next, used, queue, args, fault>>

SkipDot(t) ==
  /\ At(t, "dot")
  /\ Goto(t, IF entry = Dot THEN "read" ELSE "dotdot")
  /\ UNCHANGED <<memory, queue, entry, local, args, fault>>

SkipDotDot(t) ==
  /\ At(t, "dotdot")
  /\ Goto(t, IF entry = DotDot THEN "read" ELSE "name")
  /\ UNCHANGED <<memory, queue, entry, local, args, fault>>

\* malloc; the path of the directory and the name the dirent holds by now.
Name(t) ==
  /\ At(t, "name")
  /\ used < MaxElements
  /\ used' = used + 1
  /\ node' = [node EXCEPT ![used + 1] = Target[node[local[t].el]][entry]]
  /\ local' = [local EXCEPT ![t].new = used + 1]
  /\ Goto(t, "insert")
  /\ UNCHANGED <<next, freed, queue, entry, args, fault>>

\* A step of handle_element in thread t.
HandleStep(t) ==
  \/ Stat(t) \/ Read(t) \/ SkipDot(t) \/ SkipDotDot(t) \/ Name(t)
  \/ Insert(t) \/ SetHead(t) \/ GetTail(t) \/ Link(t) \/ GetNext(t)
  \/ SetTail(t)

-----------------------------------------------------------------------------
(* What the properties of both searches are stated with                    *)

\* What a search of the tree should find.
Total == MapThenSumSet(LAMBDA f : Hits[f], Files \ Unreadable)

\* Elements reachable from a pointer.
Chain(p) ==
  LET reach[k \in 0..MaxElements] ==
        IF k = 0 THEN {p} \ {NULL}
        ELSE reach[k-1] \cup ({next[e] : e \in reach[k-1]} \ {NULL})
  IN  reach[MaxElements]

Queued == UNION {Chain(head[q]) : q \in Queues}

\* The threads that hold an element they have to handle or are handling.
Holders == {t \in Threads : pc[t] \in HandleSteps \cup InsertSteps
                              \cup {"follow", "advance", "spawn", "open", "exit"}}

\* The entries of a directory that are searched, among given names.
Entries(d, names) == {Target[d][n] : n \in names \ {Dot, DotDot}}

\* The work that is left, wherever it is: queued, in hand, still to be read,
\* in the dirent, or about to be inserted.
Pending ==
  {node[e] : e \in Queued}
  \cup {node[local[t].el] : t \in {u \in Holders : pc[u] \in
          {"follow", "advance", "spawn", "open", "exit", "stat"}}}
  \cup (UNION {Entries(node[local[t].el], ToSet(local[t].unread)) : t \in
          {u \in Holders : local[u].unread # <<>>}})
  \cup (UNION {Entries(node[local[t].el], {entry}) : t \in
          {u \in Holders : pc[u] \in {"dot", "dotdot", "name"}}})
  \cup {node[local[t].new] : t \in {u \in Holders : pc[u] \in InsertSteps}}

Revealed(n) == IF Listed(n) THEN Entries(n, ToSet(Listing[n])) ELSE {}

\* The names of a directory that a search follows.
Searched(d) == ToSet(Listing[d]) \ {Dot, DotDot}

\* The file tree is one: a directory lists each name once, everything below Root
\* has one place, and all that can be read is found by going down from Root.
Tree ==
  /\ Dirs \cap Files = {} /\ IsFiniteSet(Files)
  /\ \A d \in Dirs \ Unreadable :
       /\ IsInjective(Listing[d])
       /\ \A n \in Searched(d) : Target[d][n] \in Nodes \ {Root}
  /\ \A c, d \in Dirs \ Unreadable : \A m \in Searched(c), n \in Searched(d) :
       Target[c][m] = Target[d][n] => c = d /\ m = n
  /\ \A S \in SUBSET Nodes :
       Root \in S /\ (\A n \in S : Revealed(n) \subseteq S) => Files \ Unreadable \subseteq S

=============================================================================
