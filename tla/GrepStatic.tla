----------------------------- MODULE GrepStatic -----------------------------
(***************************************************************************)
(* parallelSearchStatic (mini_grep.c): main lists the top directory, deals *)
(* its entries round to one queue per thread, starts the threads and joins *)
(* them.  Each thread runs serialSearchActual on its queue.  Only the      *)
(* dirent is shared.                                                       *)
(***************************************************************************)
EXTENDS MiniGrep

VARIABLES
  num,     \* num_occurrences of main
  count,   \* num_occurrences of each thread
  slot,    \* i, the index main deals, creates and joins with
  overlap  \* history: two threads have listed directories at the same time

mainVars == <<num, count, slot>>
vars     == <<grepVars, mainVars, overlap>>

Init ==
  /\ node = [e \in Elements |-> IF e = 1 THEN Root ELSE Nowhere]
  /\ next = [e \in Elements |-> NULL]
  /\ used = 1
  /\ freed = {}
  /\ head = [q \in Queues |-> NULL]
  /\ tail = [q \in Queues |-> NULL]
  /\ entry = Dot
  /\ pc = [t \in Threads |-> IF t = Main THEN "open" ELSE "off"]
  /\ local = [t \in Threads |-> IF t = Main THEN [Fresh EXCEPT !.el = 1] ELSE Fresh]
  /\ args = [i \in Workers |-> [queue |-> i, is_running |-> FALSE, result |-> 0]]
  /\ fault = FALSE
  /\ num = 0
  /\ count = [i \in Workers |-> 0]
  /\ slot = 1
  /\ overlap = FALSE

-----------------------------------------------------------------------------
(* main *)

\* handle_dir on the path to search; exit when it cannot be opened, for which
\* opendir has reasons of the moment too.
Open ==
  /\ At(Main, "open")
  /\ \/ /\ Listed(Root)
        /\ local' = [local EXCEPT ![Main].unread = Listing[Root]]
        /\ Goto(Main, "read")
     \/ /\ Goto(Main, "exit")
        /\ UNCHANGED local
  /\ UNCHANGED <<memory, queue, entry, args, fault, mainVars>>

Opened ==
  /\ At(Main, "return")
  /\ local' = [local EXCEPT ![Main] = Fresh]
  /\ Goto(Main, "deal")
  /\ UNCHANGED <<memory, queue, entry, args, fault, mainVars>>

\* i = (++i) % num_threads
Following(i) == (i % NumThreads) + 1

\* Mutant: an element that is dealt keeps its old successor.
DealKeepsNext ==
  /\ At(Main, "deal")
  /\ head[Main] # NULL
  /\ LET e == head[Main] IN
       /\ head' = [head EXCEPT ![Main] = next[e],
                               ![slot] = IF @ = NULL THEN e ELSE @]
       /\ next' = [x \in Elements |-> IF head[slot] # NULL /\ x = tail[slot] THEN e
                                      ELSE next[x]]
       /\ tail' = [tail EXCEPT ![slot] = e]
  /\ slot' = Following(slot)
  /\ UNCHANGED <<node, used, freed, entry, pc, local, args, fault, num, count>>

\* Mutant: the element that is dealt stays at the head of main's queue.
DealPeeks ==
  /\ At(Main, "deal")
  /\ head[Main] # NULL
  /\ LET e == head[Main] IN
       /\ head' = [head EXCEPT ![slot] = IF @ = NULL THEN e ELSE @]
       /\ next' = [next EXCEPT ![IF head[slot] = NULL THEN e ELSE tail[slot]] =
                                 IF head[slot] = NULL THEN @ ELSE e]
       /\ tail' = [tail EXCEPT ![slot] = e]
  /\ slot' = Following(slot)
  /\ UNCHANGED <<node, used, freed, entry, pc, local, args, fault, num, count>>

\* One element goes from main's queue to the next thread's (no thread runs yet).
Deal ==
  /\ At(Main, "deal")
  /\ head[Main] # NULL
  /\ LET e == head[Main] IN
       /\ head' = [head EXCEPT ![Main] = next[e],
                               ![slot] = IF @ = NULL THEN e ELSE @]
       /\ next' = [x \in Elements |-> IF x = e THEN NULL
                                      ELSE IF head[slot] # NULL /\ x = tail[slot] THEN e
                                      ELSE next[x]]
       /\ tail' = [tail EXCEPT ![slot] = e]
  /\ slot' = Following(slot)
  /\ UNCHANGED <<node, used, freed, entry, pc, local, args, fault, num, count>>

Dealt ==
  /\ At(Main, "deal")
  /\ head[Main] = NULL
  /\ slot' = 1
  /\ Goto(Main, "create")
  /\ UNCHANGED <<memory, queue, entry, local, args, fault, num, count>>

Create ==
  /\ At(Main, "create")
  /\ \/ /\ slot \in Workers
        /\ args' = [args EXCEPT ![slot].queue = slot, ![slot].result = 0]
        /\ Goto(slot, "loop")
        /\ slot' = slot + 1
     \/ /\ slot \notin Workers
        /\ Goto(Main, "join")
        /\ slot' = 1
        /\ UNCHANGED args
  /\ UNCHANGED <<memory, queue, entry, local, fault, num, count>>

\* Mutant: the result is taken without waiting for the thread.
JoinEarly(i) == TRUE

\* pthread_join returns when the thread has ended.
Joined(i) == pc[i] = "off"

Join ==
  /\ At(Main, "join")
  /\ \/ /\ slot \in Workers
        /\ Joined(slot)
        /\ num' = num + args[slot].result
        /\ slot' = slot + 1
        /\ UNCHANGED pc
     \/ /\ slot \notin Workers
        /\ Goto(Main, "done")
        /\ UNCHANGED <<num, slot>>
  /\ UNCHANGED <<memory, queue, entry, local, args, fault, count>>

MainStep ==
  \/ Open \/ Opened \/ Deal \/ Dealt \/ Create \/ Join
  \/ HandleStep(Main) /\ UNCHANGED mainVars

-----------------------------------------------------------------------------
(* serialSearchActual in a thread *)

\* while(queue->head != NULL); the result is stored at the end.
Loop(i) ==
  /\ At(i, "loop")
  /\ \/ /\ head[QueueOf(i)] # NULL
        /\ Goto(i, "take")
        /\ UNCHANGED args
     \/ /\ head[QueueOf(i)] = NULL
        /\ args' = [args EXCEPT ![i].result = count[i]]
        /\ Goto(i, "off")
  /\ UNCHANGED <<memory, queue, entry, local, fault, mainVars>>

Add(i) ==
  /\ At(i, "return")
  /\ count' = [count EXCEPT ![i] = @ + local[i].found]
  /\ local' = [local EXCEPT ![i] = Fresh]
  /\ Goto(i, "loop")
  /\ UNCHANGED <<memory, queue, entry, args, fault, num, slot>>

WorkerStep(i) ==
  \/ Loop(i) \/ Add(i)
  \/ (Take(i) \/ Follow(i) \/ Advance(i, "stat")) /\ UNCHANGED mainVars
  \/ HandleStep(i) /\ UNCHANGED mainVars

Over == pc[Main] \in {"done", "exit"} \/ fault

\* The threads inside handle_dir.
Listers ==
  {t \in Threads : pc[t] \in {"read", "dot", "dotdot", "name"} \cup InsertSteps}

Watch == overlap' = (overlap \/ Cardinality(Listers') > 1)

Next == (MainStep \/ \E i \in Workers : WorkerStep(i)) /\ Watch
Spec == Init /\ [][Next]_vars

\* The operating system runs every thread again and again.
FairSpec ==
  /\ Spec
  /\ WF_vars(MainStep /\ Watch)
  /\ \A i \in Workers : WF_vars(WorkerStep(i) /\ Watch)

-----------------------------------------------------------------------------
(* Properties of every execution, however the threads race                 *)

\* Threads race for the dirent only: no element is in two queues, or in one
\* thread's hand and in a queue, or freed while it is in a queue; so no queue
\* operation of a thread can disturb another and none can fault.
QueuesApart ==
  /\ ~fault
  /\ \A p, q \in Queues : p # q => Chain(head[p]) \cap Chain(head[q]) = {}
  /\ Queued \cap freed = {}
  /\ \A t \in Holders : pc[t] # "follow" /\ pc[t] # "advance"
                          => local[t].el \notin Queued

\* What the threads have found so far and main has not yet added.
Unjoined == {i \in Workers : ~(pc[Main] = "done" \/ (pc[Main] = "join" /\ i < slot))}
Credit ==
  num + MapThenSumSet(
    LAMBDA i : count[i] + (IF pc[i] = "return" THEN local[i].found ELSE 0), Unjoined)

-----------------------------------------------------------------------------
(* Properties of the executions in which no two threads list at once: what *)
(* the shared dirent costs is all that a schedule can cost                 *)

\* The search finds what there is.
FindsAll == pc[Main] = "done" /\ ~overlap => num = Total

\* Every thread ends and is joined.
Ends == <>(Over \/ overlap)

\* Dealing, searching and adding up amount to handling everything in the tree
\* once, in some order.
Work ==
  INSTANCE GrepWork WITH
    Root <- Root, Reveals <- Revealed, Yields <- Yield,
    todo <- Pending, total <- Credit

ImplementsWork == Work!Init /\ [][overlap' \/ Work!Next]_<<Pending, Credit>>

=============================================================================
