---------------------------- MODULE GrepDynamic ----------------------------
(***************************************************************************)
(* parallelSearchDynamic (mini_grep.c): main removes elements from one     *)
(* queue and starts a thread for each in a slot of thread_args that is not *)
(* running; the threads insert what they find into the same queue.  A      *)
(* thread stores its result before it clears is_running; main collects the *)
(* result before it uses the slot again.                                   *)
(*                                                                         *)
(* thread_is_working is one step: only main sets is_running, so the call   *)
(* returns what holds when it reads its last slot.                         *)
(***************************************************************************)
EXTENDS MiniGrep

VARIABLES
  num,     \* num_occurrences
  slot,    \* open_thread: the slot main looks at or has found
  overlap  \* history: two threads have used the queue or the dirent at the same time

mainVars == <<num, slot>>
vars     == <<grepVars, mainVars, overlap>>

MainSteps == {"test", "empty", "scan", "collect", "look", "spawn", "sum", "done"}
Steps == HandleSteps \cup InsertSteps \cup RemoveSteps \cup MainSteps
           \cup {"stop", "off"}

StateOK ==
  /\ node \in [Elements -> Nodes \cup {Nowhere}]
  /\ next \in [Elements -> Pointers]
  /\ used \in 0..MaxElements
  /\ freed \subseteq Elements
  /\ head \in [Queues -> Pointers]
  /\ tail \in [Queues -> Pointers]
  /\ entry \in Names
  /\ pc \in [Threads -> Steps]
  /\ local \in [Threads -> Locals]
  /\ args \in [Workers -> Args]
  /\ fault \in BOOLEAN
  /\ num \in Int
  /\ slot \in 1..(NumThreads + 1)

TypeOK == StateOK /\ overlap \in BOOLEAN

\* The queue holds the path to search, and no thread has been started.
Init ==
  /\ node = [e \in Elements |-> IF e = 1 THEN Root ELSE Nowhere]
  /\ next = [e \in Elements |-> NULL]
  /\ used = 1
  /\ freed = {}
  /\ head = [q \in Queues |-> IF q = Main THEN 1 ELSE NULL]
  /\ tail = [q \in Queues |-> IF q = Main THEN 1 ELSE NULL]
  /\ entry = Dot
  /\ pc = [t \in Threads |-> IF t = Main THEN "test" ELSE "off"]
  /\ local = [t \in Threads |-> Fresh]
  /\ args = [i \in Workers |-> [queue |-> Main, is_running |-> FALSE, result |-> 0]]
  /\ fault = FALSE
  /\ num = 0
  /\ slot = 1
  /\ overlap = FALSE

-----------------------------------------------------------------------------
(* The loop of main                                                        *)

\* Mutant: the last slot is not looked at.
WorkingButLast == \E i \in Workers \ {NumThreads} : args[i].is_running

Working == \E i \in Workers : args[i].is_running

\* while (thread_is_working(...) || queue->head != NULL)
Test ==
  /\ At(Main, "test")
  /\ Goto(Main, IF Working THEN "scan" ELSE "empty")
  /\ slot' = 1
  /\ UNCHANGED <<memory, queue, entry, local, args, fault, num>>

Empty ==
  /\ At(Main, "empty")
  /\ Goto(Main, IF head[Main] = NULL THEN "sum" ELSE "scan")
  /\ UNCHANGED <<memory, queue, entry, local, args, fault, mainVars>>

\* Mutant: the search for a slot does not end at the last one.
ScanPast ==
  /\ At(Main, "scan")
  /\ \/ /\ slot \notin Workers \/ args[slot].is_running
        /\ slot' = slot + 1
        /\ UNCHANGED pc
     \/ /\ slot \in Workers /\ ~args[slot].is_running
        /\ Goto(Main, "collect")
        /\ UNCHANGED slot
  /\ UNCHANGED <<memory, queue, entry, local, args, fault, num>>

\* first_available_thread, slot by slot; -1 goes back to the test.
Scan ==
  /\ At(Main, "scan")
  /\ \/ /\ slot > NumThreads
        /\ Goto(Main, "test")
        /\ UNCHANGED slot
     \/ /\ slot \in Workers /\ args[slot].is_running
        /\ slot' = slot + 1
        /\ UNCHANGED pc
     \/ /\ slot \in Workers /\ ~args[slot].is_running
        /\ Goto(Main, "collect")
        /\ UNCHANGED slot
  /\ UNCHANGED <<memory, queue, entry, local, args, fault, num>>

\* Mutant: the result is added but not reset.
CollectAgain ==
  /\ At(Main, "collect")
  /\ num' = num + args[slot].result
  /\ Goto(Main, "look")
  /\ UNCHANGED <<memory, queue, entry, local, args, fault, slot>>

Collect ==
  /\ At(Main, "collect")
  /\ num' = num + args[slot].result
  /\ args' = [args EXCEPT ![slot].result = 0]
  /\ Goto(Main, "look")
  /\ UNCHANGED <<memory, queue, entry, local, fault, slot>>

Look ==
  /\ At(Main, "look")
  /\ Goto(Main, IF head[Main] = NULL THEN "test" ELSE "take")
  /\ UNCHANGED <<memory, queue, entry, local, args, fault, mainVars>>

\* A new thread in the open slot, with the element just removed.
Spawn ==
  /\ At(Main, "spawn")
  /\ local' = [local EXCEPT ![slot] = [Fresh EXCEPT !.el = local[Main].el],
                            ![Main].el = NULL]
  /\ args' = [args EXCEPT ![slot].is_running = TRUE]
  /\ pc' = [pc EXCEPT ![Main] = "test", ![slot] = "stat"]
  /\ UNCHANGED <<memory, queue, entry, fault, mainVars>>

\* The results nobody collected in the loop, slot by slot.
Sum ==
  /\ At(Main, "sum")
  /\ \/ /\ slot \in Workers
        /\ num' = num + args[slot].result
        /\ slot' = slot + 1
        /\ UNCHANGED pc
     \/ /\ slot \notin Workers
        /\ Goto(Main, "done")
        /\ UNCHANGED mainVars
  /\ UNCHANGED <<memory, queue, entry, local, args, fault>>

MainStep ==
  \/ Test \/ Empty \/ Scan \/ Collect \/ Look
  \/ (Take(Main) \/ Follow(Main) \/ Advance(Main, "spawn")) /\ UNCHANGED mainVars
  \/ Spawn \/ Sum

-----------------------------------------------------------------------------
(* handle_element_wrapper                                                  *)

Store(i) ==
  /\ At(i, "return")
  /\ args' = [args EXCEPT ![i].result = local[i].found]
  /\ local' = [local EXCEPT ![i] = Fresh]
  /\ Goto(i, "stop")
  /\ UNCHANGED <<memory, queue, entry, fault, mainVars>>

\* Mutant: is_running is not cleared.
StopSilent(i) ==
  /\ At(i, "stop")
  /\ Goto(i, "off")
  /\ UNCHANGED <<memory, queue, entry, local, args, fault, mainVars>>

Stop(i) ==
  /\ At(i, "stop")
  /\ args' = [args EXCEPT ![i].is_running = FALSE]
  /\ Goto(i, "off")
  /\ UNCHANGED <<memory, queue, entry, local, fault, mainVars>>

WorkerStep(i) ==
  \/ HandleStep(i) /\ UNCHANGED mainVars
  \/ Store(i)
  \/ Stop(i)

\* The process has ended, by exit or by a fault.
Over == pc[Main] = "done" \/ fault

\* The threads inside handle_dir or removeElement.
Users ==
  {t \in Threads :
     pc[t] \in {"read", "dot", "dotdot", "name"} \cup InsertSteps \cup RemoveSteps}

Watch == overlap' = (overlap \/ Cardinality(Users') > 1)

Next == (MainStep \/ \E i \in Workers : WorkerStep(i)) /\ Watch
Spec == Init /\ [][Next]_vars

\* The operating system runs every thread again and again.
FairSpec ==
  /\ Spec
  /\ WF_vars(MainStep /\ Watch)
  /\ \A i \in Workers : WF_vars(WorkerStep(i) /\ Watch)

-----------------------------------------------------------------------------
(* Properties of every execution, however the threads race                 *)

\* Main leaves its loop only when no thread has work left, started or queued:
\* it looks at the threads first and at the queue second, and a thread inserts
\* before it stops.
LeavesNoWork ==
  pc[Main] \in {"sum", "done"} =>
    head[Main] = NULL /\ \A i \in Workers : pc[i] = "off"

\* What has been found and not lost: counted, stored, or about to be stored.
Uncollected == {i \in Workers : ~(pc[Main] = "done" \/ (pc[Main] = "sum" /\ i < slot))}
Credit ==
  num + MapThenSumSet(
    LAMBDA i : args[i].result + (IF pc[i] = "return" THEN local[i].found ELSE 0),
    Uncollected)

\* Thread i finds the count it will return.
Counts(i) == pc[i] = "stat" /\ pc'[i] = "return"

\* Every count a thread returns is added once and never lost, although main and
\* the threads share result and is_running without a lock.
CountedOnce ==
  [][ /\ \A i \in Workers : Counts(i) => Credit' = Credit + Yield(node[local[i].el])
      /\ (\A i \in Workers : ~Counts(i)) => Credit' = Credit ]_vars

\* No element is handed out twice, or after it was handled and freed, although
\* main removes from a queue that threads insert into without a lock: an element
\* in hand is in no other hand and out of reach from the queue's head.
HandedOutOnce ==
  LET inHand == {t \in Holders : local[t].el # NULL} IN
    /\ \A t \in inHand : pc[t] # "return" => local[t].el \notin freed
    /\ \A t, u \in inHand : t # u => local[t].el # local[u].el
    /\ \A t \in inHand \ {Main} : local[t].el \notin Queued

-----------------------------------------------------------------------------
(* Properties of the executions in which no two threads use the queue or   *)
(* the dirent at once: what these two cost is all that a schedule can cost *)

\* The search finds what there is.
FindsAll == pc[Main] = "done" /\ ~overlap => num = Total

\* The search ends: main does not spin on a slot or a queue for ever.
Ends == <>(Over \/ overlap)

\* Queue, dirent and hand-over amount to handling everything in the tree once, in
\* some order, however main's polling, results and hand-overs are interleaved.
Work ==
  INSTANCE GrepWork WITH
    Root <- Root, Reveals <- Revealed, Yields <- Yield,
    todo <- Pending, total <- Credit

ImplementsWork == Work!Init /\ [][overlap' \/ Work!Next]_<<Pending, Credit>>

=============================================================================
