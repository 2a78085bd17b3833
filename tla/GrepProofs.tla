----------------------------- MODULE GrepProofs -----------------------------
(***************************************************************************)
(* Theorems about the dynamic search (GrepDynamic), for every file tree    *)
(* and every number of threads, however the threads race for the queue and *)
(* the dirent: its types (IInv), what main hands out (ChainInv) and what   *)
(* it counts (CountInv).  And, while no two threads overlap and if what is *)
(* searched is a tree (Tree), that it finds what there is and implements   *)
(* GrepWork (SearchInv).                                                   *)
(***************************************************************************)
EXTENDS GrepDynamic, TLAPS, NaturalsInduction, WellFoundedInduction, FiniteSetTheorems

Reading == {"read", "dot", "dotdot", "name"} \cup InsertSteps

\* Pointers lead to elements that have been allocated.
Allocated ==
  /\ \A q \in Queues : head[q] \in 0..used /\ tail[q] \in 0..used
  /\ \A e \in Elements : next[e] \in 0..used
  /\ \A t \in Threads : /\ local[t].el \in 0..used
                        /\ local[t].new \in 0..used
                        /\ local[t].reg \in 0..used

\* A thread that handles an element has one, which is a directory while it is
\* listed, and an element to insert while it inserts.
InHand ==
  \A t \in Threads :
    /\ pc[t] \in HandleSteps \cup InsertSteps \cup {"follow", "advance", "spawn"}
         => local[t].el # NULL
    /\ pc[t] \in Reading => node[local[t].el] \in Dirs
    /\ pc[t] \in InsertSteps => local[t].new # NULL

\* There is one queue, only main makes it empty, and a thread at work is marked.
Roles ==
  /\ pc[Main] \in MainSteps \cup RemoveSteps
  /\ \A i \in Workers : /\ pc[i] \in HandleSteps \cup InsertSteps \cup {"stop", "off"}
                        /\ pc[i] # "off" => args[i].is_running
                        /\ args[i].queue = Main
  /\ pc[Main] \in {"take", "follow"} => head[Main] # NULL
  /\ pc[Main] \in {"collect", "look", "spawn"} \cup RemoveSteps
       => slot \in Workers /\ ~args[slot].is_running

\* What main has seen when it is about to leave, or has left, its loop.
Leaving ==
  /\ pc[Main] \in {"empty", "sum", "done"} => \A i \in Workers : ~args[i].is_running
  /\ pc[Main] \in {"sum", "done"} => head[Main] = NULL

IInv == StateOK /\ Allocated /\ InHand /\ Roles /\ Leaving

-----------------------------------------------------------------------------

LEMMA Numbers ==
  /\ Main \in Threads /\ Main \in Queues /\ Main \notin Workers
  /\ Workers \subseteq Threads
  /\ Elements \subseteq Pointers /\ NULL \in Pointers
  /\ 1 \in Elements /\ NULL \notin Elements
  /\ NumThreads \in Nat /\ MaxElements \in Nat
BY MiniGrepAssumption DEF Main, Threads, Queues, Workers, Elements, Pointers, NULL

LEMMA InitIInv == Init => IInv
<1>1. Init => StateOK
  <2>1. Init => /\ local \in [Threads -> Locals]
                /\ args \in [Workers -> Args]
    <3>1. Fresh \in Locals
      BY Numbers DEF Fresh, Locals
    <3>2. [queue |-> Main, is_running |-> FALSE, result |-> 0] \in Args
      BY Numbers DEF Args
    <3>3. QED
      BY <3>1, <3>2 DEF Init
  <2>2. Init => /\ node \in [Elements -> Nodes \cup {Nowhere}]
                /\ next \in [Elements -> Pointers]
                /\ used \in 0..MaxElements
                /\ freed \subseteq Elements
    BY Numbers, MiniGrepAssumption DEF Init, Nodes, Elements
  <2>3. Init => /\ head \in [Queues -> Pointers]
                /\ tail \in [Queues -> Pointers]
    BY Numbers DEF Init
  <2>4. Init => pc \in [Threads -> Steps]
    BY DEF Init, Steps, MainSteps
  <2>5. Init => /\ entry \in Names /\ fault \in BOOLEAN
                /\ num \in Int /\ slot \in 1..(NumThreads + 1)
    <3>1. Dot \in Names
      BY MiniGrepAssumption
    <3>2. 1 \in 1..(NumThreads + 1)
      BY Numbers
    <3>3. Init => fault \in BOOLEAN
      BY DEF Init
    <3>4. Init => entry \in Names /\ num \in Int /\ slot \in 1..(NumThreads + 1)
      BY <3>1, <3>2 DEF Init
    <3>5. QED
      BY <3>3, <3>4
  <2>6. QED
    BY <2>1, <2>2, <2>3, <2>4, <2>5 DEF StateOK
<1>2. Init => Allocated
  BY Numbers DEF Init, Allocated, Fresh, NULL
<1>3. Init => InHand
  BY Numbers DEF Init, InHand, HandleSteps, InsertSteps, Reading
<1>4. Init => Roles /\ Leaving
  BY Numbers DEF Init, Roles, Leaving, MainSteps, RemoveSteps
<1>5. QED
  BY <1>1, <1>2, <1>3, <1>4 DEF IInv

-----------------------------------------------------------------------------
(* The steps of a thread that handles an element *)

LEMMA InsertKeeps ==
  ASSUME IInv, NEW i \in Workers, Insert(i), UNCHANGED mainVars
  PROVE  IInv'
<1>t. local \in [Threads -> Locals] /\ i \in Threads /\ QueueOf(i) = Main
  BY Numbers DEF IInv, StateOK, Roles, QueueOf
<1>p. pc' \in [Threads -> Steps]
  BY <1>t, Numbers DEF IInv, StateOK, Steps, HandleSteps, InsertSteps, At, Goto, memory, queue, mainVars, Insert
<1>1. StateOK'
  BY <1>t, <1>p, Numbers DEF IInv, StateOK, Elements, Pointers, NULL, At, Goto, memory, queue, mainVars, Insert
<1>2. Allocated'
  BY <1>t, Numbers DEF IInv, StateOK, Allocated, Elements, NULL, At, Goto, memory, queue, mainVars, Insert
<1>3. InHand'
  BY <1>t, Numbers DEF IInv, StateOK, Allocated, InHand, HandleSteps, InsertSteps, Reading, Elements, NULL, At, Goto, memory, queue, mainVars, Insert
<1>4. Roles'
  BY <1>t, Numbers DEF IInv, StateOK, Roles, HandleSteps, InsertSteps, MainSteps, RemoveSteps, At, Goto, memory, queue, mainVars, Insert
<1>5. Leaving'
  BY <1>t, Numbers DEF IInv, StateOK, Roles, Leaving, HandleSteps, InsertSteps, At, Goto, memory, queue, mainVars, Insert
<1>6. QED
  BY <1>1, <1>2, <1>3, <1>4, <1>5 DEF IInv

LEMMA SetHeadKeeps ==
  ASSUME IInv, NEW i \in Workers, SetHead(i), UNCHANGED mainVars
  PROVE  IInv'
<1>t. local \in [Threads -> Locals] /\ i \in Threads /\ QueueOf(i) = Main
  BY Numbers DEF IInv, StateOK, Roles, QueueOf
<1>e. local' = [local EXCEPT ![i].reg = local[i].new]
  BY DEF SetHead
<1>f. local[i].new \in Elements
  BY <1>t, Numbers DEF IInv, SetHead, At, InHand, InsertSteps, Locals, Pointers
<1>0. /\ local' \in [Threads -> Locals]
      /\ \A t \in Threads : /\ local'[t].el = local[t].el
                            /\ local'[t].new = local[t].new
                            /\ local'[t].reg = IF t = i THEN local[i].new ELSE local[t].reg
  BY <1>t, <1>e, <1>f DEF Locals, Pointers
<1>p. pc' \in [Threads -> Steps]
  BY <1>t, <1>f, <1>0, Numbers DEF IInv, StateOK, Steps, HandleSteps, InsertSteps, At, Goto, memory, queue, mainVars, SetHead
<1>1. StateOK'
  BY <1>t, <1>f, <1>0, <1>p, Numbers DEF IInv, StateOK, Elements, Pointers, NULL, At, Goto, memory, queue, mainVars, SetHead
<1>2. Allocated'
  BY <1>t, <1>f, <1>0, Numbers DEF IInv, StateOK, Allocated, Elements, NULL, At, Goto, memory, queue, mainVars, SetHead
<1>3. InHand'
  BY <1>t, <1>f, <1>0, Numbers DEF IInv, StateOK, Allocated, InHand, HandleSteps, InsertSteps, Reading, Elements, NULL, At, Goto, memory, queue, mainVars, SetHead
<1>4. Roles'
  BY <1>t, <1>f, <1>0, Numbers DEF IInv, StateOK, Roles, HandleSteps, InsertSteps, MainSteps, RemoveSteps, At, Goto, memory, queue, mainVars, SetHead
<1>5. Leaving'
  BY <1>t, <1>f, <1>0, Numbers DEF IInv, StateOK, Roles, Leaving, HandleSteps, InsertSteps, At, Goto, memory, queue, mainVars, SetHead
<1>6. QED
  BY <1>1, <1>2, <1>3, <1>4, <1>5 DEF IInv

LEMMA GetTailKeeps ==
  ASSUME IInv, NEW i \in Workers, GetTail(i), UNCHANGED mainVars
  PROVE  IInv'
<1>t. local \in [Threads -> Locals] /\ i \in Threads /\ QueueOf(i) = Main
  BY Numbers DEF IInv, StateOK, Roles, QueueOf
<1>e. local' = [local EXCEPT ![i].reg = tail[Main]] /\ tail[Main] \in Pointers
  BY <1>t, Numbers DEF GetTail, IInv, StateOK
<1>0. /\ local' \in [Threads -> Locals]
      /\ \A t \in Threads : /\ local'[t].el = local[t].el
                            /\ local'[t].new = local[t].new
                            /\ local'[t].reg = IF t = i THEN tail[Main] ELSE local[t].reg
  BY <1>t, <1>e DEF Locals
<1>p. pc' \in [Threads -> Steps]
  BY <1>t, <1>0, Numbers DEF IInv, StateOK, Steps, HandleSteps, InsertSteps, At, Goto, memory, queue, mainVars, GetTail
<1>1. StateOK'
  BY <1>t, <1>0, <1>p, Numbers DEF IInv, StateOK, Elements, Pointers, NULL, At, Goto, memory, queue, mainVars, GetTail
<1>2. Allocated'
  BY <1>t, <1>0, Numbers DEF IInv, StateOK, Allocated, Elements, NULL, At, Goto, memory, queue, mainVars, GetTail
<1>3. InHand'
  BY <1>t, <1>0, Numbers DEF IInv, StateOK, Allocated, InHand, HandleSteps, InsertSteps, Reading, Elements, NULL, At, Goto, memory, queue, mainVars, GetTail
<1>4. Roles'
  BY <1>t, <1>0, Numbers DEF IInv, StateOK, Roles, HandleSteps, InsertSteps, MainSteps, RemoveSteps, At, Goto, memory, queue, mainVars, GetTail
<1>5. Leaving'
  BY <1>t, <1>0, Numbers DEF IInv, StateOK, Roles, Leaving, HandleSteps, InsertSteps, At, Goto, memory, queue, mainVars, GetTail
<1>6. QED
  BY <1>1, <1>2, <1>3, <1>4, <1>5 DEF IInv

LEMMA LinkKeeps ==
  ASSUME IInv, NEW i \in Workers, Link(i), UNCHANGED mainVars
  PROVE  IInv'
<1>t. local \in [Threads -> Locals] /\ i \in Threads /\ QueueOf(i) = Main
  BY Numbers DEF IInv, StateOK, Roles, QueueOf
<1>f. local[i].new \in Elements /\ local[i].reg \in Pointers
  BY <1>t, Numbers DEF IInv, Link, At, InHand, InsertSteps, Locals, Pointers
<1>p. pc' \in [Threads -> Steps]
  BY <1>t, <1>f, Numbers DEF IInv, StateOK, Steps, HandleSteps, InsertSteps, At, Goto, memory, queue, mainVars, Link
<1>1. StateOK'
  BY <1>t, <1>f, <1>p, Numbers DEF IInv, StateOK, Elements, Pointers, NULL, At, Goto, memory, queue, mainVars, Link
<1>2. Allocated'
  BY <1>t, <1>f, Numbers DEF IInv, StateOK, Allocated, Elements, NULL, At, Goto, memory, queue, mainVars, Link
<1>3. InHand'
  BY <1>t, <1>f, Numbers DEF IInv, StateOK, Allocated, InHand, HandleSteps, InsertSteps, Reading, Elements, NULL, At, Goto, memory, queue, mainVars, Link
<1>4. Roles'
  BY <1>t, <1>f, Numbers DEF IInv, StateOK, Roles, HandleSteps, InsertSteps, MainSteps, RemoveSteps, At, Goto, memory, queue, mainVars, Link
<1>5. Leaving'
  BY <1>t, <1>f, Numbers DEF IInv, StateOK, Roles, Leaving, HandleSteps, InsertSteps, At, Goto, memory, queue, mainVars, Link
<1>6. QED
  BY <1>1, <1>2, <1>3, <1>4, <1>5 DEF IInv

LEMMA GetNextKeeps ==
  ASSUME IInv, NEW i \in Workers, GetNext(i), UNCHANGED mainVars
  PROVE  IInv'
<1>t. local \in [Threads -> Locals] /\ i \in Threads /\ QueueOf(i) = Main
  BY Numbers DEF IInv, StateOK, Roles, QueueOf
<1>0. /\ local' \in [Threads -> Locals]
      /\ \A t \in Threads :
           /\ local'[t].el = local[t].el
           /\ local'[t].new = local[t].new
           /\ local'[t].reg = local[t].reg \/ \E e \in Elements : local'[t].reg = next[e]
  <2>1. CASE tail[Main] # NULL
    <3>1. tail[Main] \in Elements /\ next[tail[Main]] \in Pointers
      BY <2>1, Numbers DEF IInv, StateOK, Pointers
    <3>2. local' = [local EXCEPT ![i].reg = next[tail[Main]]]
      BY <1>t, <2>1 DEF GetNext
    <3>3. QED
      BY <1>t, <3>1, <3>2 DEF Locals
  <2>2. CASE tail[Main] = NULL
    BY <1>t, <2>2 DEF GetNext
  <2>3. QED
    BY <2>1, <2>2
<1>p. pc' \in [Threads -> Steps]
  BY <1>t, <1>0, Numbers DEF IInv, StateOK, Steps, HandleSteps, InsertSteps, At, Goto, memory, queue, mainVars, GetNext
<1>1. StateOK'
  BY <1>t, <1>0, <1>p, Numbers DEF IInv, StateOK, Elements, Pointers, NULL, At, Goto, memory, queue, mainVars, GetNext
<1>2. Allocated'
  BY <1>t, <1>0, Numbers DEF IInv, StateOK, Allocated, Elements, NULL, At, Goto, memory, queue, mainVars, GetNext
<1>3. InHand'
  BY <1>t, <1>0, Numbers DEF IInv, StateOK, Allocated, InHand, HandleSteps, InsertSteps, Reading, Elements, NULL, At, Goto, memory, queue, mainVars, GetNext
<1>4. Roles'
  BY <1>t, <1>0, Numbers DEF IInv, StateOK, Roles, HandleSteps, InsertSteps, MainSteps, RemoveSteps, At, Goto, memory, queue, mainVars, GetNext
<1>5. Leaving'
  BY <1>t, <1>0, Numbers DEF IInv, StateOK, Roles, Leaving, HandleSteps, InsertSteps, At, Goto, memory, queue, mainVars, GetNext
<1>6. QED
  BY <1>1, <1>2, <1>3, <1>4, <1>5 DEF IInv

LEMMA SetTailKeeps ==
  ASSUME IInv, NEW i \in Workers, SetTail(i), UNCHANGED mainVars
  PROVE  IInv'
<1>t. local \in [Threads -> Locals] /\ i \in Threads /\ QueueOf(i) = Main
  BY Numbers DEF IInv, StateOK, Roles, QueueOf
<1>e. local' = [local EXCEPT ![i].new = NULL, ![i].reg = NULL]
  BY DEF SetTail
<1>f. local[i].reg \in Pointers
  BY <1>t DEF Locals
<1>0. /\ local' \in [Threads -> Locals]
      /\ \A t \in Threads : /\ local'[t].el = local[t].el
                            /\ local'[t].new = IF t = i THEN NULL ELSE local[t].new
                            /\ local'[t].reg = IF t = i THEN NULL ELSE local[t].reg
  BY <1>t, <1>e, Numbers DEF Locals
<1>p. pc' \in [Threads -> Steps]
  BY <1>t, <1>f, <1>0, Numbers DEF IInv, StateOK, Steps, HandleSteps, InsertSteps, At, Goto, memory, queue, mainVars, SetTail
<1>1. StateOK'
  BY <1>t, <1>f, <1>0, <1>p, Numbers DEF IInv, StateOK, Elements, Pointers, NULL, At, Goto, memory, queue, mainVars, SetTail
<1>2. Allocated'
  <2>1. local[i].reg \in 0..used
    BY <1>t DEF IInv, Allocated
  <2>2. \A q \in Queues : head'[q] \in 0..used' /\ tail'[q] \in 0..used'
    BY <2>1, <1>t DEF SetTail, IInv, StateOK, Allocated, memory
  <2>3. used' = used /\ next' = next /\ used \in Nat
    <3>1. used' = used /\ next' = next
      BY DEF SetTail, memory
    <3>2. used \in 0..MaxElements
      BY DEF IInv, StateOK
    <3>3. QED
      BY <3>1, <3>2
  <2>4. \A t \in Threads : /\ local'[t].el \in 0..used
                           /\ local'[t].new \in 0..used
                           /\ local'[t].reg \in 0..used
    BY <1>0, <2>3 DEF IInv, Allocated, NULL
  <2>5. QED
    BY <2>2, <2>3, <2>4 DEF IInv, Allocated
<1>3. InHand'
  BY <1>t, <1>f, <1>0, Numbers DEF IInv, StateOK, Allocated, InHand, HandleSteps, InsertSteps, Reading, Elements, NULL, At, Goto, memory, queue, mainVars, SetTail
<1>4. Roles'
  BY <1>t, <1>f, <1>0, Numbers DEF IInv, StateOK, Roles, HandleSteps, InsertSteps, MainSteps, RemoveSteps, At, Goto, memory, queue, mainVars, SetTail
<1>5. Leaving'
  BY <1>t, <1>f, <1>0, Numbers DEF IInv, StateOK, Roles, Leaving, HandleSteps, InsertSteps, At, Goto, memory, queue, mainVars, SetTail
<1>6. QED
  BY <1>1, <1>2, <1>3, <1>4, <1>5 DEF IInv

LEMMA StatKeeps ==
  ASSUME IInv, NEW i \in Workers, Stat(i), UNCHANGED mainVars
  PROVE  IInv'
<1>t. local \in [Threads -> Locals] /\ i \in Threads /\ QueueOf(i) = Main
  BY Numbers DEF IInv, StateOK, Roles, QueueOf
<1>f. local[i].el \in Elements
  BY <1>t, Numbers DEF IInv, Stat, At, InHand, HandleSteps, Locals, Pointers
<1>a. node[local[i].el] \in Nodes \cup {Nowhere}
  BY <1>f DEF IInv, StateOK
<1>0. /\ local' \in [Threads -> Locals]
      /\ \A t \in Threads : /\ local'[t].el = local[t].el
                            /\ local'[t].new = local[t].new
                            /\ local'[t].reg = local[t].reg
  <2>1. CASE Listed(node[local[i].el])
    <3>1. Listing[node[local[i].el]] \in Seq(Names)
      BY <2>1, MiniGrepAssumption DEF Listed
    <3>2. local' = [local EXCEPT ![i].unread = Listing[node[local[i].el]]]
      BY <2>1 DEF Stat
    <3>3. QED
      BY <1>t, <3>1, <3>2 DEF Locals
  <2>2. CASE ~Listed(node[local[i].el])
    <3>1. Yield(node[local[i].el]) \in Int
      BY <1>a, MiniGrepAssumption DEF Yield, Nodes
    <3>2. local' = [local EXCEPT ![i].found = Yield(node[local[i].el])]
      BY <2>2 DEF Stat
    <3>3. QED
      BY <1>t, <3>1, <3>2 DEF Locals
  <2>3. QED
    BY <2>1, <2>2
<1>p. pc' \in [Threads -> Steps]
  BY <1>t, <1>a, <1>f, <1>0, Numbers DEF IInv, StateOK, Steps, HandleSteps, InsertSteps, At, Goto, memory, queue, mainVars, Stat
<1>1. StateOK'
  BY <1>t, <1>a, <1>f, <1>0, <1>p, Numbers DEF IInv, StateOK, Elements, Pointers, NULL, At, Goto, memory, queue, mainVars, Stat
<1>2. Allocated'
  BY <1>t, <1>a, <1>f, <1>0, Numbers DEF IInv, StateOK, Allocated, Elements, NULL, At, Goto, memory, queue, mainVars, Stat
<1>3. InHand'
  <2>1. CASE Listed(node[local[i].el])
    BY <2>1, <1>t, <1>f, <1>0, Numbers
    DEF IInv, StateOK, InHand, HandleSteps, InsertSteps, Reading, At, Goto, Stat, Listed
  <2>2. CASE ~Listed(node[local[i].el])
    <3>1. pc' = [pc EXCEPT ![i] = "return"] /\ node' = node
      BY <2>2 DEF Stat, Goto
    <3>2. \A t \in Threads : pc'[t] = IF t = i THEN "return" ELSE pc[t]
      BY <3>1 DEF IInv, StateOK
    <3>3. local[i].el # NULL
      BY <1>f, Numbers
    <3>4. \A t \in Threads : /\ local'[t].el = local[t].el
                             /\ local'[t].new = local[t].new
      BY <1>0
    <3>5. InHand
      BY DEF IInv
    <3>6. "return" \notin Reading /\ "return" \notin InsertSteps
      BY DEF Reading, InsertSteps
    <3>7. QED
      BY <3>1, <3>2, <3>3, <3>4, <3>5, <3>6 DEF InHand
  <2>3. QED
    BY <2>1, <2>2
<1>4. Roles'
  BY <1>t, <1>a, <1>f, <1>0, Numbers DEF IInv, StateOK, Roles, HandleSteps, InsertSteps, MainSteps, RemoveSteps, At, Goto, memory, queue, mainVars, Stat
<1>5. Leaving'
  BY <1>t, <1>a, <1>f, <1>0, Numbers DEF IInv, StateOK, Roles, Leaving, HandleSteps, InsertSteps, At, Goto, memory, queue, mainVars, Stat
<1>6. QED
  BY <1>1, <1>2, <1>3, <1>4, <1>5 DEF IInv

LEMMA ReadKeeps ==
  ASSUME IInv, NEW i \in Workers, Read(i), UNCHANGED mainVars
  PROVE  IInv'
<1>t. local \in [Threads -> Locals] /\ i \in Threads /\ QueueOf(i) = Main
  BY Numbers DEF IInv, StateOK, Roles, QueueOf
<1>f. local[i].el \in Elements /\ local[i].unread \in Seq(Names)
  BY <1>t, Numbers DEF IInv, Read, At, InHand, HandleSteps, Locals, Pointers
<1>0. /\ local' \in [Threads -> Locals]
      /\ \A t \in Threads : /\ local'[t].el = local[t].el
                            /\ local'[t].new = local[t].new
                            /\ local'[t].reg = local[t].reg
  <2>1. CASE local[i].unread # <<>>
    <3>1. Tail(local[i].unread) \in Seq(Names)
      BY <2>1, <1>f
    <3>2. local' = [local EXCEPT ![i].unread = Tail(local[i].unread)]
      BY <2>1 DEF Read
    <3>3. QED
      BY <1>t, <3>1, <3>2 DEF Locals
  <2>2. CASE local[i].unread = <<>>
    BY <1>t, <2>2 DEF Read
  <2>3. QED
    BY <2>1, <2>2
<1>g. entry' \in Names
  BY <1>f DEF IInv, StateOK, Read
<1>p. pc' \in [Threads -> Steps]
  BY <1>t, <1>f, <1>g, <1>0, Numbers DEF IInv, StateOK, Steps, HandleSteps, InsertSteps, At, Goto, memory, queue, mainVars, Read
<1>1. StateOK'
  BY <1>t, <1>f, <1>g, <1>0, <1>p, Numbers DEF IInv, StateOK, Elements, Pointers, NULL, At, Goto, memory, queue, mainVars, Read
<1>2. Allocated'
  BY <1>t, <1>f, <1>g, <1>0, Numbers DEF IInv, StateOK, Allocated, Elements, NULL, At, Goto, memory, queue, mainVars, Read
<1>3. InHand'
  BY <1>t, <1>f, <1>g, <1>0, Numbers DEF IInv, StateOK, Allocated, InHand, HandleSteps, InsertSteps, Reading, Elements, NULL, At, Goto, memory, queue, mainVars, Read
<1>4. Roles'
  BY <1>t, <1>f, <1>g, <1>0, Numbers DEF IInv, StateOK, Roles, HandleSteps, InsertSteps, MainSteps, RemoveSteps, At, Goto, memory, queue, mainVars, Read
<1>5. Leaving'
  BY <1>t, <1>f, <1>g, <1>0, Numbers DEF IInv, StateOK, Roles, Leaving, HandleSteps, InsertSteps, At, Goto, memory, queue, mainVars, Read
<1>6. QED
  BY <1>1, <1>2, <1>3, <1>4, <1>5 DEF IInv

LEMMA SkipDotKeeps ==
  ASSUME IInv, NEW i \in Workers, SkipDot(i), UNCHANGED mainVars
  PROVE  IInv'
<1>t. local \in [Threads -> Locals] /\ i \in Threads /\ QueueOf(i) = Main
  BY Numbers DEF IInv, StateOK, Roles, QueueOf
<1>p. pc' \in [Threads -> Steps]
  BY <1>t, Numbers DEF IInv, StateOK, Steps, HandleSteps, InsertSteps, At, Goto, memory, queue, mainVars, SkipDot
<1>1. StateOK'
  BY <1>t, <1>p, Numbers DEF IInv, StateOK, Elements, Pointers, NULL, At, Goto, memory, queue, mainVars, SkipDot
<1>2. Allocated'
  BY <1>t, Numbers DEF IInv, StateOK, Allocated, Elements, NULL, At, Goto, memory, queue, mainVars, SkipDot
<1>3. InHand'
  BY <1>t, Numbers DEF IInv, StateOK, Allocated, InHand, HandleSteps, InsertSteps, Reading, Elements, NULL, At, Goto, memory, queue, mainVars, SkipDot
<1>4. Roles'
  BY <1>t, Numbers DEF IInv, StateOK, Roles, HandleSteps, InsertSteps, MainSteps, RemoveSteps, At, Goto, memory, queue, mainVars, SkipDot
<1>5. Leaving'
  BY <1>t, Numbers DEF IInv, StateOK, Roles, Leaving, HandleSteps, InsertSteps, At, Goto, memory, queue, mainVars, SkipDot
<1>6. QED
  BY <1>1, <1>2, <1>3, <1>4, <1>5 DEF IInv

LEMMA SkipDotDotKeeps ==
  ASSUME IInv, NEW i \in Workers, SkipDotDot(i), UNCHANGED mainVars
  PROVE  IInv'
<1>t. local \in [Threads -> Locals] /\ i \in Threads /\ QueueOf(i) = Main
  BY Numbers DEF IInv, StateOK, Roles, QueueOf
<1>p. pc' \in [Threads -> Steps]
  BY <1>t, Numbers DEF IInv, StateOK, Steps, HandleSteps, InsertSteps, At, Goto, memory, queue, mainVars, SkipDotDot
<1>1. StateOK'
  BY <1>t, <1>p, Numbers DEF IInv, StateOK, Elements, Pointers, NULL, At, Goto, memory, queue, mainVars, SkipDotDot
<1>2. Allocated'
  BY <1>t, Numbers DEF IInv, StateOK, Allocated, Elements, NULL, At, Goto, memory, queue, mainVars, SkipDotDot
<1>3. InHand'
  BY <1>t, Numbers DEF IInv, StateOK, Allocated, InHand, HandleSteps, InsertSteps, Reading, Elements, NULL, At, Goto, memory, queue, mainVars, SkipDotDot
<1>4. Roles'
  BY <1>t, Numbers DEF IInv, StateOK, Roles, HandleSteps, InsertSteps, MainSteps, RemoveSteps, At, Goto, memory, queue, mainVars, SkipDotDot
<1>5. Leaving'
  BY <1>t, Numbers DEF IInv, StateOK, Roles, Leaving, HandleSteps, InsertSteps, At, Goto, memory, queue, mainVars, SkipDotDot
<1>6. QED
  BY <1>1, <1>2, <1>3, <1>4, <1>5 DEF IInv

LEMMA NameKeeps ==
  ASSUME IInv, NEW i \in Workers, Name(i), UNCHANGED mainVars
  PROVE  IInv'
<1>t. local \in [Threads -> Locals] /\ i \in Threads /\ QueueOf(i) = Main
  BY Numbers DEF IInv, StateOK, Roles, QueueOf
<1>f. /\ local[i].el \in Elements /\ local[i].el \in 0..used
      /\ node[local[i].el] \in Dirs
  BY <1>t, Numbers DEF IInv, Name, At, InHand, HandleSteps, Reading, Locals, Pointers, Allocated
<1>e. /\ local' = [local EXCEPT ![i].new = used + 1]
      /\ used + 1 \in Elements /\ used \in Nat
  BY Numbers DEF Name, IInv, StateOK, Elements
<1>g. Target[node[local[i].el]][entry] \in Nodes \cup {Nowhere}
  BY <1>f, MiniGrepAssumption DEF IInv, StateOK
<1>0. /\ local' \in [Threads -> Locals]
      /\ \A t \in Threads : /\ local'[t].el = local[t].el
                            /\ local'[t].new = IF t = i THEN used + 1 ELSE local[t].new
                            /\ local'[t].reg = local[t].reg
  BY <1>t, <1>e DEF Locals, Pointers
<1>p. pc' \in [Threads -> Steps]
  BY <1>t, <1>e, <1>f, <1>g, <1>0, Numbers DEF IInv, StateOK, Steps, HandleSteps, InsertSteps, At, Goto, memory, queue, mainVars, Name
<1>1. StateOK'
  BY <1>t, <1>e, <1>f, <1>g, <1>0, <1>p, Numbers DEF IInv, StateOK, Elements, Pointers, NULL, At, Goto, memory, queue, mainVars, Name
<1>2. Allocated'
  <2>1. /\ used' = used + 1 /\ used \in Nat
        /\ next' = next /\ head' = head /\ tail' = tail
    BY <1>e DEF Name, queue
  <2>2. \A p \in 0..used : p \in 0..used'
    BY <2>1
  <2>3. used + 1 \in 0..used'
    BY <2>1
  <2>4. \A t \in Threads : /\ local'[t].el \in 0..used'
                           /\ local'[t].new \in 0..used'
                           /\ local'[t].reg \in 0..used'
    BY <1>0, <2>2, <2>3 DEF IInv, Allocated
  <2>5. QED
    BY <2>1, <2>2, <2>4 DEF IInv, Allocated
<1>3. InHand'
  <2>1. \A t \in Threads : pc'[t] = IF t = i THEN "insert" ELSE pc[t]
    BY <1>t DEF Name, Goto, IInv, StateOK
  <2>2. \A e \in Elements : e \in 0..used => node'[e] = node[e]
    BY <1>e DEF Name, IInv, StateOK
  <2>3. \A t \in Threads : local'[t].el = local[t].el /\ local[t].el \in 0..used
    BY <1>0 DEF IInv, Allocated
  <2>4. \A t \in Threads : pc'[t] \in InsertSteps => local'[t].new # NULL
    BY <2>1, <1>0, <1>e, Numbers DEF IInv, InHand
  <2>5. \A t \in Threads : pc'[t] \in Reading => node'[local'[t].el] \in Dirs
    <3>1. SUFFICES ASSUME NEW t \in Threads, pc'[t] \in Reading
                   PROVE  node[local[t].el] \in Dirs /\ local[t].el \in Elements
      BY <2>2, <2>3
    <3>2. pc[t] \in Reading
      BY <3>1, <2>1, <1>t DEF Name, At, Reading
    <3>3. local[t].el # NULL
      BY <3>2 DEF IInv, InHand, Reading, HandleSteps, InsertSteps
    <3>4. QED
      BY <3>2, <3>3, <1>t DEF IInv, InHand, Locals, Pointers
  <2>6. QED
    BY <2>1, <2>3, <2>4, <2>5, <1>f, Numbers
    DEF IInv, InHand, HandleSteps, InsertSteps
<1>4. Roles'
  BY <1>t, <1>e, <1>f, <1>g, <1>0, Numbers DEF IInv, StateOK, Roles, HandleSteps, InsertSteps, MainSteps, RemoveSteps, At, Goto, memory, queue, mainVars, Name
<1>5. Leaving'
  BY <1>t, <1>e, <1>f, <1>g, <1>0, Numbers DEF IInv, StateOK, Roles, Leaving, HandleSteps, InsertSteps, At, Goto, memory, queue, mainVars, Name
<1>6. QED
  BY <1>1, <1>2, <1>3, <1>4, <1>5 DEF IInv

-----------------------------------------------------------------------------
(* The steps of handle_element_wrapper and of main *)

LEMMA StoreKeeps ==
  ASSUME IInv, NEW i \in Workers, Store(i)
  PROVE  IInv'
<1>t. i \in Threads /\ local[i].found \in Int
  BY Numbers DEF IInv, StateOK, Locals
<1>0. /\ local' \in [Threads -> Locals]
      /\ \A t \in Threads : local'[t] = IF t = i THEN Fresh ELSE local[t]
  <2>1. Fresh \in Locals
    BY Numbers DEF Fresh, Locals
  <2>2. QED
    BY <2>1, <1>t DEF Store, IInv, StateOK
<1>a. /\ args' \in [Workers -> Args]
      /\ \A w \in Workers : /\ args'[w].is_running = args[w].is_running
                           /\ args'[w].queue = args[w].queue
  BY <1>t DEF Store, IInv, StateOK, Args
<1>p. /\ pc' \in [Threads -> Steps]
      /\ \A t \in Threads : pc'[t] = IF t = i THEN "stop" ELSE pc[t]
  BY <1>t DEF Store, Goto, IInv, StateOK, Steps
<1>c. pc[i] = "return"
  BY DEF Store, At
<1>1. StateOK'
  BY <1>0, <1>a, <1>p DEF IInv, StateOK, Store, memory, queue, mainVars
<1>2. Allocated'
  <2>1. used' = used /\ 0 \in 0..used /\ used \in Nat
    BY Numbers DEF Store, memory, IInv, StateOK
  <2>2. \A t \in Threads : /\ local'[t].el \in 0..used
                           /\ local'[t].new \in 0..used
                           /\ local'[t].reg \in 0..used
    BY <1>0, <2>1 DEF IInv, Allocated, Fresh, NULL
  <2>3. QED
    BY <2>1, <2>2 DEF IInv, Allocated, Store, memory, queue
<1>3. InHand'
  BY <1>0, <1>p DEF IInv, InHand, HandleSteps, InsertSteps, Reading, Store, memory
<1>4. Roles'
  BY <1>a, <1>p, <1>c, Numbers
  DEF IInv, Roles, Store, queue, mainVars, HandleSteps, InsertSteps
<1>5. Leaving'
  BY <1>a, <1>p, Numbers DEF IInv, Leaving, Store, queue
<1>6. QED
  BY <1>1, <1>2, <1>3, <1>4, <1>5 DEF IInv

LEMMA StopKeeps ==
  ASSUME IInv, NEW i \in Workers, Stop(i)
  PROVE  IInv'
<1>t. i \in Threads
  BY Numbers
<1>a. /\ args' \in [Workers -> Args]
      /\ \A w \in Workers :
           /\ args'[w].is_running = IF w = i THEN FALSE ELSE args[w].is_running
           /\ args'[w].queue = args[w].queue
  BY <1>t DEF Stop, IInv, StateOK, Args
<1>p. /\ pc' \in [Threads -> Steps]
      /\ \A t \in Threads : pc'[t] = IF t = i THEN "off" ELSE pc[t]
  BY <1>t DEF Stop, Goto, IInv, StateOK, Steps
<1>1. StateOK'
  BY <1>a, <1>p DEF IInv, StateOK, Stop, memory, queue, mainVars
<1>2. Allocated'
  BY DEF IInv, Allocated, Stop, memory, queue
<1>3. InHand'
  BY <1>p DEF IInv, InHand, HandleSteps, InsertSteps, Reading, Stop, memory
<1>4. Roles'
  <2>1. slot \in Workers /\ ~args[slot].is_running => ~args'[slot].is_running
    BY <1>a
  <2>2. QED
    BY <2>1, <1>a, <1>p, Numbers DEF IInv, Roles, Stop, queue, mainVars
<1>5. Leaving'
  BY <1>a, <1>p, Numbers DEF IInv, Leaving, Stop, queue
<1>6. QED
  BY <1>1, <1>2, <1>3, <1>4, <1>5 DEF IInv

LEMMA TestKeeps ==
  ASSUME IInv, Test
  PROVE  IInv'
<1>s. slot' \in 1..(NumThreads + 1)
  BY Numbers DEF Test, IInv, StateOK, Workers, mainVars
<1>p. /\ pc' \in [Threads -> Steps]
      /\ pc'[Main] \in {"scan", "empty"}
      /\ \A i \in Workers : pc'[i] = pc[i]
  BY Numbers DEF Test, At, Goto, IInv, StateOK, Steps, MainSteps, RemoveSteps
<1>1. StateOK'
  BY <1>s, <1>p DEF IInv, StateOK, Test, memory, queue, mainVars
<1>2. Allocated'
  BY DEF IInv, Allocated, Test, memory, queue
<1>3. InHand'
  <2>1. \A t \in Threads : pc'[t] = pc[t] \/ t = Main
    BY <1>p DEF Main, Workers, Threads
  <2>2. QED
    BY <2>1, <1>p DEF IInv, InHand, HandleSteps, InsertSteps, Reading, Test, memory
<1>4. Roles'
  BY <1>p, Numbers DEF IInv, StateOK, Roles, MainSteps, RemoveSteps, Test, At, Goto, queue, mainVars
<1>5. Leaving'
  BY <1>p, Numbers DEF IInv, StateOK, Leaving, Test, At, Goto, queue, Working
<1>6. QED
  BY <1>1, <1>2, <1>3, <1>4, <1>5 DEF IInv

LEMMA EmptyKeeps ==
  ASSUME IInv, Empty
  PROVE  IInv'
<1>s. slot' \in 1..(NumThreads + 1)
  BY Numbers DEF Empty, IInv, StateOK, Workers, mainVars
<1>p. /\ pc' \in [Threads -> Steps]
      /\ pc'[Main] \in {"scan", "sum"}
      /\ \A i \in Workers : pc'[i] = pc[i]
  BY Numbers DEF Empty, At, Goto, IInv, StateOK, Steps, MainSteps, RemoveSteps
<1>1. StateOK'
  BY <1>s, <1>p DEF IInv, StateOK, Empty, memory, queue, mainVars
<1>2. Allocated'
  BY DEF IInv, Allocated, Empty, memory, queue
<1>3. InHand'
  <2>1. \A t \in Threads : pc'[t] = pc[t] \/ t = Main
    BY <1>p DEF Main, Workers, Threads
  <2>2. QED
    BY <2>1, <1>p DEF IInv, InHand, HandleSteps, InsertSteps, Reading, Empty, memory
<1>4. Roles'
  BY <1>p, Numbers DEF IInv, StateOK, Roles, MainSteps, RemoveSteps, Empty, At, Goto, queue, mainVars
<1>5. Leaving'
  BY <1>p, Numbers DEF IInv, StateOK, Leaving, Empty, At, Goto, queue
<1>6. QED
  BY <1>1, <1>2, <1>3, <1>4, <1>5 DEF IInv

LEMMA ScanKeeps ==
  ASSUME IInv, Scan
  PROVE  IInv'
<1>s. slot' \in 1..(NumThreads + 1)
  BY Numbers DEF Scan, IInv, StateOK, Workers, mainVars
<1>p. /\ pc' \in [Threads -> Steps]
      /\ pc'[Main] \in {"test", "scan", "collect"}
      /\ \A i \in Workers : pc'[i] = pc[i]
  BY Numbers DEF Scan, At, Goto, IInv, StateOK, Steps, MainSteps, RemoveSteps
<1>1. StateOK'
  BY <1>s, <1>p DEF IInv, StateOK, Scan, memory, queue, mainVars
<1>2. Allocated'
  BY DEF IInv, Allocated, Scan, memory, queue
<1>3. InHand'
  <2>1. \A t \in Threads : pc'[t] = pc[t] \/ t = Main
    BY <1>p DEF Main, Workers, Threads
  <2>2. QED
    BY <2>1, <1>p DEF IInv, InHand, HandleSteps, InsertSteps, Reading, Scan, memory
<1>4. Roles'
  BY <1>p, Numbers DEF IInv, StateOK, Roles, MainSteps, RemoveSteps, Scan, At, Goto, queue, mainVars
<1>5. Leaving'
  BY <1>p, Numbers DEF IInv, StateOK, Leaving, Scan, At, Goto, queue
<1>6. QED
  BY <1>1, <1>2, <1>3, <1>4, <1>5 DEF IInv

LEMMA LookKeeps ==
  ASSUME IInv, Look
  PROVE  IInv'
<1>s. slot' \in 1..(NumThreads + 1)
  BY Numbers DEF Look, IInv, StateOK, Workers, mainVars
<1>p. /\ pc' \in [Threads -> Steps]
      /\ pc'[Main] \in {"test", "take"}
      /\ \A i \in Workers : pc'[i] = pc[i]
  BY Numbers DEF Look, At, Goto, IInv, StateOK, Steps, MainSteps, RemoveSteps
<1>1. StateOK'
  BY <1>s, <1>p DEF IInv, StateOK, Look, memory, queue, mainVars
<1>2. Allocated'
  BY DEF IInv, Allocated, Look, memory, queue
<1>3. InHand'
  <2>1. \A t \in Threads : pc'[t] = pc[t] \/ t = Main
    BY <1>p DEF Main, Workers, Threads
  <2>2. QED
    BY <2>1, <1>p DEF IInv, InHand, HandleSteps, InsertSteps, Reading, Look, memory
<1>4. Roles'
  BY <1>p, Numbers DEF IInv, StateOK, Roles, MainSteps, RemoveSteps, Look, At, Goto, queue, mainVars
<1>5. Leaving'
  BY <1>p, Numbers DEF IInv, StateOK, Leaving, Look, At, Goto, queue
<1>6. QED
  BY <1>1, <1>2, <1>3, <1>4, <1>5 DEF IInv

LEMMA SumKeeps ==
  ASSUME IInv, Sum
  PROVE  IInv'
<1>s. slot' \in 1..(NumThreads + 1)
  BY Numbers DEF Sum, IInv, StateOK, Workers, mainVars
<1>n. num' \in Int
  BY DEF Sum, IInv, StateOK, Args, mainVars
<1>p. /\ pc' \in [Threads -> Steps]
      /\ pc'[Main] \in {"sum", "done"}
      /\ \A i \in Workers : pc'[i] = pc[i]
  BY Numbers DEF Sum, At, Goto, IInv, StateOK, Steps, MainSteps
<1>1. StateOK'
  BY <1>s, <1>n, <1>p DEF IInv, StateOK, Sum, memory, queue
<1>2. Allocated'
  BY DEF IInv, Allocated, Sum, memory, queue
<1>3. InHand'
  <2>1. \A t \in Threads : pc'[t] = pc[t] \/ t = Main
    BY <1>p DEF Main, Workers, Threads
  <2>2. QED
    BY <2>1, <1>p DEF IInv, InHand, HandleSteps, InsertSteps, Reading, Sum, memory
<1>4. Roles'
  BY <1>p, Numbers DEF IInv, Roles, MainSteps, RemoveSteps, Sum, queue
<1>5. Leaving'
  BY <1>p, Numbers DEF IInv, Leaving, Sum, At, queue
<1>6. QED
  BY <1>1, <1>2, <1>3, <1>4, <1>5 DEF IInv

LEMMA CollectKeeps ==
  ASSUME IInv, Collect
  PROVE  IInv'
<1>s. slot \in Workers /\ slot' = slot
  BY DEF Collect, At, IInv, Roles
<1>n. num' \in Int
  BY <1>s DEF Collect, IInv, StateOK, Args
<1>a. /\ args' \in [Workers -> Args]
      /\ \A w \in Workers : /\ args'[w].is_running = args[w].is_running
                           /\ args'[w].queue = args[w].queue
  BY <1>s DEF Collect, IInv, StateOK, Args
<1>p. /\ pc' \in [Threads -> Steps]
      /\ pc'[Main] = "look"
      /\ \A i \in Workers : pc'[i] = pc[i]
  BY Numbers DEF Collect, Goto, IInv, StateOK, Steps, MainSteps
<1>1. StateOK'
  BY <1>s, <1>n, <1>a, <1>p DEF IInv, StateOK, Collect, memory, queue
<1>2. Allocated'
  BY DEF IInv, Allocated, Collect, memory, queue
<1>3. InHand'
  <2>1. \A t \in Threads : pc'[t] = pc[t] \/ t = Main
    BY <1>p DEF Main, Workers, Threads
  <2>2. QED
    BY <2>1, <1>p DEF IInv, InHand, HandleSteps, InsertSteps, Reading, Collect, memory
<1>4. Roles'
  BY <1>s, <1>a, <1>p, Numbers
  DEF IInv, Roles, MainSteps, RemoveSteps, Collect, At, queue
<1>5. Leaving'
  BY <1>p DEF Leaving
<1>6. QED
  BY <1>1, <1>2, <1>3, <1>4, <1>5 DEF IInv

LEMMA TakeKeeps ==
  ASSUME IInv, Take(Main), UNCHANGED mainVars
  PROVE  IInv'
<1>h. QueueOf(Main) = Main /\ Main \in Threads /\ local \in [Threads -> Locals]
  BY Numbers DEF QueueOf, IInv, StateOK
<1>c. slot \in Workers /\ ~args[slot].is_running
  BY DEF Take, At, IInv, Roles, RemoveSteps
<1>f. head[Main] \in Elements
  BY Numbers DEF Take, At, IInv, StateOK, Roles, Pointers
<1>0. /\ local' \in [Threads -> Locals]
      /\ \A t \in Threads : /\ local'[t].el = IF t = Main THEN head[Main] ELSE local[t].el
                           /\ local'[t].new = local[t].new
                           /\ local'[t].reg = local[t].reg
  <2>1. local' = [local EXCEPT ![Main].el = head[Main]]
    BY <1>h DEF Take
  <2>2. head[Main] \in Pointers
    BY <1>f, Numbers
  <2>3. QED
    BY <2>1, <2>2, <1>h DEF Locals
<1>p. /\ pc' \in [Threads -> Steps]
      /\ pc'[Main] = "follow"
      /\ \A i \in Workers : pc'[i] = pc[i]
  BY Numbers DEF Take, Goto, IInv, StateOK, Steps, MainSteps, RemoveSteps
<1>1. StateOK'
  BY <1>0, <1>p, <1>f, <1>h, Numbers DEF IInv, StateOK, Take, memory, queue, mainVars
<1>2. Allocated'
  <2>1. head[Main] \in 0..used /\ used' = used
    BY <1>h, <1>f, Numbers DEF IInv, Allocated, StateOK, NULL, Take, memory
  <2>2. \A t \in Threads : /\ local'[t].el \in 0..used
                           /\ local'[t].new \in 0..used
                           /\ local'[t].reg \in 0..used
    BY <1>0, <2>1 DEF IInv, Allocated
  <2>3. QED
    BY <2>1, <2>2 DEF IInv, Allocated, Take, memory, queue
<1>3. InHand'
  <2>1. \A t \in Threads : pc'[t] = pc[t] \/ t = Main
    BY <1>p DEF Main, Workers, Threads
  <2>2. local'[Main].el # NULL
    BY <1>0, <1>h, <1>f, Numbers DEF IInv, InHand, Take, At
  <2>3. QED
    BY <2>1, <2>2, <1>0, <1>p, Numbers
    DEF IInv, InHand, HandleSteps, InsertSteps, Reading, Take, memory
<1>4. Roles'
  BY <1>c, <1>p, Numbers
  DEF IInv, Roles, MainSteps, RemoveSteps, Take, At, mainVars, queue
<1>5. Leaving'
  BY <1>p DEF Leaving
<1>6. QED
  BY <1>1, <1>2, <1>3, <1>4, <1>5 DEF IInv

LEMMA FollowKeeps ==
  ASSUME IInv, Follow(Main), UNCHANGED mainVars
  PROVE  IInv'
<1>h. QueueOf(Main) = Main /\ Main \in Threads /\ local \in [Threads -> Locals]
  BY Numbers DEF QueueOf, IInv, StateOK
<1>c. slot \in Workers /\ ~args[slot].is_running
  BY DEF Follow, At, IInv, Roles, RemoveSteps
<1>f. head[Main] \in Elements /\ next[head[Main]] \in Pointers
  BY Numbers DEF Follow, At, IInv, StateOK, Roles, Pointers
<1>0. /\ local' \in [Threads -> Locals]
      /\ \A t \in Threads : /\ local'[t].el = local[t].el
                           /\ local'[t].new = local[t].new
                           /\ local'[t].reg = IF t = Main THEN next[head[Main]] ELSE local[t].reg
  <2>1. local' = [local EXCEPT ![Main].reg = next[head[Main]]]
    BY <1>h DEF Follow
  <2>2. next[head[Main]] \in Pointers
    BY <1>f, Numbers
  <2>3. QED
    BY <2>1, <2>2, <1>h DEF Locals
<1>p. /\ pc' \in [Threads -> Steps]
      /\ pc'[Main] = "advance"
      /\ \A i \in Workers : pc'[i] = pc[i]
  BY Numbers DEF Follow, Goto, IInv, StateOK, Steps, MainSteps, RemoveSteps
<1>1. StateOK'
  BY <1>0, <1>p, <1>f, <1>h, Numbers DEF IInv, StateOK, Follow, memory, queue, mainVars
<1>2. Allocated'
  <2>1. next[head[Main]] \in 0..used /\ used' = used
    BY <1>h, <1>f, Numbers DEF IInv, Allocated, StateOK, NULL, Follow, memory
  <2>2. \A t \in Threads : /\ local'[t].el \in 0..used
                           /\ local'[t].new \in 0..used
                           /\ local'[t].reg \in 0..used
    BY <1>0, <2>1 DEF IInv, Allocated
  <2>3. QED
    BY <2>1, <2>2 DEF IInv, Allocated, Follow, memory, queue
<1>3. InHand'
  <2>1. \A t \in Threads : pc'[t] = pc[t] \/ t = Main
    BY <1>p DEF Main, Workers, Threads
  <2>2. local'[Main].el # NULL
    BY <1>0, <1>h, <1>f, Numbers DEF IInv, InHand, Follow, At
  <2>3. QED
    BY <2>1, <2>2, <1>0, <1>p, Numbers
    DEF IInv, InHand, HandleSteps, InsertSteps, Reading, Follow, memory
<1>4. Roles'
  BY <1>c, <1>p, Numbers
  DEF IInv, Roles, MainSteps, RemoveSteps, Follow, At, mainVars, queue
<1>5. Leaving'
  BY <1>p DEF Leaving
<1>6. QED
  BY <1>1, <1>2, <1>3, <1>4, <1>5 DEF IInv

LEMMA AdvanceKeeps ==
  ASSUME IInv, Advance(Main, "spawn"), UNCHANGED mainVars
  PROVE  IInv'
<1>h. QueueOf(Main) = Main /\ Main \in Threads /\ local \in [Threads -> Locals]
  BY Numbers DEF QueueOf, IInv, StateOK
<1>c. slot \in Workers /\ ~args[slot].is_running
  BY DEF Advance, At, IInv, Roles, RemoveSteps
<1>f. local[Main].reg \in Pointers
  BY <1>h DEF Locals
<1>0. /\ local' \in [Threads -> Locals]
      /\ \A t \in Threads : /\ local'[t].el = local[t].el
                           /\ local'[t].new = local[t].new
                           /\ local'[t].reg = IF t = Main THEN NULL ELSE local[t].reg
  <2>1. local' = [local EXCEPT ![Main].reg = NULL]
    BY <1>h DEF Advance
  <2>2. NULL \in Pointers
    BY <1>f, Numbers
  <2>3. QED
    BY <2>1, <2>2, <1>h DEF Locals
<1>p. /\ pc' \in [Threads -> Steps]
      /\ pc'[Main] = "spawn"
      /\ \A i \in Workers : pc'[i] = pc[i]
  BY Numbers DEF Advance, Goto, IInv, StateOK, Steps, MainSteps, RemoveSteps
<1>1. StateOK'
  BY <1>0, <1>p, <1>f, <1>h, Numbers DEF IInv, StateOK, Advance, memory, queue, mainVars
<1>2. Allocated'
  <2>1. NULL \in 0..used /\ used' = used
    BY <1>h, <1>f, Numbers DEF IInv, Allocated, StateOK, NULL, Advance, memory
  <2>2. \A t \in Threads : /\ local'[t].el \in 0..used
                           /\ local'[t].new \in 0..used
                           /\ local'[t].reg \in 0..used
    BY <1>0, <2>1 DEF IInv, Allocated
  <2>3. head' = [head EXCEPT ![Main] = local[Main].reg] /\ local[Main].reg \in 0..used
    BY <1>h, Numbers DEF Advance, IInv, Allocated
  <2>4. \A q \in Queues : head'[q] \in 0..used
    BY <2>3 DEF IInv, StateOK, Allocated
  <2>5. QED
    BY <2>1, <2>2, <2>4 DEF IInv, Allocated, Advance, memory
<1>3. InHand'
  <2>1. \A t \in Threads : pc'[t] = pc[t] \/ t = Main
    BY <1>p DEF Main, Workers, Threads
  <2>2. local'[Main].el # NULL
    BY <1>0, <1>h, <1>f, Numbers DEF IInv, InHand, Advance, At
  <2>3. QED
    BY <2>1, <2>2, <1>0, <1>p, Numbers
    DEF IInv, InHand, HandleSteps, InsertSteps, Reading, Advance, memory
<1>4. Roles'
  BY <1>c, <1>p, Numbers
  DEF IInv, Roles, MainSteps, RemoveSteps, Advance, At, mainVars, queue
<1>5. Leaving'
  BY <1>p DEF Leaving
<1>6. QED
  BY <1>1, <1>2, <1>3, <1>4, <1>5 DEF IInv

LEMMA SpawnKeeps ==
  ASSUME IInv, Spawn
  PROVE  IInv'
<1>c. slot \in Workers /\ slot \in Threads /\ slot # Main /\ slot' = slot
  BY Numbers DEF Spawn, At, IInv, Roles, mainVars
<1>e. /\ local[Main].el \in Pointers /\ local[Main].el # NULL
      /\ local \in [Threads -> Locals]
  BY Numbers DEF Spawn, At, IInv, InHand, StateOK, Locals
<1>0. /\ local' \in [Threads -> Locals]
      /\ local'[slot].el = local[Main].el
      /\ local'[slot].new = NULL /\ local'[slot].reg = NULL
      /\ local'[Main].el = NULL /\ local'[Main].new = local[Main].new
      /\ local'[Main].reg = local[Main].reg
      /\ \A t \in Threads : t # slot /\ t # Main => local'[t] = local[t]
  <2> DEFINE fresh == [Fresh EXCEPT !.el = local[Main].el]
  <2>1. fresh \in Locals /\ fresh.el = local[Main].el
        /\ fresh.new = NULL /\ fresh.reg = NULL
    <3>1. fresh = [el |-> local[Main].el, unread |-> <<>>, new |-> NULL,
                   reg |-> NULL, found |-> 0]
      BY DEF Fresh
    <3>2. <<>> \in Seq(Names) /\ 0 \in Int
      OBVIOUS
    <3>3. QED
      BY <1>e, <3>1, <3>2, Numbers DEF Locals
  <2>2. local' = [local EXCEPT ![slot] = fresh, ![Main].el = NULL]
    BY DEF Spawn
  <2>3. QED
    <3> HIDE DEF fresh
    <3>1. QED
      BY <2>1, <2>2, <1>c, <1>e, Numbers DEF Locals
<1>a. /\ args' \in [Workers -> Args]
      /\ \A w \in Workers :
           /\ args'[w].is_running = IF w = slot THEN TRUE ELSE args[w].is_running
           /\ args'[w].queue = args[w].queue
  BY <1>c DEF Spawn, IInv, StateOK, Args
<1>p. /\ pc' \in [Threads -> Steps]
      /\ pc'[Main] = "test" /\ pc'[slot] = "stat"
      /\ \A t \in Threads : t # slot /\ t # Main => pc'[t] = pc[t]
  BY <1>c, Numbers DEF Spawn, IInv, StateOK, Steps, MainSteps, HandleSteps
<1>1. StateOK'
  BY <1>0, <1>a, <1>p DEF IInv, StateOK, Spawn, memory, queue, mainVars
<1>2. Allocated'
  <2>1. 0 \in 0..used /\ used' = used
    BY Numbers DEF Spawn, memory, IInv, StateOK
  <2>2. \A t \in Threads : /\ local'[t].el \in 0..used
                           /\ local'[t].new \in 0..used
                           /\ local'[t].reg \in 0..used
    BY <1>0, <2>1, Numbers DEF IInv, Allocated, NULL
  <2>3. QED
    BY <2>1, <2>2 DEF IInv, Allocated, Spawn, memory, queue
<1>3. InHand'
  BY <1>0, <1>e, <1>p, Numbers
  DEF IInv, InHand, HandleSteps, InsertSteps, Reading, Spawn, memory
<1>4. Roles'
  <2>1. \A i \in Workers : pc'[i] = IF i = slot THEN "stat" ELSE pc[i]
    BY <1>p, Numbers
  <2>2. QED
    BY <2>1, <1>a, <1>c, <1>p, Numbers
    DEF IInv, Roles, MainSteps, RemoveSteps, HandleSteps
<1>5. Leaving'
  BY <1>p DEF Leaving
<1>6. QED
  BY <1>1, <1>2, <1>3, <1>4, <1>5 DEF IInv

-----------------------------------------------------------------------------

LEMMA NextKeeps == IInv /\ [Next]_vars => IInv'
<1>1. ASSUME IInv, UNCHANGED vars
      PROVE  IInv'
  BY <1>1 DEF IInv, StateOK, Allocated, InHand, Roles, Leaving, vars, grepVars,
              memory, queue, mainVars
<1>2. ASSUME IInv, NEW i \in Workers, HandleStep(i), UNCHANGED mainVars
      PROVE  IInv'
  BY <1>2, StatKeeps, ReadKeeps, SkipDotKeeps, SkipDotDotKeeps, NameKeeps,
     InsertKeeps, SetHeadKeeps, GetTailKeeps, LinkKeeps, GetNextKeeps, SetTailKeeps
  DEF HandleStep
<1>3. ASSUME IInv, NEW i \in Workers, WorkerStep(i)
      PROVE  IInv'
  BY <1>2, <1>3, StoreKeeps, StopKeeps DEF WorkerStep
<1>4. ASSUME IInv, MainStep
      PROVE  IInv'
  BY <1>4, TestKeeps, EmptyKeeps, ScanKeeps, CollectKeeps, LookKeeps, TakeKeeps,
     FollowKeeps, AdvanceKeeps, SpawnKeeps, SumKeeps
  DEF MainStep
<1>5. QED
  BY <1>1, <1>3, <1>4 DEF Next

LEMMA Invariant == Spec => []IInv
<1>1. IInv /\ [Next]_vars => IInv'
  BY NextKeeps
<1>2. QED
  BY InitIInv, <1>1, PTL DEF Spec

\* Every variable keeps its type, for every tree and number of threads: main's
\* search for a slot stays within thread_args, the pointers of the queue stay
\* within what is allocated, and what a thread lists has a listing.
THEOREM GrepTypeCorrect == Spec => []TypeOK
<1>1. Init => overlap \in BOOLEAN
  BY DEF Init
<1>2. overlap \in BOOLEAN /\ [Next]_vars => (overlap \in BOOLEAN)'
  BY DEF Next, Watch, vars
<1>3. IInv /\ overlap \in BOOLEAN => TypeOK
  BY DEF IInv, TypeOK
<1>4. QED
  BY <1>1, <1>2, <1>3, Invariant, PTL DEF Spec

\* Main leaves the loop of parallelSearchDynamic only when its queue is empty
\* and no thread has work in hand, however the threads race.
THEOREM MainLeavesNoWork == Spec => []LeavesNoWork
<1>1. IInv => LeavesNoWork
  BY Numbers DEF IInv, Roles, Leaving, LeavesNoWork
<1>2. QED
  BY <1>1, Invariant, PTL

-----------------------------------------------------------------------------
(* Chains of elements.  nx stands for the next pointers.                   *)

\* What leads to nothing outside of it.
Closed(nx, S) == \A e \in S : nx[e] # NULL => nx[e] \in S

\* The elements that every closed set with p in it has: those a walk from p meets.
Reach(nx, p) ==
  {e \in Elements : \A S \in SUBSET Elements :
                      p \in S \cup {NULL} /\ Closed(nx, S) => e \in S}

\* The least closed set lies within every other.
LEMMA ReachWithin ==
  ASSUME NEW nx, NEW p, NEW S \in SUBSET Elements, p \in S \cup {NULL}, Closed(nx, S)
  PROVE  Reach(nx, p) \subseteq S
BY DEF Reach

\* It is one of them.
LEMMA ReachHas ==
  ASSUME NEW nx \in [Elements -> Pointers], NEW p \in Pointers
  PROVE  /\ Reach(nx, p) \subseteq Elements
         /\ p # NULL => p \in Reach(nx, p)
         /\ Closed(nx, Reach(nx, p))
         /\ Reach(nx, NULL) = {}
<1>1. Reach(nx, p) \subseteq Elements
  BY DEF Reach
<1>2. p # NULL => p \in Reach(nx, p)
  BY DEF Reach, Pointers
<1>3. ASSUME NEW e \in Reach(nx, p), nx[e] # NULL
      PROVE  nx[e] \in Reach(nx, p)
  <2>1. e \in Elements /\ nx[e] \in Elements
    BY <1>3 DEF Reach, Pointers
  <2>2. ASSUME NEW S \in SUBSET Elements, p \in S \cup {NULL}, Closed(nx, S)
        PROVE  nx[e] \in S
    BY <1>3, <2>2 DEF Reach, Closed
  <2>3. QED
    BY <2>1, <2>2 DEF Reach
<1>4. Reach(nx, NULL) \subseteq {}
  <2>1. Closed(nx, {})
    BY DEF Closed
  <2>2. QED
    BY <2>1, ReachWithin
<1>5. QED
  BY <1>1, <1>2, <1>3, <1>4 DEF Closed

\* What follows an element is reached from it.
LEMMA ReachNext ==
  ASSUME NEW nx \in [Elements -> Pointers], NEW p \in Elements
  PROVE  Reach(nx, nx[p]) \subseteq Reach(nx, p)
<1>1. p \in Pointers /\ p # NULL
  BY Numbers
<1>2. /\ Reach(nx, p) \in SUBSET Elements
      /\ p \in Reach(nx, p)
      /\ Closed(nx, Reach(nx, p))
  BY <1>1, ReachHas
<1>3. nx[p] \in Reach(nx, p) \cup {NULL}
  BY <1>2 DEF Closed
<1>4. QED
  BY <1>2, <1>3, ReachWithin

\* An element that nothing follows is alone on its chain.
LEMMA ReachLast ==
  ASSUME NEW nx \in [Elements -> Pointers], NEW p \in Elements, nx[p] = NULL
  PROVE  Reach(nx, p) \subseteq {p}
<1>1. Closed(nx, {p})
  BY DEF Closed
<1>2. QED
  BY <1>1, ReachWithin

\* Linking an element that nothing follows adds it to the chains, and nothing else.
LEMMA ReachLinked ==
  ASSUME NEW nx \in [Elements -> Pointers], NEW l \in Elements, NEW n \in Elements,
         l # n, nx[n] = NULL, NEW p \in Pointers
  PROVE  Reach([nx EXCEPT ![l] = n], p) \subseteq Reach(nx, p) \cup {n}
<1> DEFINE S == Reach(nx, p) \cup {n}
<1>1. /\ Reach(nx, p) \subseteq Elements
      /\ p # NULL => p \in Reach(nx, p)
      /\ Closed(nx, Reach(nx, p))
  BY ReachHas
<1>2. S \in SUBSET Elements /\ p \in S \cup {NULL}
  BY <1>1
<1>3. Closed([nx EXCEPT ![l] = n], S)
  BY <1>1 DEF Closed
<1>4. QED
  BY <1>2, <1>3, ReachWithin

\* R is the walk that defines Chain, n steps long.
Walked(R, p, n) ==
  R = [k \in 0..n |->
         IF k = 0 THEN {p} \ {NULL}
         ELSE R[k-1] \cup ({next[e] : e \in R[k-1]} \ {NULL})]

\* What holds of some number holds of a least one: induction on the length of a
\* walk and on the size of a set rests on it.
LEMMA LeastOf ==
  ASSUME NEW B \in SUBSET Nat, B # {}
  PROVE  \E m \in B : \A k \in B : ~(k < m)
<1>1. PICK m \in B : \A k \in B : ~(<<k, m>> \in OpToRel(<, Nat))
  BY NatLessThanWellFounded, WFMin
<1>2. \A k \in B : k < m => <<k, m>> \in OpToRel(<, Nat)
  BY DEF OpToRel
<1>3. QED
  BY <1>1, <1>2

\* There is such a walk, so Chain is the last of its sets.
LEMMA WalkedExists ==
  ASSUME NEW p, NEW n \in Nat
  PROVE  \E R : Walked(R, p, n)
<1> DEFINE B == {k \in Nat : ~ \E R : Walked(R, p, k)}
           More(T) == T \cup ({next[e] : e \in T} \ {NULL})
<1>1. SUFFICES ASSUME B # {} PROVE FALSE
  OBVIOUS
<1>2. PICK m \in B : \A k \in B : ~(k < m)
  BY <1>1, LeastOf
<1>3. CASE m = 0
  <2> DEFINE R == [k \in 0..0 |-> {p} \ {NULL}]
  <2>1. R = [k \in 0..0 |-> IF k = 0 THEN {p} \ {NULL} ELSE More(R[k-1])]
    OBVIOUS
  <2>2. Walked(R, p, 0)
    BY <2>1 DEF Walked
  <2>3. QED
    BY <2>2, <1>3
<1>4. CASE m # 0
  <2>1. m - 1 \in Nat /\ m - 1 < m /\ m \in Nat
    BY <1>4
  <2>2. PICK Q : Walked(Q, p, m - 1)
    BY <2>1, <1>2
  <2> DEFINE R == [k \in 0..m |-> IF k = m THEN More(Q[m-1]) ELSE Q[k]]
  <2>q. Q = [k \in 0..m-1 |-> IF k = 0 THEN {p} \ {NULL} ELSE More(Q[k-1])]
    BY <2>2 DEF Walked
  <2>3. ASSUME NEW k \in 0..m
        PROVE  R[k] = IF k = 0 THEN {p} \ {NULL} ELSE More(R[k-1])
    <3> HIDE DEF More
    <3>1. CASE k = m
      <4>1. m - 1 \in 0..m /\ m - 1 # m /\ m \in 0..m
        BY <2>1
      <4>2. R[m-1] = Q[m-1] /\ R[m] = More(Q[m-1])
        BY <4>1
      <4>3. QED
        BY <3>1, <4>2, <1>4
    <3>2. CASE k = 0
      <4>1. 0 \in 0..m-1 /\ 0 # m
        BY <2>1
      <4>2. Q[0] = {p} \ {NULL}
        BY <2>q, <4>1
      <4>3. QED
        BY <3>2, <4>1, <4>2
    <3>3. CASE k # m /\ k # 0
      <4>1. k \in 0..m-1 /\ k-1 \in 0..m /\ k-1 # m
        BY <3>3, <2>1
      <4>2. Q[k] = More(Q[k-1])
        BY <2>q, <4>1, <3>3
      <4>3. R[k] = Q[k] /\ R[k-1] = Q[k-1]
        BY <4>1, <3>3
      <4>4. QED
        BY <4>2, <4>3, <3>3
    <3>4. QED
      BY <3>1, <3>2, <3>3
  <2>4. R = [k \in 0..m |-> IF k = 0 THEN {p} \ {NULL} ELSE More(R[k-1])]
    <3> DEFINE G == [k \in 0..m |-> IF k = 0 THEN {p} \ {NULL} ELSE More(R[k-1])]
    <3>1. \A k \in 0..m : R[k] = G[k]
      BY <2>3
    <3>2. DOMAIN R = 0..m /\ DOMAIN G = 0..m /\ R = [k \in 0..m |-> R[k]]
      OBVIOUS
    <3>3. QED
      BY <3>1, <3>2
  <2>5. Walked(R, p, m)
    BY <2>4 DEF Walked
  <2>6. QED
    BY <2>5
<1>5. QED
  BY <1>3, <1>4

\* Chain, which takes MaxElements steps, finds nothing that Reach does not.
LEMMA ChainReach ==
  ASSUME next \in [Elements -> Pointers], NEW p \in Pointers
  PROVE  Chain(p) \subseteq Reach(next, p)
<1>1. SUFFICES ASSUME NEW S \in SUBSET Elements, p \in S \cup {NULL}, Closed(next, S)
               PROVE  Chain(p) \subseteq S
  <2>1. Closed(next, {}) /\ Closed(next, Elements) /\ p \in Elements \cup {NULL}
    BY DEF Closed, Pointers
  <2>2. QED
    BY <1>1, <2>1 DEF Reach
<1> DEFINE R == CHOOSE R : Walked(R, p, MaxElements)
<1>2. Chain(p) = R[MaxElements]
  BY DEF Chain, Walked
<1>3. Walked(R, p, MaxElements)
  BY Numbers, WalkedExists
<1>4. R = [k \in 0..MaxElements |->
         IF k = 0 THEN {p} \ {NULL}
         ELSE R[k-1] \cup ({next[e] : e \in R[k-1]} \ {NULL})]
  BY <1>3 DEF Walked
<1> HIDE DEF R
<1> DEFINE B == {k \in 0..MaxElements : ~(R[k] \subseteq S)}
<1>5. ASSUME B # {} PROVE FALSE
  <2>0. B \in SUBSET Nat
    BY Numbers
  <2>1. PICK m \in B : \A k \in B : ~(k < m)
    BY <1>5, <2>0, LeastOf
  <2>2. m # 0
    BY <1>1, <1>4, <2>1, Numbers
  <2>3. m - 1 \in 0..MaxElements /\ m - 1 < m /\ m \in 0..MaxElements
    BY <2>1, <2>2, Numbers
  <2>4. R[m-1] \subseteq S
    BY <2>1, <2>3
  <2>5. R[m] = R[m-1] \cup ({next[e] : e \in R[m-1]} \ {NULL})
    BY <1>4, <2>2, <2>3
  <2>6. R[m] \subseteq S
    BY <2>4, <2>5, <1>1 DEF Closed
  <2>7. QED
    BY <2>1, <2>6
<1>6. MaxElements \in 0..MaxElements
  BY Numbers
<1>7. QED
  BY <1>2, <1>5, <1>6

-----------------------------------------------------------------------------
(* The queue as a chain that main alone shortens.                          *)

Linking == {"insert", "set head", "get tail", "link"}

\* An element that nothing leads to yet but its maker.
Loose(e) == e > used \/ \E i \in Workers : pc[i] \in Linking /\ local[i].new = e

\* The threads inside handle_element.
Handling == {i \in Workers : pc[i] \in HandleSteps \cup InsertSteps}

\* What main can still hand out: what head leads to, and what it will lead to
\* when main, about to advance it, has done so.
Ahead ==
  Reach(next, head[Main])
  \cup (IF pc[Main] = "advance" THEN Reach(next, local[Main].reg) ELSE {})

\* What main can hand out after the element it is removing.
Behind ==
  IF pc[Main] = "follow" THEN Reach(next, next[head[Main]])
  ELSE IF pc[Main] = "advance" THEN Reach(next, local[Main].reg)
  ELSE Reach(next, head[Main])

\* Main has taken an element and not yet given it to a thread.
Removing == pc[Main] \in {"follow", "advance", "spawn"}

\* An element is made by one thread, and nothing leads to it before it is linked.
LooseEnds ==
  /\ \A e \in Elements : Loose(e) =>
       /\ next[e] = NULL /\ head[Main] # e /\ tail[Main] # e /\ e \notin freed
       /\ \A d \in Elements : next[d] # e
       /\ \A t \in Threads : local[t].el # e /\ local[t].reg # e
  /\ \A i, j \in Workers : i # j /\ pc[i] \in Linking /\ pc[j] \in Linking
                             => local[i].new # local[j].new

\* No chain comes back to an element.
NoCycle == \A e \in Elements : e \notin Reach(next, next[e])

\* Nothing that main can still hand out is freed or in a hand, and no element is
\* in two hands.
HandsApart ==
  /\ Ahead \cap freed = {}
  /\ \A i \in Handling :
       /\ local[i].el \notin Ahead
       /\ pc[i] # "return" => local[i].el \notin freed
       /\ \A j \in Handling : i # j => local[i].el # local[j].el
  /\ Removing => /\ local[Main].el \notin freed \cup Behind
                 /\ \A i \in Handling : local[i].el # local[Main].el

\* The queues of the threads are those of the static search.
OneQueue == \A q \in Queues \ {Main} : head[q] = NULL

ChainInv == LooseEnds /\ NoCycle /\ HandsApart /\ OneQueue

\* What a step of thread i may do to the chain.
LEMMA WorkerChain ==
  ASSUME IInv, ChainInv, NEW i \in Workers,
         \A t \in Threads : t # i => pc'[t] = pc[t] /\ local'[t] = local[t],
         i \in Handling' => /\ i \in Handling /\ pc[i] # "return"
                            /\ local'[i].el = local[i].el,
         \/ freed' = freed
         \/ /\ freed' = freed \cup {local[i].el}
            /\ i \in Handling /\ pc'[i] = "return",
         \A e \in Elements : Loose(e)' =>
           /\ Loose(e)
           /\ next'[e] = NULL /\ head'[Main] # e /\ tail'[Main] # e
           /\ \A d \in Elements : next'[d] # e
           /\ local'[i].el # e /\ local'[i].reg # e,
         pc'[i] \in Linking =>
           \A j \in Workers \ {i} : pc[j] \in Linking => local[j].new # local'[i].new,
         \A e \in Ahead' : e \in Ahead \/ (e \in Elements /\ Loose(e)),
         Removing => \A e \in Behind' : e \in Behind \/ (e \in Elements /\ Loose(e)),
         NoCycle', OneQueue'
  PROVE  ChainInv'
<1>1. Main # i /\ Main \in Threads /\ Workers \subseteq Threads
  BY Numbers
<1>2. /\ \A t \in Threads : t # i => pc'[t] = pc[t] /\ local'[t] = local[t]
      /\ pc'[Main] = pc[Main] /\ local'[Main] = local[Main]
      /\ Removing' = Removing
  BY <1>1 DEF Removing
<1>3. \A j \in Workers : j # i => (j \in Handling' <=> j \in Handling)
  BY <1>1, <1>2 DEF Handling
<1>4. LooseEnds'
  <2>1. ASSUME NEW e \in Elements, Loose(e)'
        PROVE  /\ e \notin freed'
               /\ \A t \in Threads : local'[t].el # e /\ local'[t].reg # e
    BY <2>1, <1>1, <1>2 DEF ChainInv, LooseEnds
  <2>2. ASSUME NEW k \in Workers, NEW j \in Workers, k # j,
               pc'[k] \in Linking, pc'[j] \in Linking
        PROVE  local'[k].new # local'[j].new
    BY <2>2, <1>1, <1>2 DEF ChainInv, LooseEnds
  <2>3. QED
    BY <2>1, <2>2 DEF LooseEnds
<1>5. ASSUME NEW j \in Handling'
      PROVE  /\ j \in Handling /\ j \in Workers /\ local'[j].el = local[j].el
             /\ pc'[j] # "return" => pc[j] # "return"
  BY <1>1, <1>2, <1>3, <1>5 DEF Handling
<1>6. ASSUME NEW e \in Elements, Loose(e)
      PROVE  /\ e \notin freed
             /\ \A t \in Threads : local[t].el # e
  BY <1>6 DEF ChainInv, LooseEnds
<1>7. Ahead' \cap freed' = {}
  <2>1. ASSUME NEW e \in Ahead' PROVE e \notin freed /\ (i \in Handling => e # local[i].el)
    BY <2>1, <1>1, <1>6 DEF ChainInv, HandsApart
  <2>2. QED
    BY <2>1
<1>8. ASSUME NEW j \in Handling'
      PROVE  /\ local'[j].el \notin Ahead'
             /\ pc'[j] # "return" => local'[j].el \notin freed'
             /\ \A k \in Handling' : j # k => local'[j].el # local'[k].el
  <2>1. local[j].el \notin Ahead'
    BY <1>1, <1>5, <1>6 DEF ChainInv, HandsApart
  <2>2. ASSUME pc'[j] # "return" PROVE local[j].el \notin freed'
    BY <1>5, <2>2 DEF ChainInv, HandsApart
  <2>3. \A k \in Handling' : j # k => local[j].el # local[k].el
    BY <1>5 DEF ChainInv, HandsApart
  <2>4. QED
    BY <1>5, <2>1, <2>2, <2>3
<1>9. ASSUME Removing
      PROVE  /\ local[Main].el \notin freed' \cup Behind'
             /\ \A j \in Handling' : local'[j].el # local[Main].el
  BY <1>1, <1>5, <1>6, <1>9 DEF ChainInv, HandsApart
<1>10. HandsApart'
  BY <1>2, <1>7, <1>8, <1>9 DEF HandsApart
<1>11. QED
  BY <1>4, <1>10 DEF ChainInv

\* The same, of a step that neither links an element nor moves the head.
LEMMA QuietChain ==
  ASSUME IInv, ChainInv, NEW i \in Workers,
         next' = next, head' = head,
         \A t \in Threads : t # i => pc'[t] = pc[t] /\ local'[t] = local[t],
         i \in Handling' => /\ i \in Handling /\ pc[i] # "return"
                            /\ local'[i].el = local[i].el,
         \/ freed' = freed
         \/ /\ freed' = freed \cup {local[i].el}
            /\ i \in Handling /\ pc'[i] = "return",
         \A e \in Elements : Loose(e)' =>
           Loose(e) /\ tail'[Main] # e /\ local'[i].el # e /\ local'[i].reg # e,
         pc'[i] \in Linking =>
           \A j \in Workers \ {i} : pc[j] \in Linking => local[j].new # local'[i].new
  PROVE  ChainInv'
<1>1. Main # i /\ Main \in Threads
  BY Numbers
<1>2. pc'[Main] = pc[Main] /\ local'[Main] = local[Main]
  BY <1>1
<1>3. Ahead' = Ahead /\ Behind' = Behind
  BY <1>2 DEF Ahead, Behind
<1>4. NoCycle' /\ OneQueue'
  BY DEF ChainInv, NoCycle, OneQueue
<1>5. \A e \in Elements : Loose(e)' =>
        /\ Loose(e)
        /\ next'[e] = NULL /\ head'[Main] # e /\ tail'[Main] # e
        /\ \A d \in Elements : next'[d] # e
        /\ local'[i].el # e /\ local'[i].reg # e
  BY DEF ChainInv, LooseEnds
<1>6. QED
  BY <1>3, <1>4, <1>5, WorkerChain

-----------------------------------------------------------------------------
(* Each step of a thread keeps the chain.                                  *)

LEMMA SkipDotChain ==
  ASSUME IInv, ChainInv, NEW i \in Workers, SkipDot(i)
  PROVE  ChainInv'
<1>1. \A t \in Threads : pc'[t] = IF t = i THEN pc'[i] ELSE pc[t]
  BY Numbers DEF SkipDot, Goto, IInv, StateOK
<1>2. pc[i] = "dot" /\ pc'[i] \in {"read", "dotdot"} /\ i \in Threads
  BY Numbers DEF SkipDot, At, Goto, IInv, StateOK
<1>3. \A e \in Elements : Loose(e)' => Loose(e)
  BY <1>1, <1>2, Numbers DEF Loose, SkipDot, memory, Linking
<1>4. QED
  BY <1>1, <1>2, <1>3, QuietChain
  DEF SkipDot, memory, queue, Handling, HandleSteps, InsertSteps, Linking, ChainInv, LooseEnds

LEMMA SkipDotDotChain ==
  ASSUME IInv, ChainInv, NEW i \in Workers, SkipDotDot(i)
  PROVE  ChainInv'
<1>1. \A t \in Threads : pc'[t] = IF t = i THEN pc'[i] ELSE pc[t]
  BY Numbers DEF SkipDotDot, Goto, IInv, StateOK
<1>2. pc[i] = "dotdot" /\ pc'[i] \in {"read", "name"} /\ i \in Threads
  BY Numbers DEF SkipDotDot, At, Goto, IInv, StateOK
<1>3. \A e \in Elements : Loose(e)' => Loose(e)
  BY <1>1, <1>2, Numbers DEF Loose, SkipDotDot, memory, Linking
<1>4. QED
  BY <1>1, <1>2, <1>3, QuietChain
  DEF SkipDotDot, memory, queue, Handling, HandleSteps, InsertSteps, Linking, ChainInv, LooseEnds

LEMMA StatChain ==
  ASSUME IInv, ChainInv, NEW i \in Workers, Stat(i)
  PROVE  ChainInv'
<1>1. \A t \in Threads : pc'[t] = IF t = i THEN pc'[i] ELSE pc[t]
  BY Numbers DEF Stat, Goto, IInv, StateOK
<1>2. pc[i] = "stat" /\ pc'[i] \in {"read", "return"} /\ i \in Threads
  BY Numbers DEF Stat, At, Goto, IInv, StateOK
<1>3. /\ \A t \in Threads : t # i => local'[t] = local[t]
      /\ local'[i].el = local[i].el /\ local'[i].new = local[i].new
      /\ local'[i].reg = local[i].reg
  BY <1>2 DEF Stat, IInv, StateOK, Locals
<1>4. \A e \in Elements : Loose(e)' => Loose(e)
  BY <1>1, <1>2, <1>3, Numbers DEF Loose, Stat, Linking
<1>5. \/ freed' = freed
      \/ freed' = freed \cup {local[i].el} /\ pc'[i] = "return"
  BY <1>2 DEF Stat, Goto, IInv, StateOK
<1>6. QED
  BY <1>1, <1>2, <1>3, <1>4, <1>5, QuietChain
  DEF Stat, queue, Handling, HandleSteps, InsertSteps, Linking, ChainInv, LooseEnds

LEMMA ReadChain ==
  ASSUME IInv, ChainInv, NEW i \in Workers, Read(i)
  PROVE  ChainInv'
<1>1. \A t \in Threads : pc'[t] = IF t = i THEN pc'[i] ELSE pc[t]
  BY Numbers DEF Read, Goto, IInv, StateOK
<1>2. pc[i] = "read" /\ pc'[i] \in {"dot", "return"} /\ i \in Threads /\ i # Main
  BY Numbers DEF Read, At, Goto, IInv, StateOK
<1>3. /\ \A t \in Threads : t # i => local'[t] = local[t]
      /\ local'[i].el = local[i].el /\ local'[i].new = local[i].new
      /\ local'[i].reg = local[i].reg
  BY <1>2 DEF Read, IInv, StateOK, Locals
<1>4. \A e \in Elements : Loose(e)' => Loose(e)
  BY <1>1, <1>2, <1>3, Numbers DEF Loose, Read, Linking
<1>5. \/ freed' = freed
      \/ freed' = freed \cup {local[i].el} /\ pc'[i] = "return"
  BY <1>2 DEF Read, Goto, IInv, StateOK
<1>6. QED
  BY <1>1, <1>2, <1>3, <1>4, <1>5, QuietChain
  DEF Read, queue, Handling, HandleSteps, InsertSteps, Linking, ChainInv, LooseEnds

LEMMA NameChain ==
  ASSUME IInv, ChainInv, NEW i \in Workers, Name(i)
  PROVE  ChainInv'
<1>1. \A t \in Threads : pc'[t] = IF t = i THEN "insert" ELSE pc[t]
  BY Numbers DEF Name, Goto, IInv, StateOK
<1>2. pc[i] = "name" /\ i \in Threads /\ used \in Nat
  BY Numbers DEF Name, At, IInv, StateOK
<1>3. /\ \A t \in Threads : t # i => local'[t] = local[t]
      /\ local'[i].el = local[i].el /\ local'[i].new = used + 1
      /\ local'[i].reg = local[i].reg
  BY <1>2 DEF Name, IInv, StateOK, Locals
<1>4. \A e \in Elements : Loose(e)' => Loose(e)
  <2>1. ASSUME NEW e \in Elements, e > used' PROVE Loose(e)
    BY <2>1, <1>2 DEF Loose, Name, Elements
  <2>2. ASSUME NEW e \in Elements, NEW j \in Workers, pc'[j] \in Linking, local'[j].new = e
        PROVE  Loose(e)
    <3>1. CASE j = i
      BY <3>1, <2>2, <1>2, <1>3 DEF Loose
    <3>2. CASE j # i
      BY <3>2, <2>2, <1>1, <1>3, Numbers DEF Loose
    <3>3. QED
      BY <3>1, <3>2
  <2>3. QED
    BY <2>1, <2>2 DEF Loose
<1>5. \A j \in Workers : local[j].new # local'[i].new
  BY <1>2, <1>3, Numbers DEF IInv, Allocated
<1>6. \A e \in Elements : Loose(e)' =>
        Loose(e) /\ tail'[Main] # e /\ local'[i].el # e /\ local'[i].reg # e
  BY <1>2, <1>3, <1>4, Numbers DEF Name, queue, ChainInv, LooseEnds
<1>7. i \in Handling /\ pc[i] # "return" /\ (pc'[i] \in Linking => TRUE)
  BY <1>1, <1>2, <1>3 DEF Handling, HandleSteps, InsertSteps, Linking
<1>8. next' = next /\ head' = head /\ freed' = freed
  BY DEF Name, memory, queue
<1>9. QED
  BY <1>1, <1>2, <1>3, <1>5, <1>6, <1>7, <1>8, QuietChain DEF ChainInv, LooseEnds

LEMMA InsertChain ==
  ASSUME IInv, ChainInv, NEW i \in Workers, Insert(i)
  PROVE  ChainInv'
<1>1. \A t \in Threads : pc'[t] = IF t = i THEN pc'[i] ELSE pc[t]
  BY Numbers DEF Insert, Goto, IInv, StateOK
<1>2. pc[i] = "insert" /\ pc'[i] \in {"set head", "get tail"} /\ i \in Threads
  BY Numbers DEF Insert, At, Goto, IInv, StateOK
<1>3. \A e \in Elements : Loose(e)' => Loose(e)
  BY <1>1, <1>2, Numbers DEF Loose, Insert, memory, Linking
<1>4. QED
  BY <1>1, <1>2, <1>3, QuietChain, Numbers
  DEF Insert, memory, queue, Handling, HandleSteps, InsertSteps, Linking, ChainInv, LooseEnds

LEMMA GetTailChain ==
  ASSUME IInv, ChainInv, NEW i \in Workers, GetTail(i)
  PROVE  ChainInv'
<1>1. \A t \in Threads : pc'[t] = IF t = i THEN "link" ELSE pc[t]
  BY Numbers DEF GetTail, Goto, IInv, StateOK
<1>2. pc[i] = "get tail" /\ i \in Threads /\ QueueOf(i) = Main
  BY Numbers DEF GetTail, At, QueueOf, IInv, Roles
<1>3. /\ \A t \in Threads : t # i => local'[t] = local[t]
      /\ local'[i].el = local[i].el /\ local'[i].new = local[i].new
      /\ local'[i].reg = tail[Main]
  BY <1>2 DEF GetTail, IInv, StateOK, Locals
<1>4. \A e \in Elements : Loose(e)' => Loose(e)
  BY <1>1, <1>2, <1>3, Numbers DEF Loose, GetTail, memory, Linking
<1>5. \A e \in Elements : Loose(e)' =>
        Loose(e) /\ tail'[Main] # e /\ local'[i].el # e /\ local'[i].reg # e
  BY <1>2, <1>3, <1>4, Numbers DEF GetTail, queue, ChainInv, LooseEnds
<1>6. i \in Handling /\ pc[i] # "return" /\ (pc'[i] \in Linking => pc[i] \in Linking /\ local'[i].new = local[i].new)
  BY <1>1, <1>2, <1>3 DEF Handling, HandleSteps, InsertSteps, Linking
<1>7. next' = next /\ head' = head /\ freed' = freed
  BY DEF GetTail, memory, queue
<1>8. pc'[i] \in Linking =>
        \A j \in Workers \ {i} : pc[j] \in Linking => local[j].new # local'[i].new
  BY <1>6 DEF ChainInv, LooseEnds
<1>9. QED
  BY <1>1, <1>2, <1>3, <1>5, <1>6, <1>7, <1>8, QuietChain

LEMMA GetNextChain ==
  ASSUME IInv, ChainInv, NEW i \in Workers, GetNext(i)
  PROVE  ChainInv'
<1>1. \A t \in Threads : pc'[t] = IF t = i THEN pc'[i] ELSE pc[t]
  BY Numbers DEF GetNext, Goto, IInv, StateOK
<1>2. /\ pc[i] = "get next" /\ pc'[i] \in {"get next", "set tail"}
      /\ i \in Threads /\ QueueOf(i) = Main
  BY Numbers DEF GetNext, At, Goto, QueueOf, IInv, Roles, StateOK
<1>3. /\ \A t \in Threads : t # i => local'[t] = local[t]
      /\ local'[i].el = local[i].el /\ local'[i].new = local[i].new
      /\ local'[i].reg = local[i].reg \/ \E d \in Elements : local'[i].reg = next[d]
  <2>1. tail[Main] # NULL => tail[Main] \in Elements
    BY Numbers DEF IInv, StateOK, Pointers
  <2>2. QED
    BY <2>1, <1>2 DEF GetNext, IInv, StateOK, Locals
<1>4. \A e \in Elements : Loose(e)' => Loose(e)
  BY <1>1, <1>2, <1>3, Numbers DEF Loose, GetNext, memory, Linking
<1>5. \A e \in Elements : Loose(e)' =>
        Loose(e) /\ tail'[Main] # e /\ local'[i].el # e /\ local'[i].reg # e
  BY <1>2, <1>3, <1>4, Numbers DEF GetNext, queue, ChainInv, LooseEnds
<1>6. i \in Handling /\ pc[i] # "return" /\ (pc'[i] \in Linking => pc[i] \in Linking /\ local'[i].new = local[i].new)
  BY <1>1, <1>2, <1>3 DEF Handling, HandleSteps, InsertSteps, Linking
<1>7. next' = next /\ head' = head /\ freed' = freed
  BY DEF GetNext, memory, queue
<1>8. pc'[i] \in Linking =>
        \A j \in Workers \ {i} : pc[j] \in Linking => local[j].new # local'[i].new
  BY <1>6 DEF ChainInv, LooseEnds
<1>9. QED
  BY <1>1, <1>2, <1>3, <1>5, <1>6, <1>7, <1>8, QuietChain

LEMMA SetTailChain ==
  ASSUME IInv, ChainInv, NEW i \in Workers, SetTail(i)
  PROVE  ChainInv'
<1>1. \A t \in Threads : pc'[t] = IF t = i THEN "read" ELSE pc[t]
  BY Numbers DEF SetTail, Goto, IInv, StateOK
<1>2. pc[i] = "set tail" /\ i \in Threads /\ QueueOf(i) = Main
  BY Numbers DEF SetTail, At, QueueOf, IInv, Roles
<1>3. /\ \A t \in Threads : t # i => local'[t] = local[t]
      /\ local'[i].el = local[i].el /\ local'[i].reg = NULL
      /\ tail'[Main] = local[i].reg
  BY <1>2, Numbers DEF SetTail, IInv, StateOK, Locals
<1>4. \A e \in Elements : Loose(e)' => Loose(e)
  BY <1>1, <1>2, <1>3, Numbers DEF Loose, SetTail, memory, Linking
<1>5. \A e \in Elements : Loose(e)' =>
        Loose(e) /\ tail'[Main] # e /\ local'[i].el # e /\ local'[i].reg # e
  <2>1. ASSUME NEW e \in Elements, Loose(e)
        PROVE  local[i].reg # e /\ local[i].el # e /\ NULL # e
    BY <2>1, <1>2, Numbers DEF ChainInv, LooseEnds
  <2>2. QED
    BY <2>1, <1>3, <1>4
<1>6. i \in Handling /\ pc[i] # "return" /\ (pc'[i] \in Linking => FALSE)
  BY <1>1, <1>2, <1>3 DEF Handling, HandleSteps, InsertSteps, Linking
<1>7. next' = next /\ head' = head /\ freed' = freed
  BY DEF SetTail, memory, queue
<1>8. QED
  BY <1>1, <1>2, <1>3, <1>5, <1>6, <1>7, QuietChain DEF ChainInv, LooseEnds

LEMMA StoreChain ==
  ASSUME IInv, ChainInv, NEW i \in Workers, Store(i)
  PROVE  ChainInv'
<1>1. \A t \in Threads : pc'[t] = IF t = i THEN "stop" ELSE pc[t]
  BY Numbers DEF Store, Goto, IInv, StateOK
<1>2. pc[i] = "return" /\ i \in Threads
  BY Numbers DEF Store, At
<1>3. /\ \A t \in Threads : t # i => local'[t] = local[t]
      /\ local'[i].el = NULL /\ local'[i].reg = NULL
  BY <1>2, Numbers DEF Store, IInv, StateOK, Fresh
<1>4. \A e \in Elements : Loose(e)' => Loose(e)
  BY <1>1, <1>2, <1>3, Numbers DEF Loose, Store, memory, Linking
<1>5. \A e \in Elements : Loose(e)' =>
        Loose(e) /\ tail'[Main] # e /\ local'[i].el # e /\ local'[i].reg # e
  BY <1>2, <1>3, <1>4, Numbers DEF Store, queue, ChainInv, LooseEnds
<1>6. i \notin Handling' /\ pc'[i] \notin Linking
  BY <1>1, <1>2 DEF Handling, HandleSteps, InsertSteps, Linking
<1>7. next' = next /\ head' = head /\ freed' = freed
  BY DEF Store, memory, queue
<1>8. QED
  BY <1>1, <1>3, <1>5, <1>6, <1>7, QuietChain

LEMMA StopChain ==
  ASSUME IInv, ChainInv, NEW i \in Workers, Stop(i)
  PROVE  ChainInv'
<1>1. \A t \in Threads : pc'[t] = IF t = i THEN "off" ELSE pc[t]
  BY Numbers DEF Stop, Goto, IInv, StateOK
<1>2. pc[i] = "stop" /\ i \in Threads
  BY Numbers DEF Stop, At
<1>3. \A e \in Elements : Loose(e)' => Loose(e)
  BY <1>1, <1>2, Numbers DEF Loose, Stop, memory, Linking
<1>4. QED
  BY <1>1, <1>2, <1>3, QuietChain, Numbers
  DEF Stop, memory, queue, Handling, HandleSteps, InsertSteps, Linking, ChainInv, LooseEnds

\* The element becomes the head of a queue that was empty when the thread looked.
LEMMA SetHeadChain ==
  ASSUME IInv, ChainInv, NEW i \in Workers, SetHead(i)
  PROVE  ChainInv'
<1> DEFINE n == local[i].new
<1>1. \A t \in Threads : pc'[t] = IF t = i THEN "set tail" ELSE pc[t]
  BY Numbers DEF SetHead, Goto, IInv, StateOK
<1>2. pc[i] = "set head" /\ i \in Threads /\ QueueOf(i) = Main
  BY Numbers DEF SetHead, At, QueueOf, IInv, Roles
<1>3. /\ \A t \in Threads : t # i => local'[t] = local[t]
      /\ local'[i].el = local[i].el /\ local'[i].new = n /\ local'[i].reg = n
  BY <1>2, Numbers DEF SetHead, IInv, StateOK, Locals
<1>4. n \in Elements /\ Loose(n)
  <2>1. n \in Elements
    BY <1>2, Numbers DEF IInv, InHand, InsertSteps, StateOK, Locals, Pointers
  <2>2. QED
    BY <2>1, <1>2 DEF Loose, Linking
<1>5. \A e \in Elements : Loose(e)' => Loose(e) /\ e # n
  <2>1. ASSUME NEW e \in Elements, e > used PROVE e # n
    <3>1. n \in 0..used
      BY <1>2 DEF IInv, Allocated
    <3>2. used \in Nat
      BY Numbers DEF IInv, StateOK
    <3>3. QED
      BY <2>1, <3>1, <3>2
  <2>2. ASSUME NEW j \in Workers, j # i, pc[j] \in Linking PROVE local[j].new # n
    BY <2>2, <1>2 DEF Linking, ChainInv, LooseEnds
  <2>3. QED
    BY <1>1, <1>2, <1>3, <2>1, <2>2, Numbers DEF Loose, SetHead, memory, Linking
<1>6. /\ head' = [head EXCEPT ![Main] = n] /\ head \in [Queues -> Pointers]
      /\ next' = next /\ tail' = tail /\ freed' = freed
  BY <1>2 DEF SetHead, memory, IInv, StateOK
<1>7. /\ next \in [Elements -> Pointers] /\ next[n] = NULL
      /\ Reach(next, n) \subseteq {n} /\ Reach(next, NULL) = {}
  <2>1. next \in [Elements -> Pointers] /\ next[n] = NULL
    BY <1>4 DEF ChainInv, LooseEnds, IInv, StateOK
  <2>2. QED
    BY <2>1, <1>4, ReachLast, ReachHas, Numbers
<1>8. /\ pc'[Main] = pc[Main] /\ local'[Main] = local[Main] /\ head'[Main] = n
  BY <1>1, <1>3, <1>6, Numbers
<1>9. \A e \in Ahead' : e \in Ahead \/ (e \in Elements /\ Loose(e))
  BY <1>4, <1>6, <1>7, <1>8 DEF Ahead
<1>10. \A e \in Behind' : e \in Behind \/ (e \in Elements /\ Loose(e))
  BY <1>4, <1>6, <1>7, <1>8 DEF Behind
<1>11. NoCycle' /\ OneQueue'
  BY <1>6 DEF ChainInv, NoCycle, OneQueue
<1>12. \A e \in Elements : Loose(e)' =>
         /\ Loose(e)
         /\ next'[e] = NULL /\ head'[Main] # e /\ tail'[Main] # e
         /\ \A d \in Elements : next'[d] # e
         /\ local'[i].el # e /\ local'[i].reg # e
  BY <1>2, <1>3, <1>5, <1>6, <1>8 DEF ChainInv, LooseEnds
<1>13. i \in Handling /\ pc[i] # "return" /\ pc'[i] \notin Linking
  BY <1>1, <1>2 DEF Handling, InsertSteps, Linking
<1>14. QED
  BY <1>1, <1>3, <1>6, <1>9, <1>10, <1>11, <1>12, <1>13, WorkerChain

\* The element is linked behind what was the tail when the thread looked.
LEMMA LinkChain ==
  ASSUME IInv, ChainInv, NEW i \in Workers, Link(i)
  PROVE  ChainInv'
<1> DEFINE n == local[i].new
           l == local[i].reg
<1>2. pc[i] = "link" /\ i \in Threads /\ i # Main
  BY Numbers DEF Link, At
<1>3. local' = local /\ head' = head /\ tail' = tail /\ freed' = freed /\ used' = used
  BY DEF Link, queue
<1>4. n \in Elements /\ Loose(n)
  <2>1. n \in Elements
    BY <1>2, Numbers DEF IInv, InHand, InsertSteps, StateOK, Locals, Pointers
  <2>2. QED
    BY <2>1, <1>2 DEF Loose, Linking
<1>5. next \in [Elements -> Pointers] /\ head \in [Queues -> Pointers]
  BY DEF IInv, StateOK
<1>6. CASE l = NULL
  <2>1. pc' = pc /\ next' = next
    BY <1>6 DEF Link
  <2>2. \A e \in Elements : Loose(e)' <=> Loose(e)
    BY <2>1, <1>3 DEF Loose
  <2>3. QED
    BY <2>1, <2>2, <1>3
    DEF ChainInv, LooseEnds, NoCycle, HandsApart, OneQueue, Ahead, Behind, Removing, Handling
<1>7. CASE l # NULL
  <2>1. l \in Elements /\ l # n
    <3>1. l \in Pointers
      BY <1>2 DEF IInv, StateOK, Locals
    <3>2. QED
      BY <3>1, <1>2, <1>4, <1>7 DEF Pointers, ChainInv, LooseEnds
  <2>2. next' = [next EXCEPT ![l] = n]
    BY <1>7 DEF Link
  <2>3. \A t \in Threads : pc'[t] = IF t = i THEN "get next" ELSE pc[t]
    BY <1>7, <1>2 DEF Link, Goto, IInv, StateOK
  <2>4. next[n] = NULL
    BY <1>4 DEF ChainInv, LooseEnds
  <2>5. \A p \in Pointers : Reach(next', p) \subseteq Reach(next, p) \cup {n}
    BY <1>4, <1>5, <2>1, <2>2, <2>4, ReachLinked
  <2>6. Reach(next', n) \subseteq {n} /\ Reach(next', NULL) = {}
    <3>1. next' \in [Elements -> Pointers] /\ next'[n] = NULL
      BY <1>4, <1>5, <2>1, <2>2, <2>4, Numbers
    <3>2. QED
      BY <3>1, <1>4, ReachLast, ReachHas, Numbers
  <2>7. \A e \in Elements : Loose(e)' => Loose(e) /\ e # n
    <3>1. ASSUME NEW e \in Elements, e > used PROVE e # n
      <4>1. n \in 0..used /\ used \in Nat
        BY <1>2 DEF IInv, Allocated, StateOK
      <4>2. QED
        BY <3>1, <4>1
    <3>2. ASSUME NEW j \in Workers, j # i, pc[j] \in Linking PROVE local[j].new # n
      BY <3>2, <1>2 DEF Linking, ChainInv, LooseEnds
    <3>3. QED
      BY <1>2, <1>3, <2>3, <3>1, <3>2, Numbers DEF Loose, Linking
  <2>8. pc'[Main] = pc[Main] /\ i \in Handling /\ pc[i] # "return" /\ pc'[i] \notin Linking
    BY <1>2, <2>3, Numbers DEF Handling, InsertSteps, Linking
  <2>9. local[Main].reg \in Pointers /\ head[Main] \in Pointers
    BY <1>5, Numbers DEF IInv, StateOK, Locals
  <2>10. \A e \in Ahead' : e \in Ahead \/ (e \in Elements /\ Loose(e))
    BY <1>3, <1>4, <2>5, <2>8, <2>9 DEF Ahead
  <2>11. Removing => \A e \in Behind' : e \in Behind \/ (e \in Elements /\ Loose(e))
    <3>1. CASE pc[Main] = "follow"
      <4>1. head[Main] \in Elements
        BY <3>1, <2>9 DEF IInv, Roles, Pointers
      <4>2. /\ next[head[Main]] \in Pointers
            /\ next'[head[Main]] \in {next[head[Main]], n}
        BY <4>1, <1>5, <2>2
      <4>3. Behind = Reach(next, next[head[Main]]) /\ Behind' = Reach(next', next'[head[Main]])
        BY <3>1, <2>8, <1>3 DEF Behind
      <4>4. QED
        BY <4>2, <4>3, <2>5, <2>6, <1>4
    <3>2. CASE pc[Main] # "follow"
      BY <3>2, <1>3, <1>4, <2>5, <2>8, <2>9 DEF Behind
    <3>3. QED
      BY <3>1, <3>2
  <2>12. NoCycle'
    <3>1. SUFFICES ASSUME NEW e \in Elements PROVE e \notin Reach(next', next'[e])
      BY DEF NoCycle
    <3>2. CASE e = l
      BY <3>2, <1>5, <2>1, <2>2, <2>6
    <3>3. CASE e = n
      <4>1. next'[n] = NULL
        BY <1>4, <1>5, <2>1, <2>2, <2>4
      <4>2. QED
        BY <3>3, <4>1, <2>6
    <3>4. CASE e # l /\ e # n
      <4>1. next'[e] = next[e] /\ next[e] \in Pointers
        BY <3>4, <1>5, <2>2
      <4>2. QED
        BY <3>4, <4>1, <2>5 DEF ChainInv, NoCycle
    <3>5. QED
      BY <3>2, <3>3, <3>4
  <2>13. OneQueue'
    BY <1>3 DEF ChainInv, OneQueue
  <2>14. \A e \in Elements : Loose(e)' =>
           /\ Loose(e)
           /\ next'[e] = NULL /\ head'[Main] # e /\ tail'[Main] # e
           /\ \A d \in Elements : next'[d] # e
           /\ local'[i].el # e /\ local'[i].reg # e
    <3>1. SUFFICES ASSUME NEW e \in Elements, Loose(e)'
                   PROVE  e # l /\ next'[e] = NULL /\ \A d \in Elements : next'[d] # e
      BY <2>7, <1>2, <1>3 DEF ChainInv, LooseEnds
    <3>2. Loose(e) /\ e # n
      BY <3>1, <2>7
    <3>3. e # l
      BY <3>2, <1>2 DEF ChainInv, LooseEnds
    <3>4. QED
      BY <3>2, <3>3, <1>5, <2>2 DEF ChainInv, LooseEnds
  <2>15. QED
    BY <1>3, <2>3, <2>8, <2>10, <2>11, <2>12, <2>13, <2>14, WorkerChain
<1>8. QED
  BY <1>6, <1>7

-----------------------------------------------------------------------------
(* Each step of main keeps the chain.                                      *)

\* A step that touches neither the queue nor an element.
LEMMA MainQuietChain ==
  ASSUME IInv, ChainInv, UNCHANGED <<memory, queue, local>>,
         \A i \in Workers : pc'[i] = pc[i],
         pc'[Main] \notin {"follow", "advance", "spawn"}
  PROVE  ChainInv'
<1>1. next' = next /\ used' = used /\ freed' = freed /\ head' = head /\ tail' = tail
      /\ local' = local
  BY DEF memory, queue
<1>2. \A e : Loose(e)' <=> Loose(e)
  BY <1>1 DEF Loose
<1>3. LooseEnds' /\ NoCycle' /\ OneQueue'
  BY <1>1, <1>2 DEF ChainInv, LooseEnds, NoCycle, OneQueue
<1>4. Ahead' \subseteq Ahead /\ Handling' = Handling /\ ~Removing'
  BY <1>1 DEF Ahead, Handling, Removing
<1>5. \A i \in Handling : pc'[i] = pc[i]
  BY DEF Handling
<1>6. HandsApart'
  BY <1>1, <1>4, <1>5 DEF ChainInv, HandsApart
<1>7. QED
  BY <1>3, <1>6 DEF ChainInv

LEMMA MainOthersChain ==
  ASSUME IInv, ChainInv, Test \/ Empty \/ Scan \/ Collect \/ Look \/ Sum
  PROVE  ChainInv'
<1>1. UNCHANGED <<memory, queue, local>>
  BY DEF Test, Empty, Scan, Collect, Look, Sum
<1>2. \A i \in Workers : pc'[i] = pc[i]
  BY Numbers DEF Test, Empty, Scan, Collect, Look, Sum, Goto, IInv, StateOK
<1>3. pc'[Main] \notin {"follow", "advance", "spawn"}
  BY Numbers DEF Test, Empty, Scan, Collect, Look, Sum, At, Goto, IInv, StateOK
<1>4. QED
  BY <1>1, <1>2, <1>3, MainQuietChain

LEMMA TakeChain ==
  ASSUME IInv, ChainInv, Take(Main)
  PROVE  ChainInv'
<1> DEFINE h == head[Main]
<1>1. /\ \A t \in Threads : pc'[t] = IF t = Main THEN "follow" ELSE pc[t]
      /\ pc[Main] = "take" /\ pc'[Main] = "follow"
  BY Numbers DEF Take, At, Goto, IInv, StateOK
<1>2. /\ \A t \in Threads : t # Main => local'[t] = local[t]
      /\ local'[Main].el = h /\ local'[Main].new = local[Main].new
      /\ local'[Main].reg = local[Main].reg
  BY Numbers DEF Take, QueueOf, IInv, StateOK, Locals
<1>3. next' = next /\ used' = used /\ freed' = freed /\ head' = head /\ tail' = tail
  BY DEF Take, memory, queue
<1>4. h \in Elements /\ next \in [Elements -> Pointers]
  BY <1>1, Numbers DEF IInv, Roles, StateOK, Pointers
<1>5. \A j \in Workers : j # Main /\ pc'[j] = pc[j] /\ local'[j] = local[j]
  BY <1>1, <1>2, Numbers
<1>6. \A e \in Elements : Loose(e)' => Loose(e)
  BY <1>3, <1>5 DEF Loose
<1>7. LooseEnds'
  <2>1. ASSUME NEW e \in Elements, Loose(e) PROVE h # e
    BY <2>1 DEF ChainInv, LooseEnds
  <2>2. \A t \in Threads : local'[t].reg = local[t].reg /\ local'[t].el \in {local[t].el, h}
    BY <1>2
  <2>3. QED
    BY <1>3, <1>5, <1>6, <2>1, <2>2 DEF ChainInv, LooseEnds
<1>8. Handling' = Handling /\ Ahead' = Reach(next, h) /\ Ahead = Reach(next, h)
      /\ Behind' = Reach(next, next[h])
  BY <1>1, <1>3, <1>5 DEF Handling, Ahead, Behind
<1>9. h \in Ahead /\ h \notin Behind'
  BY <1>4, <1>8, ReachHas, Numbers DEF ChainInv, NoCycle
<1>10. HandsApart'
  <2>1. \A j \in Handling : j \in Workers /\ pc'[j] = pc[j] /\ local'[j] = local[j]
    BY <1>5 DEF Handling
  <2>2. QED
    BY <1>2, <1>3, <1>8, <1>9, <2>1 DEF ChainInv, HandsApart
<1>11. NoCycle' /\ OneQueue'
  BY <1>3 DEF ChainInv, NoCycle, OneQueue
<1>12. QED
  BY <1>7, <1>10, <1>11 DEF ChainInv

LEMMA FollowChain ==
  ASSUME IInv, ChainInv, Follow(Main)
  PROVE  ChainInv'
<1> DEFINE h == head[Main]
<1>1. /\ \A t \in Threads : pc'[t] = IF t = Main THEN "advance" ELSE pc[t]
      /\ pc[Main] = "follow" /\ pc'[Main] = "advance"
  BY Numbers DEF Follow, At, Goto, IInv, StateOK
<1>2. /\ \A t \in Threads : t # Main => local'[t] = local[t]
      /\ local'[Main].el = local[Main].el /\ local'[Main].reg = next[h]
  BY Numbers DEF Follow, QueueOf, IInv, StateOK, Locals
<1>3. next' = next /\ used' = used /\ freed' = freed /\ head' = head /\ tail' = tail
  BY DEF Follow, memory, queue
<1>4. h \in Elements /\ next \in [Elements -> Pointers]
  BY <1>1, Numbers DEF IInv, Roles, StateOK, Pointers
<1>5. \A j \in Workers : j # Main /\ pc'[j] = pc[j] /\ local'[j] = local[j]
  BY <1>1, <1>2, Numbers
<1>6. \A e \in Elements : Loose(e)' => Loose(e)
  BY <1>3, <1>5 DEF Loose
<1>7. LooseEnds'
  <2>1. ASSUME NEW e \in Elements, Loose(e) PROVE next[h] # e
    BY <2>1, <1>4 DEF ChainInv, LooseEnds
  <2>2. \A t \in Threads : local'[t].el = local[t].el /\ local'[t].reg \in {local[t].reg, next[h]}
    BY <1>2
  <2>3. QED
    BY <1>3, <1>5, <1>6, <2>1, <2>2 DEF ChainInv, LooseEnds
<1>8. /\ Handling' = Handling
      /\ Ahead' = Reach(next, h) \cup Reach(next, next[h]) /\ Ahead = Reach(next, h)
      /\ Behind' = Reach(next, next[h]) /\ Behind = Reach(next, next[h])
  BY <1>1, <1>2, <1>3, <1>5 DEF Handling, Ahead, Behind
<1>9. Ahead' = Ahead /\ Behind' = Behind
  BY <1>4, <1>8, ReachNext
<1>10. HandsApart'
  <2>1. \A j \in Handling : j \in Workers /\ pc'[j] = pc[j] /\ local'[j] = local[j]
    BY <1>5 DEF Handling
  <2>2. Removing
    BY <1>1 DEF Removing
  <2>3. QED
    BY <1>2, <1>3, <1>8, <1>9, <2>1, <2>2 DEF ChainInv, HandsApart
<1>11. NoCycle' /\ OneQueue'
  BY <1>3 DEF ChainInv, NoCycle, OneQueue
<1>12. QED
  BY <1>7, <1>10, <1>11 DEF ChainInv

LEMMA AdvanceChain ==
  ASSUME IInv, ChainInv, Advance(Main, "spawn")
  PROVE  ChainInv'
<1> DEFINE r == local[Main].reg
<1>1. /\ \A t \in Threads : pc'[t] = IF t = Main THEN "spawn" ELSE pc[t]
      /\ pc[Main] = "advance" /\ pc'[Main] = "spawn"
  BY Numbers DEF Advance, At, Goto, IInv, StateOK
<1>2. /\ \A t \in Threads : t # Main => local'[t] = local[t]
      /\ local'[Main].el = local[Main].el /\ local'[Main].reg = NULL
  BY Numbers DEF Advance, IInv, StateOK, Locals
<1>3. /\ next' = next /\ used' = used /\ freed' = freed /\ tail' = tail
      /\ head'[Main] = r /\ \A q \in Queues \ {Main} : head'[q] = head[q]
  BY Numbers DEF Advance, memory, QueueOf, IInv, StateOK
<1>5. \A j \in Workers : j # Main /\ pc'[j] = pc[j] /\ local'[j] = local[j]
  BY <1>1, <1>2, Numbers
<1>6. \A e \in Elements : Loose(e)' => Loose(e)
  BY <1>3, <1>5 DEF Loose
<1>7. LooseEnds'
  <2>1. ASSUME NEW e \in Elements, Loose(e) PROVE r # e /\ NULL # e
    BY <2>1, Numbers DEF ChainInv, LooseEnds
  <2>2. \A t \in Threads : local'[t].el = local[t].el /\ local'[t].reg \in {local[t].reg, NULL}
    BY <1>2
  <2>3. QED
    BY <1>3, <1>5, <1>6, <2>1, <2>2 DEF ChainInv, LooseEnds
<1>8. /\ Handling' = Handling
      /\ Ahead' = Reach(next, r) /\ Reach(next, r) \subseteq Ahead
      /\ Behind' = Reach(next, r) /\ Behind = Reach(next, r)
  BY <1>1, <1>2, <1>3, <1>5 DEF Handling, Ahead, Behind
<1>10. HandsApart'
  <2>1. \A j \in Handling : j \in Workers /\ pc'[j] = pc[j] /\ local'[j] = local[j]
    BY <1>5 DEF Handling
  <2>2. Removing
    BY <1>1 DEF Removing
  <2>3. QED
    BY <1>2, <1>3, <1>8, <2>1, <2>2 DEF ChainInv, HandsApart
<1>11. NoCycle' /\ OneQueue'
  BY <1>3 DEF ChainInv, NoCycle, OneQueue
<1>12. QED
  BY <1>7, <1>10, <1>11 DEF ChainInv

LEMMA SpawnChain ==
  ASSUME IInv, ChainInv, Spawn
  PROVE  ChainInv'
<1>1. /\ pc[Main] = "spawn" /\ slot \in Workers /\ slot # Main /\ pc[slot] = "off"
      /\ local[Main].el # NULL
  BY Numbers DEF Spawn, At, IInv, Roles, InHand
<1>2. /\ pc'[Main] = "test" /\ pc'[slot] = "stat"
      /\ \A t \in Threads : t # slot /\ t # Main => pc'[t] = pc[t]
  BY <1>1, Numbers DEF Spawn, IInv, StateOK
<1>3. /\ local'[slot].el = local[Main].el /\ local'[slot].reg = NULL
      /\ local'[Main].el = NULL /\ local'[Main].reg = local[Main].reg
      /\ \A t \in Threads : t # slot /\ t # Main => local'[t] = local[t]
  BY <1>1, Numbers DEF Spawn, IInv, StateOK, Locals, Fresh
<1>4. next' = next /\ used' = used /\ freed' = freed /\ head' = head /\ tail' = tail
  BY DEF Spawn, memory, queue
<1>5. \A j \in Workers : j # Main /\ (j # slot => pc'[j] = pc[j] /\ local'[j] = local[j])
  BY <1>2, <1>3, Numbers
<1>6. \A e \in Elements : Loose(e)' => Loose(e)
  BY <1>2, <1>4, <1>5 DEF Loose, Linking
<1>7. LooseEnds'
  <2>1. \A t \in Threads : /\ local'[t].el \in {local[t].el, local[Main].el, NULL}
                           /\ local'[t].reg \in {local[t].reg, NULL}
    BY <1>3
  <2>2. \A e \in Elements : NULL # e
    BY Numbers
  <2>3. \A e \in Elements : Loose(e)' =>
          /\ next'[e] = NULL /\ head'[Main] # e /\ tail'[Main] # e /\ e \notin freed'
          /\ \A d \in Elements : next'[d] # e
          /\ \A t \in Threads : local'[t].el # e /\ local'[t].reg # e
    BY <1>4, <1>6, <2>1, <2>2, Numbers DEF ChainInv, LooseEnds
  <2>4. \A i, j \in Workers : i # j /\ pc'[i] \in Linking /\ pc'[j] \in Linking
                                => local'[i].new # local'[j].new
    <3>1. \A j \in Workers : pc'[j] \in Linking => pc[j] \in Linking /\ local'[j] = local[j]
      BY <1>2, <1>5 DEF Linking
    <3>2. QED
      BY <3>1 DEF ChainInv, LooseEnds
  <2>5. QED
    BY <2>3, <2>4 DEF LooseEnds
<1>8. /\ Handling' = Handling \cup {slot} /\ slot \notin Handling /\ ~Removing' /\ Removing
      /\ Ahead' = Reach(next, head[Main]) /\ Ahead = Reach(next, head[Main])
      /\ Behind = Reach(next, head[Main])
  BY <1>1, <1>2, <1>4, <1>5 DEF Handling, HandleSteps, InsertSteps, Ahead, Behind, Removing
<1>9. \A j \in Handling : pc'[j] = pc[j] /\ local'[j] = local[j]
  BY <1>5, <1>8 DEF Handling
<1>10. HandsApart'
  BY <1>3, <1>4, <1>8, <1>9 DEF ChainInv, HandsApart
<1>11. NoCycle' /\ OneQueue'
  BY <1>4 DEF ChainInv, NoCycle, OneQueue
<1>12. QED
  BY <1>7, <1>10, <1>11 DEF ChainInv

LEMMA InitChain == Init => ChainInv
<1> SUFFICES ASSUME Init PROVE ChainInv
  OBVIOUS
<1>1. /\ next = [e \in Elements |-> NULL] /\ next \in [Elements -> Pointers]
      /\ used = 1 /\ freed = {}
      /\ head[Main] = 1 /\ tail[Main] = 1 /\ \A q \in Queues \ {Main} : head[q] = NULL
  BY Numbers DEF Init
<1>2. \A t \in Threads : /\ local[t].el = NULL /\ local[t].reg = NULL
                         /\ pc[t] \in {"test", "off"}
  BY DEF Init, Fresh
<1>3. \A e \in Elements : Loose(e) => e # 1 /\ e # NULL
  <2>1. \A i \in Workers : pc[i] \notin Linking
    BY <1>2, Numbers DEF Linking
  <2>2. QED
    BY <1>1, <2>1, Numbers DEF Loose
<1>4. LooseEnds
  BY <1>1, <1>2, <1>3, Numbers DEF LooseEnds, Linking
<1>5. Reach(next, NULL) = {}
  BY <1>1, ReachHas, Numbers
<1>6. NoCycle
  BY <1>1, <1>5 DEF NoCycle
<1>7. Handling = {} /\ ~Removing
  BY <1>2, Numbers DEF Handling, Removing, HandleSteps, InsertSteps
<1>8. QED
  BY <1>1, <1>4, <1>6, <1>7 DEF ChainInv, HandsApart, OneQueue

LEMMA NextChain == IInv /\ ChainInv /\ [Next]_vars => ChainInv'
<1>1. ASSUME ChainInv, UNCHANGED vars
      PROVE  ChainInv'
  BY <1>1 DEF ChainInv, LooseEnds, NoCycle, HandsApart, OneQueue, Loose, Handling,
              Ahead, Behind, Removing, vars, grepVars, memory, queue, mainVars
<1>2. ASSUME IInv, ChainInv, NEW i \in Workers, WorkerStep(i)
      PROVE  ChainInv'
  BY <1>2, StatChain, ReadChain, SkipDotChain, SkipDotDotChain, NameChain, InsertChain,
     SetHeadChain, GetTailChain, LinkChain, GetNextChain, SetTailChain, StoreChain, StopChain
  DEF WorkerStep, HandleStep
<1>3. ASSUME IInv, ChainInv, MainStep
      PROVE  ChainInv'
  BY <1>3, MainOthersChain, TakeChain, FollowChain, AdvanceChain, SpawnChain DEF MainStep
<1>4. QED
  BY <1>1, <1>2, <1>3 DEF Next

\* However main and the threads race for the queue, no element is handed out
\* twice, and none that a thread handles has been freed or can be removed again.
THEOREM QueueHandsOut == Spec => []HandedOutOnce
<1>1. IInv /\ ChainInv => HandedOutOnce
  <2> SUFFICES ASSUME IInv, ChainInv PROVE HandedOutOnce
    OBVIOUS
  <2> DEFINE inHand == {t \in Holders : local[t].el # NULL}
  <2>1. Queued \subseteq Ahead
    <3>1. ASSUME NEW q \in Queues, NEW e \in Chain(head[q]) PROVE e \in Reach(next, head[Main])
      <4>1. head[q] \in Pointers /\ next \in [Elements -> Pointers]
        BY DEF IInv, StateOK
      <4>2. e \in Reach(next, head[q])
        BY <3>1, <4>1, ChainReach
      <4>3. Reach(next, NULL) = {}
        BY <4>1, ReachHas
      <4>4. QED
        BY <4>2, <4>3 DEF ChainInv, OneQueue
    <3>2. QED
      BY <3>1 DEF Queued, Ahead
  <2>2. ASSUME NEW t \in inHand
        PROVE  t \in Threads /\ (t \in Handling \/ (t = Main /\ Removing /\ pc[t] # "return"))
    <3>1. t = Main \/ t \in Workers
      BY <2>2 DEF Holders, Threads, Workers, Main
    <3>2. QED
      BY <2>2, <3>1
      DEF Holders, Handling, Removing, IInv, Roles, HandleSteps, InsertSteps, MainSteps, RemoveSteps
  <2>3. \A t \in inHand : pc[t] # "return" => local[t].el \notin freed
    BY <2>2 DEF ChainInv, HandsApart
  <2>4. \A t, u \in inHand : t # u => local[t].el # local[u].el
    BY <2>2 DEF ChainInv, HandsApart
  <2>5. \A t \in inHand \ {Main} : local[t].el \notin Queued
    BY <2>1, <2>2 DEF ChainInv, HandsApart
  <2>6. QED
    BY <2>3, <2>4, <2>5 DEF HandedOutOnce
<1>2. Init => IInv /\ ChainInv
  BY InitIInv, InitChain
<1>3. IInv /\ ChainInv /\ [Next]_vars => (IInv /\ ChainInv)'
  BY NextKeeps, NextChain
<1>4. QED
  BY <1>1, <1>2, <1>3, PTL DEF Spec

-----------------------------------------------------------------------------
(* Sums over finite sets, as MapThenSumSet computes them.                  *)

\* The element MapThenSumSet takes first.
Pick(s) == CHOOSE x \in s : TRUE

\* F is the recursion that defines a sum of values of g, on the sets of D.
SumFn(F, g, D) ==
  F = [s \in D |-> IF s = {} THEN 0 ELSE g[Pick(s)] + F[s \ {Pick(s)}]]

SumTo(g, S) == (CHOOSE F : SumFn(F, g, SUBSET S))[S]

\* What is left is smaller.
LEMMA PickIn ==
  ASSUME NEW s, s # {}, IsFiniteSet(s)
  PROVE  /\ Pick(s) \in s
         /\ Cardinality(s) \in Nat /\ Cardinality(s) # 0
         /\ IsFiniteSet(s \ {Pick(s)})
         /\ Cardinality(s \ {Pick(s)}) = Cardinality(s) - 1
<1>1. Pick(s) \in s
  BY DEF Pick
<1>2. QED
  BY <1>1, FS_CardinalityType, FS_EmptySet, FS_RemoveElement

\* There is such a recursion, by induction on the size of a set.
LEMMA SumFnExists ==
  ASSUME NEW g, NEW S, IsFiniteSet(S)
  PROVE  \E F : SumFn(F, g, SUBSET S)
<1> DEFINE D(n) == {s \in SUBSET S : Cardinality(s) <= n}
           B == {n \in Nat : ~ \E F : SumFn(F, g, D(n))}
<1>0. \A s \in SUBSET S : IsFiniteSet(s) /\ Cardinality(s) \in Nat
  BY FS_Subset, FS_CardinalityType
<1>1. ASSUME B # {} PROVE FALSE
  <2>1. PICK m \in B : \A k \in B : ~(k < m)
    BY <1>1, LeastOf
  <2>2. CASE m = 0
    <3> DEFINE F == [s \in D(0) |-> 0]
    <3>1. \A s \in D(0) : s = {}
      BY <1>0, FS_EmptySet
    <3>2. SumFn(F, g, D(0))
      <4>1. F = [s \in D(0) |-> IF s = {} THEN 0 ELSE g[Pick(s)] + F[s \ {Pick(s)}]]
        BY <3>1
      <4>2. QED
        BY <4>1 DEF SumFn
    <3>3. QED
      BY <2>1, <2>2, <3>2
  <2>3. CASE m # 0
    <3>1. m - 1 \in Nat /\ m - 1 < m /\ m \in Nat
      BY <2>3
    <3>2. PICK Q : SumFn(Q, g, D(m - 1))
      BY <2>1, <3>1
    <3> DEFINE F == [s \in D(m) |-> IF s \in D(m - 1) THEN Q[s]
                                    ELSE g[Pick(s)] + Q[s \ {Pick(s)}]]
               G == [s \in D(m) |-> IF s = {} THEN 0 ELSE g[Pick(s)] + F[s \ {Pick(s)}]]
    <3>3. \A s \in D(m - 1) :
            Q[s] = IF s = {} THEN 0 ELSE g[Pick(s)] + Q[s \ {Pick(s)}]
      BY <3>2 DEF SumFn
    <3>4. \A s \in D(m) : s # {} => s \ {Pick(s)} \in D(m - 1) /\ s \ {Pick(s)} \in D(m)
      <4>1. SUFFICES ASSUME NEW s \in D(m), s # {}
                     PROVE  s \ {Pick(s)} \in D(m - 1) /\ s \ {Pick(s)} \in D(m)
        OBVIOUS
      <4>2. /\ Cardinality(s) \in Nat /\ Cardinality(s \ {Pick(s)}) = Cardinality(s) - 1
        BY <1>0, <4>1, PickIn
      <4>3. QED
        BY <3>1, <4>1, <4>2
    <3>5. {} \in D(m - 1)
      BY <3>1, FS_EmptySet
    <3> HIDE DEF D
    <3>6. \A s \in D(m) : s # {} => F[s \ {Pick(s)}] = Q[s \ {Pick(s)}]
      BY <3>4
    <3>7. \A s \in D(m) : F[s] = G[s]
      <4>1. SUFFICES ASSUME NEW s \in D(m) PROVE F[s] = G[s]
        OBVIOUS
      <4>2. CASE s = {}
        BY <3>3, <3>5, <4>2
      <4>3. CASE s # {} /\ s \in D(m - 1)
        <5>1. F[s] = g[Pick(s)] + Q[s \ {Pick(s)}]
          BY <3>3, <4>3
        <5>2. QED
          BY <3>6, <4>3, <5>1
      <4>4. CASE s # {} /\ s \notin D(m - 1)
        BY <3>6, <4>4
      <4>5. QED
        BY <4>2, <4>3, <4>4
    <3>8. F = G
      BY <3>7
    <3>9. SumFn(F, g, D(m))
      BY <3>8 DEF SumFn
    <3>10. QED
      BY <2>1, <3>9
  <2>4. QED
    BY <2>2, <2>3
<1>2. PICK F : SumFn(F, g, D(Cardinality(S)))
  BY <1>0, <1>1, FS_CardinalityType
<1>3. D(Cardinality(S)) = SUBSET S
  BY FS_Subset
<1>4. QED
  BY <1>2, <1>3

\* It has one solution.
LEMMA SumFnAgree ==
  ASSUME NEW S, NEW T, IsFiniteSet(S), T \subseteq S, NEW g, NEW h, NEW F, NEW G,
         SumFn(F, g, SUBSET S), SumFn(G, h, SUBSET T), \A x \in T : g[x] = h[x]
  PROVE  \A s \in SUBSET T : F[s] = G[s]
<1> DEFINE B == {n \in Nat : \E s \in SUBSET T : Cardinality(s) = n /\ F[s] # G[s]}
<1>1. \A s \in SUBSET T : IsFiniteSet(s) /\ Cardinality(s) \in Nat
  BY FS_Subset, FS_CardinalityType
<1>2. ASSUME B # {} PROVE FALSE
  <2>1. PICK m \in B : \A k \in B : ~(k < m)
    BY <1>2, LeastOf
  <2>2. PICK s \in SUBSET T : Cardinality(s) = m /\ F[s] # G[s]
    BY <2>1
  <2>3. F[s] = IF s = {} THEN 0 ELSE g[Pick(s)] + F[s \ {Pick(s)}]
    BY DEF SumFn
  <2>4. G[s] = IF s = {} THEN 0 ELSE h[Pick(s)] + G[s \ {Pick(s)}]
    BY DEF SumFn
  <2>5. s # {}
    BY <2>2, <2>3, <2>4
  <2>6. /\ Pick(s) \in T /\ s \ {Pick(s)} \in SUBSET T
        /\ m \in Nat /\ Cardinality(s \ {Pick(s)}) = m - 1 /\ m # 0
    BY <1>1, <2>2, <2>5, PickIn
  <2>7. F[s \ {Pick(s)}] = G[s \ {Pick(s)}]
    <3>1. m - 1 \in Nat /\ m - 1 < m
      BY <2>6
    <3>2. m - 1 \notin B
      BY <2>1, <3>1
    <3>3. QED
      BY <2>6, <3>1, <3>2
  <2>8. QED
    BY <2>2, <2>3, <2>4, <2>5, <2>6, <2>7
<1>3. QED
  BY <1>1, <1>2

\* The sum over a subset does not depend on the set the recursion is on.
LEMMA SumIs ==
  ASSUME NEW S, IsFiniteSet(S), NEW T \in SUBSET S, NEW g, NEW F, SumFn(F, g, SUBSET S)
  PROVE  SumTo(g, T) = F[T]
<1> DEFINE G == CHOOSE G : SumFn(G, g, SUBSET T)
<1>1. IsFiniteSet(T)
  BY FS_Subset
<1>2. SumFn(G, g, SUBSET T)
  BY <1>1, SumFnExists
<1>3. SumTo(g, T) = G[T]
  BY DEF SumTo
<1> HIDE DEF G
<1>4. \A s \in SUBSET T : F[s] = G[s]
  BY <1>2, SumFnAgree
<1>5. QED
  BY <1>3, <1>4

\* The sum depends on the values in the set only.
LEMMA SumAgree ==
  ASSUME NEW S, IsFiniteSet(S), NEW g, NEW h, \A x \in S : g[x] = h[x]
  PROVE  SumTo(g, S) = SumTo(h, S)
<1>1. PICK F : SumFn(F, g, SUBSET S)
  BY SumFnExists
<1>2. PICK G : SumFn(G, h, SUBSET S)
  BY SumFnExists
<1>3. F[S] = G[S]
  BY <1>1, <1>2, SumFnAgree
<1>4. SumTo(g, S) = F[S]
  BY <1>1, SumIs
<1>5. SumTo(h, S) = G[S]
  BY <1>2, SumIs
<1>6. QED
  BY <1>3, <1>4, <1>5

\* The recursion as an equation.
LEMMA SumPick ==
  ASSUME NEW S, IsFiniteSet(S), NEW g
  PROVE  SumTo(g, S) = IF S = {} THEN 0 ELSE g[Pick(S)] + SumTo(g, S \ {Pick(S)})
<1>1. PICK F : SumFn(F, g, SUBSET S)
  BY SumFnExists
<1>2. SumTo(g, S) = F[S]
  BY <1>1, SumIs
<1>3. SumTo(g, S \ {Pick(S)}) = F[S \ {Pick(S)}]
  BY <1>1, SumIs
<1>4. F[S] = IF S = {} THEN 0 ELSE g[Pick(S)] + F[S \ {Pick(S)}]
  BY <1>1 DEF SumFn
<1>5. QED
  BY <1>2, <1>3, <1>4

\* Any element can be taken out of a sum first.
LEMMA SumRemove ==
  ASSUME NEW S, IsFiniteSet(S), NEW g, \A x \in S : g[x] \in Int
  PROVE  /\ SumTo(g, S) \in Int
         /\ \A x \in S : SumTo(g, S) = g[x] + SumTo(g, S \ {x})
<1> DEFINE Right(s) == /\ SumTo(g, s) \in Int
                       /\ \A x \in s : SumTo(g, s) = g[x] + SumTo(g, s \ {x})
           B == {n \in Nat : \E s \in SUBSET S : Cardinality(s) = n /\ ~Right(s)}
<1>1. \A s \in SUBSET S : IsFiniteSet(s) /\ Cardinality(s) \in Nat
  BY FS_Subset, FS_CardinalityType
<1>2. ASSUME B # {} PROVE FALSE
  <2>1. PICK m \in B : \A k \in B : ~(k < m)
    BY <1>2, LeastOf
  <2>2. PICK s \in SUBSET S : Cardinality(s) = m /\ ~Right(s)
    BY <2>1
  <2> HIDE DEF Right
  <2>3. \A r \in SUBSET S : Cardinality(r) < m => Right(r)
    BY <1>1, <2>1
  <2>4. SumTo(g, s) = IF s = {} THEN 0 ELSE g[Pick(s)] + SumTo(g, s \ {Pick(s)})
    BY <1>1, SumPick
  <2>5. CASE s = {}
    BY <2>2, <2>4, <2>5 DEF Right
  <2>6. CASE s # {}
    <3> DEFINE c == Pick(s)
    <3>1. \A x \in s : /\ s \ {x} \in SUBSET S /\ Cardinality(s \ {x}) < m
      <4>1. SUFFICES ASSUME NEW x \in s PROVE Cardinality(s \ {x}) < m
        OBVIOUS
      <4>2. Cardinality(s \ {x}) = Cardinality(s) - 1 /\ Cardinality(s) \in Nat
        BY <1>1, FS_RemoveElement
      <4>3. QED
        BY <2>2, <4>2
    <3>2. \A x \in s : Right(s \ {x})
      BY <2>3, <3>1
    <3>3. c \in s /\ \A x \in s : g[x] \in Int
      BY <1>1, <2>6, PickIn
    <3>4. SumTo(g, s) = g[c] + SumTo(g, s \ {c}) /\ SumTo(g, s \ {c}) \in Int
      BY <2>4, <2>6, <3>2, <3>3 DEF Right
    <3>5. ASSUME NEW x \in s PROVE SumTo(g, s) = g[x] + SumTo(g, s \ {x})
      <4>1. CASE x = c
        BY <3>4, <4>1
      <4>2. CASE x # c
        <5>1. x \in s \ {c} /\ c \in s \ {x}
          BY <3>3, <4>2
        <5>2. SumTo(g, s \ {c}) = g[x] + SumTo(g, (s \ {c}) \ {x})
          BY <3>2, <3>3, <5>1 DEF Right
        <5>3. SumTo(g, s \ {x}) = g[c] + SumTo(g, (s \ {x}) \ {c})
          BY <3>2, <5>1 DEF Right
        <5>4. SumTo(g, (s \ {c}) \ {x}) = SumTo(g, (s \ {x}) \ {c})
          <6>1. (s \ {c}) \ {x} = (s \ {x}) \ {c}
            OBVIOUS
          <6>2. QED
            BY <6>1
        <5>5. (s \ {c}) \ {x} \in SUBSET S /\ Cardinality((s \ {c}) \ {x}) < m
          <6>1. IsFiniteSet(s \ {c}) /\ Cardinality(s \ {c}) \in Nat
            BY <1>1
          <6>2. Cardinality((s \ {c}) \ {x}) = Cardinality(s \ {c}) - 1
            BY <5>1, <6>1, FS_RemoveElement
          <6>3. Cardinality(s \ {c}) < m
            BY <3>1, <3>3
          <6>4. m \in Nat
            OBVIOUS
          <6>5. QED
            BY <6>1, <6>2, <6>3, <6>4
        <5>6. SumTo(g, (s \ {c}) \ {x}) \in Int
          BY <2>3, <5>5 DEF Right
        <5>7. g[x] \in Int /\ g[c] \in Int
          BY <3>3
        <5>8. QED
          BY <3>4, <5>2, <5>3, <5>4, <5>6, <5>7
      <4>3. QED
        BY <4>1, <4>2
    <3>6. Right(s)
      BY <3>3, <3>4, <3>5 DEF Right
    <3>7. QED
      BY <2>2, <3>6
  <2>7. QED
    BY <2>5, <2>6
<1>3. Right(S)
  BY <1>1, <1>2
<1>4. QED
  BY <1>3

\* A sum changes by what one of its summands does.
LEMMA SumChange ==
  ASSUME NEW S, IsFiniteSet(S), NEW x \in S, NEW g, NEW h,
         \A y \in S : g[y] \in Int /\ h[y] \in Int /\ (y # x => g[y] = h[y])
  PROVE  SumTo(h, S) = SumTo(g, S) + h[x] - g[x]
<1>1. SumTo(g, S \ {x}) = SumTo(h, S \ {x})
  BY FS_RemoveElement, SumAgree
<1>2. /\ SumTo(g, S) = g[x] + SumTo(g, S \ {x})
      /\ SumTo(h, S) = h[x] + SumTo(h, S \ {x})
  BY SumRemove
<1>3. SumTo(g, S \ {x}) \in Int
  BY FS_RemoveElement, SumRemove
<1>4. QED
  BY <1>1, <1>2, <1>3

-----------------------------------------------------------------------------
(* What main has counted and what is still to be collected                 *)

\* What a worker holds of the count.
Share == [i \in Workers |-> args[i].result + (IF pc[i] = "return" THEN local[i].found ELSE 0)]

\* The recursion in Credit, which is that of the sum of the shares.
CreditFn(F, D) ==
  F = [s \in D |->
         IF s = {} THEN 0
         ELSE args[Pick(s)].result
                + (IF pc[Pick(s)] = "return" THEN local[Pick(s)].found ELSE 0)
                + F[s \ {Pick(s)}]]

LEMMA ShareFn ==
  ASSUME NEW D \in SUBSET (SUBSET Workers), NEW F
  PROVE  CreditFn(F, D) <=> SumFn(F, Share, D)
<1>1. \A s \in D : s # {} => Pick(s) \in Workers
  BY DEF Pick
<1>2. QED
  BY <1>1 DEF CreditFn, SumFn, Share

LEMMA CreditIs == Credit = num + SumTo(Share, Uncollected)
<1> DEFINE D == SUBSET Uncollected
<1>1. D \in SUBSET (SUBSET Workers)
  BY DEF Uncollected
<1>2. Credit = num + (CHOOSE F : CreditFn(F, D))[Uncollected]
  BY DEF Credit, CreditFn, MapThenSumSet, MapThenFoldSet, Pick
<1>3. SumTo(Share, Uncollected) = (CHOOSE F : SumFn(F, Share, D))[Uncollected]
  BY DEF SumTo
<1> HIDE DEF D
<1>4. \A F : CreditFn(F, D) <=> SumFn(F, Share, D)
  BY <1>1, ShareFn
<1>5. (CHOOSE F : CreditFn(F, D)) = (CHOOSE F : SumFn(F, Share, D))
  BY <1>4
<1>6. QED
  BY <1>2, <1>3, <1>5

LEMMA CreditIsNext == Credit' = num' + SumTo(Share', Uncollected')
<1>1. (Credit = num + SumTo(Share, Uncollected))'
  BY CreditIs, PTL
<1>2. QED
  BY <1>1

\* A thread at work has counted nothing before it returns, and its slot holds no
\* result, since main collects the last one before it fills the slot.
CountInv ==
  /\ \A i \in Handling : /\ args[i].result = 0
                         /\ pc[i] # "return" => local[i].found = 0
  /\ pc[Main] \in {"look", "spawn"} \cup RemoveSteps => args[slot].result = 0
  /\ pc[Main] = "empty" => slot = 1

\* What a step of handle_element leaves alone, and what it counts.
LEMMA HandleEffect ==
  ASSUME IInv, NEW i \in Workers, HandleStep(i)
  PROVE  /\ i \in Handling /\ pc[i] # "return" /\ i \in Handling'
         /\ args' = args
         /\ \A t \in Threads : t # i => pc'[t] = pc[t] /\ local'[t] = local[t]
         /\ local'[i].found = IF Counts(i) THEN Yield(node[local[i].el]) ELSE local[i].found
<1> DEFINE Effect == /\ args' = args
                     /\ \A t \in Threads : t # i => pc'[t] = pc[t] /\ local'[t] = local[t]
                     /\ local'[i].found = IF Counts(i) THEN Yield(node[local[i].el])
                                          ELSE local[i].found
                     /\ pc[i] \in (HandleSteps \cup InsertSteps) \ {"return"}
                     /\ pc'[i] \in HandleSteps \cup InsertSteps
<1>0. /\ i \in Threads /\ pc \in [Threads -> Steps] /\ local \in [Threads -> Locals]
  BY Numbers DEF IInv, StateOK
<1>1. ASSUME Stat(i) PROVE Effect
  BY <1>0, <1>1 DEF Stat, At, Goto, Counts, Locals, HandleSteps, InsertSteps
<1>2. ASSUME Read(i) PROVE Effect
  BY <1>0, <1>2 DEF Read, At, Goto, Counts, Locals, HandleSteps, InsertSteps
<1>3. ASSUME SkipDot(i) PROVE Effect
  BY <1>0, <1>3 DEF SkipDot, At, Goto, Counts, Locals, HandleSteps, InsertSteps
<1>4. ASSUME SkipDotDot(i) PROVE Effect
  BY <1>0, <1>4 DEF SkipDotDot, At, Goto, Counts, Locals, HandleSteps, InsertSteps
<1>5. ASSUME Name(i) PROVE Effect
  BY <1>0, <1>5 DEF Name, At, Goto, Counts, Locals, HandleSteps, InsertSteps
<1>6. ASSUME Insert(i) PROVE Effect
  BY <1>0, <1>6 DEF Insert, At, Goto, Counts, Locals, HandleSteps, InsertSteps
<1>7. ASSUME SetHead(i) PROVE Effect
  BY <1>0, <1>7 DEF SetHead, At, Goto, Counts, Locals, HandleSteps, InsertSteps
<1>8. ASSUME GetTail(i) PROVE Effect
  BY <1>0, <1>8 DEF GetTail, At, Goto, Counts, Locals, HandleSteps, InsertSteps
<1>9. ASSUME Link(i) PROVE Effect
  BY <1>0, <1>9 DEF Link, At, Goto, Counts, Locals, HandleSteps, InsertSteps
<1>10. ASSUME GetNext(i) PROVE Effect
  BY <1>0, <1>10 DEF GetNext, At, Goto, Counts, Locals, HandleSteps, InsertSteps
<1>11. ASSUME SetTail(i) PROVE Effect
  BY <1>0, <1>11 DEF SetTail, At, Goto, Counts, Locals, HandleSteps, InsertSteps
<1>12. Effect
  BY <1>1, <1>2, <1>3, <1>4, <1>5, <1>6, <1>7, <1>8, <1>9, <1>10, <1>11 DEF HandleStep
<1>13. QED
  BY <1>12 DEF Handling

LEMMA HandleCount ==
  ASSUME IInv, CountInv, NEW i \in Workers, HandleStep(i), UNCHANGED mainVars
  PROVE  CountInv'
<1>1. /\ i \in Handling /\ pc[i] # "return" /\ i \in Handling'
      /\ args' = args
      /\ \A t \in Threads : t # i => pc'[t] = pc[t] /\ local'[t] = local[t]
      /\ local'[i].found = IF Counts(i) THEN Yield(node[local[i].el]) ELSE local[i].found
  BY HandleEffect
<1>2. \A j \in Workers : j \in Threads /\ j # Main
  BY Numbers
<1>3. pc'[Main] = pc[Main] /\ slot' = slot
  BY <1>1, <1>2, Numbers DEF mainVars
<1>4. ASSUME NEW j \in Handling'
      PROVE  args'[j].result = 0 /\ (pc'[j] # "return" => local'[j].found = 0)
  <2>1. CASE j = i
    BY <1>1, <2>1 DEF CountInv, Counts
  <2>2. CASE j # i
    BY <1>1, <1>2, <2>2 DEF CountInv, Handling
  <2>3. QED
    BY <2>1, <2>2
<1>5. QED
  BY <1>1, <1>3, <1>4 DEF CountInv

LEMMA OthersCount ==
  ASSUME IInv, CountInv, MainStep \/ \E i \in Workers : Store(i) \/ Stop(i)
  PROVE  CountInv'
<1>0. \A j \in Workers : j \in Threads /\ j # Main
  BY Numbers
<1>1. ASSUME NEW i \in Workers, Store(i) PROVE CountInv'
  <2>1. /\ pc[i] = "return" /\ i \in Threads /\ i # Main /\ slot' = slot
        /\ \A t \in Threads : pc'[t] = IF t = i THEN "stop" ELSE pc[t]
        /\ \A t \in Threads : t # i => local'[t] = local[t]
        /\ \A j \in Workers : j # i => args'[j] = args[j]
    BY <1>1, Numbers DEF Store, At, Goto, IInv, StateOK, mainVars
  <2>2. i \notin Handling' /\ \A j \in Handling' : j \in Handling /\ j # i
    BY <1>0, <2>1 DEF Handling, HandleSteps, InsertSteps
  <2>3. pc[Main] \in {"look", "spawn"} \cup RemoveSteps => slot \in Workers /\ slot # i
    BY <2>1 DEF IInv, Roles
  <2>4. QED
    BY <1>0, <2>1, <2>2, <2>3, Numbers DEF CountInv, Handling
<1>2. ASSUME NEW i \in Workers, Stop(i) PROVE CountInv'
  <2>1. /\ pc[i] = "stop" /\ i \in Threads /\ i # Main /\ slot' = slot /\ local' = local
        /\ \A t \in Threads : pc'[t] = IF t = i THEN "off" ELSE pc[t]
        /\ \A j \in Workers : args'[j].result = args[j].result
    BY <1>2, Numbers DEF Stop, At, Goto, IInv, StateOK, mainVars, Args
  <2>2. \A j \in Handling' : j \in Handling /\ j # i
    BY <1>0, <2>1 DEF Handling, HandleSteps, InsertSteps
  <2>3. pc[Main] \in {"look", "spawn"} \cup RemoveSteps => slot \in Workers
    BY DEF IInv, Roles
  <2>4. QED
    BY <1>0, <2>1, <2>2, <2>3, Numbers DEF CountInv, Handling
<1>3. CASE Test \/ Empty \/ Scan \/ Look \/ Sum
  <2>1. /\ local' = local /\ args' = args
        /\ \A j \in Workers : pc'[j] = pc[j]
    BY <1>0, <1>3 DEF Test, Empty, Scan, Look, Sum, Goto, IInv, StateOK
  <2>2. /\ pc'[Main] = "look" => FALSE
        /\ pc'[Main] = "empty" => slot' = 1
        /\ pc'[Main] \in {"spawn"} \cup RemoveSteps => pc[Main] = "look" /\ slot' = slot
    BY <1>3, Numbers DEF Test, Empty, Scan, Look, Sum, At, Goto, IInv, StateOK, RemoveSteps, mainVars
  <2>3. QED
    BY <2>1, <2>2 DEF CountInv, Handling
<1>4. CASE Collect
  <2>1. /\ local' = local /\ slot' = slot /\ slot \in Workers /\ ~args[slot].is_running
        /\ \A j \in Workers : pc'[j] = pc[j]
        /\ \A j \in Workers : args'[j].result = IF j = slot THEN 0 ELSE args[j].result
        /\ pc'[Main] = "look"
    BY <1>0, <1>4, Numbers DEF Collect, At, Goto, IInv, StateOK, Roles, Args
  <2>2. QED
    BY <2>1 DEF CountInv, Handling
<1>5. CASE (Take(Main) \/ Follow(Main) \/ Advance(Main, "spawn")) /\ UNCHANGED mainVars
  <2>1. /\ args' = args /\ pc[Main] \in RemoveSteps
        /\ \A j \in Workers : pc'[j] = pc[j] /\ local'[j] = local[j]
        /\ pc'[Main] # "empty"
    BY <1>0, <1>5, Numbers DEF Take, Follow, Advance, At, Goto, IInv, StateOK, RemoveSteps
  <2>2. slot' = slot
    BY <1>5 DEF mainVars
  <2>3. QED
    BY <2>1, <2>2 DEF CountInv, Handling
<1>6. CASE Spawn
  <2>1. /\ pc[Main] = "spawn" /\ slot \in Workers /\ slot' = slot
        /\ \A j \in Workers : args'[j].result = args[j].result
        /\ pc'[Main] = "test" /\ local'[slot].found = 0
        /\ \A j \in Workers : j # slot => pc'[j] = pc[j] /\ local'[j] = local[j]
    BY <1>0, <1>6, Numbers DEF Spawn, At, IInv, StateOK, Roles, Args, mainVars, Fresh
  <2>2. args[slot].result = 0
    BY <2>1 DEF CountInv
  <2>3. QED
    BY <2>1, <2>2 DEF CountInv, Handling, RemoveSteps
<1>7. QED
  BY <1>1, <1>2, <1>3, <1>4, <1>5, <1>6 DEF MainStep

LEMMA InitCount == Init => CountInv
<1>1. Init => Handling = {} /\ pc[Main] = "test"
  BY Numbers DEF Init, Handling, HandleSteps, InsertSteps
<1>2. QED
  BY <1>1 DEF CountInv, RemoveSteps

LEMMA NextCount == IInv /\ CountInv /\ [Next]_vars => CountInv'
<1>1. ASSUME CountInv, UNCHANGED vars PROVE CountInv'
  BY <1>1 DEF CountInv, Handling, vars, grepVars, mainVars
<1>2. ASSUME IInv, CountInv, NEW i \in Workers, WorkerStep(i) PROVE CountInv'
  BY <1>2, HandleCount, OthersCount DEF WorkerStep
<1>3. ASSUME IInv, CountInv, MainStep PROVE CountInv'
  BY <1>3, OthersCount
<1>4. QED
  BY <1>1, <1>2, <1>3 DEF Next

-----------------------------------------------------------------------------
(* What each step adds to the credit                                       *)

LEMMA ShareInt == IInv => \A i \in Workers : Share[i] \in Int
<1>1. IInv => \A i \in Workers : args[i].result \in Int /\ local[i].found \in Int
  BY Numbers DEF IInv, StateOK, Args, Locals
<1>2. QED
  BY <1>1 DEF Share

LEMMA ShareIntNext == IInv' => \A i \in Workers : Share'[i] \in Int
<1>1. (IInv => \A i \in Workers : Share[i] \in Int)'
  BY ShareInt, PTL
<1>2. QED
  BY <1>1

LEMMA ShareType ==
  ASSUME IInv
  PROVE  /\ \A i \in Workers : Share[i] \in Int
         /\ num \in Int /\ IsFiniteSet(Uncollected) /\ Uncollected \subseteq Workers
<1>1. IsFiniteSet(Workers)
  BY Numbers, FS_Interval DEF Workers
<1>2. QED
  BY <1>1, ShareInt, FS_Subset DEF Uncollected, IInv, StateOK

\* The credit changes by what one worker's share does, if it changes.
LEMMA SameCredit ==
  ASSUME IInv, num' = num, Uncollected' = Uncollected,
         \A i \in Workers : Share'[i] = Share[i]
  PROVE  Credit' = Credit
<1>1. \A i \in Uncollected : Share[i] = Share'[i]
  BY ShareType
<1>2. SumTo(Share, Uncollected) = SumTo(Share', Uncollected)
  BY <1>1, ShareType, SumAgree
<1>3. QED
  BY <1>2, CreditIs, CreditIsNext

LEMMA MoreCredit ==
  ASSUME IInv, IInv', num' = num, Uncollected' = Uncollected, NEW k \in Uncollected, NEW n \in Int,
         \A i \in Workers : i # k => Share'[i] = Share[i],
         Share'[k] = Share[k] + n
  PROVE  Credit' = Credit + n
<1>1. /\ \A i \in Workers : Share[i] \in Int
      /\ num \in Int /\ IsFiniteSet(Uncollected) /\ Uncollected \subseteq Workers
  BY ShareType
<1>2. \A i \in Workers : Share'[i] \in Int
  BY ShareIntNext
<1>3. SumTo(Share', Uncollected) = SumTo(Share, Uncollected) + Share'[k] - Share[k]
  BY <1>1, <1>2, SumChange
<1>4. SumTo(Share, Uncollected) \in Int
  BY <1>1, SumRemove
<1>5. QED
  BY <1>1, <1>3, <1>4, CreditIs, CreditIsNext

\* CountedOnce, of one step.
CreditStep ==
  /\ \A i \in Workers : Counts(i) => Credit' = Credit + Yield(node[local[i].el])
  /\ (\A i \in Workers : ~Counts(i)) => Credit' = Credit

\* A thread that has work left is not yet collected.
LEMMA AtWork ==
  ASSUME IInv, NEW i \in Workers, pc[i] # "off"
  PROVE  i \in Uncollected /\ pc[Main] \notin {"sum", "done"}
BY DEF IInv, Roles, Leaving, Uncollected

LEMMA HandleCredit ==
  ASSUME IInv, IInv', CountInv, NEW i \in Workers, HandleStep(i), UNCHANGED mainVars
  PROVE  CreditStep
<1>1. /\ i \in Handling /\ pc[i] # "return" /\ i \in Handling'
      /\ args' = args
      /\ \A t \in Threads : t # i => pc'[t] = pc[t] /\ local'[t] = local[t]
      /\ local'[i].found = IF Counts(i) THEN Yield(node[local[i].el]) ELSE local[i].found
  BY HandleEffect
<1>2. \A j \in Workers : j \in Threads /\ j # Main
  BY Numbers
<1>3. pc'[Main] = pc[Main] /\ slot' = slot /\ num' = num
  BY <1>1, <1>2, Numbers DEF mainVars
<1>4. Uncollected' = Uncollected
  BY <1>3 DEF Uncollected
<1>5. \A j \in Workers : j # i => Share'[j] = Share[j] /\ ~Counts(j)
  BY <1>1, <1>2 DEF Share, Counts
<1>6. i \in Uncollected
  BY <1>1, AtWork DEF Handling, HandleSteps, InsertSteps
<1>7. Share[i] = args[i].result + 0 /\ args[i].result = 0 /\ local[i].found = 0
  BY <1>1 DEF Share, CountInv
<1>8. CASE Counts(i)
  <2>1. Share'[i] = args[i].result + Yield(node[local[i].el])
    BY <1>1, <1>8 DEF Share, Counts
  <2>2. Yield(node[local[i].el]) \in Int
    <3>1. local'[i] \in Locals
      BY <1>2 DEF IInv, StateOK
    <3>2. QED
      BY <3>1, <1>1, <1>8 DEF Locals
  <2>3. Share'[i] = Share[i] + Yield(node[local[i].el])
    BY <1>7, <2>1, <2>2
  <2>4. Credit' = Credit + Yield(node[local[i].el])
    BY <1>3, <1>4, <1>5, <1>6, <2>2, <2>3, MoreCredit
  <2>5. QED
    BY <1>5, <1>8, <2>4 DEF CreditStep
<1>9. CASE ~Counts(i)
  <2>1. Share'[i] = Share[i]
    BY <1>1, <1>7, <1>9 DEF Share
  <2>2. Credit' = Credit
    BY <1>3, <1>4, <1>5, <2>1, SameCredit
  <2>3. QED
    BY <1>5, <1>9, <2>2 DEF CreditStep
<1>10. QED
  BY <1>8, <1>9

LEMMA WrapperCredit ==
  ASSUME IInv, CountInv, NEW i \in Workers, Store(i) \/ Stop(i)
  PROVE  CreditStep
<1>1. /\ \A t \in Threads : t # i => pc'[t] = pc[t] /\ local'[t] = local[t]
      /\ \A j \in Workers : j # i => args'[j] = args[j]
      /\ i \in Threads /\ i # Main /\ slot' = slot /\ num' = num
  BY Numbers DEF Store, Stop, Goto, IInv, StateOK, mainVars
<1>2. \A j \in Workers : j \in Threads /\ j # Main
  BY Numbers
<1>3. pc'[Main] = pc[Main]
  BY <1>1, Numbers
<1>4. Uncollected' = Uncollected
  BY <1>1, <1>3 DEF Uncollected
<1>5. \A j \in Workers : j # i => Share'[j] = Share[j] /\ ~Counts(j)
  BY <1>1, <1>2 DEF Share, Counts
<1>6. Share'[i] = Share[i] /\ ~Counts(i)
  <2>0. local[i].found \in Int /\ args[i].result \in Int
    BY <1>1 DEF IInv, StateOK, Locals, Args
  <2>1. CASE Store(i)
    <3>1. pc[i] = "return" /\ pc'[i] = "stop" /\ args'[i].result = local[i].found
      BY <2>1, <1>1 DEF Store, At, Goto, IInv, StateOK, Args
    <3>2. args[i].result = 0
      BY <3>1 DEF CountInv, Handling, HandleSteps
    <3>3. QED
      BY <2>0, <3>1, <3>2 DEF Share, Counts
  <2>2. CASE Stop(i)
    <3>1. pc[i] = "stop" /\ pc'[i] = "off" /\ args'[i].result = args[i].result
      BY <2>2, <1>1 DEF Stop, At, Goto, IInv, StateOK, Args
    <3>2. QED
      BY <3>1 DEF Share, Counts
  <2>3. QED
    BY <2>1, <2>2
<1>7. QED
  BY <1>1, <1>4, <1>5, <1>6, SameCredit DEF CreditStep

\* A step of main moves a result or leaves all as it is.
LEMMA MainCredit ==
  ASSUME IInv, IInv', CountInv, MainStep
  PROVE  CreditStep
<1>0. \A j \in Workers : j \in Threads /\ j # Main
  BY Numbers
<1>1. \A j \in Workers : ~Counts(j)
  <2>1. \A j \in Workers : pc'[j] # "return" \/ pc'[j] = pc[j]
    BY <1>0 DEF MainStep, Test, Empty, Scan, Collect, Look, Take, Follow, Advance, Spawn, Sum,
                Goto, IInv, StateOK
  <2>2. QED
    BY <2>1 DEF Counts
<1>2. SUFFICES Credit' = Credit
  BY <1>1 DEF CreditStep
<1>3. CASE Test \/ Empty \/ Scan \/ Look
  <2>1. /\ local' = local /\ args' = args /\ num' = num
        /\ \A j \in Workers : pc'[j] = pc[j]
    BY <1>0, <1>3 DEF Test, Empty, Scan, Look, Goto, IInv, StateOK, mainVars
  <2>2. pc[Main] \notin {"sum", "done"} /\ pc'[Main] # "done"
        /\ (pc'[Main] = "sum" => slot' = 1)
    BY <1>3, Numbers DEF Test, Empty, Scan, Look, At, Goto, IInv, StateOK, mainVars, CountInv
  <2>3. Uncollected' = Uncollected
    BY <2>2, Numbers DEF Uncollected, Workers
  <2>4. \A j \in Workers : Share'[j] = Share[j]
    BY <2>1 DEF Share
  <2>5. QED
    BY <2>1, <2>3, <2>4, SameCredit
<1>4. CASE (Take(Main) \/ Follow(Main) \/ Advance(Main, "spawn")) /\ UNCHANGED mainVars
  <2>1. /\ args' = args /\ num' = num
        /\ \A j \in Workers : pc'[j] = pc[j] /\ local'[j] = local[j]
        /\ pc[Main] \notin {"sum", "done"} /\ pc'[Main] \notin {"sum", "done"}
    BY <1>0, <1>4, Numbers DEF Take, Follow, Advance, At, Goto, IInv, StateOK, mainVars
  <2>2. Uncollected' = Uncollected
    BY <2>1 DEF Uncollected
  <2>3. \A j \in Workers : Share'[j] = Share[j]
    BY <2>1 DEF Share
  <2>4. QED
    BY <2>1, <2>2, <2>3, SameCredit
<1>5. CASE Spawn
  <2>1. /\ num' = num /\ slot \in Workers /\ pc[slot] = "off"
        /\ \A j \in Workers : args'[j].result = args[j].result
        /\ pc[Main] = "spawn" /\ pc'[Main] = "test" /\ pc'[slot] = "stat"
        /\ \A j \in Workers : j # slot => pc'[j] = pc[j] /\ local'[j] = local[j]
    BY <1>0, <1>5, Numbers DEF Spawn, At, IInv, StateOK, Roles, Args, mainVars
  <2>2. Uncollected' = Uncollected
    BY <2>1 DEF Uncollected
  <2>3. \A j \in Workers : Share'[j] = Share[j]
    BY <2>1 DEF Share
  <2>4. QED
    BY <2>1, <2>2, <2>3, SameCredit
<1>6. CASE Collect
  <2>1. /\ num' = num + args[slot].result /\ slot \in Workers /\ pc[slot] = "off"
        /\ local' = local /\ \A j \in Workers : pc'[j] = pc[j]
        /\ \A j \in Workers : args'[j].result = IF j = slot THEN 0 ELSE args[j].result
        /\ pc[Main] = "collect" /\ pc'[Main] = "look"
    BY <1>0, <1>6, Numbers DEF Collect, At, Goto, IInv, StateOK, Roles, Args
  <2>2. Uncollected' = Workers /\ Uncollected = Workers
    BY <2>1 DEF Uncollected
  <2>3. /\ Share[slot] = args[slot].result + 0 /\ Share'[slot] = 0 + 0
        /\ \A j \in Workers : j # slot => Share'[j] = Share[j]
    BY <2>1 DEF Share
  <2>4. /\ \A j \in Workers : Share[j] \in Int /\ Share'[j] \in Int
        /\ IsFiniteSet(Workers) /\ num \in Int /\ args[slot].result \in Int
    <3>1. \A j \in Workers : Share[j] \in Int
      BY ShareType
    <3>2. args[slot].result \in Int
      BY <2>1 DEF IInv, StateOK, Args
    <3>3. QED
      BY <2>2, <2>3, <3>1, <3>2, ShareType
  <2>5. SumTo(Share', Workers) = SumTo(Share, Workers) + Share'[slot] - Share[slot]
    BY <2>1, <2>3, <2>4, SumChange
  <2>6. SumTo(Share, Workers) \in Int
    BY <2>4, SumRemove
  <2>7. QED
    BY <2>1, <2>2, <2>3, <2>4, <2>5, <2>6, CreditIs, CreditIsNext
<1>7. CASE Sum
  <2>1. /\ local' = local /\ args' = args /\ pc[Main] = "sum"
        /\ \A j \in Workers : pc'[j] = pc[j] /\ pc[j] = "off"
    BY <1>0, <1>7 DEF Sum, At, Goto, IInv, StateOK, Roles, Leaving
  <2>2. \A j \in Workers : Share'[j] = Share[j]
    BY <2>1 DEF Share
  <2>3. CASE slot \in Workers
    <3>1. num' = num + args[slot].result /\ slot' = slot + 1 /\ pc'[Main] = "sum"
      BY <1>7, <2>1, <2>3 DEF Sum
    <3>2. Uncollected = {j \in Workers : ~(j < slot)} /\ slot \in Uncollected
      BY <2>1, <2>3, Numbers DEF Uncollected, Workers
    <3>3. Uncollected' = Uncollected \ {slot}
      BY <2>1, <2>3, <3>1, <3>2, Numbers DEF Uncollected, Workers
    <3>4. Share[slot] = args[slot].result + 0 /\ args[slot].result \in Int /\ num \in Int
      BY <2>1, <2>3 DEF Share, IInv, StateOK, Args
    <3>5. /\ SumTo(Share, Uncollected) = Share[slot] + SumTo(Share, Uncollected \ {slot})
          /\ SumTo(Share, Uncollected) \in Int
      BY <3>2, ShareType, SumRemove
    <3>6. SumTo(Share, Uncollected \ {slot}) = SumTo(Share', Uncollected \ {slot})
      <4>1. IsFiniteSet(Uncollected \ {slot}) /\ \A j \in Uncollected \ {slot} : Share[j] = Share'[j]
        BY <2>2, ShareType, FS_RemoveElement
      <4>2. QED
        BY <4>1, SumAgree
    <3>7. SumTo(Share, Uncollected \ {slot}) \in Int
      <4>1. IsFiniteSet(Uncollected \ {slot}) /\ \A j \in Uncollected \ {slot} : Share[j] \in Int
        BY ShareType, FS_RemoveElement
      <4>2. QED
        BY <4>1, SumRemove
    <3>8. QED
      BY <3>1, <3>3, <3>4, <3>5, <3>6, <3>7, CreditIs, CreditIsNext
  <2>4. CASE slot \notin Workers
    <3>1. num' = num /\ pc'[Main] = "done" /\ slot \in 1..(NumThreads + 1)
      BY <1>7, <2>1, <2>4, Numbers DEF Sum, Goto, IInv, StateOK, mainVars
    <3>2. Uncollected = {} /\ Uncollected' = {}
      BY <2>1, <2>4, <3>1, Numbers DEF Uncollected, Workers
    <3>3. QED
      BY <2>2, <3>1, <3>2, SameCredit
  <2>5. QED
    BY <2>3, <2>4
<1>8. QED
  BY <1>3, <1>4, <1>5, <1>6, <1>7 DEF MainStep

\* Every count that handle_element returns is added once and never lost, by
\* whatever way of the stored result, the slot and main's two loops it goes.
THEOREM CountsAddedOnce == Spec => CountedOnce
<1>1. Init => IInv /\ CountInv
  BY InitIInv, InitCount
<1>2. IInv /\ CountInv /\ [Next]_vars => (IInv /\ CountInv)'
  BY NextKeeps, NextCount
<1>3. IInv /\ IInv' /\ CountInv /\ Next => CreditStep
  BY HandleCredit, WrapperCredit, MainCredit DEF Next, WorkerStep
<1>4. QED
  BY <1>1, <1>2, <1>3, PTL DEF Spec, CountedOnce, CreditStep

-----------------------------------------------------------------------------
(* Chain finds all that Reach does, and what the queue operations make of  *)
(* a chain.                                                                *)

\* A walk that grows with every step has passed every element in the end.
LEMMA WalkGrows ==
  ASSUME next \in [Elements -> Pointers], NEW p \in Elements, NEW R,
         Walked(R, p, MaxElements)
  PROVE  /\ R[MaxElements] \subseteq Elements /\ p \in R[MaxElements]
         /\ Closed(next, R[MaxElements])
<1> DEFINE n == MaxElements
           Full(k) == /\ R[k] \subseteq Elements /\ p \in R[k]
                      /\ Closed(next, R[k]) \/ Cardinality(R[k]) > k
           B == {k \in 0..n : ~Full(k)}
<1>1. /\ n \in Nat /\ R[0] = {p} \ {NULL}
      /\ \A k \in 0..n : k # 0 => R[k] = R[k-1] \cup ({next[e] : e \in R[k-1]} \ {NULL})
  <2>1. R = [k \in 0..n |-> IF k = 0 THEN {p} \ {NULL}
                            ELSE R[k-1] \cup ({next[e] : e \in R[k-1]} \ {NULL})]
    BY DEF Walked
  <2>2. n \in Nat /\ 0 \in 0..n
    BY Numbers
  <2> DEFINE More(T) == T \cup ({next[e] : e \in T} \ {NULL})
  <2>3. R = [k \in 0..n |-> IF k = 0 THEN {p} \ {NULL} ELSE More(R[k-1])]
    BY <2>1
  <2> HIDE DEF More, n
  <2>4. R[0] = {p} \ {NULL} /\ \A k \in 0..n : k # 0 => R[k] = More(R[k-1])
    BY <2>2, <2>3
  <2> QED BY <2>2, <2>4 DEF More
<1>2. IsFiniteSet(Elements) /\ Cardinality(Elements) = n
  <2>1. IsFiniteSet(1..n) /\ Cardinality(1..n) = IF 1 > n THEN 0 ELSE n - 1 + 1
    BY <1>1, FS_Interval
  <2> QED BY <1>1, <2>1 DEF Elements
<1>3. ASSUME B # {} PROVE FALSE
  <2>1. B \in SUBSET Nat
    BY <1>1
  <2>2. PICK m \in B : \A k \in B : ~(k < m)
    BY <1>3, <2>1, LeastOf
  <2>3. CASE m = 0
    <3>1. R[0] = {p}
      BY <1>1, Numbers
    <3>2. Cardinality(R[0]) = 1
      BY <3>1, FS_Singleton
    <3>3. Cardinality(R[0]) > 0
      BY <3>2
    <3> QED BY <2>2, <2>3, <3>1, <3>3
  <2>4. CASE m # 0
    <3>1. m \in 0..n /\ m - 1 \in 0..n /\ m - 1 < m
      BY <1>1, <2>2, <2>4
    <3>2. Full(m - 1)
      BY <2>2, <3>1
    <3>3. R[m] = R[m-1] \cup ({next[e] : e \in R[m-1]} \ {NULL})
      BY <1>1, <2>4, <3>1
    <3>4. R[m] \subseteq Elements /\ p \in R[m] /\ R[m-1] \subseteq R[m]
      BY <3>2, <3>3 DEF Pointers
    <3>5. CASE Closed(next, R[m-1])
      <4>1. R[m] = R[m-1]
        BY <3>3, <3>5 DEF Closed
      <4> QED BY <2>2, <3>4, <3>5, <4>1
    <3>6. CASE ~Closed(next, R[m-1])
      <4>1. PICK e \in R[m-1] : next[e] # NULL /\ next[e] \notin R[m-1]
        BY <3>6 DEF Closed
      <4>2. R[m-1] \cup {next[e]} \subseteq R[m]
        BY <3>3, <4>1
      <4>3. IsFiniteSet(R[m]) /\ IsFiniteSet(R[m-1])
        BY <1>2, <3>4, FS_Subset
      <4>4. /\ IsFiniteSet(R[m-1] \cup {next[e]})
            /\ Cardinality(R[m-1] \cup {next[e]}) = Cardinality(R[m-1]) + 1
        BY <4>1, <4>3, FS_AddElement
      <4>5. Cardinality(R[m-1] \cup {next[e]}) <= Cardinality(R[m])
        BY <4>2, <4>3, FS_Subset
      <4>6. Cardinality(R[m-1]) > m - 1
        BY <3>2, <3>6
      <4>7. Cardinality(R[m-1]) \in Nat /\ Cardinality(R[m]) \in Nat /\ m \in Nat
        BY <3>1, <1>1, <4>3, FS_CardinalityType
      <4>8. Cardinality(R[m]) > m
        BY <4>4, <4>5, <4>6, <4>7
      <4> QED BY <2>2, <3>4, <4>8
    <3> QED BY <3>5, <3>6
  <2> QED BY <2>3, <2>4
<1>4. Full(n)
  <2>1. n \in 0..n
    BY <1>1
  <2> QED BY <1>3, <2>1
<1>5. Cardinality(R[n]) <= n
  BY <1>2, <1>4, FS_Subset
<1>6. Cardinality(R[n]) \in Nat
  BY <1>2, <1>4, FS_Subset, FS_CardinalityType
<1>7. Closed(next, R[n])
  BY <1>1, <1>4, <1>5, <1>6
<1> QED BY <1>4, <1>7

LEMMA ChainIs ==
  ASSUME next \in [Elements -> Pointers], NEW p \in Pointers
  PROVE  Chain(p) = Reach(next, p)
<1>1. Chain(p) \subseteq Reach(next, p)
  BY ChainReach
<1>2. CASE p = NULL
  BY <1>1, <1>2, ReachHas
<1>3. CASE p \in Elements
  <2> DEFINE R == CHOOSE R : Walked(R, p, MaxElements)
  <2>1. Chain(p) = R[MaxElements]
    BY DEF Chain, Walked
  <2>2. Walked(R, p, MaxElements)
    BY Numbers, WalkedExists
  <2> HIDE DEF R
  <2>3. Chain(p) \in SUBSET Elements /\ p \in Chain(p) /\ Closed(next, Chain(p))
    BY <1>3, <2>1, <2>2, WalkGrows
  <2>4. Reach(next, p) \subseteq Chain(p)
    BY <2>3, ReachWithin
  <2> QED BY <1>1, <2>4
<1> QED BY <1>2, <1>3 DEF Pointers

\* A chain is its first element and what follows.
LEMMA ReachFirst ==
  ASSUME NEW nx \in [Elements -> Pointers], NEW p \in Elements
  PROVE  Reach(nx, p) = {p} \cup Reach(nx, nx[p])
<1> DEFINE S == {p} \cup Reach(nx, nx[p])
<1>1. nx[p] \in Pointers /\ p \in Pointers /\ p # NULL
  BY Numbers
<1>2. /\ Reach(nx, nx[p]) \subseteq Elements
      /\ nx[p] # NULL => nx[p] \in Reach(nx, nx[p])
      /\ Closed(nx, Reach(nx, nx[p]))
  BY <1>1, ReachHas
<1>3. S \in SUBSET Elements /\ p \in S \cup {NULL} /\ Closed(nx, S)
  BY <1>2 DEF Closed
<1>4. Reach(nx, p) \subseteq S
  BY <1>3, ReachWithin
<1>5. p \in Reach(nx, p) /\ Reach(nx, nx[p]) \subseteq Reach(nx, p)
  BY <1>1, ReachHas, ReachNext
<1> QED BY <1>4, <1>5

Linked(nx, l, n) == [nx EXCEPT ![l] = n]

\* Linking an element behind the last of a chain adds it.
LEMMA ReachAppend ==
  ASSUME NEW nx \in [Elements -> Pointers], NEW p \in Pointers, NEW n \in Elements,
         NEW l \in Reach(nx, p), l # n, nx[l] = NULL, nx[n] = NULL
  PROVE  Reach(Linked(nx, l, n), p) = Reach(nx, p) \cup {n}
<1> DEFINE nn == [nx EXCEPT ![l] = n]
           S == Reach(nn, p)
<1>1. l \in Elements /\ nn \in [Elements -> Pointers] /\ nn[l] = n /\ n # NULL
      /\ \A e \in Elements : e # l => nn[e] = nx[e]
  BY ReachHas, Numbers
<1>2. S \subseteq Reach(nx, p) \cup {n}
  BY <1>1, ReachLinked
<1> HIDE DEF nn
<1>3. S \in SUBSET Elements /\ p \in S \cup {NULL} /\ Closed(nn, S)
  BY <1>1, ReachHas
<1>4. Closed(nx, S)
  BY <1>1, <1>3 DEF Closed
<1>5. Reach(nx, p) \subseteq S
  BY <1>3, <1>4, ReachWithin
<1>6. n \in S
  BY <1>1, <1>3, <1>5 DEF Closed
<1> QED BY <1>2, <1>5, <1>6 DEF nn, Linked


-----------------------------------------------------------------------------
(* The tree as the searches leave it, when no two threads list at once.    *)

\* What a thread holds that has still to be handled, or to be found in the queue.
Holds(t) ==
  (IF pc[t] \in {"follow", "advance", "spawn", "stat"} THEN {local[t].el} ELSE {})
  \cup (IF pc[t] \in InsertSteps THEN {local[t].new} ELSE {})

\* The elements that have still to be handled.
Waiting == Reach(next, head[Main]) \cup UNION {Holds(t) : t \in Threads}

\* The names that a thread has still to follow of the directory it lists, and
\* what they lead to.
Unlisted(t) ==
  ToSet(local[t].unread) \cup (IF pc[t] \in {"dot", "dotdot", "name"} THEN {entry} ELSE {})
Owed(t) == IF pc[t] \in Reading THEN Entries(node[local[t].el], Unlisted(t)) ELSE {}

\* What the search knows of.
Known == {node[e] : e \in 1..used}

\* A thread that lists a directory has read none of its names twice.
Lists(t) ==
  /\ local[t].el \in 1..used /\ Listed(node[local[t].el])
  /\ IsInjective(local[t].unread)
  /\ Unlisted(t) \subseteq ToSet(Listing[node[local[t].el]])
  /\ pc[t] \in {"dot", "dotdot", "name"} => entry \notin ToSet(local[t].unread)
  /\ pc[t] \in {"dotdot", "name"} => entry # Dot
  /\ pc[t] = "name" => entry # DotDot
Reads(t) == IF pc[t] \in Reading THEN Lists(t) ELSE local[t].unread = <<>>

\* Each element stands for something else, and for something an earlier one reveals.
Planted ==
  /\ used # 0 /\ node[1] = Root
  /\ \A e, f \in 1..used : node[e] = node[f] => e = f
  /\ \A e \in 2..used : \E f \in 1..used : node[e] \in Revealed(node[f])

\* Nothing is known of what is still to be found.
Untouched ==
  /\ \A e \in Waiting : Revealed(node[e]) \cap Known = {}
  /\ \A t \in Threads : Owed(t) \cap Known = {}

\* What has been handled has left nothing behind.
Complete ==
  \A e \in (1..used) \ Waiting : \A x \in Revealed(node[e]) :
    x \in Known \/ \E t \in Threads : local[t].el = e /\ x \in Owed(t)

TreeInv ==
  /\ Waiting \subseteq 1..used
  /\ Planted /\ Untouched /\ Complete
  /\ \A t \in Threads : Reads(t)

\* The work that is left, and the files that have been counted.
Owing == UNION {Owed(t) : t \in Threads}
Todo == {node[e] : e \in Waiting} \cup Owing
Counted == {f \in Files \ Unreadable : \E e \in (1..used) \ Waiting : node[e] = f}

LEMMA HeadTail ==
  ASSUME NEW T, NEW s \in Seq(T), s # <<>>, IsInjective(s)
  PROVE  /\ Head(s) \in T /\ Tail(s) \in Seq(T)
         /\ ToSet(s) = {Head(s)} \cup ToSet(Tail(s))
         /\ Head(s) \notin ToSet(Tail(s))
         /\ IsInjective(Tail(s))
<1>1. /\ Len(s) \in Nat /\ Len(s) >= 1 /\ DOMAIN s = 1..Len(s)
      /\ Head(s) = s[1] /\ Tail(s) \in Seq(T)
      /\ Len(Tail(s)) = Len(s) - 1 /\ DOMAIN Tail(s) = 1..(Len(s) - 1)
  OBVIOUS
<1>2. \A k \in 1..(Len(s) - 1) : Tail(s)[k] = s[k+1]
  OBVIOUS
<1>3. \A k \in 1..(Len(s) - 1) : k + 1 \in 1..Len(s) /\ k + 1 # 1
  BY <1>1
<1>4. \A k \in 1..Len(s) : k # 1 => k - 1 \in 1..(Len(s) - 1) /\ (k - 1) + 1 = k
  BY <1>1
<1>5. 1 \in 1..Len(s)
  BY <1>1
<1>6. ToSet(s) \subseteq {Head(s)} \cup ToSet(Tail(s))
  <2>1. SUFFICES ASSUME NEW k \in 1..Len(s), k # 1 PROVE s[k] \in ToSet(Tail(s))
    BY <1>1 DEF ToSet
  <2>2. k - 1 \in 1..(Len(s) - 1) /\ s[k] = Tail(s)[k-1]
    BY <1>2, <1>4, <2>1
  <2> QED BY <1>1, <2>2 DEF ToSet
<1>7. {Head(s)} \cup ToSet(Tail(s)) \subseteq ToSet(s)
  BY <1>1, <1>2, <1>3, <1>5 DEF ToSet
<1>8. Head(s) \notin ToSet(Tail(s))
  BY <1>1, <1>2, <1>3, <1>5 DEF ToSet, IsInjective
<1>9. IsInjective(Tail(s))
  <2>1. SUFFICES ASSUME NEW k \in 1..(Len(s) - 1), NEW l \in 1..(Len(s) - 1),
                        Tail(s)[k] = Tail(s)[l]
                 PROVE  k = l
    BY <1>1 DEF IsInjective
  <2>2. k + 1 = l + 1
    BY <1>1, <1>2, <1>3, <2>1 DEF IsInjective
  <2> QED BY <2>2, <1>1
<1> QED BY <1>1, <1>5, <1>6, <1>7, <1>8, <1>9

\* What a directory leads to is there, below Root and nowhere else.
LEMMA TreeFacts ==
  ASSUME Tree
  PROVE  /\ \A n, x : x \in Revealed(n) => x \in Nodes /\ x # Root /\ n \in Dirs /\ Listed(n)
         /\ \A n, m, x : x \in Revealed(n) /\ x \in Revealed(m) => n = m
         /\ \A d, A : Listed(d) /\ A \subseteq ToSet(Listing[d]) => Entries(d, A) \subseteq Revealed(d)
         /\ \A d, A, B : Entries(d, A \cup B) = Entries(d, A) \cup Entries(d, B)
         /\ \A d : Entries(d, {}) = {}
<1>1. \A n, x : x \in Revealed(n) =>
        n \in Dirs \ Unreadable /\ Listed(n) /\ \E m \in Searched(n) : x = Target[n][m]
  BY DEF Revealed, Entries, Listed, Searched
<1>2. \A n, x : x \in Revealed(n) => x \in Nodes /\ x # Root
  BY <1>1 DEF Tree
<1>3. \A n, m, x : x \in Revealed(n) /\ x \in Revealed(m) => n = m
  BY <1>1 DEF Tree
<1>4. \A d, A : Listed(d) /\ A \subseteq ToSet(Listing[d]) => Entries(d, A) \subseteq Revealed(d)
  BY DEF Revealed, Entries
<1>5. \A d, A, B : Entries(d, A \cup B) = Entries(d, A) \cup Entries(d, B)
  BY DEF Entries
<1>6. \A d : Entries(d, {}) = {}
  BY DEF Entries
<1> QED BY <1>1, <1>2, <1>3, <1>4, <1>5, <1>6

\* One name is one entry.
LEMMA EntryOnce ==
  ASSUME Tree, NEW d, Listed(d), NEW A, A \subseteq ToSet(Listing[d]),
         NEW n \in ToSet(Listing[d]), n \notin A, n # Dot, n # DotDot
  PROVE  /\ Target[d][n] \notin Entries(d, A)
         /\ Entries(d, {n}) = {Target[d][n]} /\ Target[d][n] \in Revealed(d)
<1>1. d \in Dirs \ Unreadable
  BY DEF Listed
<1>2. \A m \in A \ {Dot, DotDot} : m \in Searched(d)
  BY DEF Searched
<1>3. n \in Searched(d)
  BY DEF Searched
<1>4. Target[d][n] \notin Entries(d, A)
  BY <1>1, <1>2, <1>3 DEF Tree, Entries
<1>5. Entries(d, {n}) = {Target[d][n]} /\ Target[d][n] \in Revealed(d)
  BY DEF Entries, Revealed
<1> QED BY <1>4, <1>5

\* A thread that does nothing lists what it listed, unless another reads a name.
LEMMA StillReads ==
  ASSUME TreeInv, NEW t \in Threads, pc'[t] = pc[t], local'[t] = local[t],
         entry' = entry \/ pc[t] \notin {"dot", "dotdot", "name"},
         \A e \in 1..used : node'[e] = node[e] /\ e \in 1..used'
  PROVE  Reads(t)' /\ Owed(t)' = Owed(t)
<1>1. Reads(t)
  BY DEF TreeInv
<1>2. Unlisted(t)' = Unlisted(t)
  BY DEF Unlisted
<1>3. CASE pc[t] \in Reading
  <2>1. Lists(t) /\ node'[local[t].el] = node[local[t].el] /\ local[t].el \in 1..used'
    BY <1>1, <1>3 DEF Reads, Lists
  <2>2. Lists(t)'
    BY <1>2, <2>1 DEF Lists
  <2>3. Owed(t)' = Owed(t)
    BY <1>2, <2>1 DEF Owed
  <2> QED BY <1>3, <2>2, <2>3 DEF Reads
<1>4. CASE pc[t] \notin Reading
  BY <1>1, <1>4 DEF Reads, Owed
<1> QED BY <1>3, <1>4

\* A step that finds nothing and handles nothing.
LEMMA TreeSame ==
  ASSUME TreeInv, node' = node, used' = used, Waiting' = Waiting,
         \A t \in Threads : /\ Reads(t)' /\ Owed(t)' = Owed(t)
                            /\ Owed(t) # {} => local'[t].el = local[t].el
  PROVE  TreeInv' /\ Todo' = Todo /\ Counted' = Counted
<1>1. Known' = Known
  BY DEF Known
<1>2. Planted'
  BY DEF TreeInv, Planted
<1>3. Untouched'
  BY <1>1 DEF TreeInv, Untouched
<1>4. Complete'
  BY <1>1 DEF TreeInv, Complete
<1>5. TreeInv'
  BY <1>2, <1>3, <1>4 DEF TreeInv
<1>6. Todo' = Todo
  BY DEF Todo, Owing
<1>7. Counted' = Counted
  BY DEF Counted
<1> QED BY <1>5, <1>6, <1>7

LEMMA MoreOwed ==
  ASSUME NEW i \in Threads, NEW A, Owed(i) = {}, Owed(i)' = A,
         \A t \in Threads : t # i => Owed(t)' = Owed(t)
  PROVE  Owing' = Owing \cup A
<1>1. ASSUME NEW z, z \in Owing' PROVE z \in Owing \cup A
  BY <1>1 DEF Owing
<1>2. ASSUME NEW z, z \in Owing \cup A PROVE z \in Owing'
  BY <1>2 DEF Owing
<1> QED BY <1>1, <1>2

LEMMA LessOwed ==
  ASSUME NEW i \in Threads, NEW A, Owed(i) = Owed(i)' \cup A,
         \A t \in Threads : t # i => Owed(t)' = Owed(t)
  PROVE  Owing = Owing' \cup A
<1>1. ASSUME NEW z, z \in Owing PROVE z \in Owing' \cup A
  BY <1>1 DEF Owing
<1>2. ASSUME NEW z, z \in Owing' \cup A PROVE z \in Owing
  BY <1>2 DEF Owing
<1> QED BY <1>1, <1>2

\* A step that handles an element, whose directory is listed from then on.
LEMMA TreeHandle ==
  ASSUME Tree, TreeInv, NEW i \in Threads, pc[i] \notin Reading,
         local[i].el \in Waiting, local'[i].el = local[i].el,
         Waiting' = Waiting \ {local[i].el}, node' = node, used' = used,
         \A t \in Threads : t # i => Reads(t)' /\ Owed(t)' = Owed(t) /\ local'[t].el = local[t].el,
         \/ /\ Listed(node[local[i].el]) /\ pc'[i] = "read"
            /\ local'[i].unread = Listing[node[local[i].el]]
         \/ /\ ~Listed(node[local[i].el]) /\ pc'[i] \notin Reading
            /\ local'[i].unread = local[i].unread
  PROVE  LET n == node[local[i].el] IN
         /\ TreeInv' /\ n \in Todo
         /\ Todo' = (Todo \ {n}) \cup Revealed(n)
         /\ n \notin Counted
         /\ Counted' = IF n \in Files \ Unreadable THEN Counted \cup {n} ELSE Counted
<1> DEFINE el == local[i].el
           n == node[el]
<1>1. Known' = Known /\ el \in 1..used
  BY DEF Known, TreeInv
<1>2. Owed(i) = {} /\ local[i].unread = <<>>
  BY DEF Owed, TreeInv, Reads
<1>3. Owed(i)' = Revealed(n) /\ Reads(i)'
  <2>1. CASE Listed(n) /\ pc'[i] = "read" /\ local'[i].unread = Listing[n]
    <3>1. Unlisted(i)' = ToSet(Listing[n]) /\ "read" \in Reading
      BY <2>1 DEF Unlisted, Reading
    <3>2. Owed(i)' = Revealed(n)
      BY <2>1, <3>1 DEF Owed, Revealed
    <3>3. IsInjective(Listing[n])
      BY <2>1 DEF Tree, Listed
    <3>4. Lists(i)'
      BY <1>1, <2>1, <3>1, <3>3 DEF Lists
    <3> QED BY <2>1, <3>1, <3>2, <3>4 DEF Reads
  <2>2. CASE ~Listed(n) /\ pc'[i] \notin Reading /\ local'[i].unread = local[i].unread
    BY <1>2, <2>2 DEF Owed, Revealed, Reads
  <2> QED BY <2>1, <2>2
<1>4. Planted'
  BY DEF TreeInv, Planted
<1>5. Untouched'
  <2>1. \A e \in Waiting' : Revealed(node'[e]) \cap Known' = {}
    BY <1>1 DEF TreeInv, Untouched
  <2>2. \A t \in Threads : Owed(t)' \cap Known' = {}
    BY <1>1, <1>3 DEF TreeInv, Untouched
  <2> QED BY <2>1, <2>2 DEF Untouched
<1>6. Complete'
  <2> SUFFICES ASSUME NEW e \in (1..used) \ Waiting', NEW x \in Revealed(node[e])
               PROVE  x \in Known \/ \E t \in Threads : local'[t].el = e /\ x \in Owed(t)'
    BY <1>1 DEF Complete
  <2>1. CASE e = el
    BY <1>3, <2>1
  <2>2. CASE e # el
    <3>1. x \in Known \/ \E t \in Threads : local[t].el = e /\ x \in Owed(t)
      BY <2>2 DEF TreeInv, Complete
    <3> QED BY <1>2, <3>1
  <2> QED BY <2>1, <2>2
<1>7. TreeInv'
  BY <1>3, <1>4, <1>5, <1>6 DEF TreeInv
<1>8. n \in Todo
  BY DEF Todo
<1>9. \A e \in 1..used : node[e] = n => e = el
  BY <1>1 DEF TreeInv, Planted
<1>10. Todo' = (Todo \ {n}) \cup Revealed(n)
  <2>1. n \in Known /\ \A t \in Threads : n \notin Owed(t)
    BY <1>1 DEF Known, TreeInv, Untouched
  <2>2. {node'[e] : e \in Waiting'} = {node[e] : e \in Waiting} \ {n}
    BY <1>9 DEF TreeInv
  <2>3. Owing' = Owing \cup Revealed(n)
    BY <1>2, <1>3, MoreOwed
  <2>4. n \notin Owing
    BY <2>1 DEF Owing
  <2>5. Todo' = {node'[e] : e \in Waiting'} \cup Owing'
    BY DEF Todo
  <2> QED BY <2>2, <2>3, <2>4, <2>5 DEF Todo
<1>11. n \notin Counted
  BY <1>9 DEF Counted
<1>12. Counted' = IF n \in Files \ Unreadable THEN Counted \cup {n} ELSE Counted
  <2>1. \A f : (\E e \in (1..used) \ Waiting' : node[e] = f)
               <=> f = n \/ \E e \in (1..used) \ Waiting : node[e] = f
    BY <1>1, <1>9
  <2>2. Counted' = {f \in Files \ Unreadable : \E e \in (1..used) \ Waiting' : node[e] = f}
    BY DEF Counted
  <2> QED BY <2>1, <2>2 DEF Counted
<1> QED BY <1>7, <1>8, <1>10, <1>11, <1>12

\* A step that makes an element of a name.
LEMMA TreeName ==
  ASSUME Tree, TreeInv, StateOK, NEW i \in Threads, pc[i] = "name", pc'[i] = "insert",
         local[i].el \notin Waiting,
         used + 1 \in Elements, used' = used + 1, used \in Nat, used >= 1,
         local'[i].el = local[i].el, local'[i].unread = local[i].unread,
         node' = [node EXCEPT ![used + 1] = Target[node[local[i].el]][entry]],
         Waiting' = Waiting \cup {used + 1}, entry' = entry,
         \A t \in Threads : t # i => Reads(t)' /\ Owed(t)' = Owed(t) /\ local'[t].el = local[t].el,
         \A t \in Threads : t # i => Owed(t) = {}
  PROVE  TreeInv' /\ Todo' = Todo /\ Counted' = Counted
<1> DEFINE el == local[i].el
           d == node[el]
           x == Target[d][entry]
<1>1. "name" \in Reading /\ "insert" \in Reading
  BY DEF Reading, InsertSteps
<1>2. Lists(i) /\ el \in 1..used /\ Listed(d)
  BY <1>1 DEF TreeInv, Reads, Lists
<1>3. /\ entry \in ToSet(Listing[d]) /\ entry # Dot /\ entry # DotDot
      /\ entry \notin ToSet(local[i].unread) /\ ToSet(local[i].unread) \subseteq ToSet(Listing[d])
      /\ Unlisted(i) = ToSet(local[i].unread) \cup {entry}
  BY <1>2 DEF Lists, Unlisted
<1>4. Unlisted(i)' = ToSet(local[i].unread)
  BY DEF Unlisted
<1>5. 1..used' = (1..used) \cup {used + 1} /\ used + 1 \notin 1..used
  OBVIOUS
<1>6. /\ node'[used + 1] = x /\ \A e \in 1..used : node'[e] = node[e]
  <2>1. MaxElements \in Nat /\ used + 1 <= MaxElements
    BY Numbers DEF Elements
  <2>2. 1..used \subseteq Elements
    BY <2>1 DEF Elements
  <2>3. node \in [Elements -> Nodes \cup {Nowhere}]
    BY DEF StateOK
  <2> QED BY <1>5, <2>2, <2>3
<1>7. /\ x \notin Entries(d, ToSet(local[i].unread))
      /\ Entries(d, {entry}) = {x} /\ x \in Revealed(d)
  <2> HIDE DEF x, d
  <2> QED BY <1>2, <1>3, EntryOnce DEF x
<1>8. Owed(i) = Owed(i)' \cup {x} /\ x \notin Owed(i)'
  <2>1. Owed(i) = Entries(d, ToSet(local[i].unread) \cup {entry})
    BY <1>1, <1>3 DEF Owed
  <2>2. Owed(i)' = Entries(d, ToSet(local[i].unread))
    BY <1>1, <1>2, <1>4, <1>6 DEF Owed
  <2> QED BY <1>7, <2>1, <2>2, TreeFacts
<1>9. x \notin Known /\ Known' = Known \cup {x}
  <2>1. x \notin Known
    BY <1>8 DEF TreeInv, Untouched
  <2>2. Known' = Known \cup {x}
    BY <1>5, <1>6 DEF Known
  <2> QED BY <2>1, <2>2
<1>10. Reads(i)'
  <2>1. Lists(i)'
    BY <1>2, <1>3, <1>4, <1>5, <1>6 DEF Lists
  <2> QED BY <1>1, <2>1 DEF Reads
<1>11. Waiting \subseteq 1..used
  BY DEF TreeInv
<1>12. Planted'
  <2>1. node'[1] = Root
    BY <1>6 DEF TreeInv, Planted
  <2>2. ASSUME NEW e \in 1..used', NEW f \in 1..used', node'[e] = node'[f] PROVE e = f
    BY <1>5, <1>6, <1>9, <2>2 DEF TreeInv, Planted, Known
  <2>3. ASSUME NEW e \in 2..used' PROVE \E f \in 1..used' : node'[e] \in Revealed(node'[f])
    <3>1. CASE e = used + 1
      BY <1>2, <1>5, <1>6, <1>7, <3>1
    <3>2. CASE e # used + 1
      <4>1. e \in 2..used /\ e \in 1..used
        BY <3>2
      <4> QED BY <1>5, <1>6, <4>1 DEF TreeInv, Planted
    <3> QED BY <3>1, <3>2
  <2> QED BY <2>1, <2>2, <2>3 DEF Planted
<1>13. d \in Known /\ x # Root
  <2>1. d \in Known
    BY <1>2 DEF Known
  <2> QED BY <1>7, <2>1, TreeFacts
\* Nothing that x reveals is known, for its parent would be.
<1>14. Revealed(x) \cap (Known \cup {x}) = {}
  <2> SUFFICES ASSUME NEW y \in Revealed(x), y \in Known \cup {x} PROVE FALSE
    OBVIOUS
  <2>1. y # Root /\ \A m : y \in Revealed(m) => m = x
    BY TreeFacts
  <2>2. CASE y = x
    <3>1. d = x
      BY <1>7, <2>1, <2>2
    <3> QED BY <1>9, <1>13, <3>1
  <2>3. CASE y \in Known
    <3>1. PICK e \in 1..used : y = node[e]
      BY <2>3 DEF Known
    <3>2. e # 1
      BY <2>1, <3>1 DEF TreeInv, Planted
    <3>3. e \in 2..used
      BY <3>2
    <3>4. PICK f \in 1..used : y \in Revealed(node[f])
      BY <3>1, <3>3 DEF TreeInv, Planted
    <3>5. x = node[f]
      BY <2>1, <3>4
    <3> QED BY <1>9, <3>5 DEF Known
  <2> QED BY <2>2, <2>3
<1>15. Untouched'
  <2>1. ASSUME NEW e \in Waiting' PROVE Revealed(node'[e]) \cap Known' = {}
    <3>1. CASE e = used + 1
      BY <1>6, <1>9, <1>14, <3>1
    <3>2. CASE e \in Waiting
      <4>1. node'[e] = node[e] /\ Revealed(node[e]) \cap Known = {}
        BY <1>6, <1>11, <3>2 DEF TreeInv, Untouched
      <4>2. x \notin Revealed(node[e])
        <5>1. SUFFICES ASSUME x \in Revealed(node[e]) PROVE FALSE
          OBVIOUS
        <5>2. node[e] = d
          BY <1>7, <5>1, TreeFacts
        <5>3. e = el
          BY <1>2, <1>11, <3>2, <5>2 DEF TreeInv, Planted
        <5> QED BY <3>2, <5>3
      <4> QED BY <1>9, <4>1, <4>2
    <3> QED BY <3>1, <3>2
  <2>2. ASSUME NEW t \in Threads PROVE Owed(t)' \cap Known' = {}
    <3>1. CASE t = i
      BY <1>8, <1>9, <3>1 DEF TreeInv, Untouched
    <3>2. CASE t # i
      BY <3>2
    <3> QED BY <3>1, <3>2
  <2> QED BY <2>1, <2>2 DEF Untouched
<1>16. Complete'
  <2> SUFFICES ASSUME NEW e \in (1..used') \ Waiting', NEW y \in Revealed(node'[e])
               PROVE  y \in Known' \/ \E t \in Threads : local'[t].el = e /\ y \in Owed(t)'
    BY DEF Complete
  <2>1. e \in (1..used) \ Waiting /\ node'[e] = node[e]
    BY <1>5, <1>6
  <2>2. y \in Known \/ \E t \in Threads : local[t].el = e /\ y \in Owed(t)
    BY <2>1 DEF TreeInv, Complete
  <2> QED BY <1>8, <1>9, <2>2
<1>17. TreeInv'
  <2>1. Waiting' \subseteq 1..used'
    BY <1>5, <1>11
  <2> QED BY <1>10, <1>12, <1>15, <1>16, <2>1 DEF TreeInv
<1>18. Todo' = Todo
  <2>1. {node'[e] : e \in Waiting'} = {node[e] : e \in Waiting} \cup {x}
    BY <1>6, <1>11
  <2>2. Owing = Owing' \cup {x}
    BY <1>8, LessOwed
  <2>3. Todo' = {node'[e] : e \in Waiting'} \cup Owing'
    BY DEF Todo
  <2> QED BY <2>1, <2>2, <2>3 DEF Todo
<1>19. Counted' = Counted
  <2>1. (1..used') \ Waiting' = (1..used) \ Waiting
    BY <1>5
  <2>2. Counted' = {f \in Files \ Unreadable : \E e \in (1..used) \ Waiting : node'[e] = f}
    BY <2>1 DEF Counted
  <2> QED BY <1>6, <2>2 DEF Counted
<1> QED BY <1>17, <1>18, <1>19


\* What a thread owes as it reads on does not change.
LEMMA ReadOn ==
  ASSUME Tree, StateOK, NEW i \in Threads, Reads(i), Read(i), used' = used
  PROVE  /\ Reads(i)' /\ Owed(i)' = Owed(i)
         /\ local'[i].el = local[i].el
<1> DEFINE unread == local[i].unread
           d == node[local[i].el]
<1>1. pc[i] = "read" /\ "read" \in Reading /\ "dot" \in Reading /\ "return" \notin Reading
  BY DEF Read, At, Reading, InsertSteps
<1>2. /\ Lists(i) /\ unread \in Seq(Names) /\ IsInjective(unread)
      /\ Unlisted(i) = ToSet(unread) /\ ToSet(unread) \subseteq ToSet(Listing[d])
      /\ local \in [Threads -> Locals] /\ pc \in [Threads -> Steps]
  <2>1. Lists(i) /\ local \in [Threads -> Locals] /\ pc \in [Threads -> Steps]
    BY <1>1 DEF Reads, StateOK
  <2>2. unread \in Seq(Names)
    BY <2>1 DEF Locals
  <2>3. Unlisted(i) = ToSet(unread)
    BY <1>1 DEF Unlisted
  <2> QED BY <2>1, <2>2, <2>3 DEF Lists
<1>3. node' = node
  BY DEF Read
<1>4. CASE unread # <<>>
  <2>1. /\ entry' = Head(unread) /\ local'[i].unread = Tail(unread) /\ pc'[i] = "dot"
        /\ local'[i].el = local[i].el
    <3>1. /\ entry' = Head(unread) /\ local' = [local EXCEPT ![i].unread = Tail(unread)]
          /\ pc' = [pc EXCEPT ![i] = "dot"]
      BY <1>4 DEF Read, Goto
    <3>2. local[i] \in Locals
      BY <1>2
    <3> QED BY <1>2, <3>1, <3>2 DEF Locals
  <2>2. /\ ToSet(unread) = {Head(unread)} \cup ToSet(Tail(unread))
        /\ Head(unread) \notin ToSet(Tail(unread)) /\ IsInjective(Tail(unread))
    BY <1>2, <1>4, HeadTail
  <2>3. Unlisted(i)' = ToSet(unread)
    BY <2>1, <2>2 DEF Unlisted
  <2>4. Lists(i)'
    BY <1>2, <1>3, <2>1, <2>2, <2>3 DEF Lists
  <2>5. Owed(i)' = Owed(i)
    BY <1>1, <1>2, <1>3, <2>1, <2>3 DEF Owed
  <2> QED BY <1>1, <2>1, <2>4, <2>5 DEF Reads
<1>5. CASE unread = <<>>
  <2>1. local' = local /\ pc'[i] = "return"
    BY <1>2, <1>5 DEF Read, Goto
  <2>2. Unlisted(i) = {}
    BY <1>2, <1>5 DEF ToSet
  <2>3. Owed(i) = {} /\ Owed(i)' = {}
    BY <1>1, <2>1, <2>2, TreeFacts DEF Owed
  <2> QED BY <1>1, <1>5, <2>1, <2>3 DEF Reads
<1> QED BY <1>4, <1>5

LEMMA SkipOn ==
  ASSUME Tree, StateOK, NEW i \in Threads, Reads(i), SkipDot(i) \/ SkipDotDot(i)
  PROVE  /\ Reads(i)' /\ Owed(i)' = Owed(i)
         /\ local'[i].el = local[i].el
<1> DEFINE unread == local[i].unread
           d == node[local[i].el]
<1>1. {"read", "dot", "dotdot", "name"} \subseteq Reading
  BY DEF Reading
<1>2. /\ pc[i] \in {"dot", "dotdot"} /\ local' = local /\ entry' = entry /\ node' = node /\ used' = used
      /\ pc'[i] = IF entry = (IF pc[i] = "dot" THEN Dot ELSE DotDot) THEN "read"
                  ELSE IF pc[i] = "dot" THEN "dotdot" ELSE "name"
  BY DEF SkipDot, SkipDotDot, At, Goto, memory, queue, StateOK
<1>3. Lists(i) /\ Unlisted(i) = ToSet(unread) \cup {entry}
  BY <1>1, <1>2 DEF Reads, Unlisted
<1>4. CASE pc'[i] = "read"
  <2>1. entry \in {Dot, DotDot}
    BY <1>2, <1>4
  <2>2. Unlisted(i)' = ToSet(unread)
    BY <1>2, <1>4 DEF Unlisted
  <2>3. Entries(d, Unlisted(i)') = Entries(d, Unlisted(i))
    BY <1>3, <2>1, <2>2 DEF Entries
  <2>4. Lists(i)'
    BY <1>2, <1>3, <1>4, <2>2 DEF Lists
  <2>5. Owed(i)' = Owed(i)
    BY <1>1, <1>2, <1>4, <2>3 DEF Owed
  <2> QED BY <1>1, <1>2, <1>4, <2>4, <2>5 DEF Reads
<1>5. CASE pc'[i] # "read"
  <2>1. Unlisted(i)' = Unlisted(i)
    BY <1>2, <1>3, <1>5 DEF Unlisted
  <2>2. Lists(i)'
    BY <1>2, <1>3, <1>5, <2>1 DEF Lists
  <2>3. Owed(i)' = Owed(i)
    BY <1>1, <1>2, <1>5, <2>1 DEF Owed
  <2> QED BY <1>1, <1>2, <1>5, <2>2, <2>3 DEF Reads
<1> QED BY <1>4, <1>5

LEMMA InsertOn ==
  ASSUME NEW i \in Threads, Reads(i), pc[i] \in InsertSteps, pc'[i] \in InsertSteps \cup {"read"},
         local'[i].el = local[i].el, local'[i].unread = local[i].unread,
         node' = node, used' = used
  PROVE  Reads(i)' /\ Owed(i)' = Owed(i)
<1>1. pc[i] \in Reading /\ pc'[i] \in Reading
  BY DEF Reading
<1>2. pc[i] \notin {"dot", "dotdot", "name"} /\ pc'[i] \notin {"dot", "dotdot", "name"}
  BY DEF InsertSteps
<1>3. Unlisted(i)' = Unlisted(i)
  BY <1>2 DEF Unlisted
<1>4. Lists(i)
  BY <1>1 DEF Reads
<1>5. Lists(i)'
  BY <1>2, <1>3, <1>4 DEF Lists
<1>6. Owed(i)' = Owed(i)
  BY <1>1, <1>3 DEF Owed
<1> QED BY <1>1, <1>5, <1>6 DEF Reads

\* So does a thread that lists nothing before and after.
LEMMA IdleOn ==
  ASSUME NEW i \in Threads, Reads(i), pc[i] \notin Reading, pc'[i] \notin Reading,
         local'[i].unread = local[i].unread \/ local'[i].unread = <<>>
  PROVE  Reads(i)' /\ Owed(i)' = Owed(i) /\ Owed(i) = {}
BY DEF Reads, Owed

-----------------------------------------------------------------------------
(* The queue when one thread at most is in handle_dir or removeElement.    *)

Alone == \A t, u \in Users : t = u

\* The queue's two ends agree.
Sound ==
  head[Main] = NULL \/ (tail[Main] \in Reach(next, head[Main]) /\ next[tail[Main]] = NULL)

\* What a thread that inserts has seen still holds.
SeesQueue(i) ==
  LET new == local[i].new IN
  /\ pc[i] = "set head" => head[Main] = NULL
  /\ pc[i] \in {"get tail", "link"} => head[Main] # NULL
  /\ pc[i] = "link" => local[i].reg = tail[Main]
  /\ pc[i] = "get next" => tail[Main] \in Elements /\ next[tail[Main]] = new
  /\ pc[i] = "set tail" => local[i].reg = new
  /\ pc[i] \in {"get next", "set tail"} => new \in Reach(next, head[Main]) /\ next[new] = NULL

\* So does what main has seen when it removes.
SeesHead ==
  /\ pc[Main] \in {"follow", "advance"} => head[Main] # NULL /\ local[Main].el = head[Main]
  /\ pc[Main] = "advance" => local[Main].reg = next[head[Main]]

Serial ==
  /\ (\A i \in Workers : pc[i] \notin {"get next", "set tail"}) => Sound
  /\ \A i \in Workers : SeesQueue(i)
  /\ SeesHead

\* What the steps that handle nothing do.
Still ==
  /\ Serial' /\ TreeInv' /\ Todo' = Todo /\ Counted' = Counted
  /\ \A i \in Workers : ~Counts(i)

\* The others are elsewhere.
LEMMA AloneOthers ==
  ASSUME Alone, NEW i \in Users
  PROVE  \A t \in Threads : t # i => pc[t] \notin Reading \cup RemoveSteps
BY DEF Alone, Users, Reading

LEMMA AloneOthersNext ==
  ASSUME Alone', NEW i \in Users'
  PROVE  \A t \in Threads : t # i => pc'[t] \notin Reading \cup RemoveSteps
BY DEF Alone, Users, Reading

\* One worker has moved and the others are not at the queue.
LEMMA OneSerial ==
  ASSUME NEW i \in Workers, \A t \in Threads : t # i => pc'[t] \notin Reading \cup RemoveSteps,
         SeesQueue(i)', pc'[i] \in {"get next", "set tail"} \/ Sound'
  PROVE  Serial'
<1>1. \A t \in Threads : t # i => pc'[t] \notin InsertSteps \cup RemoveSteps
  BY DEF Reading
<1>2. ASSUME NEW j \in Workers PROVE SeesQueue(j)'
  <2>1. CASE j # i
    <3>1. pc'[j] \notin InsertSteps
      BY <1>1, <2>1, Numbers
    <3> QED BY <3>1 DEF SeesQueue, InsertSteps
  <2> QED BY <2>1
<1>3. SeesHead'
  BY <1>1, Numbers DEF SeesHead, RemoveSteps
<1> QED BY <1>2, <1>3 DEF Serial

\* So has main.
LEMMA MainSerial ==
  ASSUME \A t \in Workers : pc'[t] \notin Reading \cup RemoveSteps, SeesHead', Sound'
  PROVE  Serial'
<1>1. \A t \in Workers : pc'[t] \notin InsertSteps
  BY DEF Reading
<1>2. \A j \in Workers : SeesQueue(j)'
  BY <1>1 DEF SeesQueue, InsertSteps
<1> QED BY <1>2 DEF Serial

Special == {"set head", "get tail", "link", "get next", "set tail", "follow", "advance"}

\* Nobody has moved at the queue.
LEMMA CalmSerial ==
  ASSUME Serial, next' = next, head' = head, tail' = tail,
         \A t \in Threads : \/ pc'[t] = pc[t] /\ local'[t] = local[t]
                            \/ pc[t] \notin {"get next", "set tail"} /\ pc'[t] \notin Special
  PROVE  Serial'
<1>1. \A j \in Workers : SeesQueue(j)'
  BY Numbers DEF Serial, SeesQueue, Special
<1>2. SeesHead'
  BY Numbers DEF Serial, SeesHead, Special
<1>3. ASSUME \A i \in Workers : pc'[i] \notin {"get next", "set tail"} PROVE Sound'
  BY <1>3, Numbers DEF Serial, Sound
<1> QED BY <1>1, <1>2, <1>3 DEF Serial

\* What is queued or held is so after the step.
LEMMA SameWaiting ==
  ASSUME Reach(next, head[Main])' = Reach(next, head[Main]),
         \A t \in Threads : Holds(t)' = Holds(t)
  PROVE  Waiting' = Waiting
BY DEF Waiting

LEMMA StillIs ==
  ASSUME TreeInv, Serial', node' = node, used' = used, Waiting' = Waiting,
         \A t \in Threads : Reads(t)' /\ Owed(t)' = Owed(t) /\ (Owed(t) # {} => local'[t].el = local[t].el),
         \A t \in Threads : pc'[t] = pc[t] \/ pc[t] # "stat"
  PROVE  Still
<1>1. TreeInv' /\ Todo' = Todo /\ Counted' = Counted
  BY TreeSame
<1>2. \A i \in Workers : ~Counts(i)
  BY Numbers DEF Counts
<1> QED BY <1>1, <1>2 DEF Still

\* A thread that does nothing.
LEMMA Others ==
  ASSUME TreeInv, NEW t \in Threads, pc'[t] = pc[t], local'[t] = local[t],
         entry' = entry \/ pc[t] \notin Reading,
         \A e \in 1..used : node'[e] = node[e] /\ e \in 1..used'
  PROVE  Reads(t)' /\ Owed(t)' = Owed(t) /\ local'[t].el = local[t].el /\ Holds(t)' = Holds(t)
<1>1. entry' = entry \/ pc[t] \notin {"dot", "dotdot", "name"}
  BY DEF Reading
<1>2. Reads(t)' /\ Owed(t)' = Owed(t)
  BY <1>1, StillReads
<1> QED BY <1>2 DEF Holds

\* An element that is being handled is neither queued nor in another hand.
LEMMA ElApart ==
  ASSUME IInv, ChainInv, Serial, NEW i \in Handling
  PROVE  /\ local[i].el \notin Reach(next, head[Main])
         /\ \A t \in Threads : t # i => local[i].el \notin Holds(t)
<1>1. local[i].el \notin Reach(next, head[Main])
  BY DEF ChainInv, HandsApart, Ahead
<1>2. ASSUME NEW t \in Threads, t # i, pc[t] \in {"follow", "advance", "spawn", "stat"}
      PROVE  local[i].el # local[t].el
  <2>1. CASE t = Main
    <3>1. pc[t] # "stat"
      BY <2>1 DEF IInv, Roles, MainSteps, RemoveSteps
    <3> QED BY <1>2, <2>1, <3>1 DEF ChainInv, HandsApart, Removing
  <2>2. CASE t # Main
    <3>1. t \in Workers
      BY <2>2 DEF Threads, Workers, Main
    <3>2. pc[t] = "stat"
      BY <1>2, <3>1 DEF IInv, Roles, HandleSteps, InsertSteps
    <3>3. t \in Handling
      BY <3>1, <3>2 DEF Handling, HandleSteps
    <3> QED BY <1>2, <3>3 DEF ChainInv, HandsApart
  <2> QED BY <2>1, <2>2
<1>3. ASSUME NEW t \in Threads, t # i, pc[t] \in InsertSteps
      PROVE  local[i].el # local[t].new
  <2>1. t \in Workers
    <3>1. t # Main
      BY <1>3 DEF IInv, Roles, MainSteps, RemoveSteps, InsertSteps
    <3> QED BY <3>1 DEF Threads, Workers, Main
  <2>2. CASE pc[t] \in Linking
    <3>1. Loose(local[t].new) /\ local[t].new # NULL
      BY <1>3, <2>1, <2>2 DEF Loose, IInv, InHand
    <3>2. local[t].new \in Elements
      BY <3>1 DEF IInv, StateOK, Locals, Pointers
    <3>3. i \in Threads
      BY Numbers DEF Handling
    <3> QED BY <3>1, <3>2, <3>3 DEF ChainInv, LooseEnds
  <2>3. CASE pc[t] \in {"get next", "set tail"}
    <3>1. local[t].new \in Reach(next, head[Main])
      BY <2>1, <2>3 DEF Serial, SeesQueue
    <3> QED BY <1>1, <3>1
  <2> QED BY <1>3, <2>2, <2>3 DEF InsertSteps, Linking
<1>4. ASSUME NEW t \in Threads, t # i PROVE local[i].el \notin Holds(t)
  BY <1>2, <1>3, <1>4 DEF Holds
<1> QED BY <1>1, <1>4

\* An element that comes into the queue from a hand, and one that is there already
\* when the hand lets go.
LEMMA TakeUp ==
  ASSUME NEW i \in Threads, NEW n \in Holds(i),
         Reach(next, head[Main])' = Reach(next, head[Main]) \cup {n},
         \A t \in Threads : Holds(t)' = Holds(t)
  PROVE  Waiting' = Waiting
BY DEF Waiting

LEMMA LetGo ==
  ASSUME NEW i \in Threads, NEW n \in Reach(next, head[Main]),
         Reach(next, head[Main])' = Reach(next, head[Main]),
         Holds(i) = {n}, Holds(i)' = {},
         \A t \in Threads : t # i => Holds(t)' = Holds(t)
  PROVE  Waiting' = Waiting
<1>1. ASSUME NEW e \in Waiting PROVE e \in Waiting'
  BY <1>1 DEF Waiting
<1>2. ASSUME NEW e \in Waiting' PROVE e \in Waiting
  BY <1>2 DEF Waiting
<1> QED BY <1>1, <1>2

\* An element that a hand takes, or lets go for good.
LEMMA PickUp ==
  ASSUME NEW i \in Threads, NEW n,
         Reach(next, head[Main])' = Reach(next, head[Main]),
         Holds(i) = {}, Holds(i)' = {n},
         \A t \in Threads : t # i => Holds(t)' = Holds(t)
  PROVE  Waiting' = Waiting \cup {n}
<1>1. ASSUME NEW e \in Waiting \cup {n} PROVE e \in Waiting'
  BY <1>1 DEF Waiting
<1>2. ASSUME NEW e \in Waiting' PROVE e \in Waiting \cup {n}
  BY <1>2 DEF Waiting
<1> QED BY <1>1, <1>2

LEMMA PutDown ==
  ASSUME NEW i \in Threads, NEW n,
         Reach(next, head[Main])' = Reach(next, head[Main]), n \notin Reach(next, head[Main]),
         Holds(i) = {n}, Holds(i)' = {},
         \A t \in Threads : t # i => Holds(t)' = Holds(t) /\ n \notin Holds(t)
  PROVE  n \in Waiting /\ Waiting' = Waiting \ {n}
<1>1. ASSUME NEW e \in Waiting \ {n} PROVE e \in Waiting'
  BY <1>1 DEF Waiting
<1>2. ASSUME NEW e \in Waiting' PROVE e \in Waiting \ {n}
  BY <1>2 DEF Waiting
<1>3. n \in Waiting
  BY DEF Waiting
<1> QED BY <1>1, <1>2, <1>3

\* An element that leaves the queue while a hand has it, and one that goes from
\* hand to hand.
LEMMA HandOver ==
  ASSUME NEW i \in Threads, NEW n \in Holds(i),
         Reach(next, head[Main]) = {n} \cup Reach(next, head[Main])',
         \A t \in Threads : Holds(t)' = Holds(t)
  PROVE  Waiting' = Waiting
BY DEF Waiting

LEMMA PassOn ==
  ASSUME NEW i \in Threads, NEW j \in Threads, NEW n,
         Reach(next, head[Main])' = Reach(next, head[Main]),
         Holds(i) = {n}, Holds(i)' = {}, Holds(j) = {}, Holds(j)' = {n},
         \A t \in Threads : t # i /\ t # j => Holds(t)' = Holds(t)
  PROVE  Waiting' = Waiting
<1>1. ASSUME NEW e \in Waiting PROVE e \in Waiting'
  BY <1>1 DEF Waiting
<1>2. ASSUME NEW e \in Waiting' PROVE e \in Waiting
  BY <1>2 DEF Waiting
<1> QED BY <1>1, <1>2

\* Where the search stands: what the proofs below take up at each step.
Now == IInv /\ ChainInv /\ Serial /\ TreeInv /\ Alone

\* What a step of one thread leaves to the others.
LEMMA Apart ==
  ASSUME Now, NEW i \in Workers, HandleStep(i)
  PROVE  /\ i \in Threads /\ i # Main /\ QueueOf(i) = Main /\ i \in Handling
         /\ \A t \in Threads : t # i => pc'[t] = pc[t] /\ local'[t] = local[t]
         /\ i \in Users => \A t \in Threads : t # i => pc[t] \notin Reading \cup RemoveSteps
         /\ pc \in [Threads -> Steps] /\ local \in [Threads -> Locals]
         /\ next \in [Elements -> Pointers]
         /\ head \in [Queues -> Pointers] /\ tail \in [Queues -> Pointers]
         /\ local[i].new \in Pointers /\ local[i].el \in Pointers
         /\ Reads(i)
<1>1. i \in Threads /\ i # Main /\ QueueOf(i) = Main
  BY Numbers DEF Now, IInv, Roles, QueueOf
<1>2. i \in Handling /\ \A t \in Threads : t # i => pc'[t] = pc[t] /\ local'[t] = local[t]
  BY HandleEffect DEF Now
<1>3. i \in Users => \A t \in Threads : t # i => pc[t] \notin Reading \cup RemoveSteps
  BY AloneOthers DEF Now
<1>4. /\ pc \in [Threads -> Steps] /\ local \in [Threads -> Locals]
      /\ next \in [Elements -> Pointers]
      /\ head \in [Queues -> Pointers] /\ tail \in [Queues -> Pointers]
  BY DEF Now, IInv, StateOK
<1>5. local[i].new \in Pointers /\ local[i].el \in Pointers
  BY <1>1, <1>4 DEF Locals
<1>6. Reads(i)
  BY <1>1 DEF Now, TreeInv
<1> QED BY <1>1, <1>2, <1>3, <1>4, <1>5, <1>6

\* A step that inserts leaves the tree as it is.
LEMMA InsertStill ==
  ASSUME Now, NEW i \in Workers, HandleStep(i), pc[i] \in InsertSteps, pc'[i] \in InsertSteps \cup {"read"},
         local'[i].el = local[i].el, local'[i].unread = local[i].unread,
         node' = node, used' = used, entry' = entry, Serial',
         Waiting' = Waiting
  PROVE  Still
<1>1. /\ i \in Threads /\ Reads(i)
      /\ \A t \in Threads : t # i => pc'[t] = pc[t] /\ local'[t] = local[t]
  BY Apart
<1>2. Reads(i)' /\ Owed(i)' = Owed(i)
  BY <1>1, InsertOn
<1>3. ASSUME NEW t \in Threads
      PROVE  Reads(t)' /\ Owed(t)' = Owed(t) /\ (Owed(t) # {} => local'[t].el = local[t].el)
  <2>1. CASE t = i
    BY <1>2, <2>1
  <2>2. CASE t # i
    BY <1>1, <2>2, Others DEF Now
  <2> QED BY <2>1, <2>2
<1>4. \A t \in Threads : pc'[t] = pc[t] \/ pc[t] # "stat"
  BY <1>1 DEF InsertSteps
<1> QED BY <1>3, <1>4, StillIs DEF Now

LEMMA InsertIsStill ==
  ASSUME Now, NEW i \in Workers, Insert(i)
  PROVE  Still
<1>0. HandleStep(i)
  BY DEF HandleStep
<1>1. /\ i \in Threads /\ i # Main /\ QueueOf(i) = Main
      /\ \A t \in Threads : t # i => pc'[t] = pc[t] /\ local'[t] = local[t]
      /\ i \in Users => \A t \in Threads : t # i => pc[t] \notin Reading \cup RemoveSteps
      /\ pc \in [Threads -> Steps]
  BY <1>0, Apart
<1>2. /\ pc[i] = "insert" /\ pc'[i] = IF head[Main] = NULL THEN "set head" ELSE "get tail"
      /\ local' = local /\ node' = node /\ used' = used /\ next' = next
      /\ head' = head /\ tail' = tail /\ entry' = entry
  BY <1>1 DEF Insert, At, Goto, memory, queue
<1>3. i \in Users
  BY <1>1, <1>2 DEF Users, InsertSteps
<1>4. pc[i] \in InsertSteps /\ pc'[i] \in InsertSteps
  BY <1>2 DEF InsertSteps
<1>5. Serial'
  <2>1. \A t \in Threads : t # i => pc'[t] \notin Reading \cup RemoveSteps
    BY <1>1, <1>3
  <2>2. SeesQueue(i)'
    BY <1>2 DEF SeesQueue
  <2>3. \A j \in Workers : pc[j] \notin {"get next", "set tail"}
    BY <1>1, <1>2, <1>3, Numbers DEF Reading, InsertSteps
  <2>4. Sound'
    BY <1>2, <2>3 DEF Now, Serial, Sound
  <2> QED BY <2>1, <2>2, <2>4, OneSerial
<1>6. Waiting' = Waiting
  <2>1. \A t \in Threads : Holds(t)' = Holds(t)
    BY <1>1, <1>2, <1>4 DEF Holds, InsertSteps
  <2> QED BY <1>2, <2>1, SameWaiting
<1> QED BY <1>0, <1>2, <1>4, <1>5, <1>6, InsertStill

LEMMA GetTailIsStill ==
  ASSUME Now, NEW i \in Workers, GetTail(i)
  PROVE  Still
<1>0. HandleStep(i)
  BY DEF HandleStep
<1>1. /\ i \in Threads /\ i # Main /\ QueueOf(i) = Main
      /\ \A t \in Threads : t # i => pc'[t] = pc[t] /\ local'[t] = local[t]
      /\ i \in Users => \A t \in Threads : t # i => pc[t] \notin Reading \cup RemoveSteps
      /\ pc \in [Threads -> Steps] /\ local \in [Threads -> Locals]
  BY <1>0, Apart
<1>2. /\ pc[i] = "get tail" /\ pc'[i] = "link"
      /\ local'[i].reg = tail[Main] /\ local'[i].el = local[i].el
      /\ local'[i].new = local[i].new /\ local'[i].unread = local[i].unread
      /\ node' = node /\ used' = used /\ next' = next
      /\ head' = head /\ tail' = tail /\ entry' = entry
  BY <1>1 DEF GetTail, At, Goto, memory, queue, Locals
<1>3. i \in Users
  BY <1>1, <1>2 DEF Users, InsertSteps
<1>4. pc[i] \in InsertSteps /\ pc'[i] \in InsertSteps
  BY <1>2 DEF InsertSteps
<1>5. Serial'
  <2>1. \A t \in Threads : t # i => pc'[t] \notin Reading \cup RemoveSteps
    BY <1>1, <1>3
  <2>2. SeesQueue(i)'
    BY <1>2 DEF SeesQueue, Now, Serial
  <2>3. \A j \in Workers : pc[j] \notin {"get next", "set tail"}
    BY <1>1, <1>2, <1>3, Numbers DEF Reading, InsertSteps
  <2>4. Sound'
    BY <1>2, <2>3 DEF Now, Serial, Sound
  <2> QED BY <2>1, <2>2, <2>4, OneSerial
<1>6. Waiting' = Waiting
  <2>1. \A t \in Threads : Holds(t)' = Holds(t)
    BY <1>1, <1>2, <1>4 DEF Holds, InsertSteps
  <2> QED BY <1>2, <2>1, SameWaiting
<1> QED BY <1>0, <1>2, <1>4, <1>5, <1>6, InsertStill

LEMMA GetNextIsStill ==
  ASSUME Now, NEW i \in Workers, GetNext(i)
  PROVE  Still
<1>0. HandleStep(i)
  BY DEF HandleStep
<1>1. /\ i \in Threads /\ i # Main /\ QueueOf(i) = Main
      /\ \A t \in Threads : t # i => pc'[t] = pc[t] /\ local'[t] = local[t]
      /\ i \in Users => \A t \in Threads : t # i => pc[t] \notin Reading \cup RemoveSteps
      /\ pc \in [Threads -> Steps] /\ local \in [Threads -> Locals]
  BY <1>0, Apart
<1>s. pc[i] = "get next"
  BY DEF GetNext, At
<1>q. /\ tail[Main] \in Elements /\ next[tail[Main]] = local[i].new
      /\ local[i].new \in Reach(next, head[Main]) /\ next[local[i].new] = NULL
  BY <1>s DEF Now, Serial, SeesQueue
<1>2. /\ pc'[i] = "set tail"
      /\ local'[i].reg = local[i].new /\ local'[i].el = local[i].el
      /\ local'[i].new = local[i].new /\ local'[i].unread = local[i].unread
      /\ node' = node /\ used' = used /\ next' = next
      /\ head' = head /\ tail' = tail /\ entry' = entry
  <2>1. tail[Main] # NULL
    BY <1>q, Numbers
  <2>2. local' = [local EXCEPT ![i].reg = next[tail[Main]]] /\ pc' = [pc EXCEPT ![i] = "set tail"]
    BY <1>1, <2>1 DEF GetNext, Goto
  <2>3. node' = node /\ used' = used /\ next' = next /\ head' = head /\ tail' = tail /\ entry' = entry
    BY DEF GetNext, memory, queue
  <2> QED BY <1>1, <1>q, <2>2, <2>3 DEF Locals
<1>3. i \in Users
  BY <1>1, <1>s DEF Users, InsertSteps
<1>4. pc[i] \in InsertSteps /\ pc'[i] \in InsertSteps
  BY <1>2, <1>s DEF InsertSteps
<1>5. Serial'
  <2>1. \A t \in Threads : t # i => pc'[t] \notin Reading \cup RemoveSteps
    BY <1>1, <1>3
  <2>2. SeesQueue(i)'
    BY <1>2, <1>q DEF SeesQueue
  <2> QED BY <1>2, <2>1, <2>2, OneSerial
<1>6. Waiting' = Waiting
  <2>1. \A t \in Threads : Holds(t)' = Holds(t)
    BY <1>1, <1>2, <1>4 DEF Holds, InsertSteps
  <2> QED BY <1>2, <2>1, SameWaiting
<1> QED BY <1>0, <1>2, <1>4, <1>5, <1>6, InsertStill

LEMMA SetTailIsStill ==
  ASSUME Now, NEW i \in Workers, SetTail(i)
  PROVE  Still
<1>0. HandleStep(i)
  BY DEF HandleStep
<1>1. /\ i \in Threads /\ i # Main /\ QueueOf(i) = Main
      /\ \A t \in Threads : t # i => pc'[t] = pc[t] /\ local'[t] = local[t]
      /\ i \in Users => \A t \in Threads : t # i => pc[t] \notin Reading \cup RemoveSteps
      /\ pc \in [Threads -> Steps] /\ local \in [Threads -> Locals]
      /\ tail \in [Queues -> Pointers]
  BY <1>0, Apart
<1>s. pc[i] = "set tail"
  BY DEF SetTail, At
<1>q. /\ local[i].reg = local[i].new
      /\ local[i].new \in Reach(next, head[Main]) /\ next[local[i].new] = NULL
  BY <1>s DEF Now, Serial, SeesQueue
<1>2. /\ pc'[i] = "read" /\ tail'[Main] = local[i].new
      /\ local'[i].el = local[i].el /\ local'[i].unread = local[i].unread
      /\ node' = node /\ used' = used /\ next' = next
      /\ head' = head /\ entry' = entry
  <2>1. /\ local' = [local EXCEPT ![i].new = NULL, ![i].reg = NULL] /\ pc' = [pc EXCEPT ![i] = "read"]
        /\ tail' = [tail EXCEPT ![Main] = local[i].reg]
    BY <1>1 DEF SetTail, Goto
  <2>2. node' = node /\ used' = used /\ next' = next /\ head' = head /\ entry' = entry
    BY DEF SetTail, memory
  <2> QED BY <1>1, <1>q, <2>1, <2>2, Numbers DEF Locals
<1>3. i \in Users
  BY <1>1, <1>s DEF Users, InsertSteps
<1>4. pc[i] \in InsertSteps /\ pc'[i] \notin InsertSteps
  BY <1>2, <1>s DEF InsertSteps
<1>5. Serial'
  <2>1. \A t \in Threads : t # i => pc'[t] \notin Reading \cup RemoveSteps
    BY <1>1, <1>3
  <2>2. SeesQueue(i)'
    BY <1>2 DEF SeesQueue
  <2>3. Sound'
    BY <1>2, <1>q DEF Sound
  <2> QED BY <2>1, <2>2, <2>3, OneSerial
<1>6. Waiting' = Waiting
  <2>1. \A t \in Threads : t # i => Holds(t)' = Holds(t)
    BY <1>1 DEF Holds
  <2>2. Holds(i) = {local[i].new} /\ Holds(i)' = {}
    BY <1>2, <1>s DEF Holds, InsertSteps
  <2>3. Reach(next, head[Main])' = Reach(next, head[Main])
    BY <1>2
  <2> QED BY <1>1, <1>q, <2>1, <2>2, <2>3, LetGo
<1> QED BY <1>0, <1>2, <1>4, <1>5, <1>6, InsertStill

LEMMA SetHeadIsStill ==
  ASSUME Now, NEW i \in Workers, SetHead(i)
  PROVE  Still
<1>0. HandleStep(i)
  BY DEF HandleStep
<1>1. /\ i \in Threads /\ i # Main /\ QueueOf(i) = Main
      /\ \A t \in Threads : t # i => pc'[t] = pc[t] /\ local'[t] = local[t]
      /\ i \in Users => \A t \in Threads : t # i => pc[t] \notin Reading \cup RemoveSteps
      /\ pc \in [Threads -> Steps] /\ local \in [Threads -> Locals]
      /\ next \in [Elements -> Pointers] /\ head \in [Queues -> Pointers]
      /\ local[i].new \in Pointers
  BY <1>0, Apart
<1>s. pc[i] = "set head"
  BY DEF SetHead, At
<1>q. /\ head[Main] = NULL /\ local[i].new \in Elements /\ next[local[i].new] = NULL
  <2>1. head[Main] = NULL
    BY <1>s DEF Now, Serial, SeesQueue
  <2>2. local[i].new \in Elements
    BY <1>1, <1>s DEF Now, IInv, InHand, InsertSteps, Pointers
  <2>3. Loose(local[i].new)
    BY <1>s DEF Loose, Linking
  <2> QED BY <2>1, <2>2, <2>3 DEF Now, ChainInv, LooseEnds
<1>2. /\ pc'[i] = "set tail" /\ head'[Main] = local[i].new
      /\ local'[i].reg = local[i].new /\ local'[i].new = local[i].new
      /\ local'[i].el = local[i].el /\ local'[i].unread = local[i].unread
      /\ node' = node /\ used' = used /\ next' = next
      /\ entry' = entry
  <2>1. /\ local' = [local EXCEPT ![i].reg = local[i].new] /\ pc' = [pc EXCEPT ![i] = "set tail"]
        /\ head' = [head EXCEPT ![Main] = local[i].new]
    BY <1>1 DEF SetHead, Goto
  <2>2. node' = node /\ used' = used /\ next' = next /\ entry' = entry
    BY DEF SetHead, memory
  <2> QED BY <1>1, <1>q, <2>1, <2>2, Numbers DEF Locals
<1>3. i \in Users
  BY <1>1, <1>s DEF Users, InsertSteps
<1>4. pc[i] \in InsertSteps /\ pc'[i] \in InsertSteps
  BY <1>2, <1>s DEF InsertSteps
<1>r. Reach(next, head[Main]) = {} /\ Reach(next, head[Main])' = {local[i].new}
  <2>1. Reach(next, NULL) = {}
    BY <1>1, ReachHas
  <2>2. Reach(next, local[i].new) \subseteq {local[i].new}
    BY <1>1, <1>q, ReachLast
  <2>3. local[i].new \in Reach(next, local[i].new)
    BY <1>1, <1>q, Numbers, ReachHas
  <2> QED BY <1>2, <1>q, <2>1, <2>2, <2>3
<1>5. Serial'
  <2>1. \A t \in Threads : t # i => pc'[t] \notin Reading \cup RemoveSteps
    BY <1>1, <1>3
  <2>2. SeesQueue(i)'
    BY <1>2, <1>q, <1>r DEF SeesQueue
  <2> QED BY <1>2, <2>1, <2>2, OneSerial
<1>6. Waiting' = Waiting
  <2>1. \A t \in Threads : Holds(t)' = Holds(t)
    BY <1>1, <1>2, <1>4 DEF Holds, InsertSteps
  <2>2. local[i].new \in Holds(i)
    BY <1>4 DEF Holds
  <2> QED BY <1>1, <1>r, <2>1, <2>2, TakeUp
<1> QED BY <1>0, <1>2, <1>4, <1>5, <1>6, InsertStill

LEMMA LinkIsStill ==
  ASSUME Now, NEW i \in Workers, Link(i)
  PROVE  Still
<1>0. HandleStep(i)
  BY DEF HandleStep
<1>1. /\ i \in Threads /\ i # Main /\ QueueOf(i) = Main
      /\ \A t \in Threads : t # i => pc'[t] = pc[t] /\ local'[t] = local[t]
      /\ i \in Users => \A t \in Threads : t # i => pc[t] \notin Reading \cup RemoveSteps
      /\ pc \in [Threads -> Steps] /\ local \in [Threads -> Locals]
      /\ next \in [Elements -> Pointers] /\ head \in [Queues -> Pointers]
      /\ local[i].new \in Pointers /\ head[Main] \in Pointers
  BY <1>0, Apart, Numbers
<1>s. pc[i] = "link"
  BY DEF Link, At
<1>3. i \in Users
  BY <1>1, <1>s DEF Users, InsertSteps
<1> DEFINE last == tail[Main]
           new == local[i].new
<1>q. /\ local[i].reg = last /\ last \in Reach(next, head[Main]) /\ next[last] = NULL
      /\ new \in Elements /\ next[new] = NULL /\ last # new /\ last \in Elements
  <2>1. local[i].reg = last /\ head[Main] # NULL
    BY <1>s DEF Now, Serial, SeesQueue
  <2>2. new \in Elements
    BY <1>1, <1>s DEF Now, IInv, InHand, InsertSteps, Pointers
  <2>3. Loose(new)
    BY <1>s DEF Loose, Linking
  <2>4. next[new] = NULL /\ last # new
    BY <2>2, <2>3 DEF Now, ChainInv, LooseEnds
  <2>5. \A j \in Workers : pc[j] \notin {"get next", "set tail"}
    BY <1>1, <1>s, <1>3, Numbers DEF Reading, InsertSteps
  <2>6. Sound
    BY <2>5 DEF Now, Serial
  <2>7. last \in Reach(next, head[Main]) /\ next[last] = NULL
    BY <2>1, <2>6 DEF Sound
  <2>8. last \in Elements
    BY <1>1, <2>7, ReachHas
  <2> QED BY <2>1, <2>2, <2>4, <2>7, <2>8
<1>2. /\ pc'[i] = "get next" /\ next' = [next EXCEPT ![last] = new]
      /\ local' = local /\ node' = node /\ used' = used
      /\ head' = head /\ tail' = tail /\ entry' = entry
  <2>1. local[i].reg # NULL
    BY <1>q, Numbers
  <2>2. pc' = [pc EXCEPT ![i] = "get next"] /\ next' = [next EXCEPT ![local[i].reg] = new]
    BY <2>1 DEF Link, Goto
  <2>3. local' = local /\ node' = node /\ used' = used /\ head' = head /\ tail' = tail /\ entry' = entry
    BY DEF Link, queue
  <2> QED BY <1>1, <1>q, <2>2, <2>3
<1>4. pc[i] \in InsertSteps /\ pc'[i] \in InsertSteps
  BY <1>2, <1>s DEF InsertSteps
<1>r. Reach(next, head[Main])' = Reach(next, head[Main]) \cup {new}
  <2>1. Reach(Linked(next, last, new), head[Main]) = Reach(next, head[Main]) \cup {new}
    <3>1. /\ next \in [Elements -> Pointers] /\ head[Main] \in Pointers /\ new \in Elements
          /\ last \in Reach(next, head[Main]) /\ last # new /\ next[last] = NULL /\ next[new] = NULL
      BY <1>1, <1>q
    <3> HIDE DEF last, new
    <3> QED BY ONLY <3>1, ReachAppend
  <2> QED BY <1>2, <2>1 DEF Linked
<1>5. Serial'
  <2>1. \A t \in Threads : t # i => pc'[t] \notin Reading \cup RemoveSteps
    BY <1>1, <1>3
  <2>2. next'[last] = new /\ next'[new] = NULL
    BY <1>1, <1>2, <1>q
  <2>3. SeesQueue(i)'
    BY <1>2, <1>q, <1>r, <2>2 DEF SeesQueue
  <2> QED BY <1>2, <2>1, <2>3, OneSerial
<1>6. Waiting' = Waiting
  <2>1. \A t \in Threads : Holds(t)' = Holds(t)
    BY <1>1, <1>2, <1>4 DEF Holds, InsertSteps
  <2>2. new \in Holds(i)
    BY <1>4 DEF Holds
  <2> QED BY <1>1, <1>r, <2>1, <2>2, TakeUp
<1> QED BY <1>0, <1>2, <1>4, <1>5, <1>6, InsertStill

\* Reading the dirent, and what it holds, is a step of the one thread there.
LEMMA ReadIsStill ==
  ASSUME Tree, Now, NEW i \in Workers, Read(i) \/ SkipDot(i) \/ SkipDotDot(i)
  PROVE  Still
<1>0. HandleStep(i)
  BY DEF HandleStep
<1>1. /\ i \in Threads /\ Reads(i) /\ StateOK /\ TreeInv
      /\ \A t \in Threads : t # i => pc'[t] = pc[t] /\ local'[t] = local[t]
      /\ i \in Users => \A t \in Threads : t # i => pc[t] \notin Reading \cup RemoveSteps
      /\ pc \in [Threads -> Steps]
  BY <1>0, Apart DEF Now, IInv
<1>2. /\ pc[i] \in {"read", "dot", "dotdot"} /\ pc'[i] \in {"read", "dot", "dotdot", "name", "return"}
      /\ node' = node /\ used' = used /\ next' = next
      /\ head' = head /\ tail' = tail
  BY <1>1 DEF Read, SkipDot, SkipDotDot, At, Goto, memory, queue
<1>3. i \in Users
  BY <1>1, <1>2 DEF Users
<1>4. Reads(i)' /\ Owed(i)' = Owed(i) /\ local'[i].el = local[i].el
  BY <1>1, <1>2, ReadOn, SkipOn
<1>5. ASSUME NEW t \in Threads
      PROVE  Reads(t)' /\ Owed(t)' = Owed(t) /\ (Owed(t) # {} => local'[t].el = local[t].el)
  <2>1. CASE t # i
    BY <1>1, <1>2, <1>3, <2>1, Others
  <2> QED BY <1>4, <2>1
<1>6. Waiting' = Waiting
  <2>1. \A t \in Threads : t # i => Holds(t)' = Holds(t)
    BY <1>1 DEF Holds
  <2>2. Holds(i) = {} /\ Holds(i)' = {}
    BY <1>2 DEF Holds, InsertSteps
  <2> QED BY <1>2, <2>1, <2>2, SameWaiting
<1>7. Serial'
  BY <1>1, <1>2, CalmSerial DEF Now, Special
<1>8. \A t \in Threads : pc'[t] = pc[t] \/ pc[t] # "stat"
  BY <1>1, <1>2
<1> QED BY <1>1, <1>2, <1>5, <1>6, <1>7, <1>8, StillIs

LEMMA NameIsStill ==
  ASSUME Tree, Now, NEW i \in Workers, Name(i)
  PROVE  Still
<1>0. HandleStep(i)
  BY DEF HandleStep
<1>1. /\ i \in Threads /\ Reads(i) /\ StateOK /\ TreeInv /\ i \in Handling
      /\ \A t \in Threads : t # i => pc'[t] = pc[t] /\ local'[t] = local[t]
      /\ i \in Users => \A t \in Threads : t # i => pc[t] \notin Reading \cup RemoveSteps
      /\ pc \in [Threads -> Steps] /\ local \in [Threads -> Locals]
  BY <1>0, Apart DEF Now, IInv
<1>u. used \in Nat /\ used + 1 \in Elements /\ used >= 1
  <2>1. used \in 0..MaxElements /\ used < MaxElements /\ MaxElements \in Nat
    BY <1>1, Numbers DEF Name, StateOK
  <2>2. local[i].el \in 1..used
    BY <1>1 DEF Name, At, Reads, Lists, Reading
  <2> QED BY <2>1, <2>2 DEF Elements
<1>2. /\ pc[i] = "name" /\ pc'[i] = "insert" /\ used' = used + 1
      /\ node' = [node EXCEPT ![used + 1] = Target[node[local[i].el]][entry]]
      /\ local'[i].new = used + 1 /\ local'[i].el = local[i].el /\ local'[i].unread = local[i].unread
      /\ next' = next /\ head' = head /\ tail' = tail /\ entry' = entry
  <2>1. local' = [local EXCEPT ![i].new = used + 1] /\ pc' = [pc EXCEPT ![i] = "insert"]
    BY DEF Name, Goto
  <2>2. /\ pc[i] = "name" /\ used' = used + 1 /\ next' = next /\ entry' = entry
        /\ node' = [node EXCEPT ![used + 1] = Target[node[local[i].el]][entry]]
        /\ head' = head /\ tail' = tail
    BY DEF Name, At, queue
  <2> QED BY <1>1, <2>1, <2>2 DEF Locals
<1>3. i \in Users
  BY <1>1, <1>2 DEF Users
<1>n. \A e \in 1..used : node'[e] = node[e] /\ e \in 1..used'
  <2>1. node \in [Elements -> Nodes \cup {Nowhere}]
    BY <1>1 DEF StateOK
  <2>2. MaxElements \in Nat /\ used + 1 <= MaxElements
    BY <1>u, Numbers DEF Elements
  <2>3. \A e \in 1..used : e \in Elements /\ e # used + 1 /\ e \in 1..(used + 1)
    BY <1>u, <2>2 DEF Elements
  <2> QED BY <1>2, <2>1, <2>3
<1>5. \A t \in Threads : t # i => Reads(t)' /\ Owed(t)' = Owed(t) /\ local'[t].el = local[t].el
                                  /\ Holds(t)' = Holds(t)
  BY <1>1, <1>2, <1>n, Others
<1>6. \A t \in Threads : t # i => Owed(t) = {}
  BY <1>1, <1>3 DEF Owed
<1>7. local[i].el \notin Waiting
  <2>1. Holds(i) = {}
    BY <1>2 DEF Holds, InsertSteps
  <2>2. /\ local[i].el \notin Reach(next, head[Main])
        /\ \A t \in Threads : t # i => local[i].el \notin Holds(t)
    BY <1>1, ElApart DEF Now
  <2> QED BY <2>1, <2>2 DEF Waiting
<1>8. Waiting' = Waiting \cup {used + 1}
  <2>1. Holds(i) = {} /\ Holds(i)' = {used + 1}
    BY <1>2 DEF Holds, InsertSteps
  <2>2. Reach(next, head[Main])' = Reach(next, head[Main])
    BY <1>2
  <2> QED BY <1>1, <1>5, <2>1, <2>2, PickUp
<1>9. TreeInv' /\ Todo' = Todo /\ Counted' = Counted
  BY <1>1, <1>u, <1>2, <1>5, <1>6, <1>7, <1>8, TreeName
<1>10. Serial'
  BY <1>1, <1>2, CalmSerial DEF Now, Special
<1>11. \A j \in Workers : ~Counts(j)
  BY <1>1, <1>2, Numbers DEF Counts
<1> QED BY <1>9, <1>10, <1>11 DEF Still

\* A thread handles the element in its hand.
Handles(i) ==
  LET n == node[local[i].el] IN
  /\ Serial' /\ TreeInv' /\ local[i].el \in 1..used /\ n \in Todo
  /\ Todo' = (Todo \ {n}) \cup Revealed(n)
  /\ n \notin Counted
  /\ Counted' = IF n \in Files \ Unreadable THEN Counted \cup {n} ELSE Counted
  /\ Counts(i) <=> ~Listed(n)
  /\ \A j \in Workers : j # i => ~Counts(j)

LEMMA StatHandles ==
  ASSUME Tree, Now, NEW i \in Workers, Stat(i)
  PROVE  Handles(i)
<1>0. HandleStep(i)
  BY DEF HandleStep
<1>1. /\ i \in Threads /\ Reads(i) /\ StateOK /\ TreeInv /\ i \in Handling
      /\ \A t \in Threads : t # i => pc'[t] = pc[t] /\ local'[t] = local[t]
      /\ pc \in [Threads -> Steps] /\ local \in [Threads -> Locals]
  BY <1>0, Apart DEF Now, IInv
<1> DEFINE n == node[local[i].el]
<1>2. /\ pc[i] = "stat" /\ node' = node /\ used' = used /\ next' = next
      /\ head' = head /\ tail' = tail /\ entry' = entry
  BY DEF Stat, At, queue
<1>3. \/ Listed(n) /\ pc'[i] = "read" /\ local'[i].unread = Listing[n] /\ local'[i].el = local[i].el
      \/ ~Listed(n) /\ pc'[i] = "return" /\ local'[i].unread = local[i].unread /\ local'[i].el = local[i].el
  <2>1. \/ Listed(n) /\ pc' = [pc EXCEPT ![i] = "read"] /\ local' = [local EXCEPT ![i].unread = Listing[n]]
        \/ ~Listed(n) /\ pc' = [pc EXCEPT ![i] = "return"] /\ local' = [local EXCEPT ![i].found = Yield(n)]
    BY DEF Stat, Goto
  <2>2. local[i] \in Locals
    BY <1>1
  <2> QED BY <1>1, <2>1, <2>2 DEF Locals
<1>4. "stat" \notin Reading /\ "return" \notin Reading
  BY DEF Reading, InsertSteps
<1>5. \A t \in Threads : t # i => Reads(t)' /\ Owed(t)' = Owed(t) /\ local'[t].el = local[t].el
                                  /\ Holds(t)' = Holds(t)
  BY <1>1, <1>2, Others
<1>6. local[i].el \in Waiting /\ Waiting' = Waiting \ {local[i].el}
  <2>1. Holds(i) = {local[i].el} /\ Holds(i)' = {}
    BY <1>2, <1>3 DEF Holds, InsertSteps
  <2>2. /\ local[i].el \notin Reach(next, head[Main])
        /\ \A t \in Threads : t # i => local[i].el \notin Holds(t)
    BY <1>1, ElApart DEF Now
  <2>3. Reach(next, head[Main])' = Reach(next, head[Main])
    BY <1>2
  <2> QED BY <1>1, <1>5, <2>1, <2>2, <2>3, PutDown
<1>7. /\ TreeInv' /\ n \in Todo
      /\ Todo' = (Todo \ {n}) \cup Revealed(n)
      /\ n \notin Counted
      /\ Counted' = IF n \in Files \ Unreadable THEN Counted \cup {n} ELSE Counted
  <2>1. local'[i].el = local[i].el /\ pc[i] \notin Reading
    BY <1>2, <1>3, <1>4
  <2>2. \/ Listed(n) /\ pc'[i] = "read" /\ local'[i].unread = Listing[n]
        \/ ~Listed(n) /\ pc'[i] \notin Reading /\ local'[i].unread = local[i].unread
    BY <1>3, <1>4
  <2> QED BY <1>1, <1>2, <1>5, <1>6, <2>1, <2>2, TreeHandle
<1>8. Serial'
  BY <1>1, <1>2, <1>3, CalmSerial DEF Now, Special
<1>9. (Counts(i) <=> ~Listed(n)) /\ \A j \in Workers : j # i => ~Counts(j)
  BY <1>1, <1>2, <1>3, Numbers DEF Counts
<1>10. local[i].el \in 1..used
  BY <1>1, <1>6 DEF TreeInv
<1> QED BY <1>7, <1>8, <1>9, <1>10 DEF Handles

\* A step that leaves the queue and the tree alone, of threads that list nothing.
LEMMA IdleStill ==
  ASSUME Now, node' = node, used' = used, next' = next, head' = head, tail' = tail, entry' = entry,
         \A t \in Threads :
           \/ pc'[t] = pc[t] /\ local'[t] = local[t]
           \/ /\ pc[t] \notin Reading \cup {"stat"} /\ pc'[t] \notin Reading \cup {"follow", "advance"}
              /\ local'[t].unread = local[t].unread \/ local'[t].unread = <<>>,
         Waiting' = Waiting
  PROVE  Still
<1>1. ASSUME NEW t \in Threads
      PROVE  /\ Reads(t)' /\ Owed(t)' = Owed(t) /\ (Owed(t) # {} => local'[t].el = local[t].el)
             /\ pc'[t] = pc[t] \/ pc[t] # "stat"
             /\ \/ pc'[t] = pc[t] /\ local'[t] = local[t]
                \/ pc[t] \notin {"get next", "set tail"} /\ pc'[t] \notin Special
  <2>1. CASE pc'[t] = pc[t] /\ local'[t] = local[t]
    BY <2>1, Others DEF Now
  <2>2. CASE /\ pc[t] \notin Reading \cup {"stat"} /\ pc'[t] \notin Reading \cup {"follow", "advance"}
             /\ local'[t].unread = local[t].unread \/ local'[t].unread = <<>>
    <3>1. Reads(t)' /\ Owed(t)' = Owed(t) /\ Owed(t) = {}
      BY <2>2, IdleOn DEF Now, TreeInv
    <3>2. pc[t] \notin {"get next", "set tail"} /\ pc'[t] \notin Special
      BY <2>2 DEF Reading, InsertSteps, Special
    <3> QED BY <2>2, <3>1, <3>2
  <2> QED BY <2>1, <2>2
<1>2. Serial'
  BY <1>1, CalmSerial DEF Now
<1> QED BY <1>1, <1>2, StillIs DEF Now

LEMMA WrapperStill ==
  ASSUME Now, NEW i \in Workers, Store(i) \/ Stop(i)
  PROVE  Still
<1>1. /\ i \in Threads /\ pc \in [Threads -> Steps] /\ local \in [Threads -> Locals]
  BY Numbers DEF Now, IInv, StateOK
<1>2. /\ pc[i] \in {"return", "stop"} /\ pc'[i] \in {"stop", "off"}
      /\ \A t \in Threads : t # i => pc'[t] = pc[t] /\ local'[t] = local[t]
      /\ local'[i].unread = local[i].unread \/ local'[i].unread = <<>>
      /\ node' = node /\ used' = used /\ next' = next
      /\ head' = head /\ tail' = tail /\ entry' = entry
  <2>1. ASSUME Store(i)
        PROVE  /\ pc[i] = "return" /\ pc' = [pc EXCEPT ![i] = "stop"] /\ local' = [local EXCEPT ![i] = Fresh]
               /\ node' = node /\ used' = used /\ next' = next
               /\ head' = head /\ tail' = tail /\ entry' = entry
    BY <2>1 DEF Store, At, Goto, memory, queue
  <2>2. ASSUME Stop(i)
        PROVE  /\ pc[i] = "stop" /\ pc' = [pc EXCEPT ![i] = "off"] /\ local' = local
               /\ node' = node /\ used' = used /\ next' = next
               /\ head' = head /\ tail' = tail /\ entry' = entry
    BY <2>2 DEF Stop, At, Goto, memory, queue
  <2>3. Fresh.unread = <<>>
    BY DEF Fresh
  <2> QED BY <1>1, <2>1, <2>2, <2>3
<1>3. pc[i] \notin Reading \cup {"stat"} /\ pc'[i] \notin Reading \cup {"follow", "advance"}
  BY <1>2 DEF Reading, InsertSteps
<1>4. Waiting' = Waiting
  <2>1. \A t \in Threads : t # i => Holds(t)' = Holds(t)
    BY <1>2 DEF Holds
  <2>2. Holds(i) = {} /\ Holds(i)' = {}
    BY <1>2 DEF Holds, InsertSteps
  <2>3. Reach(next, head[Main])' = Reach(next, head[Main])
    BY <1>2
  <2> QED BY <2>1, <2>2, <2>3, SameWaiting
<1>5. \A t \in Threads :
           \/ pc'[t] = pc[t] /\ local'[t] = local[t]
           \/ /\ pc[t] \notin Reading \cup {"stat"} /\ pc'[t] \notin Reading \cup {"follow", "advance"}
              /\ local'[t].unread = local[t].unread \/ local'[t].unread = <<>>
  BY <1>2, <1>3
<1> QED BY <1>2, <1>4, <1>5, IdleStill

\* Main's steps that only look, or collect.
LEMMA LooksStill ==
  ASSUME Now, Test \/ Empty \/ Scan \/ Collect \/ Look \/ Sum
  PROVE  Still
<1>1. Main \in Threads /\ pc \in [Threads -> Steps]
  BY Numbers DEF Now, IInv, StateOK
<1> DEFINE Loop == {"test", "empty", "scan", "collect", "look", "sum", "done", "take"}
<1>2. /\ pc[Main] \in Loop /\ pc'[Main] \in Loop
      /\ \A t \in Threads : t # Main => pc'[t] = pc[t]
      /\ local' = local /\ node' = node /\ used' = used /\ next' = next
      /\ head' = head /\ tail' = tail /\ entry' = entry
  <2>1. CASE Test
    BY <1>1, <2>1 DEF Test, At, Goto, memory, queue
  <2>2. CASE Empty
    BY <1>1, <2>2 DEF Empty, At, Goto, memory, queue
  <2>3. CASE Scan
    BY <1>1, <2>3 DEF Scan, At, Goto, memory, queue
  <2>4. CASE Collect
    BY <1>1, <2>4 DEF Collect, At, Goto, memory, queue
  <2>5. CASE Look
    BY <1>1, <2>5 DEF Look, At, Goto, memory, queue
  <2>6. CASE Sum
    BY <1>1, <2>6 DEF Sum, At, Goto, memory, queue
  <2> QED BY <2>1, <2>2, <2>3, <2>4, <2>5, <2>6
<1>3. pc[Main] \notin Reading \cup {"stat"} /\ pc'[Main] \notin Reading \cup {"follow", "advance"}
  BY <1>2 DEF Reading, InsertSteps
<1>4. Waiting' = Waiting
  <2>1. \A t \in Threads : t # Main => Holds(t)' = Holds(t)
    BY <1>2 DEF Holds
  <2>2. Holds(Main) = {} /\ Holds(Main)' = {}
    BY <1>2 DEF Holds, InsertSteps
  <2>3. Reach(next, head[Main])' = Reach(next, head[Main])
    BY <1>2
  <2> QED BY <2>1, <2>2, <2>3, SameWaiting
<1>5. \A t \in Threads :
           \/ pc'[t] = pc[t] /\ local'[t] = local[t]
           \/ /\ pc[t] \notin Reading \cup {"stat"} /\ pc'[t] \notin Reading \cup {"follow", "advance"}
              /\ local'[t].unread = local[t].unread \/ local'[t].unread = <<>>
  BY <1>2, <1>3
<1> QED BY <1>2, <1>4, <1>5, IdleStill

\* Main's steps that remove, and what they have in common.
LEMMA RemoveStill ==
  ASSUME Now, pc[Main] \in RemoveSteps, pc'[Main] \in RemoveSteps \cup {"spawn"},
         \A t \in Threads : t # Main => pc'[t] = pc[t] /\ local'[t] = local[t],
         local'[Main].unread = local[Main].unread,
         node' = node, used' = used, next' = next, entry' = entry, Serial',
         Waiting' = Waiting
  PROVE  Still
<1>1. pc[Main] \notin Reading \cup {"stat"} /\ pc'[Main] \notin Reading
  BY DEF Reading, InsertSteps, RemoveSteps
<1>2. Reads(Main)' /\ Owed(Main)' = Owed(Main) /\ Owed(Main) = {}
  BY <1>1, IdleOn, Numbers DEF Now, TreeInv
<1>3. ASSUME NEW t \in Threads
      PROVE  Reads(t)' /\ Owed(t)' = Owed(t) /\ (Owed(t) # {} => local'[t].el = local[t].el)
  <2>1. CASE t # Main
    BY <2>1, Others DEF Now
  <2> QED BY <1>2, <2>1
<1>4. \A t \in Threads : pc'[t] = pc[t] \/ pc[t] # "stat"
  BY <1>1
<1> QED BY <1>3, <1>4, StillIs DEF Now

LEMMA RemoverAlone ==
  ASSUME Now, pc[Main] \in RemoveSteps
  PROVE  /\ \A t \in Workers : pc[t] \notin Reading \cup RemoveSteps
         /\ \A t \in Workers : t \in Threads /\ t # Main
         /\ Sound /\ Main \in Threads /\ QueueOf(Main) = Main /\ head[Main] \in Pointers
         /\ pc \in [Threads -> Steps] /\ local \in [Threads -> Locals]
         /\ next \in [Elements -> Pointers] /\ head \in [Queues -> Pointers]
         /\ local[Main] \in Locals
<1>1. Main \in Users
  BY Numbers DEF Users
<1>2. \A t \in Workers : t \in Threads /\ t # Main
  BY Numbers
<1>3. \A t \in Workers : pc[t] \notin Reading \cup RemoveSteps
  BY <1>1, <1>2, AloneOthers DEF Now
<1>4. Sound
  BY <1>3 DEF Now, Serial, Reading, InsertSteps
<1> QED BY <1>2, <1>3, <1>4, Numbers DEF Now, IInv, StateOK, QueueOf

LEMMA TakeStill ==
  ASSUME Now, Take(Main)
  PROVE  Still
<1>s. pc[Main] = "take" /\ pc[Main] \in RemoveSteps
  BY DEF Take, At, RemoveSteps
<1>1. /\ \A t \in Workers : pc[t] \notin Reading \cup RemoveSteps
      /\ \A t \in Workers : t \in Threads /\ t # Main
      /\ Sound /\ Main \in Threads /\ QueueOf(Main) = Main /\ head[Main] \in Pointers
      /\ pc \in [Threads -> Steps] /\ local \in [Threads -> Locals]
      /\ next \in [Elements -> Pointers] /\ local[Main] \in Locals
  BY <1>s, RemoverAlone
<1>2. /\ pc'[Main] = "follow" /\ local'[Main].el = head[Main] /\ local'[Main].unread = local[Main].unread
      /\ \A t \in Threads : t # Main => pc'[t] = pc[t] /\ local'[t] = local[t]
      /\ node' = node /\ used' = used /\ next' = next /\ head' = head /\ tail' = tail /\ entry' = entry
  <2>1. local' = [local EXCEPT ![Main].el = head[Main]] /\ pc' = [pc EXCEPT ![Main] = "follow"]
    BY <1>1 DEF Take, Goto
  <2>2. node' = node /\ used' = used /\ next' = next /\ head' = head /\ tail' = tail /\ entry' = entry
    BY DEF Take, memory, queue
  <2> QED BY <1>1, <2>1, <2>2 DEF Locals
<1>3. head[Main] # NULL
  BY <1>s DEF Now, IInv, Roles
<1>4. Serial'
  <2>1. SeesHead'
    BY <1>2, <1>3 DEF SeesHead
  <2>2. Sound'
    BY <1>1, <1>2 DEF Sound
  <2>3. \A t \in Workers : pc'[t] \notin Reading \cup RemoveSteps
    BY <1>1, <1>2
  <2> QED BY <2>1, <2>2, <2>3, MainSerial
<1>5. Waiting' = Waiting
  <2>1. Holds(Main) = {} /\ Holds(Main)' = {head[Main]}
    BY <1>2, <1>s DEF Holds, InsertSteps
  <2>2. \A t \in Threads : t # Main => Holds(t)' = Holds(t)
    BY <1>2 DEF Holds
  <2>3. Reach(next, head[Main])' = Reach(next, head[Main])
    BY <1>2
  <2>4. head[Main] \in Reach(next, head[Main])
    BY <1>1, <1>3, ReachHas
  <2>5. Waiting' = Waiting \cup {head[Main]}
    BY <1>1, <2>1, <2>2, <2>3, PickUp
  <2> QED BY <2>4, <2>5 DEF Waiting
<1>6. pc'[Main] \in RemoveSteps
  BY <1>2 DEF RemoveSteps
<1> QED BY <1>s, <1>2, <1>4, <1>5, <1>6, RemoveStill

LEMMA FollowStill ==
  ASSUME Now, Follow(Main)
  PROVE  Still
<1>s. pc[Main] = "follow" /\ pc[Main] \in RemoveSteps
  BY DEF Follow, At, RemoveSteps
<1>1. /\ \A t \in Workers : pc[t] \notin Reading \cup RemoveSteps
      /\ \A t \in Workers : t \in Threads /\ t # Main
      /\ Sound /\ Main \in Threads /\ QueueOf(Main) = Main /\ head[Main] \in Pointers
      /\ pc \in [Threads -> Steps] /\ local \in [Threads -> Locals]
      /\ next \in [Elements -> Pointers] /\ local[Main] \in Locals
  BY <1>s, RemoverAlone
<1>2. /\ pc'[Main] = "advance" /\ local'[Main].reg = next[head[Main]]
      /\ local'[Main].el = local[Main].el /\ local'[Main].unread = local[Main].unread
      /\ \A t \in Threads : t # Main => pc'[t] = pc[t] /\ local'[t] = local[t]
      /\ node' = node /\ used' = used /\ next' = next /\ head' = head /\ tail' = tail /\ entry' = entry
  <2>1. local' = [local EXCEPT ![Main].reg = next[head[Main]]] /\ pc' = [pc EXCEPT ![Main] = "advance"]
    BY <1>1 DEF Follow, Goto
  <2>2. node' = node /\ used' = used /\ next' = next /\ head' = head /\ tail' = tail /\ entry' = entry
    BY DEF Follow, memory, queue
  <2> QED BY <1>1, <2>1, <2>2 DEF Locals
<1>3. head[Main] # NULL /\ local[Main].el = head[Main]
  BY <1>s DEF Now, Serial, SeesHead
<1>4. Serial'
  <2>1. SeesHead'
    BY <1>2, <1>3 DEF SeesHead
  <2>2. Sound'
    BY <1>1, <1>2 DEF Sound
  <2>3. \A t \in Workers : pc'[t] \notin Reading \cup RemoveSteps
    BY <1>1, <1>2
  <2> QED BY <2>1, <2>2, <2>3, MainSerial
<1>5. Waiting' = Waiting
  <2>1. \A t \in Threads : Holds(t)' = Holds(t)
    BY <1>2, <1>s DEF Holds, InsertSteps
  <2>2. Reach(next, head[Main])' = Reach(next, head[Main])
    BY <1>2
  <2> QED BY <2>1, <2>2, SameWaiting
<1>6. pc'[Main] \in RemoveSteps
  BY <1>2 DEF RemoveSteps
<1> QED BY <1>s, <1>2, <1>4, <1>5, <1>6, RemoveStill

LEMMA AdvanceStill ==
  ASSUME Now, Advance(Main, "spawn")
  PROVE  Still
<1>s. pc[Main] = "advance" /\ pc[Main] \in RemoveSteps
  BY DEF Advance, At, RemoveSteps
<1>1. /\ \A t \in Workers : pc[t] \notin Reading \cup RemoveSteps
      /\ \A t \in Workers : t \in Threads /\ t # Main
      /\ Sound /\ Main \in Threads /\ QueueOf(Main) = Main /\ head[Main] \in Pointers
      /\ pc \in [Threads -> Steps] /\ local \in [Threads -> Locals]
      /\ next \in [Elements -> Pointers] /\ head \in [Queues -> Pointers] /\ local[Main] \in Locals
  BY <1>s, RemoverAlone
<1>3. /\ head[Main] # NULL /\ local[Main].el = head[Main] /\ local[Main].reg = next[head[Main]]
      /\ head[Main] \in Elements
  <2>1. head[Main] # NULL /\ local[Main].el = head[Main] /\ local[Main].reg = next[head[Main]]
    BY <1>s DEF Now, Serial, SeesHead
  <2> QED BY <1>1, <2>1 DEF Pointers
<1>2. /\ pc'[Main] = "spawn" /\ head'[Main] = next[head[Main]]
      /\ local'[Main].el = local[Main].el /\ local'[Main].unread = local[Main].unread
      /\ \A t \in Threads : t # Main => pc'[t] = pc[t] /\ local'[t] = local[t]
      /\ node' = node /\ used' = used /\ next' = next /\ tail' = tail /\ entry' = entry
  <2>1. /\ local' = [local EXCEPT ![Main].reg = NULL] /\ pc' = [pc EXCEPT ![Main] = "spawn"]
        /\ head' = [head EXCEPT ![Main] = local[Main].reg]
    BY <1>1 DEF Advance, Goto
  <2>2. node' = node /\ used' = used /\ next' = next /\ tail' = tail /\ entry' = entry
    BY DEF Advance, memory
  <2> QED BY <1>1, <1>3, <2>1, <2>2, Numbers DEF Locals
<1>4. Reach(next, head[Main]) = {head[Main]} \cup Reach(next, head[Main])'
  <2>1. Reach(next, head[Main]) = {head[Main]} \cup Reach(next, next[head[Main]])
    BY <1>1, <1>3, ReachFirst
  <2> QED BY <1>2, <2>1
<1>5. Serial'
  <2>1. SeesHead'
    BY <1>2 DEF SeesHead
  <2>2. Sound'
    <3>1. tail[Main] \in Reach(next, head[Main]) /\ next[tail[Main]] = NULL
      BY <1>1, <1>3 DEF Sound
    <3>2. CASE tail[Main] = head[Main]
      BY <1>2, <3>1, <3>2 DEF Sound
    <3>3. CASE tail[Main] # head[Main]
      BY <1>2, <1>4, <3>1, <3>3 DEF Sound
    <3> QED BY <3>2, <3>3
  <2>3. \A t \in Workers : pc'[t] \notin Reading \cup RemoveSteps
    BY <1>1, <1>2
  <2> QED BY <2>1, <2>2, <2>3, MainSerial
<1>6. Waiting' = Waiting
  <2>1. \A t \in Threads : Holds(t)' = Holds(t)
    BY <1>2, <1>s DEF Holds, InsertSteps
  <2>2. head[Main] \in Holds(Main)
    BY <1>s, <1>3 DEF Holds
  <2> QED BY <1>1, <1>4, <2>1, <2>2, HandOver
<1>7. pc'[Main] \in RemoveSteps \cup {"spawn"}
  BY <1>2
<1> QED BY <1>s, <1>2, <1>5, <1>6, <1>7, RemoveStill

LEMMA SpawnStill ==
  ASSUME Now, Spawn
  PROVE  Still
<1>1. /\ Main \in Threads /\ slot \in Workers /\ slot \in Threads /\ slot # Main
      /\ pc \in [Threads -> Steps] /\ local \in [Threads -> Locals] /\ pc[Main] = "spawn"
  BY Numbers DEF Now, IInv, StateOK, Roles, Spawn, At
<1>2. pc[slot] = "off"
  BY <1>1 DEF Now, IInv, Roles
<1>3. /\ pc'[Main] = "test" /\ pc'[slot] = "stat"
      /\ \A t \in Threads : t # Main /\ t # slot => pc'[t] = pc[t] /\ local'[t] = local[t]
      /\ local'[Main].unread = local[Main].unread
      /\ local'[slot].unread = <<>> /\ local'[slot].el = local[Main].el
      /\ node' = node /\ used' = used /\ next' = next
      /\ head' = head /\ tail' = tail /\ entry' = entry
  <2>1. /\ pc' = [pc EXCEPT ![Main] = "test", ![slot] = "stat"]
        /\ local' = [local EXCEPT ![slot] = [Fresh EXCEPT !.el = local[Main].el], ![Main].el = NULL]
    BY DEF Spawn
  <2>2. pc'[Main] = "test" /\ pc'[slot] = "stat"
        /\ \A t \in Threads : t # Main /\ t # slot => pc'[t] = pc[t] /\ local'[t] = local[t]
    BY <1>1, <2>1
  <2>3. local'[Main] = [local[Main] EXCEPT !.el = NULL] /\ local'[slot] = [Fresh EXCEPT !.el = local[Main].el]
    BY <1>1, <2>1
  <2>4. local'[Main].unread = local[Main].unread
    BY <1>1, <2>3 DEF Locals
  <2>5. local'[slot].unread = <<>> /\ local'[slot].el = local[Main].el
    BY <2>3 DEF Fresh
  <2>6. node' = node /\ used' = used /\ next' = next /\ head' = head /\ tail' = tail /\ entry' = entry
    BY DEF Spawn, memory, queue
  <2> QED BY <2>2, <2>4, <2>5, <2>6
<1>k. slot' = slot
  BY DEF Spawn, mainVars
<1>4. /\ {pc[Main], pc[slot]} \cap (Reading \cup {"stat"}) = {}
      /\ {pc'[Main], pc'[slot]} \cap (Reading \cup {"follow", "advance"}) = {}
  BY <1>1, <1>2, <1>3 DEF Reading, InsertSteps
<1>5. Waiting' = Waiting
  <2>1. \A t \in Threads : t # Main /\ t # slot => Holds(t)' = Holds(t)
    BY <1>3 DEF Holds
  <2>2. /\ Holds(Main) = {local[Main].el} /\ Holds(Main)' = {}
        /\ Holds(slot) = {} /\ Holds(slot)' = {local[Main].el}
    BY <1>1, <1>2, <1>3, <1>k DEF Holds, InsertSteps
  <2>3. Reach(next, head[Main])' = Reach(next, head[Main])
    BY <1>3
  <2>4. PICK k \in Threads : k = slot /\ Holds(k) = {} /\ Holds(k)' = {local[Main].el}
    BY <1>1, <1>k, <2>2
  <2> QED BY <1>1, <2>1, <2>2, <2>3, <2>4, PassOn
<1>6. \A t \in Threads :
           \/ pc'[t] = pc[t] /\ local'[t] = local[t]
           \/ /\ pc[t] \notin Reading \cup {"stat"} /\ pc'[t] \notin Reading \cup {"follow", "advance"}
              /\ local'[t].unread = local[t].unread \/ local'[t].unread = <<>>
  BY <1>3, <1>4
<1> QED BY <1>3, <1>5, <1>6, IdleStill

-----------------------------------------------------------------------------
(* What the properties say of the work, and of the counts.                 *)

LEMMA SumZero ==
  ASSUME NEW S, IsFiniteSet(S), NEW g, \A x \in S : g[x] = 0
  PROVE  SumTo(g, S) = 0
<1> DEFINE B == {n \in Nat : \E s \in SUBSET S : Cardinality(s) = n /\ SumTo(g, s) # 0}
<1>1. \A s \in SUBSET S : IsFiniteSet(s) /\ Cardinality(s) \in Nat
  BY FS_Subset, FS_CardinalityType
<1>2. ASSUME B # {} PROVE FALSE
  <2>1. PICK m \in B : \A k \in B : ~(k < m)
    BY <1>2, LeastOf
  <2>2. PICK s \in SUBSET S : Cardinality(s) = m /\ SumTo(g, s) # 0
    BY <2>1
  <2>3. SumTo(g, s) = IF s = {} THEN 0 ELSE g[Pick(s)] + SumTo(g, s \ {Pick(s)})
    BY <1>1, SumPick
  <2>4. s # {}
    BY <2>2, <2>3
  <2>5. /\ Pick(s) \in s /\ Cardinality(s) # 0
        /\ Cardinality(s \ {Pick(s)}) = Cardinality(s) - 1
    BY <1>1, <2>4, PickIn
  <2>6. m - 1 \in Nat /\ m - 1 < m /\ s \ {Pick(s)} \in SUBSET S
    BY <2>1, <2>2, <2>5
  <2>7. SumTo(g, s \ {Pick(s)}) = 0
    <3>1. m - 1 \notin B
      BY <2>1, <2>6
    <3> QED BY <2>2, <2>5, <2>6, <3>1
  <2> QED BY <2>2, <2>3, <2>4, <2>5, <2>7
<1>3. Cardinality(S) \in Nat /\ S \in SUBSET S
  BY <1>1
<1> QED BY <1>2, <1>3

LEMMA TotalIs == Total = SumTo(Hits, Files \ Unreadable)
<1> DEFINE S == Files \ Unreadable
<1>1. Total = (CHOOSE F : SumFn(F, Hits, SUBSET S))[S]
  BY DEF Total, SumFn, MapThenSumSet, MapThenFoldSet, Pick
<1> QED BY <1>1 DEF SumTo

LEMMA KnownNodes ==
  ASSUME Tree, TreeInv
  PROVE  Known \subseteq Nodes
<1>1. SUFFICES ASSUME NEW e \in 1..used PROVE node[e] \in Nodes
  BY DEF Known
<1>2. CASE e = 1
  BY <1>2, MiniGrepAssumption DEF TreeInv, Planted, Nodes
<1>3. CASE e # 1
  <2>1. e \in 2..used
    BY <1>3
  <2>2. \E f \in 1..used : node[e] \in Revealed(node[f])
    BY <2>1 DEF TreeInv, Planted
  <2> QED BY <2>2, TreeFacts
<1> QED BY <1>2, <1>3

\* What handling something adds.
LEMMA YieldIs ==
  ASSUME Tree, NEW n \in Nodes
  PROVE  /\ n \in Files \ Unreadable => Yield(n) = Hits[n] /\ ~Listed(n)
         /\ n \notin Files \ Unreadable => Yield(n) = 0
<1>1. n # Nowhere
  BY MiniGrepAssumption
<1>2. ASSUME n \in Files \ Unreadable PROVE n \notin Dirs \cup Unreadable
  BY <1>2 DEF Tree
<1>3. ASSUME n \notin Files \ Unreadable PROVE n \in Dirs \cup Unreadable
  BY <1>3 DEF Nodes
<1> QED BY <1>1, <1>2, <1>3 DEF Yield, Listed

\* One more file counted.
LEMMA HitsMore ==
  ASSUME Tree, NEW S \in SUBSET (Files \ Unreadable), NEW n \in (Files \ Unreadable) \ S
  PROVE  SumTo(Hits, S \cup {n}) = SumTo(Hits, S) + Hits[n]
<1>1. IsFiniteSet(S \cup {n}) /\ IsFiniteSet(S)
  <2>1. IsFiniteSet(Files) /\ S \cup {n} \in SUBSET Files
    BY DEF Tree
  <2> QED BY <2>1, FS_Subset
<1>2. \A x \in S \cup {n} : Hits[x] \in Int
  BY MiniGrepAssumption
<1>3. SumTo(Hits, S \cup {n}) = Hits[n] + SumTo(Hits, (S \cup {n}) \ {n})
  BY <1>1, <1>2, SumRemove
<1>4. (S \cup {n}) \ {n} = S
  OBVIOUS
<1>5. SumTo(Hits, S) \in Int /\ Hits[n] \in Int
  BY <1>1, <1>2, SumRemove
<1>6. SumTo(Hits, (S \cup {n}) \ {n}) = SumTo(Hits, S)
  BY <1>4
<1> QED BY <1>3, <1>5, <1>6

\* The work as the property has it is what waits or is owed.
LEMMA PendingIs == IInv /\ ChainInv /\ TreeInv => Pending = Todo
<1> SUFFICES ASSUME IInv, ChainInv, TreeInv PROVE Pending = Todo
  OBVIOUS
<1>1. Queued = Reach(next, head[Main])
  <2>1. \A q \in Queues : Chain(head[q]) = Reach(next, head[q])
    BY ChainIs DEF IInv, StateOK
  <2>2. Reach(next, NULL) = {}
    BY Numbers, ReachHas DEF IInv, StateOK
  <2>3. \A q \in Queues : q # Main => Chain(head[q]) = {}
    BY <2>1, <2>2 DEF ChainInv, OneQueue
  <2>4. Main \in Queues
    BY Numbers
  <2> QED BY <2>1, <2>3, <2>4 DEF Queued
<1> DEFINE Hand == {"follow", "advance", "spawn", "open", "exit", "stat"}
<1>2. \A t \in Threads : pc[t] # "open" /\ pc[t] # "exit"
  BY DEF IInv, StateOK, Steps, MainSteps, HandleSteps, InsertSteps, RemoveSteps
<1>3. \A t \in Threads : pc[t] \in Hand \cup Reading => t \in Holders
  BY DEF Holders, Reading, HandleSteps
<1>4. \A t \in Threads : local[t].unread # <<>> => pc[t] \in Reading
  BY DEF TreeInv, Reads
<1>5. Holders \subseteq Threads
  BY DEF Holders
<1> DEFINE P1 == {node[e] : e \in Queued}
           P2 == {node[local[t].el] : t \in {u \in Holders : pc[u] \in Hand}}
           P3 == UNION {Entries(node[local[t].el], ToSet(local[t].unread)) : t \in
                          {u \in Holders : local[u].unread # <<>>}}
           P4 == UNION {Entries(node[local[t].el], {entry}) : t \in
                          {u \in Holders : pc[u] \in {"dot", "dotdot", "name"}}}
           P5 == {node[local[t].new] : t \in {u \in Holders : pc[u] \in InsertSteps}}
<1>6. Pending = P1 \cup P2 \cup P3 \cup P4 \cup P5
  BY DEF Pending
<1>7. P1 \cup P2 \cup P5 = {node[e] : e \in Waiting}
  <2>1. ASSUME NEW e \in Waiting PROVE node[e] \in P1 \cup P2 \cup P5
    <3>1. CASE e \in Reach(next, head[Main])
      BY <1>1, <3>1
    <3>2. CASE \E t \in Threads : e \in Holds(t)
      <4>1. PICK t \in Threads : e \in Holds(t)
        BY <3>2
      <4>2. \/ pc[t] \in {"follow", "advance", "spawn", "stat"} /\ e = local[t].el
            \/ pc[t] \in InsertSteps /\ e = local[t].new
        BY <4>1 DEF Holds
      <4>3. t \in Holders
        BY <1>3, <4>2 DEF Reading
      <4> QED BY <4>2, <4>3
    <3> QED BY <2>1, <3>1, <3>2 DEF Waiting
  <2>2. ASSUME NEW x \in P1 PROVE \E e \in Waiting : x = node[e]
    BY <1>1, <2>2 DEF Waiting
  <2>3. ASSUME NEW x \in P2 PROVE \E e \in Waiting : x = node[e]
    <3>1. PICK t \in Threads : pc[t] \in Hand /\ x = node[local[t].el]
      BY <1>5, <2>3
    <3>2. local[t].el \in Holds(t)
      BY <1>2, <3>1 DEF Holds
    <3> QED BY <3>1, <3>2 DEF Waiting
  <2>4. ASSUME NEW x \in P5 PROVE \E e \in Waiting : x = node[e]
    <3>1. PICK t \in Threads : pc[t] \in InsertSteps /\ x = node[local[t].new]
      BY <1>5, <2>4
    <3>2. local[t].new \in Holds(t)
      BY <3>1 DEF Holds
    <3> QED BY <3>1, <3>2 DEF Waiting
  <2> HIDE DEF P1, P2, P5
  <2> QED BY <2>1, <2>2, <2>3, <2>4
<1>8. P3 \cup P4 = Owing
  <2>1. ASSUME NEW t \in Threads, pc[t] \in Reading
        PROVE  Owed(t) = Entries(node[local[t].el], ToSet(local[t].unread))
                 \cup (IF pc[t] \in {"dot", "dotdot", "name"} THEN Entries(node[local[t].el], {entry}) ELSE {})
    BY <2>1 DEF Owed, Unlisted, Entries
  <2>2. ToSet(<<>>) = {}
    BY DEF ToSet
  <2>3. ASSUME NEW x \in Owing PROVE x \in P3 \cup P4
    <3>1. PICK t \in Threads : x \in Owed(t)
      BY <2>3 DEF Owing
    <3>2. pc[t] \in Reading /\ t \in Holders
      BY <1>3, <3>1 DEF Owed
    <3>3. CASE x \in Entries(node[local[t].el], ToSet(local[t].unread))
      <4>1. local[t].unread # <<>>
        BY <2>2, <3>3 DEF Entries
      <4> QED BY <3>2, <3>3, <4>1
    <3>4. CASE pc[t] \in {"dot", "dotdot", "name"} /\ x \in Entries(node[local[t].el], {entry})
      BY <3>2, <3>4
    <3> QED BY <2>1, <3>1, <3>2, <3>3, <3>4
  <2>4. ASSUME NEW x \in P3 PROVE x \in Owing
    <3>1. PICK t \in Threads : local[t].unread # <<>> /\ x \in Entries(node[local[t].el], ToSet(local[t].unread))
      BY <1>5, <2>4
    <3>2. pc[t] \in Reading
      BY <1>4, <3>1
    <3> QED BY <2>1, <3>1, <3>2 DEF Owing
  <2>5. ASSUME NEW x \in P4 PROVE x \in Owing
    <3>1. PICK t \in Threads : pc[t] \in {"dot", "dotdot", "name"} /\ x \in Entries(node[local[t].el], {entry})
      BY <1>5, <2>5
    <3>2. pc[t] \in Reading
      BY <3>1 DEF Reading
    <3> QED BY <2>1, <3>1, <3>2 DEF Owing
  <2> HIDE DEF P3, P4
  <2> QED BY <2>3, <2>4, <2>5
<1> HIDE DEF P1, P2, P3, P4, P5
<1> QED BY <1>6, <1>7, <1>8 DEF Todo

LEMMA PendingIsNext == IInv' /\ ChainInv' /\ TreeInv' => Pending' = Todo'
<1>1. (IInv /\ ChainInv /\ TreeInv => Pending = Todo)'
  BY PendingIs, PTL
<1> QED BY <1>1

-----------------------------------------------------------------------------
(* The search, as long as no two threads use the queue or the dirent at    *)
(* once.                                                                   *)

\* What is counted is what the files handled so far hold.
Right == Alone /\ Serial /\ TreeInv /\ Credit = SumTo(Hits, Counted)

SearchInv == ~overlap => Right

\* One step of the work, or none.
WorkStep == Work!Next \/ (Pending' = Pending /\ Credit' = Credit)

LEMMA StillWorks ==
  ASSUME IInv, IInv', ChainInv, ChainInv', CreditStep, Right, Alone', Still
  PROVE  Right' /\ WorkStep
<1>1. Credit' = Credit
  BY DEF Still, CreditStep
<1>2. Right'
  BY <1>1 DEF Right, Still
<1>3. Pending' = Pending
  BY PendingIs, PendingIsNext DEF Right, Still
<1> QED BY <1>1, <1>2, <1>3 DEF WorkStep

LEMMA HandlesWorks ==
  ASSUME Tree, IInv, IInv', ChainInv, ChainInv', CreditStep, Right, Alone',
         NEW i \in Workers, Handles(i)
  PROVE  Right' /\ WorkStep
<1> DEFINE n == node[local[i].el]
<1>1. /\ TreeInv' /\ n \in Todo /\ Todo' = (Todo \ {n}) \cup Revealed(n)
      /\ n \notin Counted
      /\ Counted' = IF n \in Files \ Unreadable THEN Counted \cup {n} ELSE Counted
      /\ Counts(i) <=> ~Listed(n)
      /\ \A j \in Workers : j # i => ~Counts(j)
      /\ Serial'
  BY DEF Handles
<1>2. Pending = Todo /\ Pending' = Todo'
  BY <1>1, PendingIs, PendingIsNext DEF Right
<1>3. n \in Nodes
  <2>1. local[i].el \in 1..used
    BY DEF Handles
  <2>2. Known \subseteq Nodes
    BY KnownNodes DEF Right
  <2> QED BY <2>1, <2>2 DEF Known
<1>4. /\ n \in Files \ Unreadable => Yield(n) = Hits[n] /\ ~Listed(n)
      /\ n \notin Files \ Unreadable => Yield(n) = 0
  BY <1>3, YieldIs
<1>5. Credit \in Int /\ Counted \in SUBSET (Files \ Unreadable)
  <2>1. Counted \in SUBSET (Files \ Unreadable) /\ IsFiniteSet(Counted)
    <3>1. Counted \in SUBSET (Files \ Unreadable) /\ IsFiniteSet(Files)
      BY DEF Counted, Tree
    <3> QED BY <3>1, FS_Subset
  <2>2. \A x \in Counted : Hits[x] \in Int
    BY <2>1, MiniGrepAssumption
  <2>3. SumTo(Hits, Counted) \in Int
    BY <2>1, <2>2, SumRemove
  <2> QED BY <2>1, <2>3 DEF Right
<1>6. Credit' = Credit + Yield(n)
  <2>1. CASE Counts(i)
    BY <2>1 DEF CreditStep
  <2>2. CASE ~Counts(i)
    <3>1. Credit' = Credit
      BY <1>1, <2>2 DEF CreditStep
    <3>2. Yield(n) = 0
      BY <1>1, <1>4, <2>2
    <3> QED BY <1>5, <3>1, <3>2
  <2> QED BY <2>1, <2>2
<1>7. Credit' = SumTo(Hits, Counted')
  <2>1. CASE n \in Files \ Unreadable
    <3>1. SumTo(Hits, Counted \cup {n}) = SumTo(Hits, Counted) + Hits[n]
      BY <1>1, <1>5, <2>1, HitsMore
    <3>2. Counted' = Counted \cup {n} /\ Yield(n) = Hits[n]
      BY <1>1, <1>4, <2>1
    <3> QED BY <1>6, <3>1, <3>2 DEF Right
  <2>2. CASE n \notin Files \ Unreadable
    <3>1. Counted' = Counted /\ Credit' = Credit
      BY <1>1, <1>4, <1>5, <1>6, <2>2
    <3> QED BY <3>1 DEF Right
  <2> QED BY <2>1, <2>2
<1>8. Right'
  BY <1>1, <1>7 DEF Right
<1>9. Work!Next
  BY <1>1, <1>2, <1>6 DEF Work!Next, Work!Handle
<1> QED BY <1>8, <1>9 DEF WorkStep

\* No two threads are at the queue or the dirent after a step that is not an overlap.
LEMMA WatchAlone ==
  ASSUME Watch, ~overlap'
  PROVE  ~overlap /\ Alone'
<1>1. ~overlap /\ ~(Cardinality(Users') > 1)
  BY DEF Watch
<1>2. IsFiniteSet(Users')
  <2>1. IsFiniteSet(Threads)
    BY Numbers, FS_Interval DEF Threads
  <2>2. Users' \in SUBSET Threads
    BY DEF Users
  <2> QED BY <2>1, <2>2, FS_Subset
<1>3. ASSUME NEW t \in Users', NEW u \in Users', t # u PROVE FALSE
  <2>1. {t, u} \in SUBSET Users' /\ IsFiniteSet({t, u})
    BY <1>2, FS_Subset
  <2>2. Cardinality({t, u}) <= Cardinality(Users')
    BY <1>2, <2>1, FS_Subset
  <2>3. {t} \cup {u} = {t, u} /\ u \notin {t} /\ IsFiniteSet({t}) /\ Cardinality({t}) = 1
    BY <1>3, FS_Singleton
  <2>4. Cardinality({t} \cup {u}) = Cardinality({t}) + 1
    BY <2>3, FS_AddElement
  <2>5. Cardinality(Users') \in Nat
    BY <1>2, FS_CardinalityType
  <2>6. Cardinality({t, u}) = 2
    BY <2>3, <2>4
  <2> QED BY <1>1, <2>2, <2>5, <2>6
<1> QED BY <1>1, <1>3 DEF Alone

LEMMA InitSearch == Tree /\ Init => Right /\ Pending = {Root} /\ Credit = 0
<1> SUFFICES ASSUME Tree, Init PROVE Right /\ Pending = {Root} /\ Credit = 0
  OBVIOUS
<1>1. IInv /\ ChainInv
  BY InitIInv, InitChain
<1>2. /\ \A t \in Threads : pc[t] \in {"test", "off"} /\ local[t] = Fresh
      /\ used = 1 /\ node[1] = Root /\ head[Main] = 1 /\ tail[Main] = 1 /\ next[1] = NULL
      /\ next \in [Elements -> Pointers] /\ num = 0
      /\ \A i \in Workers : args[i].result = 0 /\ pc[i] = "off"
  BY Numbers DEF Init
<1>3. Reach(next, head[Main]) = {1}
  <2>1. Reach(next, 1) \subseteq {1}
    BY <1>2, Numbers, ReachLast
  <2>2. 1 \in Reach(next, 1)
    BY <1>2, Numbers, ReachHas
  <2> QED BY <1>2, <2>1, <2>2
<1>4. \A t \in Threads : /\ pc[t] \notin Reading \cup RemoveSteps \cup InsertSteps \cup Special
                         /\ pc[t] \notin {"stat", "spawn", "follow", "advance"}
  BY <1>2 DEF Reading, RemoveSteps, InsertSteps, Special
<1>5. Alone
  BY <1>4 DEF Alone, Users, Reading, InsertSteps
<1>6. Serial
  <2>1. Sound
    BY <1>2, <1>3 DEF Sound
  <2>2. \A i \in Workers : SeesQueue(i)
    BY <1>4, Numbers DEF SeesQueue, Special
  <2>3. SeesHead
    BY <1>4, Numbers DEF SeesHead
  <2> QED BY <2>1, <2>2, <2>3 DEF Serial
<1>7. Waiting = {1}
  <2>1. \A t \in Threads : Holds(t) = {}
    BY <1>4 DEF Holds
  <2> QED BY <1>3, <2>1 DEF Waiting
<1>8. \A t \in Threads : Owed(t) = {} /\ Reads(t)
  BY <1>2, <1>4 DEF Owed, Reads, Fresh
<1>9. Known = {Root} /\ 1..used = {1} /\ 2..used = {}
  BY <1>2 DEF Known
<1>10. TreeInv
  <2>1. Planted
    BY <1>2, <1>9 DEF Planted
  <2>2. Untouched
    <3>1. Revealed(Root) \cap {Root} = {}
      BY TreeFacts
    <3> QED BY <1>2, <1>7, <1>8, <1>9, <3>1 DEF Untouched
  <2>3. Complete
    BY <1>7, <1>9 DEF Complete
  <2> QED BY <1>7, <1>8, <1>9, <2>1, <2>2, <2>3 DEF TreeInv
<1>11. Todo = {Root} /\ Counted = {}
  <2>1. Owing = {}
    BY <1>8 DEF Owing
  <2> QED BY <1>2, <1>7, <1>9, <2>1 DEF Todo, Counted
<1>12. Credit = 0
  <2>1. \A i \in Workers : Share[i] = 0
    BY <1>2 DEF Share
  <2>2. IsFiniteSet(Uncollected) /\ Uncollected \subseteq Workers
    BY <1>1, ShareType
  <2>3. \A i \in Uncollected : Share[i] = 0
    BY <2>1, <2>2
  <2>4. SumTo(Share, Uncollected) = 0
    BY <2>2, <2>3, SumZero
  <2> QED BY <1>2, <2>4, CreditIs
<1>13. SumTo(Hits, Counted) = 0
  <2>1. IsFiniteSet({}) /\ \A x \in {} : Hits[x] = 0
    BY FS_EmptySet
  <2>2. SumTo(Hits, {}) = 0
    BY <2>1, SumZero
  <2> QED BY <1>11, <2>2
<1>14. Pending = Todo
  BY <1>1, <1>10, PendingIs
<1> QED BY <1>5, <1>6, <1>10, <1>11, <1>12, <1>13, <1>14 DEF Right

LEMMA NextSearch ==
  ASSUME Tree, IInv, IInv', ChainInv, ChainInv', CountInv, Right, Next, ~overlap'
  PROVE  Right' /\ WorkStep
<1>1. Now
  BY DEF Now, Right
<1>2. Alone'
  BY WatchAlone DEF Next
<1>3. CreditStep
  BY HandleCredit, WrapperCredit, MainCredit DEF Next, WorkerStep
<1>4. ASSUME MainStep PROVE Still
  BY <1>1, <1>4, LooksStill, TakeStill, FollowStill, AdvanceStill, SpawnStill DEF MainStep
<1>5. ASSUME NEW i \in Workers, WorkerStep(i) PROVE Still \/ Handles(i)
  BY <1>1, <1>5, WrapperStill, StatHandles, ReadIsStill, NameIsStill, InsertIsStill, SetHeadIsStill,
     GetTailIsStill, LinkIsStill, GetNextIsStill, SetTailIsStill DEF WorkerStep, HandleStep
<1>6. Still \/ \E i \in Workers : Handles(i)
  BY <1>4, <1>5 DEF Next
<1> QED BY <1>2, <1>3, <1>6, StillWorks, HandlesWorks


LEMMA StutterSearch ==
  ASSUME IInv, IInv', ChainInv, ChainInv', Right, UNCHANGED vars
  PROVE  Right' /\ WorkStep
<1>1. /\ node' = node /\ used' = used /\ next' = next /\ head' = head /\ tail' = tail /\ entry' = entry
      /\ pc' = pc /\ local' = local /\ args' = args /\ num' = num /\ slot' = slot
  BY DEF vars, grepVars, memory, queue, mainVars
<1>2. Now
  BY DEF Now, Right
<1>3. Waiting' = Waiting
  BY <1>1 DEF Waiting, Holds
<1>4. Still
  BY <1>1, <1>2, <1>3, IdleStill
<1>5. Alone'
  BY <1>1 DEF Right, Alone, Users
<1>6. CreditStep
  <2>1. Credit' = Credit
    BY <1>1, SameCredit DEF Uncollected, Share
  <2> QED BY <1>4, <2>1 DEF CreditStep, Still
<1> QED BY <1>4, <1>5, <1>6, StillWorks

LEMMA SearchInvariant ==
  ASSUME Tree
  PROVE  /\ Init => SearchInv /\ Work!Init
         /\ IInv /\ IInv' /\ ChainInv /\ ChainInv' /\ CountInv /\ SearchInv /\ [Next]_vars
              => SearchInv' /\ (overlap' \/ WorkStep)
<1>1. Init => SearchInv /\ Work!Init
  BY InitSearch DEF SearchInv, Work!Init
<1>2. ASSUME IInv, IInv', ChainInv, ChainInv', CountInv, SearchInv, [Next]_vars, ~overlap'
      PROVE  Right' /\ WorkStep
  <2>1. CASE Next
    <3>1. ~overlap
      BY <1>2, <2>1, WatchAlone DEF Next
    <3> QED BY <1>2, <2>1, <3>1, NextSearch DEF SearchInv
  <2>2. CASE UNCHANGED vars
    <3>1. ~overlap
      BY <1>2, <2>2 DEF vars
    <3> QED BY <1>2, <2>2, <3>1, StutterSearch DEF SearchInv
  <2> QED BY <1>2, <2>1, <2>2
<1> QED BY <1>1, <1>2 DEF SearchInv

\* When main is done, nothing is left of the tree that can be read.
LEMMA DoneFinds == Tree /\ IInv /\ ChainInv /\ SearchInv => FindsAll
<1> SUFFICES ASSUME Tree, IInv, ChainInv, SearchInv, pc[Main] = "done", ~overlap
             PROVE  num = Total
  BY DEF FindsAll
<1>1. Right
  BY DEF SearchInv
<1>2. head[Main] = NULL /\ \A i \in Workers : pc[i] = "off"
  BY DEF IInv, Roles, Leaving
<1>3. Waiting = {}
  <2>1. Reach(next, NULL) = {}
    BY Numbers, ReachHas DEF IInv, StateOK
  <2>2. \A t \in Threads : pc[t] \in {"done", "off"}
    BY <1>2 DEF Threads, Workers, Main
  <2>3. \A t \in Threads : Holds(t) = {}
    BY <2>2 DEF Holds, InsertSteps
  <2> QED BY <1>2, <2>1, <2>3 DEF Waiting
<1>4. \A t \in Threads : Owed(t) = {}
  <2>1. \A t \in Threads : pc[t] \in {"done", "off"}
    BY <1>2 DEF Threads, Workers, Main
  <2> QED BY <2>1 DEF Owed, Reading, InsertSteps
<1>5. \A n \in Known : Revealed(n) \subseteq Known
  BY <1>1, <1>3, <1>4 DEF Right, TreeInv, Complete, Known
<1>6. Known \in SUBSET Nodes /\ Root \in Known
  <2>1. used >= 1 /\ used \in Nat
    <3>1. used \in Nat
      BY Numbers DEF IInv, StateOK
    <3>2. used # 0
      BY <1>1 DEF Right, TreeInv, Planted
    <3> QED BY <3>1, <3>2
  <2>2. 1 \in 1..used /\ node[1] = Root
    BY <1>1, <2>1 DEF Right, TreeInv, Planted
  <2> QED BY <1>1, <2>2, KnownNodes DEF Right, Known
<1>7. Files \ Unreadable \subseteq Known
  BY <1>5, <1>6 DEF Tree
<1>8. Counted = Files \ Unreadable
  BY <1>3, <1>7 DEF Counted, Known
<1>9. Credit = num
  <2>1. Uncollected = {}
    BY DEF Uncollected
  <2>2. SumTo(Share, {}) = 0
    BY FS_EmptySet, SumPick
  <2>3. num \in Int
    BY DEF IInv, StateOK
  <2> QED BY <2>1, <2>2, <2>3, CreditIs
<1> QED BY <1>1, <1>8, <1>9, TotalIs DEF Right

\* The dynamic search finds what there is in every tree, whatever the number of
\* threads and the order in which they run, as long as no two of them are in
\* handle_dir or removeElement at the same time.
THEOREM SearchFindsAll == ASSUME Tree PROVE Spec => []FindsAll
<1>1. Init => IInv /\ ChainInv /\ CountInv /\ SearchInv
  BY InitIInv, InitChain, InitCount, SearchInvariant
<1>2. IInv /\ ChainInv /\ CountInv /\ SearchInv /\ [Next]_vars
        => (IInv /\ ChainInv /\ CountInv /\ SearchInv)'
  BY NextKeeps, NextChain, NextCount, SearchInvariant
<1>3. IInv /\ ChainInv /\ SearchInv => FindsAll
  BY DoneFinds
<1> QED BY <1>1, <1>2, <1>3, PTL DEF Spec

\* It handles everything once and adds what that yields: each of its steps is one of
\* GrepWork or none, until two threads overlap.
THEOREM SearchImplementsWork == ASSUME Tree PROVE Spec => ImplementsWork
<1>1. Init => IInv /\ ChainInv /\ CountInv /\ SearchInv /\ Work!Init
  BY InitIInv, InitChain, InitCount, SearchInvariant
<1>2. IInv /\ ChainInv /\ CountInv /\ SearchInv /\ [Next]_vars
        => (IInv /\ ChainInv /\ CountInv /\ SearchInv)'
  BY NextKeeps, NextChain, NextCount, SearchInvariant
<1>3. IInv /\ IInv' /\ ChainInv /\ ChainInv' /\ CountInv /\ SearchInv /\ [Next]_vars
        => [overlap' \/ Work!Next]_<<Pending, Credit>>
  BY SearchInvariant DEF WorkStep
<1> QED BY <1>1, <1>2, <1>3, PTL DEF Spec, ImplementsWork
=============================================================================
