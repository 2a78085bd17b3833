-------------------------- MODULE GrepStaticProofs --------------------------
(***************************************************************************)
(* Proofs about the static search (GrepStatic), for every file tree and    *)
(* every number of threads.  The invariant gives each queue a set of       *)
(* elements: disjoint from the others, chained from the head of the queue  *)
(* to its tail, and touched by one thread only - by main as long as it     *)
(* lists and deals, then by the thread the queue belongs to.               *)
(*   The second half is about what is found: as long as no two threads     *)
(* list at once, every element that waits is in one queue or one hand,     *)
(* what has been handled has left nothing of the tree behind, and what the *)
(* threads hold and main has added up is what those files yield.           *)
(***************************************************************************)
EXTENDS GrepStatic, TLAPS, NaturalsInduction, WellFoundedInduction, FiniteSetTheorems

Linking == {"insert", "set head", "get tail", "link"}
Busy    == HandleSteps \cup InsertSteps
MainSteps   == {"open", "exit", "deal", "create", "join", "done"} \cup (Busy \ {"stat"})
WorkerSteps == {"off", "loop"} \cup RemoveSteps \cup Busy
Steps       == MainSteps \cup WorkerSteps
Reading     == {"read", "dot", "dotdot", "name"} \cup InsertSteps

StateOK ==
  /\ node \in [Elements -> Nodes \cup {Nowhere}]
  /\ next \in [Elements -> Pointers]
  /\ used \in 1..MaxElements
  /\ freed \subseteq Elements
  /\ head \in [Queues -> Pointers]
  /\ tail \in [Queues -> Pointers]
  /\ entry \in Names
  /\ pc \in [Threads -> Steps]
  /\ local \in [Threads -> Locals]
  /\ args \in [Workers -> Args]
  /\ num \in Int
  /\ count \in [Workers -> Int]
  /\ slot \in 1..(NumThreads + 1)

InHand ==
  \A t \in Threads :
    /\ pc[t] \in Busy => local[t].el # NULL
    /\ pc[t] \in Reading => node[local[t].el] \in Dirs
    /\ pc[t] \in Linking => local[t].new \in 1..used

\* A queue belongs to one thread, which runs only when main has dealt the elements.
Roles ==
  /\ pc[Main] \in MainSteps
  /\ pc[Main] = "open" => local[Main].el = 1 /\ node[1] = Root
  /\ pc[Main] \in {"open", "deal"} \cup Busy => slot \in Workers
  /\ \A i \in Workers :
       /\ args[i].queue = i
       /\ pc[i] \in WorkerSteps
       /\ pc[Main] \notin {"create", "join", "done"} => pc[i] = "off"
       /\ pc[Main] = "create" /\ i >= slot => pc[i] = "off"

\* S[q] holds what is in queue q: its head, nothing before it, one element after
\* another, and at the end its tail, unless its thread is about to set that.
Line(S, q) ==
  /\ head[q] # NULL => head[q] \in S[q]
  /\ \A e \in S[q] :
       next[e] # NULL => /\ next[e] \in S[q] /\ next[e] # head[q]
                         /\ \A d \in S[q] : next[d] = next[e] => d = e

End(S, q) ==
  /\ pc[q] \in {"get tail", "link", "get next", "take", "follow", "advance"} => head[q] # NULL
  /\ pc[q] = "link" => local[q].reg = tail[q]
  /\ pc[q] = "get next" => tail[q] \in S[q] /\ next[tail[q]] \in S[q] /\ next[next[tail[q]]] = NULL
  /\ pc[q] = "set tail" => local[q].reg \in S[q] /\ next[local[q].reg] = NULL
  /\ pc[q] \notin {"get next", "set tail"} /\ head[q] # NULL =>
       tail[q] \in S[q] /\ next[tail[q]] = NULL
  /\ pc[q] \in {"follow", "advance"} => local[q].el = head[q]
  /\ pc[q] = "advance" => local[q].reg = next[head[q]]

Loose(e) == e > used \/ \E t \in Threads : pc[t] \in Linking /\ local[t].new = e

LooseEnds(S) ==
  /\ \A e \in Elements : Loose(e) =>
       /\ next[e] = NULL /\ e \notin freed
       /\ \A q \in Queues : e \notin S[q]
       /\ \A t \in Threads : local[t].el # e
  /\ \A t, u \in Threads : t # u /\ pc[t] \in Linking /\ pc[u] \in Linking
                             => local[t].new # local[u].new

Apart(S) ==
  /\ \A p, q \in Queues : p # q => S[p] \cap S[q] = {}
  /\ \A q \in Queues :
       /\ S[q] \cap freed = {}
       /\ \A t \in Threads : pc[t] \in Busy \cup {"open", "exit"} => local[t].el \notin S[q]

Parted(S) == ~fault /\ LooseEnds(S) /\ Apart(S) /\ \A q \in Queues : Line(S, q) /\ End(S, q)

LEMMA Numbers ==
  /\ Main \in Threads /\ Main \in Queues /\ Main \notin Workers
  /\ Workers \subseteq Threads /\ Queues = Threads
  /\ Elements \subseteq Pointers /\ NULL \in Pointers
  /\ 1 \in Elements /\ NULL \notin Elements
  /\ NumThreads \in Nat \ {0} /\ MaxElements \in Nat \ {0}
  /\ 1 \in Workers /\ 1 \in 1..(NumThreads + 1)
BY MiniGrepAssumption DEF Main, Threads, Queues, Workers, Elements, Pointers, NULL

\* The queue of a thread is its own.
LEMMA OwnQueue ==
  ASSUME Roles, NEW t \in Threads
  PROVE  QueueOf(t) = t
<1>1. t = Main \/ t \in Workers
  BY MiniGrepAssumption DEF Threads, Workers, Main
<1>2. QED
  BY <1>1 DEF QueueOf, Roles

-----------------------------------------------------------------------------
(* Types.  A step of handle_element moves one thread within handle_element *)
(* and leaves the element in its hand.                                     *)

OwnStep(t) ==
  /\ pc[t] \in Busy \ {"return"} /\ pc'[t] \in Busy \ {"stat"}
  /\ \A u \in Threads : u # t => pc'[u] = pc[u] /\ local'[u] = local[u]
  /\ local'[t].el = local[t].el
  /\ args' = args

Typed == StateOK /\ InHand /\ Roles

LEMMA InsertTypes ==
  ASSUME Typed, NEW t \in Threads, Insert(t), UNCHANGED mainVars
  PROVE  OwnStep(t) /\ StateOK' /\ InHand'
<1>1. /\ pc[t] = "insert" /\ pc' \in [Threads -> Steps]
      /\ pc'[t] \in {"set head", "get tail"}
      /\ \A u \in Threads : u # t => pc'[u] = pc[u]
  BY DEF Typed, StateOK, Insert, At, Goto, Steps, MainSteps, WorkerSteps, Busy, HandleSteps, InsertSteps
<1>2. /\ UNCHANGED <<node, next, used, freed, head, tail, entry, local, args, num, count, slot>>
  BY DEF Insert, memory, queue, mainVars
<1>3. OwnStep(t)
  BY <1>1, <1>2 DEF OwnStep, Busy, HandleSteps, InsertSteps
<1>4. StateOK'
  BY <1>1, <1>2 DEF Typed, StateOK
<1>5. InHand'
  BY <1>1, <1>2 DEF Typed, InHand, Busy, HandleSteps, InsertSteps, Reading, Linking
<1>6. QED
  BY <1>3, <1>4, <1>5

LEMMA SkipDotTypes ==
  ASSUME Typed, NEW t \in Threads, SkipDot(t), UNCHANGED mainVars
  PROVE  OwnStep(t) /\ StateOK' /\ InHand'
<1>1. /\ pc[t] = "dot" /\ pc' \in [Threads -> Steps]
      /\ pc'[t] \in {"read", "dotdot"}
      /\ \A u \in Threads : u # t => pc'[u] = pc[u]
  BY DEF Typed, StateOK, SkipDot, At, Goto, Steps, MainSteps, WorkerSteps, Busy, HandleSteps, InsertSteps
<1>2. /\ UNCHANGED <<node, next, used, freed, head, tail, entry, local, args, num, count, slot>>
  BY DEF SkipDot, memory, queue, mainVars
<1>3. OwnStep(t)
  BY <1>1, <1>2 DEF OwnStep, Busy, HandleSteps, InsertSteps
<1>4. StateOK'
  BY <1>1, <1>2 DEF Typed, StateOK
<1>5. InHand'
  BY <1>1, <1>2 DEF Typed, InHand, Busy, HandleSteps, InsertSteps, Reading, Linking
<1>6. QED
  BY <1>3, <1>4, <1>5

LEMMA SkipDotDotTypes ==
  ASSUME Typed, NEW t \in Threads, SkipDotDot(t), UNCHANGED mainVars
  PROVE  OwnStep(t) /\ StateOK' /\ InHand'
<1>1. /\ pc[t] = "dotdot" /\ pc' \in [Threads -> Steps]
      /\ pc'[t] \in {"read", "name"}
      /\ \A u \in Threads : u # t => pc'[u] = pc[u]
  BY DEF Typed, StateOK, SkipDotDot, At, Goto, Steps, MainSteps, WorkerSteps, Busy, HandleSteps, InsertSteps
<1>2. /\ UNCHANGED <<node, next, used, freed, head, tail, entry, local, args, num, count, slot>>
  BY DEF SkipDotDot, memory, queue, mainVars
<1>3. OwnStep(t)
  BY <1>1, <1>2 DEF OwnStep, Busy, HandleSteps, InsertSteps
<1>4. StateOK'
  BY <1>1, <1>2 DEF Typed, StateOK
<1>5. InHand'
  BY <1>1, <1>2 DEF Typed, InHand, Busy, HandleSteps, InsertSteps, Reading, Linking
<1>6. QED
  BY <1>3, <1>4, <1>5

LEMMA SetHeadTypes ==
  ASSUME Typed, NEW t \in Threads, SetHead(t), UNCHANGED mainVars
  PROVE  OwnStep(t) /\ StateOK' /\ InHand'
<1>1. /\ pc[t] = "set head" /\ pc' \in [Threads -> Steps]
      /\ pc'[t] \in {"set tail"}
      /\ \A u \in Threads : u # t => pc'[u] = pc[u]
  BY DEF Typed, StateOK, SetHead, At, Goto, Steps, MainSteps, WorkerSteps, Busy, HandleSteps, InsertSteps
<1>2. UNCHANGED <<node, next, used, freed, tail, entry, args, num, count, slot>>
  BY DEF SetHead, memory, queue, mainVars
<1>q. QueueOf(t) = t /\ t \in Queues
  BY OwnQueue, Numbers DEF Typed
<1>3. /\ local' \in [Threads -> Locals]
      /\ \A u \in Threads : u # t => local'[u] = local[u]
      /\ local'[t].el = local[t].el /\ local'[t].new = local[t].new
  <2>1. local[t].new \in Pointers
    BY DEF Typed, StateOK, Locals
  <2>2. QED
    BY <2>1 DEF SetHead, Typed, StateOK, Locals
<1>h. head' \in [Queues -> Pointers]
  BY <1>q DEF SetHead, Typed, StateOK, Locals
<1>4. OwnStep(t)
  BY <1>1, <1>2, <1>3 DEF OwnStep, Busy, HandleSteps, InsertSteps
<1>5. StateOK'
  BY <1>1, <1>2, <1>3, <1>h DEF Typed, StateOK
<1>6. InHand'
  BY <1>1, <1>2, <1>3 DEF Typed, InHand, Busy, HandleSteps, InsertSteps, Reading, Linking
<1>7. QED
  BY <1>4, <1>5, <1>6

LEMMA GetTailTypes ==
  ASSUME Typed, NEW t \in Threads, GetTail(t), UNCHANGED mainVars
  PROVE  OwnStep(t) /\ StateOK' /\ InHand'
<1>1. /\ pc[t] = "get tail" /\ pc' \in [Threads -> Steps]
      /\ pc'[t] \in {"link"}
      /\ \A u \in Threads : u # t => pc'[u] = pc[u]
  BY DEF Typed, StateOK, GetTail, At, Goto, Steps, MainSteps, WorkerSteps, Busy, HandleSteps, InsertSteps
<1>2. UNCHANGED <<node, next, used, freed, head, tail, entry, args, num, count, slot>>
  BY DEF GetTail, memory, queue, mainVars
<1>q. QueueOf(t) = t /\ t \in Queues
  BY OwnQueue, Numbers DEF Typed
<1>3. /\ local' \in [Threads -> Locals]
      /\ \A u \in Threads : u # t => local'[u] = local[u]
      /\ local'[t].el = local[t].el /\ local'[t].new = local[t].new
  BY <1>q DEF GetTail, Typed, StateOK, Locals
<1>4. OwnStep(t)
  BY <1>1, <1>2, <1>3 DEF OwnStep, Busy, HandleSteps, InsertSteps
<1>5. StateOK'
  BY <1>1, <1>2, <1>3 DEF Typed, StateOK
<1>6. InHand'
  BY <1>1, <1>2, <1>3 DEF Typed, InHand, Busy, HandleSteps, InsertSteps, Reading, Linking
<1>7. QED
  BY <1>4, <1>5, <1>6

LEMMA GetNextTypes ==
  ASSUME Typed, NEW t \in Threads, GetNext(t), UNCHANGED mainVars
  PROVE  OwnStep(t) /\ StateOK' /\ InHand'
<1>1. /\ pc[t] = "get next" /\ pc' \in [Threads -> Steps]
      /\ pc'[t] \in {"get next", "set tail"}
      /\ \A u \in Threads : u # t => pc'[u] = pc[u]
  BY DEF Typed, StateOK, GetNext, At, Goto, Steps, MainSteps, WorkerSteps, Busy, HandleSteps, InsertSteps
<1>2. UNCHANGED <<node, next, used, freed, head, tail, entry, args, num, count, slot>>
  BY DEF GetNext, memory, queue, mainVars
<1>q. QueueOf(t) = t /\ t \in Queues
  BY OwnQueue, Numbers DEF Typed
<1>3. /\ local' \in [Threads -> Locals]
      /\ \A u \in Threads : u # t => local'[u] = local[u]
      /\ local'[t].el = local[t].el /\ local'[t].new = local[t].new
  <2>1. tail[t] # NULL => next[tail[t]] \in Pointers
    BY <1>q DEF Typed, StateOK, Pointers
  <2>2. CASE tail[t] # NULL
    <3>1. local' = [local EXCEPT ![t].reg = next[tail[t]]]
      BY <1>q, <2>2 DEF GetNext
    <3>2. QED
      BY <2>1, <2>2, <3>1 DEF Typed, StateOK, Locals
  <2>3. CASE tail[t] = NULL
    BY <1>q, <2>3 DEF GetNext, Typed, StateOK
  <2>4. QED
    BY <2>2, <2>3
<1>4. OwnStep(t)
  BY <1>1, <1>2, <1>3 DEF OwnStep, Busy, HandleSteps, InsertSteps
<1>5. StateOK'
  BY <1>1, <1>2, <1>3 DEF Typed, StateOK
<1>6. InHand'
  BY <1>1, <1>2, <1>3 DEF Typed, InHand, Busy, HandleSteps, InsertSteps, Reading, Linking
<1>7. QED
  BY <1>4, <1>5, <1>6

LEMMA SetTailTypes ==
  ASSUME Typed, NEW t \in Threads, SetTail(t), UNCHANGED mainVars
  PROVE  OwnStep(t) /\ StateOK' /\ InHand'
<1>1. /\ pc[t] = "set tail" /\ pc' \in [Threads -> Steps]
      /\ pc'[t] \in {"read"}
      /\ \A u \in Threads : u # t => pc'[u] = pc[u]
  BY DEF Typed, StateOK, SetTail, At, Goto, Steps, MainSteps, WorkerSteps, Busy, HandleSteps, InsertSteps
<1>2. UNCHANGED <<node, next, used, freed, head, entry, args, num, count, slot>>
  BY DEF SetTail, memory, queue, mainVars
<1>q. QueueOf(t) = t /\ t \in Queues
  BY OwnQueue, Numbers DEF Typed
<1>3. /\ local' \in [Threads -> Locals]
      /\ \A u \in Threads : u # t => local'[u] = local[u]
      /\ local'[t].el = local[t].el /\ TRUE
  BY Numbers DEF SetTail, Typed, StateOK, Locals
<1>h. tail' \in [Queues -> Pointers]
  BY <1>q DEF SetTail, Typed, StateOK, Locals
<1>4. OwnStep(t)
  BY <1>1, <1>2, <1>3 DEF OwnStep, Busy, HandleSteps, InsertSteps
<1>5. StateOK'
  BY <1>1, <1>2, <1>3, <1>h DEF Typed, StateOK
<1>6. InHand'
  BY <1>1, <1>2, <1>3 DEF Typed, InHand, Busy, HandleSteps, InsertSteps, Reading, Linking
<1>7. QED
  BY <1>4, <1>5, <1>6

LEMMA LinkTypes ==
  ASSUME Typed, NEW t \in Threads, Link(t), UNCHANGED mainVars
  PROVE  OwnStep(t) /\ StateOK' /\ InHand'
<1>1. /\ pc[t] = "link" /\ pc' \in [Threads -> Steps]
      /\ pc'[t] \in {"link", "get next"}
      /\ \A u \in Threads : u # t => pc'[u] = pc[u]
  BY DEF Typed, StateOK, Link, At, Goto, Steps, MainSteps, WorkerSteps, Busy, HandleSteps, InsertSteps
<1>2. UNCHANGED <<node, used, freed, head, tail, entry, local, args, num, count, slot>>
  BY DEF Link, queue, mainVars
<1>3. next' \in [Elements -> Pointers]
  BY DEF Link, Typed, StateOK, Locals
<1>4. OwnStep(t)
  BY <1>1, <1>2 DEF OwnStep, Busy, HandleSteps, InsertSteps
<1>5. StateOK'
  BY <1>1, <1>2, <1>3 DEF Typed, StateOK
<1>6. InHand'
  BY <1>1, <1>2 DEF Typed, InHand, Busy, HandleSteps, InsertSteps, Reading, Linking
<1>7. QED
  BY <1>4, <1>5, <1>6

LEMMA StatTypes ==
  ASSUME Typed, NEW t \in Threads, Stat(t), UNCHANGED mainVars
  PROVE  OwnStep(t) /\ StateOK' /\ InHand'
<1>1. /\ pc[t] = "stat" /\ pc' \in [Threads -> Steps]
      /\ pc'[t] \in {"read", "return"}
      /\ \A u \in Threads : u # t => pc'[u] = pc[u]
  BY DEF Typed, StateOK, Stat, At, Goto, Steps, MainSteps, WorkerSteps, Busy, HandleSteps, InsertSteps
<1>2. UNCHANGED <<node, next, used, head, tail, entry, args, num, count, slot>>
  BY DEF Stat, queue, mainVars
<1> DEFINE n == node[local[t].el]
<1>3. local[t].el \in Elements /\ n \in Nodes \cup {Nowhere}
  BY <1>1 DEF Typed, StateOK, InHand, Busy, HandleSteps, Locals, Pointers
<1>4. /\ local' \in [Threads -> Locals]
      /\ \A u \in Threads : u # t => local'[u] = local[u]
      /\ local'[t].el = local[t].el /\ local'[t].new = local[t].new
      /\ pc'[t] = "read" => Listed(n)
  <2>1. CASE Listed(n)
    <3>1. Listing[n] \in Seq(Names)
      BY <2>1, MiniGrepAssumption DEF Listed
    <3>2. local' = [local EXCEPT ![t].unread = Listing[n]]
      BY <2>1 DEF Stat
    <3>3. QED
      BY <2>1, <3>1, <3>2 DEF Typed, StateOK, Locals
  <2>2. CASE ~Listed(n)
    <3>1. Yield(n) \in Int
      BY <1>3, MiniGrepAssumption DEF Yield, Nodes
    <3>2. local' = [local EXCEPT ![t].found = Yield(n)] /\ Goto(t, "return")
      BY <2>2 DEF Stat
    <3>3. pc'[t] = "return"
      BY <3>2 DEF Goto, Typed, StateOK
    <3>4. QED
      BY <3>1, <3>2, <3>3 DEF Typed, StateOK, Locals
  <2>3. QED
    BY <2>1, <2>2
<1>5. OwnStep(t)
  BY <1>1, <1>2, <1>4 DEF OwnStep, Busy, HandleSteps, InsertSteps
<1>6. freed' \subseteq Elements
  BY <1>3 DEF Stat, Typed, StateOK
<1>7. StateOK'
  BY <1>1, <1>2, <1>4, <1>6 DEF Typed, StateOK
<1>8. InHand'
  BY <1>1, <1>2, <1>4 DEF Typed, InHand, Busy, HandleSteps, InsertSteps, Reading, Linking, Listed
<1>9. QED
  BY <1>5, <1>7, <1>8

LEMMA ReadTypes ==
  ASSUME Typed, NEW t \in Threads, Read(t), UNCHANGED mainVars
  PROVE  OwnStep(t) /\ StateOK' /\ InHand'
<1>1. /\ pc[t] = "read" /\ pc' \in [Threads -> Steps]
      /\ pc'[t] \in {"dot", "return"}
      /\ \A u \in Threads : u # t => pc'[u] = pc[u]
  BY DEF Typed, StateOK, Read, At, Goto, Steps, MainSteps, WorkerSteps, Busy, HandleSteps, InsertSteps
<1>2. UNCHANGED <<node, next, used, head, tail, args, num, count, slot>>
  BY DEF Read, queue, mainVars
<1>3. local[t].el \in Elements /\ local[t].unread \in Seq(Names)
  BY <1>1 DEF Typed, StateOK, InHand, Busy, HandleSteps, Locals, Pointers
<1>4. /\ local' \in [Threads -> Locals]
      /\ \A u \in Threads : u # t => local'[u] = local[u]
      /\ local'[t].el = local[t].el /\ local'[t].new = local[t].new
      /\ entry' \in Names /\ freed' \subseteq Elements
  <2>1. CASE local[t].unread # <<>>
    <3>1. Head(local[t].unread) \in Names /\ Tail(local[t].unread) \in Seq(Names)
      BY <1>3, <2>1
    <3>2. /\ local' = [local EXCEPT ![t].unread = Tail(local[t].unread)]
          /\ entry' = Head(local[t].unread) /\ freed' = freed
      BY <2>1 DEF Read
    <3>3. QED
      BY <3>1, <3>2 DEF Typed, StateOK, Locals
  <2>2. CASE local[t].unread = <<>>
    BY <1>3, <2>2 DEF Read, Typed, StateOK
  <2>3. QED
    BY <2>1, <2>2
<1>5. OwnStep(t)
  BY <1>1, <1>2, <1>4 DEF OwnStep, Busy, HandleSteps, InsertSteps
<1>7. StateOK'
  BY <1>1, <1>2, <1>4 DEF Typed, StateOK
<1>8. InHand'
  BY <1>1, <1>2, <1>4 DEF Typed, InHand, Busy, HandleSteps, InsertSteps, Reading, Linking
<1>9. QED
  BY <1>5, <1>7, <1>8

LEMMA NameTypes ==
  ASSUME Typed, NEW t \in Threads, Name(t), UNCHANGED mainVars,
         \A u \in Threads : local[u].el # used + 1
  PROVE  OwnStep(t) /\ StateOK' /\ InHand'
<1>1. /\ pc[t] = "name" /\ pc' \in [Threads -> Steps]
      /\ pc'[t] \in {"insert"}
      /\ \A u \in Threads : u # t => pc'[u] = pc[u]
  BY DEF Typed, StateOK, Name, At, Goto, Steps, MainSteps, WorkerSteps, Busy, HandleSteps, InsertSteps
<1>2. UNCHANGED <<next, freed, head, tail, entry, args, num, count, slot>>
  BY DEF Name, queue, mainVars
<1>3. /\ used' = used + 1 /\ used' \in 1..MaxElements /\ used' \in Elements /\ used' \in Pointers
      /\ used \in Nat
  BY Numbers DEF Name, Typed, StateOK, Elements, Pointers
<1>4. local[t].el \in Elements /\ node[local[t].el] \in Dirs /\ entry \in Names
  BY <1>1 DEF Typed, StateOK, InHand, Busy, HandleSteps, Reading, Locals, Pointers
<1>5. /\ node' \in [Elements -> Nodes \cup {Nowhere}]
      /\ \A e \in Elements : e # used' => node'[e] = node[e]
  BY <1>3, <1>4, MiniGrepAssumption DEF Name, Typed, StateOK
<1>6. /\ local' \in [Threads -> Locals]
      /\ \A u \in Threads : u # t => local'[u] = local[u]
      /\ local'[t].el = local[t].el /\ local'[t].new = used'
  BY <1>3 DEF Name, Typed, StateOK, Locals
<1>7. OwnStep(t)
  BY <1>1, <1>2, <1>6 DEF OwnStep, Busy, HandleSteps, InsertSteps
<1>8. StateOK'
  BY <1>1, <1>2, <1>3, <1>5, <1>6 DEF Typed, StateOK
<1>9. InHand'
  <2>1. SUFFICES ASSUME NEW u \in Threads
                 PROVE  /\ pc'[u] \in Busy => local'[u].el # NULL
                        /\ pc'[u] \in Reading => node'[local'[u].el] \in Dirs
                        /\ pc'[u] \in Linking => local'[u].new \in 1..used'
    BY DEF InHand
  <2>2. pc'[u] \in Reading => local[u].el \in Elements /\ local[u].el # used'
    BY <1>1, <1>3, <1>6 DEF Typed, StateOK, InHand, Busy, Reading, HandleSteps, InsertSteps, Locals, Pointers
  <2>3. ASSUME pc'[u] \in Reading PROVE node'[local'[u].el] \in Dirs
    <3>1. local'[u].el = local[u].el /\ node'[local[u].el] = node[local[u].el]
      BY <1>5, <1>6, <2>2, <2>3
    <3>2. CASE u = t
      BY <1>4, <3>1, <3>2
    <3>3. CASE u # t
      BY <1>1, <2>3, <3>1, <3>3 DEF Typed, InHand
    <3>4. QED
      BY <3>2, <3>3
  <2>4. pc'[u] \in Busy => local'[u].el # NULL
    BY <1>1, <1>6 DEF Typed, InHand, Busy, HandleSteps, InsertSteps
  <2>5. pc'[u] \in Linking => local'[u].new \in 1..used'
    <3>1. CASE u = t
      BY <1>3, <1>6, <3>1
    <3>2. CASE u # t
      <4>1. pc'[u] \in Linking => local'[u].new \in 1..used
        BY <1>1, <1>6, <3>2 DEF Typed, InHand
      <4>2. QED
        BY <1>3, <4>1
    <3>3. QED
      BY <3>1, <3>2
  <2>6. QED
    BY <2>3, <2>4, <2>5
<1>10. QED
  BY <1>7, <1>8, <1>9

LEMMA OwnRoles ==
  ASSUME Typed, NEW t \in Threads, OwnStep(t), UNCHANGED mainVars
  PROVE  Roles'
<1>1. t = Main \/ t \in Workers
  BY MiniGrepAssumption DEF Threads, Workers, Main
<1>2. /\ \A u \in Threads : u # t => pc'[u] = pc[u] /\ local'[u] = local[u]
      /\ pc[t] \in Busy \ {"return"} /\ pc'[t] \in Busy \ {"stat"}
      /\ args' = args /\ slot' = slot
  BY DEF OwnStep, mainVars
<1>3. \A b \in Busy : b \notin {"open", "exit", "deal", "create", "join", "done", "off", "loop"}
  BY DEF Busy, HandleSteps, InsertSteps
<1>4. CASE t = Main
  <2>1. \A i \in Workers : pc'[i] = pc[i] /\ pc[i] = "off"
    BY <1>2, <1>3, <1>4, Numbers DEF Typed, Roles
  <2>2. QED
    BY <1>2, <1>3, <1>4, <2>1 DEF Typed, Roles, MainSteps
<1>5. CASE t \in Workers
  <2>1. pc'[Main] = pc[Main] /\ pc[Main] \in {"create", "join", "done"}
        /\ (pc[Main] = "create" => t < slot)
    BY <1>2, <1>3, <1>5, Numbers DEF Typed, Roles, StateOK, Workers
  <2>2. \A i \in Workers : pc'[i] \in WorkerSteps
    BY <1>2, <1>5, Numbers DEF Typed, Roles, WorkerSteps
  <2>3. pc'[Main] = "create" => \A i \in Workers : i >= slot => i # t
    BY <2>1, <1>5 DEF Typed, StateOK, Workers
  <2>4. pc'[Main] \notin {"open", "deal"} \cup Busy
    BY <1>3, <2>1
  <2>5. \A i \in Workers : pc'[Main] = "create" /\ i >= slot' => pc'[i] = "off"
    BY <1>2, <2>1, <2>3, Numbers DEF Typed, Roles
  <2>6. QED
    BY <1>2, <2>1, <2>2, <2>4, <2>5 DEF Typed, Roles
<1>6. QED
  BY <1>1, <1>4, <1>5

LEMMA HandleTypes ==
  ASSUME Typed, NEW t \in Threads, HandleStep(t), UNCHANGED mainVars,
         \A u \in Threads : local[u].el # used + 1
  PROVE  OwnStep(t) /\ Typed'
BY OwnRoles, StatTypes, ReadTypes, SkipDotTypes, SkipDotDotTypes, NameTypes, InsertTypes,
   SetHeadTypes, GetTailTypes, LinkTypes, GetNextTypes, SetTailTypes DEF HandleStep, Typed

-----------------------------------------------------------------------------
(* What a step may do to the queues: S is the set of each queue.           *)

\* A step of thread t that neither links an element nor moves a head.
LEMMA QuietParted ==
  ASSUME Typed, NEW S \in [Queues -> SUBSET Elements], Parted(S), NEW t \in Threads,
         next' = next, head' = head, fault' = fault,
         \A u \in Threads : u # t => /\ pc'[u] = pc[u] /\ local'[u] = local[u]
                                     /\ tail'[u] = tail[u],
         \/ freed' = freed
         \/ freed' = freed \cup {local[t].el} /\ pc[t] \in Busy,
         pc'[t] \in Busy \cup {"open", "exit"} => \A q \in Queues : local'[t].el \notin S[q],
         \A e \in Elements : Loose(e)' => Loose(e) /\ local'[t].el # e,
         pc'[t] \in Linking =>
           \A u \in Threads : u # t /\ pc[u] \in Linking => local[u].new # local'[t].new,
         End(S, t)'
  PROVE  Parted(S)'
<1>1. \A q \in Queues : Line(S, q)'
  BY DEF Parted, Line
<1>2. \A q \in Queues : End(S, q)'
  <2>1. SUFFICES ASSUME NEW q \in Queues, q # t PROVE End(S, q)'
    OBVIOUS
  <2>2. pc'[q] = pc[q] /\ local'[q] = local[q] /\ tail'[q] = tail[q]
    BY <2>1, Numbers
  <2>3. End(S, q)
    BY DEF Parted
  <2>4. next' = next /\ head' = head
    OBVIOUS
  <2>5. QED
    BY ONLY <2>2, <2>3, <2>4 DEF End
<1>3. Apart(S)'
  <2>1. \A q \in Queues : S[q] \cap freed' = {}
    BY DEF Parted, Apart
  <2>2. ASSUME NEW q \in Queues, NEW u \in Threads, pc'[u] \in Busy \cup {"open", "exit"}
        PROVE  local'[u].el \notin S[q]
    BY <2>2 DEF Parted, Apart
  <2>3. QED
    BY <2>1, <2>2 DEF Parted, Apart
<1>4. LooseEnds(S)'
  <2>1. ASSUME NEW e \in Elements, Loose(e)'
        PROVE  /\ next'[e] = NULL /\ e \notin freed'
               /\ \A q \in Queues : e \notin S[q]
               /\ \A u \in Threads : local'[u].el # e
    BY <2>1 DEF Parted, LooseEnds
  <2>2. ASSUME NEW u \in Threads, NEW v \in Threads, u # v,
               pc'[u] \in Linking, pc'[v] \in Linking
        PROVE  local'[u].new # local'[v].new
    BY <2>2 DEF Parted, LooseEnds
  <2>3. QED
    BY <2>1, <2>2 DEF LooseEnds
<1>5. QED
  BY <1>1, <1>2, <1>3, <1>4 DEF Parted

-----------------------------------------------------------------------------
(* Each step of handle_element keeps the queues apart.                     *)

LEMMA StatParted ==
  ASSUME Typed, NEW S \in [Queues -> SUBSET Elements], Parted(S), NEW t \in Threads,
         Stat(t), UNCHANGED mainVars
  PROVE  Parted(S)'
<1>1. OwnStep(t)
  BY StatTypes
<1>2. pc[t] = "stat" /\ pc'[t] \in {"read", "return"}
  BY DEF Stat, At, Goto, Typed, StateOK
<1>3. next' = next /\ head' = head /\ tail' = tail /\ fault' = fault /\ used' = used
  BY DEF Stat, memory, queue
<1>4. freed' = freed \/ (freed' = freed \cup {local[t].el} /\ pc[t] \in Busy)
  BY <1>1 DEF Stat, memory, OwnStep
<1>5. /\ \A u \in Threads : u # t => pc'[u] = pc[u] /\ local'[u] = local[u]
      /\ local'[t].el = local[t].el /\ pc[t] \in Busy
  BY <1>1 DEF OwnStep
<1>6. \A e \in Elements : Loose(e)' => Loose(e)
  BY <1>2, <1>3, <1>5 DEF Loose, Linking
<1>7. End(S, t)'
  <2>1. head[t] # NULL => tail[t] \in S[t] /\ next[tail[t]] = NULL
    BY <1>2, Numbers DEF Parted, End
  <2>2. QED
    BY ONLY <1>2, <1>3, <2>1 DEF End
<1>8. /\ \A q \in Queues : local'[t].el \notin S[q]
      /\ \A e \in Elements : Loose(e) => local'[t].el # e
  BY <1>5 DEF Parted, Apart, LooseEnds
<1>9. pc'[t] \notin Linking
  BY <1>2 DEF Linking
<1>10. QED
  BY <1>3, <1>4, <1>5, <1>6, <1>7, <1>8, <1>9, QuietParted

LEMMA ReadParted ==
  ASSUME Typed, NEW S \in [Queues -> SUBSET Elements], Parted(S), NEW t \in Threads,
         Read(t), UNCHANGED mainVars
  PROVE  Parted(S)'
<1>1. OwnStep(t)
  BY ReadTypes
<1>2. pc[t] = "read" /\ pc'[t] \in {"dot", "return"}
  BY DEF Read, At, Goto, Typed, StateOK
<1>3. next' = next /\ head' = head /\ tail' = tail /\ fault' = fault /\ used' = used
  BY DEF Read, memory, queue
<1>4. freed' = freed \/ (freed' = freed \cup {local[t].el} /\ pc[t] \in Busy)
  BY <1>1 DEF Read, memory, OwnStep
<1>5. /\ \A u \in Threads : u # t => pc'[u] = pc[u] /\ local'[u] = local[u]
      /\ local'[t].el = local[t].el /\ pc[t] \in Busy
  BY <1>1 DEF OwnStep
<1>6. \A e \in Elements : Loose(e)' => Loose(e)
  BY <1>2, <1>3, <1>5 DEF Loose, Linking
<1>7. End(S, t)'
  <2>1. head[t] # NULL => tail[t] \in S[t] /\ next[tail[t]] = NULL
    BY <1>2, Numbers DEF Parted, End
  <2>2. QED
    BY ONLY <1>2, <1>3, <2>1 DEF End
<1>8. /\ \A q \in Queues : local'[t].el \notin S[q]
      /\ \A e \in Elements : Loose(e) => local'[t].el # e
  BY <1>5 DEF Parted, Apart, LooseEnds
<1>9. pc'[t] \notin Linking
  BY <1>2 DEF Linking
<1>10. QED
  BY <1>3, <1>4, <1>5, <1>6, <1>7, <1>8, <1>9, QuietParted

LEMMA SkipDotParted ==
  ASSUME Typed, NEW S \in [Queues -> SUBSET Elements], Parted(S), NEW t \in Threads,
         SkipDot(t), UNCHANGED mainVars
  PROVE  Parted(S)'
<1>1. OwnStep(t)
  BY SkipDotTypes
<1>2. pc[t] = "dot" /\ pc'[t] \in {"read", "dotdot"}
  BY DEF SkipDot, At, Goto, Typed, StateOK
<1>3. next' = next /\ head' = head /\ tail' = tail /\ fault' = fault /\ used' = used
  BY DEF SkipDot, memory, queue
<1>4. freed' = freed \/ (freed' = freed \cup {local[t].el} /\ pc[t] \in Busy)
  BY <1>1 DEF SkipDot, memory, OwnStep
<1>5. /\ \A u \in Threads : u # t => pc'[u] = pc[u] /\ local'[u] = local[u]
      /\ local'[t].el = local[t].el /\ pc[t] \in Busy
  BY <1>1 DEF OwnStep
<1>6. \A e \in Elements : Loose(e)' => Loose(e)
  BY <1>2, <1>3, <1>5 DEF Loose, Linking
<1>7. End(S, t)'
  <2>1. head[t] # NULL => tail[t] \in S[t] /\ next[tail[t]] = NULL
    BY <1>2, Numbers DEF Parted, End
  <2>2. QED
    BY ONLY <1>2, <1>3, <2>1 DEF End
<1>8. /\ \A q \in Queues : local'[t].el \notin S[q]
      /\ \A e \in Elements : Loose(e) => local'[t].el # e
  BY <1>5 DEF Parted, Apart, LooseEnds
<1>9. pc'[t] \notin Linking
  BY <1>2 DEF Linking
<1>10. QED
  BY <1>3, <1>4, <1>5, <1>6, <1>7, <1>8, <1>9, QuietParted

LEMMA SkipDotDotParted ==
  ASSUME Typed, NEW S \in [Queues -> SUBSET Elements], Parted(S), NEW t \in Threads,
         SkipDotDot(t), UNCHANGED mainVars
  PROVE  Parted(S)'
<1>1. OwnStep(t)
  BY SkipDotDotTypes
<1>2. pc[t] = "dotdot" /\ pc'[t] \in {"read", "name"}
  BY DEF SkipDotDot, At, Goto, Typed, StateOK
<1>3. next' = next /\ head' = head /\ tail' = tail /\ fault' = fault /\ used' = used
  BY DEF SkipDotDot, memory, queue
<1>4. freed' = freed \/ (freed' = freed \cup {local[t].el} /\ pc[t] \in Busy)
  BY <1>1 DEF SkipDotDot, memory, OwnStep
<1>5. /\ \A u \in Threads : u # t => pc'[u] = pc[u] /\ local'[u] = local[u]
      /\ local'[t].el = local[t].el /\ pc[t] \in Busy
  BY <1>1 DEF OwnStep
<1>6. \A e \in Elements : Loose(e)' => Loose(e)
  BY <1>2, <1>3, <1>5 DEF Loose, Linking
<1>7. End(S, t)'
  <2>1. head[t] # NULL => tail[t] \in S[t] /\ next[tail[t]] = NULL
    BY <1>2, Numbers DEF Parted, End
  <2>2. QED
    BY ONLY <1>2, <1>3, <2>1 DEF End
<1>8. /\ \A q \in Queues : local'[t].el \notin S[q]
      /\ \A e \in Elements : Loose(e) => local'[t].el # e
  BY <1>5 DEF Parted, Apart, LooseEnds
<1>9. pc'[t] \notin Linking
  BY <1>2 DEF Linking
<1>10. QED
  BY <1>3, <1>4, <1>5, <1>6, <1>7, <1>8, <1>9, QuietParted

LEMMA NameParted ==
  ASSUME Typed, NEW S \in [Queues -> SUBSET Elements], Parted(S), NEW t \in Threads,
         Name(t), UNCHANGED mainVars
  PROVE  Parted(S)'
<1>1. /\ pc[t] = "name" /\ pc'[t] = "insert"
      /\ \A u \in Threads : u # t => pc'[u] = pc[u] /\ local'[u] = local[u]
      /\ local'[t].el = local[t].el /\ local'[t].new = used + 1
  BY DEF Name, At, Goto, Typed, StateOK, Locals
<1>2. /\ next' = next /\ head' = head /\ tail' = tail /\ fault' = fault /\ freed' = freed
      /\ used' = used + 1 /\ used \in Nat
  BY Numbers DEF Name, queue, Typed, StateOK
<1>3. \A e \in Elements : Loose(e)' => Loose(e)
  <2>1. SUFFICES ASSUME NEW e \in Elements, Loose(e)' PROVE Loose(e)
    OBVIOUS
  <2>2. CASE e > used'
    BY <1>2, <2>2 DEF Loose, Elements
  <2>3. ASSUME NEW u \in Threads, pc'[u] \in Linking, local'[u].new = e PROVE Loose(e)
    <3>1. CASE u = t
      BY <1>1, <1>2, <2>3, <3>1 DEF Loose
    <3>2. CASE u # t
      BY <1>1, <2>3, <3>2 DEF Loose
    <3>3. QED
      BY <3>1, <3>2
  <2>4. QED
    BY <2>1, <2>2, <2>3 DEF Loose
<1>4. End(S, t)'
  <2>1. head[t] # NULL => tail[t] \in S[t] /\ next[tail[t]] = NULL
    BY <1>1, Numbers DEF Parted, End
  <2>2. QED
    BY ONLY <1>1, <1>2, <2>1 DEF End
<1>5. pc[t] \in Busy
  BY <1>1 DEF Busy, HandleSteps
<1>6. /\ \A q \in Queues : local'[t].el \notin S[q]
      /\ \A e \in Elements : Loose(e) => local'[t].el # e
  BY <1>1, <1>5 DEF Parted, Apart, LooseEnds
<1>7. \A u \in Threads : pc[u] \in Linking => local[u].new # local'[t].new
  BY <1>1, <1>2 DEF Typed, InHand
<1>8. QED
  BY <1>1, <1>2, <1>3, <1>4, <1>6, <1>7, QuietParted

LEMMA InsertParted ==
  ASSUME Typed, NEW S \in [Queues -> SUBSET Elements], Parted(S), NEW t \in Threads,
         Insert(t), UNCHANGED mainVars
  PROVE  Parted(S)'
<1>1. /\ pc[t] = "insert"
      /\ pc'[t] = IF head[t] = NULL THEN "set head" ELSE "get tail"
      /\ \A u \in Threads : u # t => pc'[u] = pc[u]
  BY OwnQueue DEF Insert, At, Goto, Typed, StateOK
<1>2. /\ next' = next /\ head' = head /\ tail' = tail /\ fault' = fault /\ freed' = freed
      /\ used' = used /\ local' = local
  BY DEF Insert, queue, memory
<1>3. \A e \in Elements : Loose(e)' => Loose(e)
  BY <1>1, <1>2 DEF Loose, Linking
<1>4. End(S, t)'
  <2>1. head[t] # NULL => tail[t] \in S[t] /\ next[tail[t]] = NULL
    BY <1>1, Numbers DEF Parted, End
  <2>2. QED
    BY ONLY <1>1, <1>2, <2>1 DEF End
<1>5. pc[t] \in Busy /\ pc[t] \in Linking
  BY <1>1 DEF Busy, InsertSteps, Linking
<1>6. /\ \A q \in Queues : local'[t].el \notin S[q]
      /\ \A e \in Elements : Loose(e) => local'[t].el # e
      /\ \A u \in Threads : u # t /\ pc[u] \in Linking => local[u].new # local'[t].new
  BY <1>2, <1>5 DEF Parted, Apart, LooseEnds
<1>7. QED
  BY <1>1, <1>2, <1>3, <1>4, <1>6, QuietParted

LEMMA GetTailParted ==
  ASSUME Typed, NEW S \in [Queues -> SUBSET Elements], Parted(S), NEW t \in Threads,
         GetTail(t), UNCHANGED mainVars
  PROVE  Parted(S)'
<1>1. /\ pc[t] = "get tail" /\ pc'[t] = "link"
      /\ \A u \in Threads : u # t => pc'[u] = pc[u] /\ local'[u] = local[u]
      /\ local'[t].el = local[t].el /\ local'[t].new = local[t].new
      /\ local'[t].reg = tail[t]
  BY OwnQueue DEF GetTail, At, Goto, Typed, StateOK, Locals
<1>2. /\ next' = next /\ head' = head /\ tail' = tail /\ fault' = fault /\ freed' = freed
      /\ used' = used
  BY DEF GetTail, queue, memory
<1>3. \A e \in Elements : Loose(e)' => Loose(e)
  BY <1>1, <1>2 DEF Loose, Linking
<1>4. End(S, t)'
  <2>1. head[t] # NULL /\ tail[t] \in S[t] /\ next[tail[t]] = NULL
    BY <1>1, Numbers DEF Parted, End
  <2>2. QED
    BY ONLY <1>1, <1>2, <2>1 DEF End
<1>5. pc[t] \in Busy /\ pc[t] \in Linking
  BY <1>1 DEF Busy, InsertSteps, Linking
<1>6. /\ \A q \in Queues : local'[t].el \notin S[q]
      /\ \A e \in Elements : Loose(e) => local'[t].el # e
      /\ \A u \in Threads : u # t /\ pc[u] \in Linking => local[u].new # local'[t].new
  BY <1>1, <1>5 DEF Parted, Apart, LooseEnds
<1>7. QED
  BY <1>1, <1>2, <1>3, <1>4, <1>6, QuietParted

LEMMA GetNextParted ==
  ASSUME Typed, NEW S \in [Queues -> SUBSET Elements], Parted(S), NEW t \in Threads,
         GetNext(t), UNCHANGED mainVars
  PROVE  Parted(S)'
<1>0. /\ pc[t] = "get next" /\ pc[t] \in Busy
      /\ tail[t] \in S[t] /\ S[t] \subseteq Elements
      /\ next[tail[t]] \in S[t] /\ next[next[tail[t]]] = NULL /\ head[t] # NULL
  BY Numbers DEF GetNext, At, Parted, End, Busy, InsertSteps
<1>1. /\ pc'[t] = "set tail" /\ fault' = fault
      /\ \A u \in Threads : u # t => pc'[u] = pc[u] /\ local'[u] = local[u]
      /\ local'[t].el = local[t].el /\ local'[t].reg = next[tail[t]]
  <2>1. tail[QueueOf(t)] # NULL /\ QueueOf(t) = t
    BY <1>0, OwnQueue, Numbers DEF Typed
  <2>2. local' = [local EXCEPT ![t].reg = next[tail[t]]] /\ Goto(t, "set tail") /\ fault' = fault
    BY <2>1 DEF GetNext
  <2>3. QED
    BY <2>2 DEF Goto, Typed, StateOK, Locals
<1>2. /\ next' = next /\ head' = head /\ tail' = tail /\ freed' = freed
      /\ used' = used
  BY DEF GetNext, queue, memory
<1>3. \A e \in Elements : Loose(e)' => Loose(e)
  BY <1>1, <1>2 DEF Loose, Linking
<1>4. End(S, t)'
  BY ONLY <1>0, <1>1, <1>2 DEF End
<1>5. pc[t] \in Busy /\ local'[t].el = local[t].el
  BY <1>0, <1>1
<1>6. /\ \A q \in Queues : local'[t].el \notin S[q]
      /\ \A e \in Elements : Loose(e) => local'[t].el # e
  BY <1>5 DEF Parted, Apart, LooseEnds
<1>7. pc'[t] \notin Linking
  BY <1>1 DEF Linking
<1>8. QED
  BY <1>1, <1>2, <1>3, <1>4, <1>6, <1>7, QuietParted

LEMMA SetTailParted ==
  ASSUME Typed, NEW S \in [Queues -> SUBSET Elements], Parted(S), NEW t \in Threads,
         SetTail(t), UNCHANGED mainVars
  PROVE  Parted(S)'
<1>0. /\ pc[t] = "set tail" /\ pc[t] \in Busy
      /\ local[t].reg \in S[t] /\ next[local[t].reg] = NULL
  BY Numbers DEF SetTail, At, Parted, End, Busy, InsertSteps
<1>1. /\ pc'[t] = "read"
      /\ \A u \in Threads : u # t => pc'[u] = pc[u] /\ local'[u] = local[u] /\ tail'[u] = tail[u]
      /\ local'[t].el = local[t].el /\ tail'[t] = local[t].reg
  BY OwnQueue, Numbers DEF SetTail, At, Goto, Typed, StateOK, Locals
<1>2. /\ next' = next /\ head' = head /\ freed' = freed /\ fault' = fault
      /\ used' = used
  BY DEF SetTail, memory
<1>3. \A e \in Elements : Loose(e)' => Loose(e)
  BY <1>1, <1>2 DEF Loose, Linking
<1>4. End(S, t)'
  BY ONLY <1>0, <1>1, <1>2 DEF End
<1>6. /\ \A q \in Queues : local'[t].el \notin S[q]
      /\ \A e \in Elements : Loose(e) => local'[t].el # e
      /\ pc'[t] \notin Linking
  BY <1>0, <1>1 DEF Parted, Apart, LooseEnds, Linking
<1>7. QED
  BY <1>1, <1>2, <1>3, <1>4, <1>6, QuietParted

\* The first element of a queue.
LEMMA SetHeadParted ==
  ASSUME Typed, NEW S \in [Queues -> SUBSET Elements], Parted(S), NEW t \in Threads,
         SetHead(t), UNCHANGED mainVars
  PROVE  \E T \in [Queues -> SUBSET Elements] : Parted(T)'
<1> DEFINE n == local[t].new
<1>0. pc[t] = "set head" /\ pc[t] \in Busy /\ pc[t] \in Linking /\ t \in Queues
  BY Numbers DEF SetHead, At, Busy, InsertSteps, Linking
<1>1. /\ pc'[t] = "set tail"
      /\ \A u \in Threads : u # t => /\ pc'[u] = pc[u] /\ local'[u] = local[u]
                                     /\ head'[u] = head[u]
      /\ local'[t].el = local[t].el /\ local'[t].reg = n /\ head'[t] = n
  BY OwnQueue, Numbers DEF SetHead, At, Goto, Typed, StateOK, Locals
<1>2. /\ next' = next /\ tail' = tail /\ freed' = freed /\ fault' = fault
      /\ used' = used
  BY DEF SetHead, memory
<1>3. n \in Elements /\ Loose(n) /\ next[n] = NULL /\ n # NULL
  <2>1. n \in 1..used
    BY <1>0 DEF Typed, InHand
  <2>2. n \in Elements
    BY <2>1, Numbers DEF Typed, StateOK, Elements
  <2>3. QED
    BY <1>0, <2>2, Numbers DEF Loose, Parted, LooseEnds
<1>4. \A e \in Elements : Loose(e)' => Loose(e) /\ e # n
  <2>1. ASSUME NEW e \in Elements, NEW u \in Threads, pc'[u] \in Linking, local'[u].new = e
        PROVE  Loose(e) /\ e # n
    <3>1. u # t /\ pc[u] \in Linking /\ local[u].new = e
      BY <1>1, <2>1 DEF Linking
    <3>2. QED
      BY <1>0, <3>1 DEF Loose, Parted, LooseEnds
  <2>2. ASSUME NEW e \in Elements, e > used PROVE Loose(e) /\ e # n
    <3>1. used \in Nat /\ n \in 1..used /\ e \in Nat
      <4>1. n \in 1..used
        BY <1>0 DEF Typed, InHand
      <4>2. used \in 1..MaxElements /\ MaxElements \in Nat
        BY Numbers DEF Typed, StateOK
      <4>3. QED
        BY <4>1, <4>2 DEF Elements
    <3>2. e # n
      BY <2>2, <3>1
    <3>3. QED
      BY <2>2, <3>2 DEF Loose
  <2>3. QED
    BY <1>2, <2>1, <2>2 DEF Loose
<1>5. PICK T \in [Queues -> SUBSET Elements] : T = [S EXCEPT ![t] = {n}]
  BY <1>3
<1>6. T[t] = {n} /\ \A q \in Queues : q # t => T[q] = S[q]
  BY <1>0, <1>5
<1>7. \A q \in Queues : Line(T, q)'
  <2>1. Line(T, t)'
    BY <1>1, <1>2, <1>3, <1>6 DEF Line
  <2>2. ASSUME NEW q \in Queues, q # t PROVE Line(T, q)'
    <3>1. Line(S, q) /\ T[q] = S[q] /\ head'[q] = head[q] /\ next' = next
      BY <1>1, <1>2, <1>6, <2>2, Numbers DEF Parted
    <3>2. QED
      BY ONLY <3>1 DEF Line
  <2>3. QED
    BY <2>1, <2>2
<1>8. \A q \in Queues : End(T, q)'
  <2>1. End(T, t)'
    BY ONLY <1>1, <1>2, <1>3, <1>6 DEF End
  <2>2. ASSUME NEW q \in Queues, q # t PROVE End(T, q)'
    <3>1. /\ End(S, q) /\ T[q] = S[q] /\ head'[q] = head[q] /\ next' = next /\ tail' = tail
          /\ pc'[q] = pc[q] /\ local'[q] = local[q]
      BY <1>1, <1>2, <1>6, <2>2, Numbers DEF Parted
    <3>2. QED
      BY ONLY <3>1 DEF End
  <2>3. QED
    BY <2>1, <2>2
<1>9. Apart(T)'
  <2>1. \A q \in Queues : n \notin S[q] /\ n \notin freed
    BY <1>3 DEF Parted, LooseEnds
  <2>2. \A p, q \in Queues : p # q => T[p] \cap T[q] = {}
    BY <1>6, <2>1 DEF Parted, Apart
  <2>3. \A q \in Queues : T[q] \cap freed' = {}
    BY <1>2, <1>6, <2>1 DEF Parted, Apart
  <2>4. ASSUME NEW q \in Queues, NEW u \in Threads, pc'[u] \in Busy \cup {"open", "exit"}
        PROVE  local'[u].el \notin T[q]
    <3>1. pc[u] \in Busy \cup {"open", "exit"} /\ local'[u].el = local[u].el
      BY <1>0, <1>1, <2>4
    <3>2. local[u].el \notin S[q] /\ local[u].el # n
      BY <1>3, <3>1 DEF Parted, Apart, LooseEnds
    <3>3. QED
      BY <1>6, <3>1, <3>2
  <2>5. QED
    BY <2>2, <2>3, <2>4 DEF Apart
<1>10. LooseEnds(T)'
  <2>1. ASSUME NEW e \in Elements, Loose(e)'
        PROVE  /\ next'[e] = NULL /\ e \notin freed'
               /\ \A q \in Queues : e \notin T[q]
               /\ \A u \in Threads : local'[u].el # e
    <3>1. Loose(e) /\ e # n
      BY <1>4, <2>1
    <3>2. /\ next[e] = NULL /\ e \notin freed /\ \A q \in Queues : e \notin S[q]
          /\ \A u \in Threads : local[u].el # e
      BY <3>1 DEF Parted, LooseEnds
    <3>3. QED
      BY <1>1, <1>2, <1>6, <3>1, <3>2
  <2>2. ASSUME NEW u \in Threads, NEW v \in Threads, u # v,
               pc'[u] \in Linking, pc'[v] \in Linking
        PROVE  local'[u].new # local'[v].new
    <3>1. u # t /\ v # t
      BY <1>1, <2>2 DEF Linking
    <3>2. QED
      BY <1>1, <2>2, <3>1 DEF Parted, LooseEnds
  <2>3. QED
    BY <2>1, <2>2 DEF LooseEnds
<1>11. ~fault'
  BY <1>2 DEF Parted
<1>12. QED
  BY <1>7, <1>8, <1>9, <1>10, <1>11 DEF Parted

\* Appending to a chain, and removing the first of one.
LEMMA Appended ==
  ASSUME NEW S, NEW T, NEW q \in Queues, Line(S, q), head[q] # NULL,
         NEW l \in S[q], next[l] = NULL, NEW n, n \notin S[q], n # NULL,
         T[q] = S[q] \cup {n}, head'[q] = head[q], next'[l] = n, next'[n] = NULL,
         \A e \in S[q] : e # l => next'[e] = next[e]
  PROVE  Line(T, q)'
<1>1. /\ head[q] \in S[q]
      /\ \A e \in S[q] :
           next[e] # NULL => /\ next[e] \in S[q] /\ next[e] # head[q]
                             /\ \A d \in S[q] : next[d] = next[e] => d = e
  BY DEF Line
<1>2. ASSUME NEW e \in T[q], next'[e] # NULL
      PROVE  /\ next'[e] \in T[q] /\ next'[e] # head[q]
             /\ \A d \in T[q] : next'[d] = next'[e] => d = e
  <2>1. e # n /\ e \in S[q]
    BY <1>2
  <2>2. CASE e = l
    <3>1. \A d \in S[q] : next[d] # n
      BY <1>1
    <3>2. QED
      BY <1>1, <2>2, <3>1
  <2>3. CASE e # l
    <3>1. next'[e] = next[e] /\ next[e] \in S[q] /\ next[e] # n /\ next[e] # head[q]
      BY <1>1, <1>2, <2>1, <2>3
    <3>2. ASSUME NEW d \in T[q], next'[d] = next[e] PROVE d = e
      <4>1. d # l /\ d # n
        BY <3>1, <3>2, <1>2
      <4>2. d \in S[q] /\ next[d] = next[e]
        BY <3>2, <4>1
      <4>3. QED
        BY <1>1, <1>2, <2>1, <3>1, <4>2
    <3>3. QED
      BY <3>1, <3>2
  <2>4. QED
    BY <2>2, <2>3
<1>3. QED
  BY <1>1, <1>2 DEF Line

LEMMA Removed ==
  ASSUME NEW S, NEW T, NEW q \in Queues, Line(S, q), head[q] # NULL,
         T[q] = S[q] \ {head[q]}, head'[q] = next[head[q]],
         \A e \in T[q] : next'[e] = next[e]
  PROVE  Line(T, q)'
<1>1. /\ head[q] \in S[q]
      /\ \A e \in S[q] :
           next[e] # NULL => /\ next[e] \in S[q] /\ next[e] # head[q]
                             /\ \A d \in S[q] : next[d] = next[e] => d = e
  BY DEF Line
<1>2. head'[q] # NULL => head'[q] \in T[q]
  BY <1>1
<1>3. ASSUME NEW e \in T[q], next'[e] # NULL
      PROVE  /\ next'[e] \in T[q] /\ next'[e] # head'[q]
             /\ \A d \in T[q] : next'[d] = next'[e] => d = e
  BY <1>1, <1>3
<1>4. QED
  BY <1>2, <1>3 DEF Line

\* The tail of a queue gets a successor.
LEMMA LinkParted ==
  ASSUME Typed, NEW S \in [Queues -> SUBSET Elements], Parted(S), NEW t \in Threads,
         Link(t), UNCHANGED mainVars
  PROVE  \E T \in [Queues -> SUBSET Elements] : Parted(T)'
<1> DEFINE n == local[t].new
           l == local[t].reg
<1>0. /\ pc[t] = "link" /\ pc[t] \in Busy /\ pc[t] \in Linking /\ t \in Queues
      /\ l = tail[t] /\ l \in S[t] /\ next[l] = NULL /\ head[t] # NULL /\ l \in Elements
  <2>1. pc[t] = "link" /\ t \in Queues
    BY Numbers DEF Link, At
  <2>2. pc[t] \in Busy /\ pc[t] \in Linking
    BY <2>1 DEF Busy, InsertSteps, Linking
  <2>3. End(S, t)
    BY <2>1 DEF Parted
  <2>4. l = tail[t] /\ l \in S[t] /\ next[l] = NULL /\ head[t] # NULL
    BY ONLY <2>1, <2>3 DEF End
  <2>5. l \in Elements
    BY <2>1, <2>4
  <2>6. QED
    BY <2>1, <2>2, <2>4, <2>5
<1>1. /\ pc'[t] = "get next" /\ fault' = fault
      /\ \A u \in Threads : u # t => pc'[u] = pc[u]
      /\ next' = [next EXCEPT ![l] = n]
  <2>1. l # NULL
    BY <1>0, Numbers
  <2>2. next' = [next EXCEPT ![l] = n] /\ Goto(t, "get next") /\ fault' = fault
    BY <2>1 DEF Link
  <2>3. QED
    BY <2>2 DEF Goto, Typed, StateOK
<1>2. /\ head' = head /\ tail' = tail /\ freed' = freed
      /\ used' = used /\ local' = local
  BY DEF Link, queue
<1>3. n \in Elements /\ Loose(n) /\ next[n] = NULL /\ n # NULL
  <2>1. n \in 1..used
    BY <1>0 DEF Typed, InHand
  <2>2. n \in Elements
    BY <2>1, Numbers DEF Typed, StateOK, Elements
  <2>3. QED
    BY <1>0, <2>2, Numbers DEF Loose, Parted, LooseEnds
<1>4. \A e \in Elements : Loose(e)' => Loose(e) /\ e # n
  <2>1. ASSUME NEW e \in Elements, NEW u \in Threads, pc'[u] \in Linking, local'[u].new = e
        PROVE  Loose(e) /\ e # n
    <3>1. u # t /\ pc[u] \in Linking /\ local[u].new = e
      BY <1>1, <1>2, <2>1 DEF Linking
    <3>2. QED
      BY <1>0, <3>1 DEF Loose, Parted, LooseEnds
  <2>2. ASSUME NEW e \in Elements, e > used PROVE Loose(e) /\ e # n
    <3>1. used \in Nat /\ n \in 1..used /\ e \in Nat
      <4>1. n \in 1..used
        BY <1>0 DEF Typed, InHand
      <4>2. used \in 1..MaxElements /\ MaxElements \in Nat
        BY Numbers DEF Typed, StateOK
      <4>3. QED
        BY <4>1, <4>2 DEF Elements
    <3>2. e # n
      BY <2>2, <3>1
    <3>3. QED
      BY <2>2, <3>2 DEF Loose
  <2>3. QED
    BY <1>2, <2>1, <2>2 DEF Loose
<1>a. \A q \in Queues : n \notin S[q] /\ n \notin freed
  BY <1>3 DEF Parted, LooseEnds
<1>b. /\ next'[l] = n /\ next'[n] = NULL /\ l # n
      /\ \A e \in Elements : e # l => next'[e] = next[e]
  BY <1>0, <1>1, <1>3, <1>a DEF Typed, StateOK
<1>5. PICK T \in [Queues -> SUBSET Elements] : T = [S EXCEPT ![t] = S[t] \cup {n}]
  BY <1>0, <1>3
<1>6. T[t] = S[t] \cup {n} /\ \A q \in Queues : q # t => T[q] = S[q]
  BY <1>0, <1>5
<1>c. \A q \in Queues : q # t => l \notin S[q]
  BY <1>0 DEF Parted, Apart
<1>7. \A q \in Queues : Line(T, q)'
  <2>1. Line(T, t)'
    <3>1. /\ Line(S, t) /\ n \notin S[t] /\ head'[t] = head[t]
          /\ \A e \in S[t] : e # l => next'[e] = next[e]
      BY <1>0, <1>2, <1>a, <1>b DEF Parted
    <3>2. QED
      BY <1>0, <1>3, <1>b, <1>6, <3>1, Appended
  <2>2. ASSUME NEW q \in Queues, q # t PROVE Line(T, q)'
    <3>1. Line(S, q) /\ T[q] = S[q] /\ head'[q] = head[q] /\ \A e \in S[q] : next'[e] = next[e]
      BY <1>2, <1>6, <1>b, <1>c, <2>2 DEF Parted
    <3>2. QED
      BY ONLY <3>1 DEF Line
  <2>3. QED
    BY <2>1, <2>2
<1>8. \A q \in Queues : End(T, q)'
  <2>1. End(T, t)'
    BY ONLY <1>0, <1>1, <1>2, <1>b, <1>6 DEF End
  <2>2. ASSUME NEW q \in Queues, q # t PROVE End(T, q)'
    <3>1. /\ End(S, q) /\ T[q] = S[q] /\ head' = head /\ tail' = tail
          /\ pc'[q] = pc[q] /\ local' = local
          /\ \A e \in S[q] : next'[e] = next[e]
      BY <1>1, <1>2, <1>6, <1>b, <1>c, <2>2, Numbers DEF Parted
    <3>2. head[q] # NULL => head[q] \in S[q]
      BY DEF Parted, Line
    <3>3. QED
      BY ONLY <3>1, <3>2 DEF End
  <2>3. QED
    BY <2>1, <2>2
<1>9. Apart(T)'
  <2>2. \A p, q \in Queues : p # q => T[p] \cap T[q] = {}
    BY <1>6, <1>a DEF Parted, Apart
  <2>3. \A q \in Queues : T[q] \cap freed' = {}
    BY <1>2, <1>6, <1>a DEF Parted, Apart
  <2>4. ASSUME NEW q \in Queues, NEW u \in Threads, pc'[u] \in Busy \cup {"open", "exit"}
        PROVE  local'[u].el \notin T[q]
    <3>1. pc[u] \in Busy \cup {"open", "exit"} /\ local'[u].el = local[u].el
      BY <1>0, <1>1, <1>2, <2>4
    <3>2. local[u].el \notin S[q] /\ local[u].el # n
      BY <1>3, <3>1 DEF Parted, Apart, LooseEnds
    <3>3. QED
      BY <1>6, <3>1, <3>2
  <2>5. QED
    BY <2>2, <2>3, <2>4 DEF Apart
<1>10. LooseEnds(T)'
  <2>1. ASSUME NEW e \in Elements, Loose(e)'
        PROVE  /\ next'[e] = NULL /\ e \notin freed'
               /\ \A q \in Queues : e \notin T[q]
               /\ \A u \in Threads : local'[u].el # e
    <3>1. Loose(e) /\ e # n
      BY <1>4, <2>1
    <3>2. /\ next[e] = NULL /\ e \notin freed /\ \A q \in Queues : e \notin S[q]
          /\ \A u \in Threads : local[u].el # e
      BY <3>1 DEF Parted, LooseEnds
    <3>3. e # l
      BY <1>0, <3>2
    <3>4. QED
      BY <1>2, <1>6, <1>b, <3>1, <3>2, <3>3
  <2>2. ASSUME NEW u \in Threads, NEW v \in Threads, u # v,
               pc'[u] \in Linking, pc'[v] \in Linking
        PROVE  local'[u].new # local'[v].new
    <3>1. u # t /\ v # t
      BY <1>1, <2>2 DEF Linking
    <3>2. QED
      BY <1>1, <1>2, <2>2, <3>1 DEF Parted, LooseEnds
  <2>3. QED
    BY <2>1, <2>2 DEF LooseEnds
<1>11. ~fault'
  BY <1>1 DEF Parted
<1>12. QED
  BY <1>7, <1>8, <1>9, <1>10, <1>11 DEF Parted

LEMMA HandleParted ==
  ASSUME Typed, NEW S \in [Queues -> SUBSET Elements], Parted(S), NEW t \in Threads,
         HandleStep(t), UNCHANGED mainVars
  PROVE  Typed' /\ \E T \in [Queues -> SUBSET Elements] : Parted(T)'
<1>1. \A u \in Threads : local[u].el # used + 1
  <2>1. SUFFICES ASSUME NEW u \in Threads, local[u].el = used + 1 PROVE FALSE
    OBVIOUS
  <2>2. used \in Nat /\ used # 0
    BY Numbers DEF Typed, StateOK
  <2>3. used + 1 \in Elements
    BY <2>1, <2>2 DEF Typed, StateOK, Locals, Pointers, NULL
  <2>4. Loose(used + 1)
    BY <2>2 DEF Loose
  <2>5. QED
    BY <2>1, <2>3, <2>4 DEF Parted, LooseEnds
<1>2. Typed'
  BY <1>1, HandleTypes
<1>3. CASE Stat(t) \/ Read(t) \/ SkipDot(t) \/ SkipDotDot(t) \/ Name(t) \/ Insert(t)
           \/ GetTail(t) \/ GetNext(t) \/ SetTail(t)
  BY <1>2, <1>3, StatParted, ReadParted, SkipDotParted, SkipDotDotParted, NameParted, InsertParted,
     GetTailParted, GetNextParted, SetTailParted
<1>4. CASE SetHead(t)
  BY <1>2, <1>4, SetHeadParted
<1>5. CASE Link(t)
  BY <1>2, <1>5, LinkParted
<1>6. QED
  BY <1>2, <1>3, <1>4, <1>5 DEF HandleStep

-----------------------------------------------------------------------------
(* The steps of a thread's own loop                                        *)

LEMMA WorkerRoles ==
  ASSUME Typed, NEW i \in Workers, pc[i] # "off", pc'[i] \in WorkerSteps,
         \A u \in Threads : u # i => pc'[u] = pc[u],
         \A j \in Workers : args'[j].queue = args[j].queue, slot' = slot
  PROVE  Roles'
<1>1. /\ pc'[Main] = pc[Main] /\ pc[Main] \in {"create", "join", "done"}
      /\ (pc[Main] = "create" => ~(i >= slot))
  BY Numbers DEF Typed, Roles
<1>2. \A j \in Workers : pc'[j] \in WorkerSteps /\ args'[j].queue = j
  BY Numbers DEF Typed, Roles
<1>3. \A j \in Workers : pc'[Main] = "create" /\ j >= slot' => pc'[j] = "off"
  <2>1. ASSUME NEW j \in Workers, pc'[Main] = "create", j >= slot' PROVE pc'[j] = "off"
    <3>1. pc[Main] = "create" /\ j >= slot
      BY <1>1, <2>1
    <3>2. j # i
      BY <1>1, <3>1
    <3>3. pc[j] = "off" /\ j \in Threads
      BY <3>1, Numbers DEF Typed, Roles
    <3>4. QED
      BY <3>2, <3>3
  <2>2. QED
    BY <2>1
<1>4. pc'[Main] \notin {"open", "deal"} \cup Busy
  BY <1>1 DEF Busy, HandleSteps, InsertSteps
<1>5. pc'[Main] # "open" /\ pc'[Main] \in {"create", "join", "done"} /\ pc'[Main] \in MainSteps
  BY <1>1 DEF MainSteps
<1>6. QED
  BY <1>2, <1>3, <1>4, <1>5 DEF Roles

LEMMA LoopKept ==
  ASSUME Typed, NEW S \in [Queues -> SUBSET Elements], Parted(S), NEW i \in Workers, Loop(i)
  PROVE  Typed' /\ Parted(S)'
<1>0. i \in Threads /\ i \in Queues /\ QueueOf(i) = i
  BY OwnQueue, Numbers DEF Typed
<1>1. /\ pc[i] = "loop" /\ pc' \in [Threads -> Steps] /\ pc'[i] \in {"take", "off"}
      /\ pc'[i] = "take" => head[i] # NULL
      /\ \A u \in Threads : u # i => pc'[u] = pc[u]
  BY <1>0 DEF Typed, StateOK, Loop, At, Goto, Steps, WorkerSteps, RemoveSteps
<1>2. UNCHANGED <<node, next, used, freed, head, tail, entry, local, fault, num, count, slot>>
  BY DEF Loop, memory, queue, mainVars
<1>3. args' \in [Workers -> Args] /\ \A j \in Workers : args'[j].queue = args[j].queue
  <2>1. count[i] \in Int
    BY DEF Typed, StateOK
  <2>2. args' = args \/ args' = [args EXCEPT ![i].result = count[i]]
    BY DEF Loop
  <2>3. QED
    BY <2>1, <2>2 DEF Typed, StateOK, Args
<1>4. StateOK'
  BY <1>1, <1>2, <1>3 DEF Typed, StateOK
<1>5. pc'[i] \notin Busy /\ pc'[i] \notin Reading /\ pc'[i] \notin Linking
  BY <1>1 DEF Busy, HandleSteps, InsertSteps, Reading, Linking
<1>6. InHand'
  BY <1>1, <1>2, <1>5 DEF Typed, InHand
<1>7. Roles'
  BY <1>1, <1>2, <1>3, WorkerRoles DEF WorkerSteps, RemoveSteps
<1>8. End(S, i)'
  <2>1. head[i] # NULL => tail[i] \in S[i] /\ next[tail[i]] = NULL
    BY <1>0, <1>1 DEF Parted, End
  <2>2. QED
    BY ONLY <1>1, <1>2, <2>1 DEF End
<1>9. \A e \in Elements : Loose(e)' => Loose(e) /\ local'[i].el # e
  <2>1. \A e \in Elements : Loose(e)' => Loose(e)
    BY <1>1, <1>2, <1>5 DEF Loose
  <2>2. QED
    BY <1>0, <1>2, <2>1 DEF Parted, LooseEnds
<1>10. pc'[i] \notin Busy \cup {"open", "exit"}
  BY <1>1, <1>5
<1>11. Parted(S)'
  BY <1>0, <1>1, <1>2, <1>5, <1>8, <1>9, <1>10, QuietParted
<1>12. QED
  BY <1>4, <1>6, <1>7, <1>11 DEF Typed

LEMMA AddKept ==
  ASSUME Typed, NEW S \in [Queues -> SUBSET Elements], Parted(S), NEW i \in Workers, Add(i)
  PROVE  Typed' /\ Parted(S)'
<1>0. i \in Threads /\ i \in Queues /\ QueueOf(i) = i
  BY OwnQueue, Numbers DEF Typed
<1>1. /\ pc[i] = "return" /\ pc' \in [Threads -> Steps] /\ pc'[i] = "loop"
      /\ \A u \in Threads : u # i => pc'[u] = pc[u] /\ local'[u] = local[u]
      /\ local'[i].el = NULL
  BY <1>0 DEF Typed, StateOK, Add, At, Goto, Steps, WorkerSteps, RemoveSteps, Fresh
<1>2. UNCHANGED <<node, next, used, freed, head, tail, entry, args, fault, num, slot>>
  BY DEF Add, memory, queue
<1>3. local' \in [Threads -> Locals] /\ count' \in [Workers -> Int]
  <2>1. Fresh \in Locals
    BY Numbers DEF Fresh, Locals
  <2>2. local[i].found \in Int /\ count[i] \in Int
    BY <1>0 DEF Typed, StateOK, Locals
  <2>3. local' \in [Threads -> Locals]
    BY <2>1 DEF Add, Typed, StateOK
  <2>4. count' = [count EXCEPT ![i] = count[i] + local[i].found]
    BY DEF Add
  <2>5. count[i] + local[i].found \in Int
    BY <2>2
  <2>6. QED
    BY <2>3, <2>4, <2>5 DEF Typed, StateOK
<1>4. StateOK'
  BY <1>1, <1>2, <1>3 DEF Typed, StateOK
<1>5. pc'[i] \notin Busy /\ pc'[i] \notin Reading /\ pc'[i] \notin Linking
  BY <1>1 DEF Busy, HandleSteps, InsertSteps, Reading, Linking
<1>6. InHand'
  BY <1>1, <1>2, <1>5 DEF Typed, InHand
<1>7. Roles'
  BY <1>1, <1>2, WorkerRoles DEF WorkerSteps
<1>8. End(S, i)'
  <2>1. head[i] # NULL => tail[i] \in S[i] /\ next[tail[i]] = NULL
    BY <1>0, <1>1 DEF Parted, End
  <2>2. QED
    BY ONLY <1>1, <1>2, <2>1 DEF End
<1>9. \A e \in Elements : Loose(e)' => Loose(e) /\ local'[i].el # e
  <2>1. \A e \in Elements : Loose(e)' => Loose(e)
    BY <1>1, <1>2, <1>5 DEF Loose
  <2>2. QED
    BY <1>1, <2>1, Numbers
<1>10. pc'[i] \notin Busy \cup {"open", "exit"}
  BY <1>1, <1>5
<1>11. Parted(S)'
  BY <1>0, <1>1, <1>2, <1>5, <1>8, <1>9, <1>10, QuietParted
<1>12. QED
  BY <1>4, <1>6, <1>7, <1>11 DEF Typed

LEMMA TakeKept ==
  ASSUME Typed, NEW S \in [Queues -> SUBSET Elements], Parted(S), NEW i \in Workers,
         Take(i), UNCHANGED mainVars
  PROVE  Typed' /\ Parted(S)'
<1>0. i \in Threads /\ i \in Queues /\ QueueOf(i) = i
  BY OwnQueue, Numbers DEF Typed
<1>1. /\ pc[i] = "take" /\ pc' \in [Threads -> Steps] /\ pc'[i] = "follow"
      /\ \A u \in Threads : u # i => pc'[u] = pc[u]
  BY <1>0 DEF Typed, StateOK, Take, At, Goto, Steps, WorkerSteps, RemoveSteps
<1>2. UNCHANGED <<node, next, used, freed, head, tail, entry, args, fault, num, count, slot>>
  BY DEF Take, memory, queue, mainVars
<1>h. head[i] \in S[i] /\ head[i] \in Elements /\ head[i] # NULL
  <2>1. head[i] # NULL
    BY <1>0, <1>1 DEF Parted, End
  <2>2. QED
    BY <1>0, <2>1 DEF Parted, Line
<1>3. /\ local' \in [Threads -> Locals] /\ local'[i].el = head[i]
      /\ \A u \in Threads : u # i => local'[u] = local[u]
  BY <1>0, <1>h, Numbers DEF Take, Typed, StateOK, Locals
<1>4. StateOK'
  BY <1>1, <1>2, <1>3 DEF Typed, StateOK
<1>5. pc'[i] \notin Busy /\ pc'[i] \notin Reading /\ pc'[i] \notin Linking
  BY <1>1 DEF Busy, HandleSteps, InsertSteps, Reading, Linking
<1>6. InHand'
  BY <1>1, <1>2, <1>3, <1>5 DEF Typed, InHand
<1>7. Roles'
  BY <1>1, <1>2, WorkerRoles DEF WorkerSteps, RemoveSteps
<1>8. End(S, i)'
  <2>1. tail[i] \in S[i] /\ next[tail[i]] = NULL
    BY <1>0, <1>1, <1>h DEF Parted, End
  <2>2. QED
    BY ONLY <1>1, <1>2, <1>3, <1>h, <2>1 DEF End
<1>9. \A e \in Elements : Loose(e)' => Loose(e) /\ local'[i].el # e
  <2>1. \A e \in Elements : Loose(e)' => Loose(e)
    BY <1>1, <1>2, <1>3, <1>5 DEF Loose
  <2>2. \A e \in Elements : Loose(e) => e # head[i]
    BY <1>0, <1>h DEF Parted, LooseEnds
  <2>3. QED
    BY <1>3, <2>1, <2>2
<1>10. pc'[i] \notin Busy \cup {"open", "exit"}
  BY <1>1, <1>5
<1>11. Parted(S)'
  BY <1>0, <1>1, <1>2, <1>3, <1>5, <1>8, <1>9, <1>10, QuietParted
<1>12. QED
  BY <1>4, <1>6, <1>7, <1>11 DEF Typed

LEMMA FollowKept ==
  ASSUME Typed, NEW S \in [Queues -> SUBSET Elements], Parted(S), NEW i \in Workers,
         Follow(i), UNCHANGED mainVars
  PROVE  Typed' /\ Parted(S)'
<1>0. i \in Threads /\ i \in Queues /\ QueueOf(i) = i
  BY OwnQueue, Numbers DEF Typed
<1>1. /\ pc[i] = "follow" /\ pc' \in [Threads -> Steps] /\ pc'[i] = "advance"
      /\ \A u \in Threads : u # i => pc'[u] = pc[u]
  BY <1>0 DEF Typed, StateOK, Follow, At, Goto, Steps, WorkerSteps, RemoveSteps
<1>2. UNCHANGED <<node, next, used, freed, head, tail, entry, args, fault, num, count, slot>>
  BY DEF Follow, memory, queue, mainVars
<1>h. head[i] \in S[i] /\ head[i] \in Elements /\ head[i] # NULL /\ local[i].el = head[i]
  <2>1. head[i] # NULL /\ local[i].el = head[i]
    BY <1>0, <1>1 DEF Parted, End
  <2>2. QED
    BY <1>0, <2>1 DEF Parted, Line
<1>3. /\ local' \in [Threads -> Locals] /\ local'[i].el = local[i].el
      /\ local'[i].reg = next[head[i]]
      /\ \A u \in Threads : u # i => local'[u] = local[u]
  <2>1. next[head[i]] \in Pointers
    BY <1>h DEF Typed, StateOK
  <2>2. local' = [local EXCEPT ![i].reg = next[head[i]]]
    BY <1>0 DEF Follow
  <2>3. QED
    BY <1>0, <2>1, <2>2 DEF Typed, StateOK, Locals
<1>4. StateOK'
  BY <1>1, <1>2, <1>3 DEF Typed, StateOK
<1>5. pc'[i] \notin Busy /\ pc'[i] \notin Reading /\ pc'[i] \notin Linking
  BY <1>1 DEF Busy, HandleSteps, InsertSteps, Reading, Linking
<1>6. InHand'
  BY <1>1, <1>2, <1>3, <1>5 DEF Typed, InHand
<1>7. Roles'
  BY <1>1, <1>2, WorkerRoles DEF WorkerSteps, RemoveSteps
<1>8. End(S, i)'
  <2>1. tail[i] \in S[i] /\ next[tail[i]] = NULL
    BY <1>0, <1>1, <1>h DEF Parted, End
  <2>2. QED
    BY ONLY <1>1, <1>2, <1>3, <1>h, <2>1 DEF End
<1>9. \A e \in Elements : Loose(e)' => Loose(e) /\ local'[i].el # e
  <2>1. \A e \in Elements : Loose(e)' => Loose(e)
    BY <1>1, <1>2, <1>3, <1>5 DEF Loose
  <2>2. QED
    BY <1>0, <1>3, <2>1 DEF Parted, LooseEnds
<1>10. pc'[i] \notin Busy \cup {"open", "exit"}
  BY <1>1, <1>5
<1>11. Parted(S)'
  BY <1>0, <1>1, <1>2, <1>3, <1>5, <1>8, <1>9, <1>10, QuietParted
<1>12. QED
  BY <1>4, <1>6, <1>7, <1>11 DEF Typed

\* The head of a thread's queue becomes the element in its hand.
LEMMA AdvanceKept ==
  ASSUME Typed, NEW S \in [Queues -> SUBSET Elements], Parted(S), NEW i \in Workers,
         Advance(i, "stat"), UNCHANGED mainVars
  PROVE  Typed' /\ \E T \in [Queues -> SUBSET Elements] : Parted(T)'
<1>0. i \in Threads /\ i \in Queues /\ QueueOf(i) = i
  BY OwnQueue, Numbers DEF Typed
<1>1. /\ pc[i] = "advance" /\ pc' \in [Threads -> Steps] /\ pc'[i] = "stat"
      /\ \A u \in Threads : u # i => pc'[u] = pc[u]
  BY <1>0 DEF Typed, StateOK, Advance, At, Goto, Steps, WorkerSteps, Busy, HandleSteps
<1>2. UNCHANGED <<node, next, used, freed, tail, entry, args, fault, num, count, slot>>
  BY DEF Advance, memory, mainVars
<1>h. /\ head[i] \in S[i] /\ head[i] \in Elements /\ head[i] # NULL
      /\ local[i].el = head[i] /\ local[i].reg = next[head[i]]
  <2>1. head[i] # NULL /\ local[i].el = head[i] /\ local[i].reg = next[head[i]]
    BY <1>0, <1>1 DEF Parted, End
  <2>2. QED
    BY <1>0, <2>1 DEF Parted, Line
<1>3. /\ local' \in [Threads -> Locals] /\ local'[i].el = head[i]
      /\ \A u \in Threads : u # i => local'[u] = local[u]
  BY <1>0, <1>h, Numbers DEF Advance, Typed, StateOK, Locals
<1>4. /\ head' \in [Queues -> Pointers] /\ head'[i] = next[head[i]]
      /\ \A q \in Queues : q # i => head'[q] = head[q]
  <2>1. next[head[i]] \in Pointers
    BY <1>h DEF Typed, StateOK
  <2>2. head' = [head EXCEPT ![i] = next[head[i]]]
    BY <1>0, <1>h DEF Advance
  <2>3. QED
    BY <1>0, <2>1, <2>2 DEF Typed, StateOK
<1>5. StateOK'
  BY <1>1, <1>2, <1>3, <1>4 DEF Typed, StateOK
<1>6. InHand'
  <2>1. pc'[i] \notin Reading /\ pc'[i] \notin Linking
    BY <1>1 DEF Reading, Linking, InsertSteps
  <2>2. QED
    BY <1>1, <1>2, <1>3, <1>h, <2>1 DEF Typed, InHand
<1>7. Roles'
  BY <1>1, <1>2, WorkerRoles DEF WorkerSteps, Busy, HandleSteps
<1>8. PICK T \in [Queues -> SUBSET Elements] : T = [S EXCEPT ![i] = S[i] \ {head[i]}]
  BY <1>0
<1>9. T[i] = S[i] \ {head[i]} /\ \A q \in Queues : q # i => T[q] = S[q]
  BY <1>0, <1>8
<1>a. \A q \in Queues : T[q] \subseteq S[q]
  BY <1>9
<1>b. \A q \in Queues : Line(T, q)'
  <2>1. Line(T, i)'
    <3>1. Line(S, i)
      BY <1>0 DEF Parted
    <3>2. \A e \in T[i] : next'[e] = next[e]
      BY <1>2
    <3>3. QED
      BY <1>0, <1>h, <1>4, <1>9, <3>1, <3>2, Removed
  <2>2. ASSUME NEW q \in Queues, q # i PROVE Line(T, q)'
    <3>1. Line(S, q) /\ T[q] = S[q] /\ head'[q] = head[q] /\ next' = next
      BY <1>2, <1>4, <1>9, <2>2 DEF Parted
    <3>2. QED
      BY ONLY <3>1 DEF Line
  <2>3. QED
    BY <2>1, <2>2
<1>c. \A q \in Queues : End(T, q)'
  <2>1. End(T, i)'
    <3>1. tail[i] \in S[i] /\ next[tail[i]] = NULL
      BY <1>0, <1>1, <1>h DEF Parted, End
    <3>2. QED
      BY ONLY <1>1, <1>2, <1>4, <1>9, <3>1 DEF End
  <2>2. ASSUME NEW q \in Queues, q # i PROVE End(T, q)'
    <3>1. /\ End(S, q) /\ T[q] = S[q] /\ head'[q] = head[q] /\ next' = next /\ tail' = tail
          /\ pc'[q] = pc[q] /\ local'[q] = local[q]
      BY <1>1, <1>2, <1>3, <1>4, <1>9, <2>2, Numbers DEF Parted
    <3>2. QED
      BY ONLY <3>1 DEF End
  <2>3. QED
    BY <2>1, <2>2
<1>d. Apart(T)'
  <2>1. \A p, q \in Queues : p # q => T[p] \cap T[q] = {}
    BY <1>a DEF Parted, Apart
  <2>2. \A q \in Queues : T[q] \cap freed' = {}
    BY <1>2, <1>a DEF Parted, Apart
  <2>3. ASSUME NEW q \in Queues, NEW u \in Threads, pc'[u] \in Busy \cup {"open", "exit"}
        PROVE  local'[u].el \notin T[q]
    <3>1. CASE u = i
      <4>1. q # i => head[i] \notin S[q]
        BY <1>0, <1>h DEF Parted, Apart
      <4>2. QED
        BY <1>3, <1>9, <3>1, <4>1
    <3>2. CASE u # i
      BY <1>1, <1>3, <1>a, <2>3, <3>2 DEF Parted, Apart
    <3>3. QED
      BY <3>1, <3>2
  <2>4. QED
    BY <2>1, <2>2, <2>3 DEF Apart
<1>e. LooseEnds(T)'
  <2>1. \A e \in Elements : Loose(e)' => Loose(e)
    BY <1>1, <1>2, <1>3 DEF Loose, Linking
  <2>2. ASSUME NEW e \in Elements, Loose(e)'
        PROVE  /\ next'[e] = NULL /\ e \notin freed'
               /\ \A q \in Queues : e \notin T[q]
               /\ \A u \in Threads : local'[u].el # e
    <3>1. /\ next[e] = NULL /\ e \notin freed /\ \A q \in Queues : e \notin S[q]
          /\ \A u \in Threads : local[u].el # e
      BY <2>1, <2>2 DEF Parted, LooseEnds
    <3>2. e # head[i]
      BY <1>0, <1>h, <3>1
    <3>3. QED
      BY <1>2, <1>3, <1>a, <3>1, <3>2
  <2>3. ASSUME NEW u \in Threads, NEW v \in Threads, u # v,
               pc'[u] \in Linking, pc'[v] \in Linking
        PROVE  local'[u].new # local'[v].new
    <3>1. u # i /\ v # i
      BY <1>1, <2>3 DEF Linking
    <3>2. QED
      BY <1>1, <1>3, <2>3, <3>1 DEF Parted, LooseEnds
  <2>4. QED
    BY <2>2, <2>3 DEF LooseEnds
<1>f. ~fault'
  BY <1>2 DEF Parted
<1>g. QED
  BY <1>5, <1>6, <1>7, <1>b, <1>c, <1>d, <1>e, <1>f DEF Typed, Parted

-----------------------------------------------------------------------------
(* main lists and deals before any thread runs, creates and joins after.   *)

LEMMA OpenKept ==
  ASSUME Typed, NEW S \in [Queues -> SUBSET Elements], Parted(S), Open
  PROVE  Typed' /\ Parted(S)'
<1>0. Main \in Threads /\ Main \in Queues /\ Main \notin Workers
  BY Numbers
<1>1. /\ pc[Main] = "open" /\ pc' \in [Threads -> Steps] /\ pc'[Main] \in {"read", "exit"}
      /\ \A u \in Threads : u # Main => pc'[u] = pc[u]
  BY <1>0 DEF Typed, StateOK, Open, At, Goto, Steps, MainSteps, Busy, HandleSteps
<1>2. UNCHANGED <<node, next, used, freed, head, tail, entry, args, fault, num, count, slot>>
  BY DEF Open, memory, queue, mainVars
<1>3. local[Main].el = 1 /\ node[1] = Root /\ slot \in Workers
      /\ \A i \in Workers : pc[i] = "off"
  BY <1>1 DEF Typed, Roles
<1>4. /\ local' \in [Threads -> Locals] /\ local'[Main].el = 1
      /\ \A u \in Threads : u # Main => local'[u] = local[u]
      /\ pc'[Main] = "read" => Root \in Dirs
  <2>1. CASE local' = local
    BY <1>3, <2>1, MiniGrepAssumption DEF Typed, StateOK
  <2>2. CASE Listed(Root) /\ local' = [local EXCEPT ![Main].unread = Listing[Root]]
    <3>1. Listing[Root] \in Seq(Names)
      BY MiniGrepAssumption
    <3>2. QED
      BY <1>0, <1>3, <2>2, <3>1, MiniGrepAssumption DEF Typed, StateOK, Locals
  <2>3. QED
    BY <2>1, <2>2 DEF Open
<1>5. StateOK'
  BY <1>1, <1>2, <1>4 DEF Typed, StateOK
<1>6. InHand'
  <2>1. pc'[Main] \notin Linking /\ (pc'[Main] \in Reading \/ pc'[Main] \in Busy => pc'[Main] = "read")
    BY <1>1 DEF Reading, Linking, Busy, HandleSteps, InsertSteps
  <2>2. QED
    BY <1>1, <1>2, <1>3, <1>4, <2>1, Numbers DEF Typed, InHand
<1>7. Roles'
  <2>1. \A i \in Workers : pc'[i] = "off" /\ args'[i].queue = i
    BY <1>0, <1>1, <1>2, <1>3, Numbers DEF Typed, Roles
  <2>2. pc'[Main] \in MainSteps /\ pc'[Main] # "open"
    BY <1>1 DEF MainSteps, Busy, HandleSteps
  <2>3. "off" \in WorkerSteps
    BY DEF WorkerSteps
  <2>4. QED
    BY <1>2, <1>3, <2>1, <2>2, <2>3 DEF Roles
<1>8. End(S, Main)'
  <2>1. head[Main] # NULL => tail[Main] \in S[Main] /\ next[tail[Main]] = NULL
    BY <1>0, <1>1 DEF Parted, End
  <2>2. QED
    BY ONLY <1>1, <1>2, <2>1 DEF End
<1>9. pc'[Main] \notin Linking
  BY <1>1 DEF Linking
<1>10. \A e \in Elements : Loose(e)' => Loose(e) /\ local'[Main].el # e
  <2>1. \A e \in Elements : Loose(e)' => Loose(e)
    BY <1>1, <1>2, <1>4, <1>9 DEF Loose
  <2>2. QED
    BY <1>0, <1>3, <1>4, <2>1 DEF Parted, LooseEnds
<1>11. \A q \in Queues : local'[Main].el \notin S[q]
  BY <1>0, <1>1, <1>3, <1>4 DEF Parted, Apart
<1>12. Parted(S)'
  BY <1>0, <1>1, <1>2, <1>4, <1>8, <1>9, <1>10, <1>11, QuietParted
<1>13. QED
  BY <1>5, <1>6, <1>7, <1>12 DEF Typed

LEMMA OpenedKept ==
  ASSUME Typed, NEW S \in [Queues -> SUBSET Elements], Parted(S), Opened
  PROVE  Typed' /\ Parted(S)'
<1>0. Main \in Threads /\ Main \in Queues /\ Main \notin Workers
  BY Numbers
<1>1. /\ pc[Main] = "return" /\ pc' \in [Threads -> Steps] /\ pc'[Main] = "deal"
      /\ \A u \in Threads : u # Main => pc'[u] = pc[u]
  BY <1>0 DEF Typed, StateOK, Opened, At, Goto, Steps, MainSteps
<1>2. UNCHANGED <<node, next, used, freed, head, tail, entry, args, fault, num, count, slot>>
  BY DEF Opened, memory, queue, mainVars
<1>3. slot \in Workers /\ \A i \in Workers : pc[i] = "off"
  BY <1>1 DEF Typed, Roles, Busy, HandleSteps
<1>4. /\ local' \in [Threads -> Locals] /\ local'[Main].el = NULL
      /\ \A u \in Threads : u # Main => local'[u] = local[u]
  <2>1. Fresh \in Locals /\ Fresh.el = NULL
    BY Numbers DEF Fresh, Locals
  <2>2. QED
    BY <1>0, <2>1 DEF Opened, Typed, StateOK
<1>5. StateOK'
  BY <1>1, <1>2, <1>4 DEF Typed, StateOK
<1>9. pc'[Main] \notin Linking /\ pc'[Main] \notin Reading /\ pc'[Main] \notin Busy
  BY <1>1 DEF Reading, Linking, Busy, HandleSteps, InsertSteps
<1>6. InHand'
  BY <1>1, <1>2, <1>4, <1>9 DEF Typed, InHand
<1>7. Roles'
  <2>1. \A i \in Workers : pc'[i] = "off" /\ args'[i].queue = i
    BY <1>0, <1>1, <1>2, <1>3, Numbers DEF Typed, Roles
  <2>2. pc'[Main] \in MainSteps /\ "off" \in WorkerSteps
    BY <1>1 DEF MainSteps, WorkerSteps
  <2>4. QED
    BY <1>1, <1>2, <1>3, <2>1, <2>2 DEF Roles
<1>8. End(S, Main)'
  <2>1. head[Main] # NULL => tail[Main] \in S[Main] /\ next[tail[Main]] = NULL
    BY <1>0, <1>1 DEF Parted, End
  <2>2. QED
    BY ONLY <1>1, <1>2, <2>1 DEF End
<1>10. \A e \in Elements : Loose(e)' => Loose(e) /\ local'[Main].el # e
  <2>1. \A e \in Elements : Loose(e)' => Loose(e)
    BY <1>1, <1>2, <1>4, <1>9 DEF Loose
  <2>2. QED
    BY <1>4, <2>1, Numbers
<1>11. pc'[Main] \notin Busy \cup {"open", "exit"}
  BY <1>1, <1>9
<1>12. Parted(S)'
  BY <1>0, <1>1, <1>2, <1>4, <1>8, <1>9, <1>10, <1>11, QuietParted
<1>13. QED
  BY <1>5, <1>6, <1>7, <1>12 DEF Typed

LEMMA DealtKept ==
  ASSUME Typed, NEW S \in [Queues -> SUBSET Elements], Parted(S), Dealt
  PROVE  Typed' /\ Parted(S)'
<1>0. Main \in Threads /\ Main \in Queues /\ Main \notin Workers
  BY Numbers
<1>1. /\ pc[Main] = "deal" /\ pc' \in [Threads -> Steps] /\ pc'[Main] = "create"
      /\ \A u \in Threads : u # Main => pc'[u] = pc[u]
  BY <1>0 DEF Typed, StateOK, Dealt, At, Goto, Steps, MainSteps
<1>2. /\ UNCHANGED <<node, next, used, freed, head, tail, entry, local, args, fault, num, count>>
      /\ slot' = 1 /\ slot' \in 1..(NumThreads + 1)
  BY Numbers DEF Dealt, memory, queue
<1>3. \A i \in Workers : pc[i] = "off"
  BY <1>1 DEF Typed, Roles
<1>5. StateOK'
  BY <1>1, <1>2 DEF Typed, StateOK
<1>9. pc'[Main] \notin Linking /\ pc'[Main] \notin Reading /\ pc'[Main] \notin Busy
  BY <1>1 DEF Reading, Linking, Busy, HandleSteps, InsertSteps
<1>6. InHand'
  BY <1>1, <1>2, <1>9 DEF Typed, InHand
<1>7. Roles'
  <2>1. \A i \in Workers : pc'[i] = "off" /\ args'[i].queue = i
    BY <1>0, <1>1, <1>2, <1>3, Numbers DEF Typed, Roles
  <2>2. pc'[Main] \in MainSteps /\ "off" \in WorkerSteps
    BY <1>1 DEF MainSteps, WorkerSteps
  <2>4. QED
    BY <1>1, <1>9, <2>1, <2>2 DEF Roles
<1>8. End(S, Main)'
  <2>1. head[Main] # NULL => tail[Main] \in S[Main] /\ next[tail[Main]] = NULL
    BY <1>0, <1>1 DEF Parted, End
  <2>2. QED
    BY ONLY <1>1, <1>2, <2>1 DEF End
<1>10. \A e \in Elements : Loose(e)' => Loose(e) /\ local'[Main].el # e
  <2>1. \A e \in Elements : Loose(e)' => Loose(e)
    BY <1>1, <1>2, <1>9 DEF Loose
  <2>2. QED
    BY <1>0, <1>2, <2>1 DEF Parted, LooseEnds
<1>11. pc'[Main] \notin Busy \cup {"open", "exit"}
  BY <1>1, <1>9
<1>12. Parted(S)'
  BY <1>0, <1>1, <1>2, <1>8, <1>9, <1>10, <1>11, QuietParted
<1>13. QED
  BY <1>5, <1>6, <1>7, <1>12 DEF Typed

LEMMA ArgsSet ==
  ASSUME NEW a \in Args, NEW q \in Queues
  PROVE  /\ [a EXCEPT !.queue = q, !.result = 0] \in Args
         /\ [a EXCEPT !.queue = q, !.result = 0].queue = q
<1>1. PICK b \in Args : b = [a EXCEPT !.queue = q]
  BY DEF Args
<1>2. b.queue = q
  BY <1>1 DEF Args
<1>3. [b EXCEPT !.result = 0] \in Args
  BY DEF Args
<1>4. [b EXCEPT !.result = 0].queue = b.queue
  BY DEF Args
<1>5. [a EXCEPT !.queue = q, !.result = 0] = [b EXCEPT !.result = 0]
  BY <1>1
<1>6. QED
  BY <1>2, <1>3, <1>4, <1>5

LEMMA CreateKept ==
  ASSUME Typed, NEW S \in [Queues -> SUBSET Elements], Parted(S), Create
  PROVE  Typed' /\ Parted(S)'
<1>0. Main \in Threads /\ Main \in Queues /\ Main \notin Workers
  BY Numbers
<1>1. /\ pc[Main] = "create" /\ ~fault
      /\ UNCHANGED <<node, next, used, freed, head, tail, entry, local, fault, num, count>>
  BY DEF Create, At, memory, queue
<1>2. ASSUME slot \in Workers, args' = [args EXCEPT ![slot].queue = slot, ![slot].result = 0],
             Goto(slot, "loop"), slot' = slot + 1
      PROVE  Typed' /\ Parted(S)'
  <2>0. slot \in Threads /\ slot \in Queues /\ slot # Main
    BY <1>0, <1>2, Numbers
  <2>1. /\ pc' \in [Threads -> Steps] /\ pc'[slot] = "loop" /\ pc[slot] = "off"
        /\ \A u \in Threads : u # slot => pc'[u] = pc[u]
    <3>1. "loop" \in Steps
      BY DEF Steps, WorkerSteps
    <3>2. slot >= slot
      BY <1>2 DEF Workers
    <3>3. pc[slot] = "off"
      BY <1>1, <1>2, <3>2 DEF Typed, Roles
    <3>4. QED
      BY <1>2, <2>0, <3>1, <3>3 DEF Typed, StateOK, Goto
  <2>2. args' \in [Workers -> Args] /\ \A j \in Workers : args'[j].queue = j
    <3>1. \A j \in Workers : args[j] \in Args /\ args[j].queue = j
      BY DEF Typed, StateOK, Roles
    <3>2. [args[slot] EXCEPT !.queue = slot, !.result = 0] \in Args
      BY <1>2, <2>0, <3>1, ArgsSet
    <3>3. /\ args'[slot] = [args[slot] EXCEPT !.queue = slot, !.result = 0]
          /\ \A j \in Workers : j # slot => args'[j] = args[j]
          /\ args' = [j \in Workers |-> args'[j]]
      BY <1>2 DEF Typed, StateOK
    <3>4. args'[slot].queue = slot
      <4>1. args[slot] \in Args /\ slot \in Queues
        BY <1>2, <2>0, <3>1
      <4>2. [args[slot] EXCEPT !.queue = slot, !.result = 0].queue = slot
        BY ONLY <4>1, ArgsSet
      <4>3. QED
        BY <3>3, <4>2
    <3>5. QED
      BY <3>1, <3>2, <3>3, <3>4
  <2>3. slot' \in 1..(NumThreads + 1)
    BY <1>2, Numbers DEF Workers
  <2>4. StateOK'
    BY <1>1, <2>1, <2>2, <2>3 DEF Typed, StateOK
  <2>5. pc'[slot] \notin Linking /\ pc'[slot] \notin Reading /\ pc'[slot] \notin Busy
    BY <2>1 DEF Reading, Linking, Busy, HandleSteps, InsertSteps
  <2>6. InHand'
    BY <1>1, <2>1, <2>5 DEF Typed, InHand
  <2>7. Roles'
    <3>1. pc'[Main] = "create"
      BY <1>0, <1>1, <2>0, <2>1
    <3>2. pc'[Main] \in MainSteps /\ pc'[Main] \notin {"open", "deal"} \cup Busy
      BY <3>1 DEF MainSteps, Busy, HandleSteps, InsertSteps
    <3>3. \A i \in Workers : pc'[i] \in WorkerSteps
      BY <2>1, Numbers DEF Typed, Roles, WorkerSteps
    <3>4. ASSUME NEW i \in Workers, i >= slot' PROVE pc'[i] = "off"
      <4>1. i >= slot /\ i # slot
        BY <1>2, <3>4 DEF Workers
      <4>2. QED
        BY <1>1, <2>1, <4>1, Numbers DEF Typed, Roles
    <3>5. QED
      BY <2>2, <3>1, <3>2, <3>3, <3>4 DEF Roles
  <2>9. \A e \in Elements : Loose(e)' => Loose(e)
    BY <1>1, <2>1, <2>5 DEF Loose
  <2>10. \A q \in Queues : Line(S, q)'
    BY <1>1 DEF Parted, Line
  <2>11. \A q \in Queues : End(S, q)'
    <3>1. PICK s \in Queues : s = slot
      BY <2>0
    <3>2. ASSUME NEW q \in Queues PROVE End(S, q)'
      <4>1. CASE q = s
        <5>1. pc'[q] = "loop" /\ (head[q] # NULL => tail[q] \in S[q] /\ next[tail[q]] = NULL)
          BY <2>0, <2>1, <3>1, <4>1 DEF Parted, End
        <5>2. QED
          BY ONLY <1>1, <5>1 DEF End
      <4>2. CASE q # s
        <5>1. End(S, q) /\ pc'[q] = pc[q]
          BY <2>1, <3>1, <4>2, Numbers DEF Parted
        <5>2. QED
          BY ONLY <1>1, <5>1 DEF End
      <4>3. QED
        BY <4>1, <4>2
    <3>3. QED
      BY <3>2
  <2>12. Apart(S)'
    <3>1. \A u \in Threads : pc'[u] \in Busy \cup {"open", "exit"} => pc'[u] = pc[u]
      BY <2>1, <2>5
    <3>2. QED
      BY <1>1, <3>1 DEF Parted, Apart
  <2>13. LooseEnds(S)'
    <3>1. \A u \in Threads : pc'[u] \in Linking => pc[u] \in Linking
      BY <2>1, <2>5
    <3>2. QED
      BY <1>1, <2>9, <3>1 DEF Parted, LooseEnds
  <2>14. QED
    BY <1>1, <2>4, <2>6, <2>7, <2>10, <2>11, <2>12, <2>13 DEF Typed, Parted
<1>3. ASSUME slot \notin Workers, Goto(Main, "join"), slot' = 1, args' = args
      PROVE  Typed' /\ Parted(S)'
  <2>1. /\ pc' \in [Threads -> Steps] /\ pc'[Main] = "join"
        /\ \A u \in Threads : u # Main => pc'[u] = pc[u]
    BY <1>0, <1>3 DEF Typed, StateOK, Goto, Steps, MainSteps
  <2>2. StateOK'
    BY <1>1, <1>3, <2>1, Numbers DEF Typed, StateOK
  <2>3. pc'[Main] \notin Linking /\ pc'[Main] \notin Reading /\ pc'[Main] \notin Busy
    BY <2>1 DEF Reading, Linking, Busy, HandleSteps, InsertSteps
  <2>4. InHand'
    BY <1>1, <2>1, <2>3 DEF Typed, InHand
  <2>5. Roles'
    <3>1. pc'[Main] \in MainSteps
      BY <2>1 DEF MainSteps
    <3>2. \A i \in Workers : pc'[i] \in WorkerSteps
      BY <1>0, <2>1, Numbers DEF Typed, Roles
    <3>3. QED
      BY <1>3, <2>1, <2>3, <3>1, <3>2 DEF Typed, Roles
  <2>6. End(S, Main)'
    <3>1. head[Main] # NULL => tail[Main] \in S[Main] /\ next[tail[Main]] = NULL
      BY <1>0, <1>1 DEF Parted, End
    <3>2. QED
      BY ONLY <1>1, <2>1, <3>1 DEF End
  <2>7. \A e \in Elements : Loose(e)' => Loose(e) /\ local'[Main].el # e
    <3>1. \A e \in Elements : Loose(e)' => Loose(e)
      BY <1>1, <2>1, <2>3 DEF Loose
    <3>2. QED
      BY <1>0, <1>1, <3>1 DEF Parted, LooseEnds
  <2>8. pc'[Main] \notin Busy \cup {"open", "exit"}
    BY <2>1, <2>3
  <2>9. Parted(S)'
    BY <1>0, <1>1, <2>1, <2>3, <2>6, <2>7, <2>8, QuietParted
  <2>10. QED
    BY <2>2, <2>4, <2>5, <2>9 DEF Typed
<1>4. QED
  BY <1>2, <1>3 DEF Create

LEMMA JoinKept ==
  ASSUME Typed, NEW S \in [Queues -> SUBSET Elements], Parted(S), Join
  PROVE  Typed' /\ Parted(S)'
<1>0. Main \in Threads /\ Main \in Queues /\ Main \notin Workers
  BY Numbers
<1>1. /\ pc[Main] = "join" /\ pc' \in [Threads -> Steps] /\ pc'[Main] \in {"join", "done"}
      /\ \A u \in Threads : u # Main => pc'[u] = pc[u]
  BY <1>0 DEF Typed, StateOK, Join, At, Goto, Steps, MainSteps
<1>2. UNCHANGED <<node, next, used, freed, head, tail, entry, local, args, fault, count>>
  BY DEF Join, memory, queue
<1>3. num' \in Int /\ slot' \in 1..(NumThreads + 1)
  <2>1. CASE slot \in Workers /\ num' = num + args[slot].result /\ slot' = slot + 1
    <3>1. num \in Int /\ args[slot].result \in Int
      BY <2>1 DEF Typed, StateOK, Args
    <3>2. QED
      BY <2>1, <3>1, Numbers DEF Workers
  <2>2. CASE num' = num /\ slot' = slot
    BY <2>2 DEF Typed, StateOK
  <2>3. QED
    BY <2>1, <2>2 DEF Join
<1>5. StateOK'
  BY <1>1, <1>2, <1>3 DEF Typed, StateOK
<1>9. pc'[Main] \notin Linking /\ pc'[Main] \notin Reading /\ pc'[Main] \notin Busy
  BY <1>1 DEF Reading, Linking, Busy, HandleSteps, InsertSteps
<1>6. InHand'
  BY <1>1, <1>2, <1>9 DEF Typed, InHand
<1>7. Roles'
  <2>1. \A i \in Workers : pc'[i] \in WorkerSteps /\ args'[i].queue = i
    BY <1>0, <1>1, <1>2, Numbers DEF Typed, Roles
  <2>2. pc'[Main] \in MainSteps
    BY <1>1 DEF MainSteps
  <2>4. QED
    BY <1>1, <1>9, <2>1, <2>2 DEF Roles
<1>8. End(S, Main)'
  <2>1. head[Main] # NULL => tail[Main] \in S[Main] /\ next[tail[Main]] = NULL
    BY <1>0, <1>1 DEF Parted, End
  <2>2. QED
    BY ONLY <1>1, <1>2, <2>1 DEF End
<1>10. \A e \in Elements : Loose(e)' => Loose(e) /\ local'[Main].el # e
  <2>1. \A e \in Elements : Loose(e)' => Loose(e)
    BY <1>1, <1>2, <1>9 DEF Loose
  <2>2. QED
    BY <1>0, <1>2, <2>1 DEF Parted, LooseEnds
<1>11. pc'[Main] \notin Busy \cup {"open", "exit"}
  BY <1>1, <1>9
<1>12. Parted(S)'
  BY <1>0, <1>1, <1>2, <1>8, <1>9, <1>10, <1>11, QuietParted
<1>13. QED
  BY <1>5, <1>6, <1>7, <1>12 DEF Typed

\* One element leaves main's chain and is appended to a thread's.
LEMMA DealKept ==
  ASSUME Typed, NEW S \in [Queues -> SUBSET Elements], Parted(S), Deal
  PROVE  Typed' /\ \E T \in [Queues -> SUBSET Elements] : Parted(T)'
<1> DEFINE e == head[Main]
<1>0. PICK w \in Workers : w = slot
  <2>1. pc[Main] = "deal"
    BY DEF Deal, At
  <2>2. QED
    BY <2>1 DEF Typed, Roles
<1>1. /\ pc[Main] = "deal" /\ e # NULL /\ ~fault
      /\ UNCHANGED <<node, used, freed, entry, pc, local, args, fault, num, count>>
      /\ slot' = Following(slot)
      /\ Main \in Queues /\ w \in Queues /\ w \in Threads /\ Main # w /\ pc[w] = "off"
  BY <1>0, Numbers DEF Deal, At, Typed, Roles
<1>2. e \in S[Main] /\ e \in Elements /\ \A q \in Queues : q # Main => e \notin S[q]
  BY <1>1 DEF Parted, Line, Apart
<1>t. head[w] # NULL => tail[w] \in S[w] /\ next[tail[w]] = NULL
  BY <1>1 DEF Parted, End
<1>3. /\ head' \in [Queues -> Pointers]
      /\ head'[Main] = next[e] /\ head'[w] = (IF head[w] = NULL THEN e ELSE head[w])
      /\ \A q \in Queues : q # Main /\ q # w => head'[q] = head[q]
  <2>1. head' = [head EXCEPT ![Main] = next[e], ![w] = IF @ = NULL THEN e ELSE @]
    BY <1>0 DEF Deal
  <2>2. next[e] \in Pointers /\ head[w] \in Pointers /\ e \in Pointers
    BY <1>1, <1>2, Numbers DEF Typed, StateOK
  <2>3. QED
    BY <1>1, <2>1, <2>2 DEF Typed, StateOK
<1>4. /\ next' \in [Elements -> Pointers] /\ next'[e] = NULL
      /\ head[w] # NULL => next'[tail[w]] = e
      /\ \A x \in Elements : x # e /\ ~(head[w] # NULL /\ x = tail[w]) => next'[x] = next[x]
  <2>1. next' = [x \in Elements |-> IF x = e THEN NULL
                                    ELSE IF head[w] # NULL /\ x = tail[w] THEN e
                                    ELSE next[x]]
    BY <1>0 DEF Deal
  <2>2. head[w] # NULL => tail[w] \in Elements /\ tail[w] # e
    BY <1>1, <1>2, <1>t
  <2>3. \A x \in Elements : next[x] \in Pointers
    BY DEF Typed, StateOK
  <2>4. QED
    BY <1>2, <2>1, <2>2, <2>3, Numbers
<1>5. /\ tail' \in [Queues -> Pointers] /\ tail'[w] = e
      /\ \A q \in Queues : q # w => tail'[q] = tail[q]
  <2>1. tail' = [tail EXCEPT ![w] = e]
    BY <1>0 DEF Deal
  <2>2. QED
    BY <1>1, <1>2, <2>1, Numbers DEF Typed, StateOK
<1>6. slot' \in Workers /\ slot' \in 1..(NumThreads + 1)
  <2>1. NumThreads \in Nat \ {0} /\ slot \in 1..(NumThreads + 1)
    BY Numbers DEF Typed, StateOK
  <2>2. QED
    BY <1>1, <2>1 DEF Following, Workers
<1>7. Typed'
  <2>1. StateOK'
    BY <1>1, <1>3, <1>4, <1>5, <1>6 DEF Typed, StateOK
  <2>2. InHand'
    BY <1>1 DEF Typed, InHand
  <2>3. Roles'
    BY <1>1, <1>6 DEF Typed, Roles
  <2>4. QED
    BY <2>1, <2>2, <2>3 DEF Typed
<1>8. PICK T \in [Queues -> SUBSET Elements] :
        T = [S EXCEPT ![Main] = S[Main] \ {e},
                      ![w] = IF head[w] = NULL THEN {e} ELSE S[w] \cup {e}]
  BY <1>1, <1>2
<1>9. /\ T[Main] = S[Main] \ {e}
      /\ T[w] = (IF head[w] = NULL THEN {e} ELSE S[w] \cup {e})
      /\ \A q \in Queues : q # Main /\ q # w => T[q] = S[q]
  BY <1>1, <1>8
<1>a. \A q \in Queues : q # w => T[q] \subseteq S[q] /\ e \notin T[q]
  BY <1>2, <1>9
<1>b. \A q \in Queues : q # w => \A x \in T[q] : next'[x] = next[x]
  <2>1. ASSUME NEW q \in Queues, q # w, NEW x \in T[q] PROVE next'[x] = next[x]
    <3>1. x # e /\ x \in S[q] /\ x \in Elements
      BY <1>a, <2>1
    <3>2. head[w] # NULL => x # tail[w]
      BY <1>1, <1>t, <2>1, <3>1 DEF Parted, Apart
    <3>3. QED
      BY <1>4, <3>1, <3>2
  <2>2. QED
    BY <2>1
<1>c. \A q \in Queues : Line(T, q)'
  <2>1. Line(T, Main)'
    <3>1. Line(S, Main)
      BY <1>1 DEF Parted
    <3>2. \A x \in T[Main] : next'[x] = next[x]
      BY <1>1, <1>b
    <3>3. QED
      BY <1>1, <1>3, <1>9, <3>1, <3>2, Removed
  <2>2. Line(T, w)'
    <3>1. CASE head[w] = NULL
      BY <1>1, <1>2, <1>3, <1>4, <1>9, <3>1 DEF Line
    <3>2. CASE head[w] # NULL
      <4>1. /\ Line(S, w) /\ e \notin S[w] /\ head'[w] = head[w] /\ T[w] = S[w] \cup {e}
            /\ tail[w] \in S[w] /\ next[tail[w]] = NULL
            /\ next'[tail[w]] = e /\ next'[e] = NULL
        BY <1>1, <1>2, <1>3, <1>4, <1>9, <1>t, <3>2 DEF Parted
      <4>2. \A x \in S[w] : x # tail[w] => next'[x] = next[x]
        BY <1>1, <1>4, <4>1
      <4>3. QED
        BY <1>1, <3>2, <4>1, <4>2, Appended
    <3>3. QED
      BY <3>1, <3>2
  <2>3. ASSUME NEW q \in Queues, q # Main, q # w PROVE Line(T, q)'
    <3>1. Line(S, q) /\ T[q] = S[q] /\ head'[q] = head[q] /\ \A x \in S[q] : next'[x] = next[x]
      BY <1>3, <1>9, <1>b, <2>3 DEF Parted
    <3>2. QED
      BY ONLY <3>1 DEF Line
  <2>4. QED
    BY <2>1, <2>2, <2>3
<1>d. \A q \in Queues : End(T, q)'
  <2>1. End(T, Main)'
    <3>1. tail[Main] \in S[Main] /\ next[tail[Main]] = NULL /\ tail'[Main] = tail[Main]
      BY <1>1, <1>5 DEF Parted, End
    <3>2. next[e] # NULL => tail[Main] \in T[Main] /\ next'[tail[Main]] = NULL
      BY <1>1, <1>9, <1>b, <3>1
    <3>3. PICK m \in Queues : m = Main
      BY <1>1
    <3>4. /\ pc'[m] = "deal" /\ (head'[m] # NULL => tail'[m] \in T[m] /\ next'[tail'[m]] = NULL)
      BY <1>1, <1>3, <3>1, <3>2, <3>3
    <3>5. End(T, m)'
      BY ONLY <3>4 DEF End
    <3>6. QED
      BY <3>3, <3>5
  <2>2. End(T, w)'
    <3>1. pc'[w] = "off" /\ tail'[w] \in T[w] /\ next'[tail'[w]] = NULL
      BY <1>1, <1>4, <1>5, <1>9
    <3>2. QED
      BY ONLY <3>1 DEF End
  <2>3. ASSUME NEW q \in Queues, q # Main, q # w PROVE End(T, q)'
    <3>1. /\ End(S, q) /\ T[q] = S[q] /\ head'[q] = head[q] /\ tail'[q] = tail[q]
          /\ pc'[q] = pc[q] /\ local' = local
          /\ \A x \in S[q] : next'[x] = next[x]
      BY <1>1, <1>3, <1>5, <1>9, <1>b, <2>3 DEF Parted
    <3>2. head[q] # NULL => head[q] \in S[q]
      BY DEF Parted, Line
    <3>3. local'[q] = local[q]
      BY <3>1
    <3>4. ASSUME pc[q] = "advance" PROVE next'[head[q]] = next[head[q]]
      BY ONLY <3>1, <3>2, <3>4 DEF End
    <3>5. ASSUME pc[q] = "get next" PROVE next'[next'[tail[q]]] = next[next[tail[q]]] /\ next'[tail[q]] = next[tail[q]]
      BY ONLY <3>1, <3>5 DEF End
    <3>6. ASSUME pc[q] = "set tail" PROVE next'[local[q].reg] = NULL
      BY ONLY <3>1, <3>6 DEF End
    <3>7. ASSUME pc[q] \notin {"get next", "set tail"}, head[q] # NULL
          PROVE  tail[q] \in S[q] /\ next'[tail[q]] = NULL
      BY ONLY <3>1, <3>7 DEF End
    <3>8. QED
      BY ONLY <3>1, <3>3, <3>4, <3>5, <3>6, <3>7 DEF End
  <2>4. QED
    BY <2>1, <2>2, <2>3
<1>e. Apart(T)'
  <2>1. \A q \in Queues : T[q] \subseteq S[q] \cup {e}
    BY <1>9
  <2>2. \A p, q \in Queues : p # q => T[p] \cap T[q] = {}
    <3>1. ASSUME NEW p \in Queues, NEW q \in Queues, p # q, NEW x \in T[p], x \in T[q]
          PROVE  FALSE
      <4>1. CASE x = e
        BY <1>a, <3>1, <4>1
      <4>2. CASE x # e
        BY <2>1, <3>1, <4>2 DEF Parted, Apart
      <4>3. QED
        BY <4>1, <4>2
    <3>2. QED
      BY <3>1
  <2>3. e \notin freed /\ \A u \in Threads : pc[u] \in Busy \cup {"open", "exit"} => local[u].el # e
    BY <1>1, <1>2 DEF Parted, Apart
  <2>4. \A q \in Queues : T[q] \cap freed = {}
    BY <2>1, <2>3 DEF Parted, Apart
  <2>5. ASSUME NEW q \in Queues, NEW u \in Threads, pc[u] \in Busy \cup {"open", "exit"}
        PROVE  local[u].el \notin T[q]
    BY <2>1, <2>3, <2>5 DEF Parted, Apart
  <2>6. QED
    BY <1>1, <2>2, <2>4, <2>5 DEF Apart
<1>f. LooseEnds(T)'
  <2>1. \A x \in Elements : Loose(x)' => Loose(x)
    BY <1>1 DEF Loose
  <2>2. ASSUME NEW x \in Elements, Loose(x)'
        PROVE  /\ next'[x] = NULL /\ x \notin freed'
               /\ \A q \in Queues : x \notin T[q]
               /\ \A u \in Threads : local'[u].el # x
    <3>1. /\ next[x] = NULL /\ x \notin freed /\ \A q \in Queues : x \notin S[q]
          /\ \A u \in Threads : local[u].el # x
      BY <2>1, <2>2 DEF Parted, LooseEnds
    <3>2. x # e /\ (head[w] # NULL => x # tail[w])
      BY <1>1, <1>2, <1>t, <3>1
    <3>3. next'[x] = next[x]
      BY <1>4, <3>2
    <3>4. \A q \in Queues : x \notin T[q]
      BY <1>9, <3>1, <3>2
    <3>5. QED
      BY <1>1, <3>1, <3>3, <3>4
  <2>3. \A u, v \in Threads : u # v /\ pc'[u] \in Linking /\ pc'[v] \in Linking
                                => local'[u].new # local'[v].new
    BY <1>1 DEF Parted, LooseEnds
  <2>4. QED
    BY <2>2, <2>3 DEF LooseEnds
<1>g. ~fault'
  BY <1>1
<1>h. QED
  BY <1>7, <1>c, <1>d, <1>e, <1>f, <1>g DEF Parted

-----------------------------------------------------------------------------
(* What a queue reaches is in its set.                                     *)

\* R is the walk that defines Chain, n steps long.
Walked(R, p, n) ==
  R = [k \in 0..n |->
         IF k = 0 THEN {p} \ {NULL}
         ELSE R[k-1] \cup ({next[e] : e \in R[k-1]} \ {NULL})]

\* What holds of some number holds of a least one.
LEMMA LeastOf ==
  ASSUME NEW B \in SUBSET Nat, B # {}
  PROVE  \E m \in B : \A k \in B : ~(k < m)
<1>1. PICK m \in B : \A k \in B : ~(<<k, m>> \in OpToRel(<, Nat))
  BY NatLessThanWellFounded, WFMin
<1>2. \A k \in B : k < m => <<k, m>> \in OpToRel(<, Nat)
  BY DEF OpToRel
<1>3. QED
  BY <1>1, <1>2

\* There is such a walk, so Chain is the last of its sets.
LEMMA WalkedExists ==
  ASSUME NEW p, NEW n \in Nat
  PROVE  \E R : Walked(R, p, n)
<1> DEFINE B == {k \in Nat : ~ \E R : Walked(R, p, k)}
           More(T) == T \cup ({next[e] : e \in T} \ {NULL})
<1>1. SUFFICES ASSUME B # {} PROVE FALSE
  OBVIOUS
<1>2. PICK m \in B : \A k \in B : ~(k < m)
  BY <1>1, LeastOf
<1>3. CASE m = 0
  <2> DEFINE R == [k \in 0..0 |-> {p} \ {NULL}]
  <2>1. R = [k \in 0..0 |-> IF k = 0 THEN {p} \ {NULL} ELSE More(R[k-1])]
    OBVIOUS
  <2>2. Walked(R, p, 0)
    BY <2>1 DEF Walked
  <2>3. QED
    BY <2>2, <1>3
<1>4. CASE m # 0
  <2>1. m - 1 \in Nat /\ m - 1 < m /\ m \in Nat
    BY <1>4
  <2>2. PICK Q : Walked(Q, p, m - 1)
    BY <2>1, <1>2
  <2> DEFINE R == [k \in 0..m |-> IF k = m THEN More(Q[m-1]) ELSE Q[k]]
  <2>q. Q = [k \in 0..m-1 |-> IF k = 0 THEN {p} \ {NULL} ELSE More(Q[k-1])]
    BY <2>2 DEF Walked
  <2>3. ASSUME NEW k \in 0..m
        PROVE  R[k] = IF k = 0 THEN {p} \ {NULL} ELSE More(R[k-1])
    <3> HIDE DEF More
    <3>1. CASE k = m
      <4>1. m - 1 \in 0..m /\ m - 1 # m /\ m \in 0..m
        BY <2>1
      <4>2. R[m-1] = Q[m-1] /\ R[m] = More(Q[m-1])
        BY <4>1
      <4>3. QED
        BY <3>1, <4>2, <1>4
    <3>2. CASE k = 0
      <4>1. 0 \in 0..m-1 /\ 0 # m
        BY <2>1
      <4>2. Q[0] = {p} \ {NULL}
        BY <2>q, <4>1
      <4>3. QED
        BY <3>2, <4>1, <4>2
    <3>3. CASE k # m /\ k # 0
      <4>1. k \in 0..m-1 /\ k-1 \in 0..m /\ k-1 # m
        BY <3>3, <2>1
      <4>2. Q[k] = More(Q[k-1])
        BY <2>q, <4>1, <3>3
      <4>3. R[k] = Q[k] /\ R[k-1] = Q[k-1]
        BY <4>1, <3>3
      <4>4. QED
        BY <4>2, <4>3, <3>3
    <3>4. QED
      BY <3>1, <3>2, <3>3
  <2>4. R = [k \in 0..m |-> IF k = 0 THEN {p} \ {NULL} ELSE More(R[k-1])]
    <3> DEFINE G == [k \in 0..m |-> IF k = 0 THEN {p} \ {NULL} ELSE More(R[k-1])]
    <3>1. \A k \in 0..m : R[k] = G[k]
      BY <2>3
    <3>2. DOMAIN R = 0..m /\ DOMAIN G = 0..m /\ R = [k \in 0..m |-> R[k]]
      OBVIOUS
    <3>3. QED
      BY <3>1, <3>2
  <2>5. Walked(R, p, m)
    BY <2>4 DEF Walked
  <2>6. QED
    BY <2>5
<1>5. QED
  BY <1>3, <1>4

LEMMA ChainWithin ==
  ASSUME NEW S \in SUBSET Elements, NEW p \in S \cup {NULL},
         \A e \in S : next[e] # NULL => next[e] \in S
  PROVE  Chain(p) \subseteq S
<1> DEFINE R == CHOOSE R : Walked(R, p, MaxElements)
<1>2. Chain(p) = R[MaxElements]
  BY DEF Chain, Walked
<1>3. Walked(R, p, MaxElements)
  BY Numbers, WalkedExists
<1>4. R = [k \in 0..MaxElements |->
         IF k = 0 THEN {p} \ {NULL}
         ELSE R[k-1] \cup ({next[e] : e \in R[k-1]} \ {NULL})]
  BY <1>3 DEF Walked
<1> HIDE DEF R
<1> DEFINE B == {k \in 0..MaxElements : ~(R[k] \subseteq S)}
<1>5. ASSUME B # {} PROVE FALSE
  <2>0. B \in SUBSET Nat
    BY Numbers
  <2>1. PICK m \in B : \A k \in B : ~(k < m)
    BY <1>5, <2>0, LeastOf
  <2>2. m # 0
    BY <1>4, <2>1, Numbers
  <2>3. m - 1 \in 0..MaxElements /\ m - 1 < m /\ m \in 0..MaxElements
    BY <2>1, <2>2, Numbers
  <2>4. R[m-1] \subseteq S
    BY <2>1, <2>3
  <2>5. R[m] = R[m-1] \cup ({next[e] : e \in R[m-1]} \ {NULL})
    BY <1>4, <2>2, <2>3
  <2>6. R[m] \subseteq S
    BY <2>4, <2>5
  <2>7. QED
    BY <2>1, <2>6
<1>6. MaxElements \in 0..MaxElements
  BY Numbers
<1>7. QED
  BY <1>2, <1>5, <1>6

-----------------------------------------------------------------------------
(* The theorem                                                             *)

PartedInv == Typed /\ \E S \in [Queues -> SUBSET Elements] : Parted(S)

LEMMA PartedInit == Init => PartedInv
<1> SUFFICES ASSUME Init PROVE PartedInv
  OBVIOUS
<1>1. /\ pc = [t \in Threads |-> IF t = Main THEN "open" ELSE "off"]
      /\ local = [t \in Threads |-> IF t = Main THEN [Fresh EXCEPT !.el = 1] ELSE Fresh]
      /\ args = [i \in Workers |-> [queue |-> i, is_running |-> FALSE, result |-> 0]]
      /\ node = [e \in Elements |-> IF e = 1 THEN Root ELSE Nowhere]
      /\ next = [e \in Elements |-> NULL] /\ used = 1 /\ freed = {}
      /\ head = [q \in Queues |-> NULL] /\ tail = [q \in Queues |-> NULL]
      /\ entry = Dot /\ ~fault /\ num = 0 /\ count = [i \in Workers |-> 0] /\ slot = 1
  BY DEF Init
<1>2. Fresh \in Locals /\ [Fresh EXCEPT !.el = 1] \in Locals
  <2>1. Fresh \in Locals
    BY Numbers DEF Fresh, Locals
  <2>2. QED
    BY <2>1, Numbers DEF Locals
<1>3. {"open", "off"} \subseteq Steps /\ "open" \in MainSteps /\ "off" \in WorkerSteps
  BY DEF Steps, MainSteps, WorkerSteps
<1>4. StateOK
  <2>1. pc \in [Threads -> Steps] /\ local \in [Threads -> Locals]
    BY <1>1, <1>2, <1>3
  <2>2. args \in [Workers -> Args]
    BY <1>1, Numbers DEF Args
  <2>3. node \in [Elements -> Nodes \cup {Nowhere}] /\ entry \in Names
    BY <1>1, MiniGrepAssumption DEF Nodes
  <2>4. used \in 1..MaxElements
    BY <1>1, Numbers
  <2>5. /\ next \in [Elements -> Pointers] /\ freed \subseteq Elements
        /\ head \in [Queues -> Pointers] /\ tail \in [Queues -> Pointers]
    BY <1>1, Numbers
  <2>6. num \in Int /\ count \in [Workers -> Int] /\ slot \in 1..(NumThreads + 1)
    BY <1>1, Numbers
  <2>7. QED
    BY <2>1, <2>2, <2>3, <2>4, <2>5, <2>6 DEF StateOK
<1>5. \A t \in Threads : pc[t] \in {"open", "off"}
                         /\ pc[t] \notin Busy /\ pc[t] \notin Reading /\ pc[t] \notin Linking
  BY <1>1 DEF Busy, Reading, Linking, HandleSteps, InsertSteps
<1>6. InHand
  BY <1>5 DEF InHand
<1>7. Roles
  <2>1. pc[Main] = "open" /\ local[Main].el = 1 /\ node[1] = Root /\ slot \in Workers
    BY <1>1, Numbers DEF Fresh
  <2>2. \A i \in Workers : pc[i] = "off" /\ args[i].queue = i
    BY <1>1, Numbers
  <2>3. QED
    BY <1>3, <2>1, <2>2 DEF Roles
<1>8. PICK S \in [Queues -> SUBSET Elements] : S = [q \in Queues |-> {}]
  OBVIOUS
<1>9. Parted(S)
  <2>1. \A q \in Queues : S[q] = {} /\ head[q] = NULL /\ pc[q] \in {"open", "off"}
    BY <1>1, <1>5, <1>8, Numbers
  <2>2. \A q \in Queues : Line(S, q)
    BY <2>1 DEF Line
  <2>3. \A q \in Queues : End(S, q)
    BY ONLY <2>1 DEF End
  <2>4. Apart(S)
    BY <2>1 DEF Apart
  <2>5. LooseEnds(S)
    <3>1. ASSUME NEW e \in Elements, Loose(e) PROVE e > 1
      BY <1>1, <1>5, <3>1 DEF Loose
    <3>2. \A t \in Threads : local[t].el = NULL \/ local[t].el = 1
      BY <1>1 DEF Fresh
    <3>3. \A e \in Elements : e > 1 => e # NULL /\ e # 1
      BY Numbers DEF Elements
    <3>4. QED
      BY <1>1, <1>5, <2>1, <3>1, <3>2, <3>3 DEF LooseEnds
  <2>6. QED
    BY <1>1, <2>2, <2>3, <2>4, <2>5 DEF Parted
<1>10. QED
  BY <1>4, <1>6, <1>7, <1>9 DEF PartedInv, Typed

LEMMA PartedStep == PartedInv /\ [Next]_vars => PartedInv'
<1> SUFFICES ASSUME Typed, NEW S \in [Queues -> SUBSET Elements], Parted(S), [Next]_vars
             PROVE  Typed' /\ \E T \in [Queues -> SUBSET Elements] : Parted(T)'
  BY DEF PartedInv
<1>1. CASE Open \/ Opened \/ Dealt \/ Create \/ Join
  BY <1>1, OpenKept, OpenedKept, DealtKept, CreateKept, JoinKept
<1>2. CASE Deal
  BY <1>2, DealKept
<1>3. ASSUME NEW t \in Threads, HandleStep(t), UNCHANGED mainVars
      PROVE  Typed' /\ \E T \in [Queues -> SUBSET Elements] : Parted(T)'
  BY <1>3, HandleParted
<1>4. ASSUME NEW i \in Workers, WorkerStep(i)
      PROVE  Typed' /\ \E T \in [Queues -> SUBSET Elements] : Parted(T)'
  <2>1. CASE Loop(i) \/ Add(i)
    BY <2>1, LoopKept, AddKept
  <2>2. CASE (Take(i) \/ Follow(i)) /\ UNCHANGED mainVars
    BY <2>2, TakeKept, FollowKept
  <2>3. CASE Advance(i, "stat") /\ UNCHANGED mainVars
    BY <2>3, AdvanceKept
  <2>4. CASE HandleStep(i) /\ UNCHANGED mainVars
    BY <1>3, <2>4, Numbers
  <2>5. QED
    BY <1>4, <2>1, <2>2, <2>3, <2>4 DEF WorkerStep
<1>5. CASE UNCHANGED vars
  <2>1. UNCHANGED <<node, next, used, freed, head, tail, entry, pc, local, args, fault,
                    num, count, slot>>
    BY <1>5 DEF vars, grepVars, memory, queue, mainVars
  <2>2. Typed'
    BY <2>1 DEF Typed, StateOK, InHand, Roles
  <2>3. Parted(S)'
    BY <2>1 DEF Parted, LooseEnds, Loose, Apart, Line, End
  <2>4. QED
    BY <2>2, <2>3
<1>6. QED
  BY <1>1, <1>2, <1>3, <1>4, <1>5, Numbers DEF Next, MainStep

\* Whatever the threads do, each works on a queue of its own: no element is in two
\* queues, none is freed or held while it is queued, and no queue operation reads
\* through a NULL pointer (dealing in parallelSearchStatic, serialSearchActual).
THEOREM EachHasItsQueue == Spec => []QueuesApart
<1>1. PartedInv => QueuesApart
  <2> SUFFICES ASSUME Typed, NEW S \in [Queues -> SUBSET Elements], Parted(S)
               PROVE  QueuesApart
    BY DEF PartedInv
  <2>1. ASSUME NEW q \in Queues PROVE Chain(head[q]) \subseteq S[q]
    <3>1. Line(S, q) /\ S[q] \in SUBSET Elements
      BY DEF Parted
    <3>2. head[q] \in S[q] \cup {NULL} /\ \A e \in S[q] : next[e] # NULL => next[e] \in S[q]
      BY <3>1 DEF Line
    <3>3. QED
      BY <3>1, <3>2, ChainWithin
  <2>2. \A p, q \in Queues : p # q => Chain(head[p]) \cap Chain(head[q]) = {}
    BY <2>1 DEF Parted, Apart
  <2>3. \A e \in Queued : \E q \in Queues : e \in S[q]
    BY <2>1 DEF Queued
  <2>4. Queued \cap freed = {}
    BY <2>3 DEF Parted, Apart
  <2>5. ASSUME NEW t \in Holders, pc[t] # "follow", pc[t] # "advance"
        PROVE  local[t].el \notin Queued
    <3>1. t \in Threads /\ pc[t] \in Steps
      BY DEF Holders, Typed, StateOK
    <3>2. pc[t] \in Busy \cup {"open", "exit"}
      BY <2>5, <3>1 DEF Holders, Steps, MainSteps, WorkerSteps, RemoveSteps, Busy,
                        HandleSteps, InsertSteps
    <3>3. QED
      BY <2>3, <3>1, <3>2 DEF Parted, Apart
  <2>6. QED
    BY <2>2, <2>4, <2>5 DEF QueuesApart, Parted
<1>2. QED
  BY PartedInit, PartedStep, <1>1, PTL DEF Spec
-----------------------------------------------------------------------------
(* Chains of elements.  nx stands for the next pointers.                   *)

\* What leads to nothing outside of it.
Closed(nx, S) == \A e \in S : nx[e] # NULL => nx[e] \in S

\* The elements that every closed set with p in it has: those a walk from p meets.
Reach(nx, p) ==
  {e \in Elements : \A S \in SUBSET Elements :
                      p \in S \cup {NULL} /\ Closed(nx, S) => e \in S}

\* The least closed set lies within every other.
LEMMA ReachWithin ==
  ASSUME NEW nx, NEW p, NEW S \in SUBSET Elements, p \in S \cup {NULL}, Closed(nx, S)
  PROVE  Reach(nx, p) \subseteq S
BY DEF Reach

\* It is one of them.
LEMMA ReachHas ==
  ASSUME NEW nx \in [Elements -> Pointers], NEW p \in Pointers
  PROVE  /\ Reach(nx, p) \subseteq Elements
         /\ p # NULL => p \in Reach(nx, p)
         /\ Closed(nx, Reach(nx, p))
         /\ Reach(nx, NULL) = {}
<1>1. Reach(nx, p) \subseteq Elements
  BY DEF Reach
<1>2. p # NULL => p \in Reach(nx, p)
  BY DEF Reach, Pointers
<1>3. ASSUME NEW e \in Reach(nx, p), nx[e] # NULL
      PROVE  nx[e] \in Reach(nx, p)
  <2>1. e \in Elements /\ nx[e] \in Elements
    BY <1>3 DEF Reach, Pointers
  <2>2. ASSUME NEW S \in SUBSET Elements, p \in S \cup {NULL}, Closed(nx, S)
        PROVE  nx[e] \in S
    BY <1>3, <2>2 DEF Reach, Closed
  <2>3. QED
    BY <2>1, <2>2 DEF Reach
<1>4. Reach(nx, NULL) \subseteq {}
  <2>1. Closed(nx, {})
    BY DEF Closed
  <2>2. QED
    BY <2>1, ReachWithin
<1>5. QED
  BY <1>1, <1>2, <1>3, <1>4 DEF Closed

\* What follows an element is reached from it.
LEMMA ReachNext ==
  ASSUME NEW nx \in [Elements -> Pointers], NEW p \in Elements
  PROVE  Reach(nx, nx[p]) \subseteq Reach(nx, p)
<1>1. p \in Pointers /\ p # NULL
  BY Numbers
<1>2. /\ Reach(nx, p) \in SUBSET Elements
      /\ p \in Reach(nx, p)
      /\ Closed(nx, Reach(nx, p))
  BY <1>1, ReachHas
<1>3. nx[p] \in Reach(nx, p) \cup {NULL}
  BY <1>2 DEF Closed
<1>4. QED
  BY <1>2, <1>3, ReachWithin

\* An element that nothing follows is alone on its chain.
LEMMA ReachLast ==
  ASSUME NEW nx \in [Elements -> Pointers], NEW p \in Elements, nx[p] = NULL
  PROVE  Reach(nx, p) \subseteq {p}
<1>1. Closed(nx, {p})
  BY DEF Closed
<1>2. QED
  BY <1>1, ReachWithin

\* Linking an element that nothing follows adds it to the chains, and nothing else.
LEMMA ReachLinked ==
  ASSUME NEW nx \in [Elements -> Pointers], NEW l \in Elements, NEW n \in Elements,
         l # n, nx[n] = NULL, NEW p \in Pointers
  PROVE  Reach([nx EXCEPT ![l] = n], p) \subseteq Reach(nx, p) \cup {n}
<1> DEFINE S == Reach(nx, p) \cup {n}
<1>1. /\ Reach(nx, p) \subseteq Elements
      /\ p # NULL => p \in Reach(nx, p)
      /\ Closed(nx, Reach(nx, p))
  BY ReachHas
<1>2. S \in SUBSET Elements /\ p \in S \cup {NULL}
  BY <1>1
<1>3. Closed([nx EXCEPT ![l] = n], S)
  BY <1>1 DEF Closed
<1>4. QED
  BY <1>2, <1>3, ReachWithin

\* A walk that grows with every step has passed every element in the end.
LEMMA WalkGrows ==
  ASSUME next \in [Elements -> Pointers], NEW p \in Elements, NEW R,
         Walked(R, p, MaxElements)
  PROVE  /\ R[MaxElements] \subseteq Elements /\ p \in R[MaxElements]
         /\ Closed(next, R[MaxElements])
<1> DEFINE n == MaxElements
           Full(k) == /\ R[k] \subseteq Elements /\ p \in R[k]
                      /\ Closed(next, R[k]) \/ Cardinality(R[k]) > k
           B == {k \in 0..n : ~Full(k)}
<1>1. /\ n \in Nat /\ R[0] = {p} \ {NULL}
      /\ \A k \in 0..n : k # 0 => R[k] = R[k-1] \cup ({next[e] : e \in R[k-1]} \ {NULL})
  <2>1. R = [k \in 0..n |-> IF k = 0 THEN {p} \ {NULL}
                            ELSE R[k-1] \cup ({next[e] : e \in R[k-1]} \ {NULL})]
    BY DEF Walked
  <2>2. n \in Nat /\ 0 \in 0..n
    BY Numbers
  <2> DEFINE More(T) == T \cup ({next[e] : e \in T} \ {NULL})
  <2>3. R = [k \in 0..n |-> IF k = 0 THEN {p} \ {NULL} ELSE More(R[k-1])]
    BY <2>1
  <2> HIDE DEF More, n
  <2>4. R[0] = {p} \ {NULL} /\ \A k \in 0..n : k # 0 => R[k] = More(R[k-1])
    BY <2>2, <2>3
  <2> QED BY <2>2, <2>4 DEF More
<1>2. IsFiniteSet(Elements) /\ Cardinality(Elements) = n
  <2>1. IsFiniteSet(1..n) /\ Cardinality(1..n) = IF 1 > n THEN 0 ELSE n - 1 + 1
    BY <1>1, FS_Interval
  <2> QED BY <1>1, <2>1 DEF Elements
<1>3. ASSUME B # {} PROVE FALSE
  <2>1. B \in SUBSET Nat
    BY <1>1
  <2>2. PICK m \in B : \A k \in B : ~(k < m)
    BY <1>3, <2>1, LeastOf
  <2>3. CASE m = 0
    <3>1. R[0] = {p}
      BY <1>1, Numbers
    <3>2. Cardinality(R[0]) = 1
      BY <3>1, FS_Singleton
    <3>3. Cardinality(R[0]) > 0
      BY <3>2
    <3> QED BY <2>2, <2>3, <3>1, <3>3
  <2>4. CASE m # 0
    <3>1. m \in 0..n /\ m - 1 \in 0..n /\ m - 1 < m
      BY <1>1, <2>2, <2>4
    <3>2. Full(m - 1)
      BY <2>2, <3>1
    <3>3. R[m] = R[m-1] \cup ({next[e] : e \in R[m-1]} \ {NULL})
      BY <1>1, <2>4, <3>1
    <3>4. R[m] \subseteq Elements /\ p \in R[m] /\ R[m-1] \subseteq R[m]
      BY <3>2, <3>3 DEF Pointers
    <3>5. CASE Closed(next, R[m-1])
      <4>1. R[m] = R[m-1]
        BY <3>3, <3>5 DEF Closed
      <4> QED BY <2>2, <3>4, <3>5, <4>1
    <3>6. CASE ~Closed(next, R[m-1])
      <4>1. PICK e \in R[m-1] : next[e] # NULL /\ next[e] \notin R[m-1]
        BY <3>6 DEF Closed
      <4>2. R[m-1] \cup {next[e]} \subseteq R[m]
        BY <3>3, <4>1
      <4>3. IsFiniteSet(R[m]) /\ IsFiniteSet(R[m-1])
        BY <1>2, <3>4, FS_Subset
      <4>4. /\ IsFiniteSet(R[m-1] \cup {next[e]})
            /\ Cardinality(R[m-1] \cup {next[e]}) = Cardinality(R[m-1]) + 1
        BY <4>1, <4>3, FS_AddElement
      <4>5. Cardinality(R[m-1] \cup {next[e]}) <= Cardinality(R[m])
        BY <4>2, <4>3, FS_Subset
      <4>6. Cardinality(R[m-1]) > m - 1
        BY <3>2, <3>6
      <4>7. Cardinality(R[m-1]) \in Nat /\ Cardinality(R[m]) \in Nat /\ m \in Nat
        BY <3>1, <1>1, <4>3, FS_CardinalityType
      <4>8. Cardinality(R[m]) > m
        BY <4>4, <4>5, <4>6, <4>7
      <4> QED BY <2>2, <3>4, <4>8
    <3> QED BY <3>5, <3>6
  <2> QED BY <2>3, <2>4
<1>4. Full(n)
  <2>1. n \in 0..n
    BY <1>1
  <2> QED BY <1>3, <2>1
<1>5. Cardinality(R[n]) <= n
  BY <1>2, <1>4, FS_Subset
<1>6. Cardinality(R[n]) \in Nat
  BY <1>2, <1>4, FS_Subset, FS_CardinalityType
<1>7. Closed(next, R[n])
  BY <1>1, <1>4, <1>5, <1>6
<1> QED BY <1>4, <1>7

LEMMA ChainIs ==
  ASSUME next \in [Elements -> Pointers], NEW p \in Pointers
  PROVE  Chain(p) = Reach(next, p)
<1>1. Chain(p) \subseteq Reach(next, p)
  <2>1. /\ Reach(next, p) \in SUBSET Elements /\ p \in Reach(next, p) \cup {NULL}
        /\ \A e \in Reach(next, p) : next[e] # NULL => next[e] \in Reach(next, p)
    BY ReachHas DEF Closed
  <2> QED BY <2>1, ChainWithin
<1>2. CASE p = NULL
  BY <1>1, <1>2, ReachHas
<1>3. CASE p \in Elements
  <2> DEFINE R == CHOOSE R : Walked(R, p, MaxElements)
  <2>1. Chain(p) = R[MaxElements]
    BY DEF Chain, Walked
  <2>2. Walked(R, p, MaxElements)
    BY Numbers, WalkedExists
  <2> HIDE DEF R
  <2>3. Chain(p) \in SUBSET Elements /\ p \in Chain(p) /\ Closed(next, Chain(p))
    BY <1>3, <2>1, <2>2, WalkGrows
  <2>4. Reach(next, p) \subseteq Chain(p)
    BY <2>3, ReachWithin
  <2> QED BY <1>1, <2>4
<1> QED BY <1>2, <1>3 DEF Pointers

\* A chain is its first element and what follows.
LEMMA ReachFirst ==
  ASSUME NEW nx \in [Elements -> Pointers], NEW p \in Elements
  PROVE  Reach(nx, p) = {p} \cup Reach(nx, nx[p])
<1> DEFINE S == {p} \cup Reach(nx, nx[p])
<1>1. nx[p] \in Pointers /\ p \in Pointers /\ p # NULL
  BY Numbers
<1>2. /\ Reach(nx, nx[p]) \subseteq Elements
      /\ nx[p] # NULL => nx[p] \in Reach(nx, nx[p])
      /\ Closed(nx, Reach(nx, nx[p]))
  BY <1>1, ReachHas
<1>3. S \in SUBSET Elements /\ p \in S \cup {NULL} /\ Closed(nx, S)
  BY <1>2 DEF Closed
<1>4. Reach(nx, p) \subseteq S
  BY <1>3, ReachWithin
<1>5. p \in Reach(nx, p) /\ Reach(nx, nx[p]) \subseteq Reach(nx, p)
  BY <1>1, ReachHas, ReachNext
<1> QED BY <1>4, <1>5

Linked(nx, l, n) == [nx EXCEPT ![l] = n]

\* Linking an element behind the last of a chain adds it.
LEMMA ReachAppend ==
  ASSUME NEW nx \in [Elements -> Pointers], NEW p \in Pointers, NEW n \in Elements,
         NEW l \in Reach(nx, p), l # n, nx[l] = NULL, nx[n] = NULL
  PROVE  Reach(Linked(nx, l, n), p) = Reach(nx, p) \cup {n}
<1> DEFINE nn == [nx EXCEPT ![l] = n]
           S == Reach(nn, p)
<1>1. l \in Elements /\ nn \in [Elements -> Pointers] /\ nn[l] = n /\ n # NULL
      /\ \A e \in Elements : e # l => nn[e] = nx[e]
  BY ReachHas, Numbers
<1>2. S \subseteq Reach(nx, p) \cup {n}
  BY <1>1, ReachLinked
<1> HIDE DEF nn
<1>3. S \in SUBSET Elements /\ p \in S \cup {NULL} /\ Closed(nn, S)
  BY <1>1, ReachHas
<1>4. Closed(nx, S)
  BY <1>1, <1>3 DEF Closed
<1>5. Reach(nx, p) \subseteq S
  BY <1>3, <1>4, ReachWithin
<1>6. n \in S
  BY <1>1, <1>3, <1>5 DEF Closed
<1> QED BY <1>2, <1>5, <1>6 DEF nn, Linked


-----------------------------------------------------------------------------
(* Sums over finite sets, as MapThenSumSet computes them.                  *)

\* The element MapThenSumSet takes first.
Pick(s) == CHOOSE x \in s : TRUE

\* F is the recursion that defines a sum of values of g, on the sets of D.
SumFn(F, g, D) ==
  F = [s \in D |-> IF s = {} THEN 0 ELSE g[Pick(s)] + F[s \ {Pick(s)}]]

SumTo(g, S) == (CHOOSE F : SumFn(F, g, SUBSET S))[S]

\* What is left is smaller.
LEMMA PickIn ==
  ASSUME NEW s, s # {}, IsFiniteSet(s)
  PROVE  /\ Pick(s) \in s
         /\ Cardinality(s) \in Nat /\ Cardinality(s) # 0
         /\ IsFiniteSet(s \ {Pick(s)})
         /\ Cardinality(s \ {Pick(s)}) = Cardinality(s) - 1
<1>1. Pick(s) \in s
  BY DEF Pick
<1>2. QED
  BY <1>1, FS_CardinalityType, FS_EmptySet, FS_RemoveElement

\* There is such a recursion, by induction on the size of a set.
LEMMA SumFnExists ==
  ASSUME NEW g, NEW S, IsFiniteSet(S)
  PROVE  \E F : SumFn(F, g, SUBSET S)
<1> DEFINE D(n) == {s \in SUBSET S : Cardinality(s) <= n}
           B == {n \in Nat : ~ \E F : SumFn(F, g, D(n))}
<1>0. \A s \in SUBSET S : IsFiniteSet(s) /\ Cardinality(s) \in Nat
  BY FS_Subset, FS_CardinalityType
<1>1. ASSUME B # {} PROVE FALSE
  <2>1. PICK m \in B : \A k \in B : ~(k < m)
    BY <1>1, LeastOf
  <2>2. CASE m = 0
    <3> DEFINE F == [s \in D(0) |-> 0]
    <3>1. \A s \in D(0) : s = {}
      BY <1>0, FS_EmptySet
    <3>2. SumFn(F, g, D(0))
      <4>1. F = [s \in D(0) |-> IF s = {} THEN 0 ELSE g[Pick(s)] + F[s \ {Pick(s)}]]
        BY <3>1
      <4>2. QED
        BY <4>1 DEF SumFn
    <3>3. QED
      BY <2>1, <2>2, <3>2
  <2>3. CASE m # 0
    <3>1. m - 1 \in Nat /\ m - 1 < m /\ m \in Nat
      BY <2>3
    <3>2. PICK Q : SumFn(Q, g, D(m - 1))
      BY <2>1, <3>1
    <3> DEFINE F == [s \in D(m) |-> IF s \in D(m - 1) THEN Q[s]
                                    ELSE g[Pick(s)] + Q[s \ {Pick(s)}]]
               G == [s \in D(m) |-> IF s = {} THEN 0 ELSE g[Pick(s)] + F[s \ {Pick(s)}]]
    <3>3. \A s \in D(m - 1) :
            Q[s] = IF s = {} THEN 0 ELSE g[Pick(s)] + Q[s \ {Pick(s)}]
      BY <3>2 DEF SumFn
    <3>4. \A s \in D(m) : s # {} => s \ {Pick(s)} \in D(m - 1) /\ s \ {Pick(s)} \in D(m)
      <4>1. SUFFICES ASSUME NEW s \in D(m), s # {}
                     PROVE  s \ {Pick(s)} \in D(m - 1) /\ s \ {Pick(s)} \in D(m)
        OBVIOUS
      <4>2. /\ Cardinality(s) \in Nat /\ Cardinality(s \ {Pick(s)}) = Cardinality(s) - 1
        BY <1>0, <4>1, PickIn
      <4>3. QED
        BY <3>1, <4>1, <4>2
    <3>5. {} \in D(m - 1)
      BY <3>1, FS_EmptySet
    <3> HIDE DEF D
    <3>6. \A s \in D(m) : s # {} => F[s \ {Pick(s)}] = Q[s \ {Pick(s)}]
      BY <3>4
    <3>7. \A s \in D(m) : F[s] = G[s]
      <4>1. SUFFICES ASSUME NEW s \in D(m) PROVE F[s] = G[s]
        OBVIOUS
      <4>2. CASE s = {}
        BY <3>3, <3>5, <4>2
      <4>3. CASE s # {} /\ s \in D(m - 1)
        <5>1. F[s] = g[Pick(s)] + Q[s \ {Pick(s)}]
          BY <3>3, <4>3
        <5>2. QED
          BY <3>6, <4>3, <5>1
      <4>4. CASE s # {} /\ s \notin D(m - 1)
        BY <3>6, <4>4
      <4>5. QED
        BY <4>2, <4>3, <4>4
    <3>8. F = G
      BY <3>7
    <3>9. SumFn(F, g, D(m))
      BY <3>8 DEF SumFn
    <3>10. QED
      BY <2>1, <3>9
  <2>4. QED
    BY <2>2, <2>3
<1>2. PICK F : SumFn(F, g, D(Cardinality(S)))
  BY <1>0, <1>1, FS_CardinalityType
<1>3. D(Cardinality(S)) = SUBSET S
  BY FS_Subset
<1>4. QED
  BY <1>2, <1>3

\* It has one solution.
LEMMA SumFnAgree ==
  ASSUME NEW S, NEW T, IsFiniteSet(S), T \subseteq S, NEW g, NEW h, NEW F, NEW G,
         SumFn(F, g, SUBSET S), SumFn(G, h, SUBSET T), \A x \in T : g[x] = h[x]
  PROVE  \A s \in SUBSET T : F[s] = G[s]
<1> DEFINE B == {n \in Nat : \E s \in SUBSET T : Cardinality(s) = n /\ F[s] # G[s]}
<1>1. \A s \in SUBSET T : IsFiniteSet(s) /\ Cardinality(s) \in Nat
  BY FS_Subset, FS_CardinalityType
<1>2. ASSUME B # {} PROVE FALSE
  <2>1. PICK m \in B : \A k \in B : ~(k < m)
    BY <1>2, LeastOf
  <2>2. PICK s \in SUBSET T : Cardinality(s) = m /\ F[s] # G[s]
    BY <2>1
  <2>3. F[s] = IF s = {} THEN 0 ELSE g[Pick(s)] + F[s \ {Pick(s)}]
    BY DEF SumFn
  <2>4. G[s] = IF s = {} THEN 0 ELSE h[Pick(s)] + G[s \ {Pick(s)}]
    BY DEF SumFn
  <2>5. s # {}
    BY <2>2, <2>3, <2>4
  <2>6. /\ Pick(s) \in T /\ s \ {Pick(s)} \in SUBSET T
        /\ m \in Nat /\ Cardinality(s \ {Pick(s)}) = m - 1 /\ m # 0
    BY <1>1, <2>2, <2>5, PickIn
  <2>7. F[s \ {Pick(s)}] = G[s \ {Pick(s)}]
    <3>1. m - 1 \in Nat /\ m - 1 < m
      BY <2>6
    <3>2. m - 1 \notin B
      BY <2>1, <3>1
    <3>3. QED
      BY <2>6, <3>1, <3>2
  <2>8. QED
    BY <2>2, <2>3, <2>4, <2>5, <2>6, <2>7
<1>3. QED
  BY <1>1, <1>2

\* The sum over a subset does not depend on the set the recursion is on.
LEMMA SumIs ==
  ASSUME NEW S, IsFiniteSet(S), NEW T \in SUBSET S, NEW g, NEW F, SumFn(F, g, SUBSET S)
  PROVE  SumTo(g, T) = F[T]
<1> DEFINE G == CHOOSE G : SumFn(G, g, SUBSET T)
<1>1. IsFiniteSet(T)
  BY FS_Subset
<1>2. SumFn(G, g, SUBSET T)
  BY <1>1, SumFnExists
<1>3. SumTo(g, T) = G[T]
  BY DEF SumTo
<1> HIDE DEF G
<1>4. \A s \in SUBSET T : F[s] = G[s]
  BY <1>2, SumFnAgree
<1>5. QED
  BY <1>3, <1>4

\* The sum depends on the values in the set only.
LEMMA SumAgree ==
  ASSUME NEW S, IsFiniteSet(S), NEW g, NEW h, \A x \in S : g[x] = h[x]
  PROVE  SumTo(g, S) = SumTo(h, S)
<1>1. PICK F : SumFn(F, g, SUBSET S)
  BY SumFnExists
<1>2. PICK G : SumFn(G, h, SUBSET S)
  BY SumFnExists
<1>3. F[S] = G[S]
  BY <1>1, <1>2, SumFnAgree
<1>4. SumTo(g, S) = F[S]
  BY <1>1, SumIs
<1>5. SumTo(h, S) = G[S]
  BY <1>2, SumIs
<1>6. QED
  BY <1>3, <1>4, <1>5

\* The recursion as an equation.
LEMMA SumPick ==
  ASSUME NEW S, IsFiniteSet(S), NEW g
  PROVE  SumTo(g, S) = IF S = {} THEN 0 ELSE g[Pick(S)] + SumTo(g, S \ {Pick(S)})
<1>1. PICK F : SumFn(F, g, SUBSET S)
  BY SumFnExists
<1>2. SumTo(g, S) = F[S]
  BY <1>1, SumIs
<1>3. SumTo(g, S \ {Pick(S)}) = F[S \ {Pick(S)}]
  BY <1>1, SumIs
<1>4. F[S] = IF S = {} THEN 0 ELSE g[Pick(S)] + F[S \ {Pick(S)}]
  BY <1>1 DEF SumFn
<1>5. QED
  BY <1>2, <1>3, <1>4

\* Any element can be taken out of a sum first.
LEMMA SumRemove ==
  ASSUME NEW S, IsFiniteSet(S), NEW g, \A x \in S : g[x] \in Int
  PROVE  /\ SumTo(g, S) \in Int
         /\ \A x \in S : SumTo(g, S) = g[x] + SumTo(g, S \ {x})
<1> DEFINE Right(s) == /\ SumTo(g, s) \in Int
                       /\ \A x \in s : SumTo(g, s) = g[x] + SumTo(g, s \ {x})
           B == {n \in Nat : \E s \in SUBSET S : Cardinality(s) = n /\ ~Right(s)}
<1>1. \A s \in SUBSET S : IsFiniteSet(s) /\ Cardinality(s) \in Nat
  BY FS_Subset, FS_CardinalityType
<1>2. ASSUME B # {} PROVE FALSE
  <2>1. PICK m \in B : \A k \in B : ~(k < m)
    BY <1>2, LeastOf
  <2>2. PICK s \in SUBSET S : Cardinality(s) = m /\ ~Right(s)
    BY <2>1
  <2> HIDE DEF Right
  <2>3. \A r \in SUBSET S : Cardinality(r) < m => Right(r)
    BY <1>1, <2>1
  <2>4. SumTo(g, s) = IF s = {} THEN 0 ELSE g[Pick(s)] + SumTo(g, s \ {Pick(s)})
    BY <1>1, SumPick
  <2>5. CASE s = {}
    BY <2>2, <2>4, <2>5 DEF Right
  <2>6. CASE s # {}
    <3> DEFINE c == Pick(s)
    <3>1. \A x \in s : /\ s \ {x} \in SUBSET S /\ Cardinality(s \ {x}) < m
      <4>1. SUFFICES ASSUME NEW x \in s PROVE Cardinality(s \ {x}) < m
        OBVIOUS
      <4>2. Cardinality(s \ {x}) = Cardinality(s) - 1 /\ Cardinality(s) \in Nat
        BY <1>1, FS_RemoveElement
      <4>3. QED
        BY <2>2, <4>2
    <3>2. \A x \in s : Right(s \ {x})
      BY <2>3, <3>1
    <3>3. c \in s /\ \A x \in s : g[x] \in Int
      BY <1>1, <2>6, PickIn
    <3>4. SumTo(g, s) = g[c] + SumTo(g, s \ {c}) /\ SumTo(g, s \ {c}) \in Int
      BY <2>4, <2>6, <3>2, <3>3 DEF Right
    <3>5. ASSUME NEW x \in s PROVE SumTo(g, s) = g[x] + SumTo(g, s \ {x})
      <4>1. CASE x = c
        BY <3>4, <4>1
      <4>2. CASE x # c
        <5>1. x \in s \ {c} /\ c \in s \ {x}
          BY <3>3, <4>2
        <5>2. SumTo(g, s \ {c}) = g[x] + SumTo(g, (s \ {c}) \ {x})
          BY <3>2, <3>3, <5>1 DEF Right
        <5>3. SumTo(g, s \ {x}) = g[c] + SumTo(g, (s \ {x}) \ {c})
          BY <3>2, <5>1 DEF Right
        <5>4. SumTo(g, (s \ {c}) \ {x}) = SumTo(g, (s \ {x}) \ {c})
          <6>1. (s \ {c}) \ {x} = (s \ {x}) \ {c}
            OBVIOUS
          <6>2. QED
            BY <6>1
        <5>5. (s \ {c}) \ {x} \in SUBSET S /\ Cardinality((s \ {c}) \ {x}) < m
          <6>1. IsFiniteSet(s \ {c}) /\ Cardinality(s \ {c}) \in Nat
            BY <1>1
          <6>2. Cardinality((s \ {c}) \ {x}) = Cardinality(s \ {c}) - 1
            BY <5>1, <6>1, FS_RemoveElement
          <6>3. Cardinality(s \ {c}) < m
            BY <3>1, <3>3
          <6>4. m \in Nat
            OBVIOUS
          <6>5. QED
            BY <6>1, <6>2, <6>3, <6>4
        <5>6. SumTo(g, (s \ {c}) \ {x}) \in Int
          BY <2>3, <5>5 DEF Right
        <5>7. g[x] \in Int /\ g[c] \in Int
          BY <3>3
        <5>8. QED
          BY <3>4, <5>2, <5>3, <5>4, <5>6, <5>7
      <4>3. QED
        BY <4>1, <4>2
    <3>6. Right(s)
      BY <3>3, <3>4, <3>5 DEF Right
    <3>7. QED
      BY <2>2, <3>6
  <2>7. QED
    BY <2>5, <2>6
<1>3. Right(S)
  BY <1>1, <1>2
<1>4. QED
  BY <1>3

\* A sum changes by what one of its summands does.
LEMMA SumChange ==
  ASSUME NEW S, IsFiniteSet(S), NEW x \in S, NEW g, NEW h,
         \A y \in S : g[y] \in Int /\ h[y] \in Int /\ (y # x => g[y] = h[y])
  PROVE  SumTo(h, S) = SumTo(g, S) + h[x] - g[x]
<1>1. SumTo(g, S \ {x}) = SumTo(h, S \ {x})
  BY FS_RemoveElement, SumAgree
<1>2. /\ SumTo(g, S) = g[x] + SumTo(g, S \ {x})
      /\ SumTo(h, S) = h[x] + SumTo(h, S \ {x})
  BY SumRemove
<1>3. SumTo(g, S \ {x}) \in Int
  BY FS_RemoveElement, SumRemove
<1>4. QED
  BY <1>1, <1>2, <1>3

LEMMA SumZero ==
  ASSUME NEW S, IsFiniteSet(S), NEW g, \A x \in S : g[x] = 0
  PROVE  SumTo(g, S) = 0
<1> DEFINE B == {n \in Nat : \E s \in SUBSET S : Cardinality(s) = n /\ SumTo(g, s) # 0}
<1>1. \A s \in SUBSET S : IsFiniteSet(s) /\ Cardinality(s) \in Nat
  BY FS_Subset, FS_CardinalityType
<1>2. ASSUME B # {} PROVE FALSE
  <2>1. PICK m \in B : \A k \in B : ~(k < m)
    BY <1>2, LeastOf
  <2>2. PICK s \in SUBSET S : Cardinality(s) = m /\ SumTo(g, s) # 0
    BY <2>1
  <2>3. SumTo(g, s) = IF s = {} THEN 0 ELSE g[Pick(s)] + SumTo(g, s \ {Pick(s)})
    BY <1>1, SumPick
  <2>4. s # {}
    BY <2>2, <2>3
  <2>5. /\ Pick(s) \in s /\ Cardinality(s) # 0
        /\ Cardinality(s \ {Pick(s)}) = Cardinality(s) - 1
    BY <1>1, <2>4, PickIn
  <2>6. m - 1 \in Nat /\ m - 1 < m /\ s \ {Pick(s)} \in SUBSET S
    BY <2>1, <2>2, <2>5
  <2>7. SumTo(g, s \ {Pick(s)}) = 0
    <3>1. m - 1 \notin B
      BY <2>1, <2>6
    <3> QED BY <2>2, <2>5, <2>6, <3>1
  <2> QED BY <2>2, <2>3, <2>4, <2>5, <2>7
<1>3. Cardinality(S) \in Nat /\ S \in SUBSET S
  BY <1>1
<1> QED BY <1>2, <1>3

LEMMA TotalIs == Total = SumTo(Hits, Files \ Unreadable)
<1> DEFINE S == Files \ Unreadable
<1>1. Total = (CHOOSE F : SumFn(F, Hits, SUBSET S))[S]
  BY DEF Total, SumFn, MapThenSumSet, MapThenFoldSet, Pick
<1> QED BY <1>1 DEF SumTo

-----------------------------------------------------------------------------
(* The tree as the searches leave it, when no two threads list at once.    *)

\* What a thread holds that has still to be handled, or to be found in its queue.
Chained(q) == Reach(next, head[q])
Holds(t) ==
  (IF pc[t] \in {"follow", "advance", "open", "exit", "stat"} THEN {local[t].el} ELSE {})
  \cup (IF pc[t] \in InsertSteps THEN {local[t].new} ELSE {})

\* The elements that have still to be handled.
Has(t) == Chained(t) \cup Holds(t)
Waiting == UNION {Has(t) : t \in Threads}

\* The names that a thread has still to follow of the directory it lists, and
\* what they lead to.
Unlisted(t) ==
  ToSet(local[t].unread) \cup (IF pc[t] \in {"dot", "dotdot", "name"} THEN {entry} ELSE {})
Owed(t) == IF pc[t] \in Reading THEN Entries(node[local[t].el], Unlisted(t)) ELSE {}

\* What the search knows of.
Known == {node[e] : e \in 1..used}

\* A thread that lists a directory has read none of its names twice.
Lists(t) ==
  /\ local[t].el \in 1..used /\ Listed(node[local[t].el])
  /\ IsInjective(local[t].unread)
  /\ Unlisted(t) \subseteq ToSet(Listing[node[local[t].el]])
  /\ pc[t] \in {"dot", "dotdot", "name"} => entry \notin ToSet(local[t].unread)
  /\ pc[t] \in {"dotdot", "name"} => entry # Dot
  /\ pc[t] = "name" => entry # DotDot
Reads(t) == IF pc[t] \in Reading THEN Lists(t) ELSE local[t].unread = <<>>

\* Each element stands for something else, and for something an earlier one reveals.
Planted ==
  /\ used # 0 /\ node[1] = Root
  /\ \A e, f \in 1..used : node[e] = node[f] => e = f
  /\ \A e \in 2..used : \E f \in 1..used : node[e] \in Revealed(node[f])

\* Nothing is known of what is still to be found.
Untouched ==
  /\ \A e \in Waiting : Revealed(node[e]) \cap Known = {}
  /\ \A t \in Threads : Owed(t) \cap Known = {}

\* What has been handled has left nothing behind.
Complete ==
  \A e \in (1..used) \ Waiting : \A x \in Revealed(node[e]) :
    x \in Known \/ \E t \in Threads : local[t].el = e /\ x \in Owed(t)

TreeInv ==
  /\ Waiting \subseteq 1..used
  /\ Planted /\ Untouched /\ Complete
  /\ \A t \in Threads : Reads(t)

\* The work that is left, and the files that have been counted.
Owing == UNION {Owed(t) : t \in Threads}
Todo == {node[e] : e \in Waiting} \cup Owing
Counted == {f \in Files \ Unreadable : \E e \in (1..used) \ Waiting : node[e] = f}

LEMMA HeadTail ==
  ASSUME NEW T, NEW s \in Seq(T), s # <<>>, IsInjective(s)
  PROVE  /\ Head(s) \in T /\ Tail(s) \in Seq(T)
         /\ ToSet(s) = {Head(s)} \cup ToSet(Tail(s))
         /\ Head(s) \notin ToSet(Tail(s))
         /\ IsInjective(Tail(s))
<1>1. /\ Len(s) \in Nat /\ Len(s) >= 1 /\ DOMAIN s = 1..Len(s)
      /\ Head(s) = s[1] /\ Tail(s) \in Seq(T)
      /\ Len(Tail(s)) = Len(s) - 1 /\ DOMAIN Tail(s) = 1..(Len(s) - 1)
  OBVIOUS
<1>2. \A k \in 1..(Len(s) - 1) : Tail(s)[k] = s[k+1]
  OBVIOUS
<1>3. \A k \in 1..(Len(s) - 1) : k + 1 \in 1..Len(s) /\ k + 1 # 1
  BY <1>1
<1>4. \A k \in 1..Len(s) : k # 1 => k - 1 \in 1..(Len(s) - 1) /\ (k - 1) + 1 = k
  BY <1>1
<1>5. 1 \in 1..Len(s)
  BY <1>1
<1>6. ToSet(s) \subseteq {Head(s)} \cup ToSet(Tail(s))
  <2>1. SUFFICES ASSUME NEW k \in 1..Len(s), k # 1 PROVE s[k] \in ToSet(Tail(s))
    BY <1>1 DEF ToSet
  <2>2. k - 1 \in 1..(Len(s) - 1) /\ s[k] = Tail(s)[k-1]
    BY <1>2, <1>4, <2>1
  <2> QED BY <1>1, <2>2 DEF ToSet
<1>7. {Head(s)} \cup ToSet(Tail(s)) \subseteq ToSet(s)
  BY <1>1, <1>2, <1>3, <1>5 DEF ToSet
<1>8. Head(s) \notin ToSet(Tail(s))
  BY <1>1, <1>2, <1>3, <1>5 DEF ToSet, IsInjective
<1>9. IsInjective(Tail(s))
  <2>1. SUFFICES ASSUME NEW k \in 1..(Len(s) - 1), NEW l \in 1..(Len(s) - 1),
                        Tail(s)[k] = Tail(s)[l]
                 PROVE  k = l
    BY <1>1 DEF IsInjective
  <2>2. k + 1 = l + 1
    BY <1>1, <1>2, <1>3, <2>1 DEF IsInjective
  <2> QED BY <2>2, <1>1
<1> QED BY <1>1, <1>5, <1>6, <1>7, <1>8, <1>9

\* What a directory leads to is there, below Root and nowhere else.
LEMMA TreeFacts ==
  ASSUME Tree
  PROVE  /\ \A n, x : x \in Revealed(n) => x \in Nodes /\ x # Root /\ n \in Dirs /\ Listed(n)
         /\ \A n, m, x : x \in Revealed(n) /\ x \in Revealed(m) => n = m
         /\ \A d, A : Listed(d) /\ A \subseteq ToSet(Listing[d]) => Entries(d, A) \subseteq Revealed(d)
         /\ \A d, A, B : Entries(d, A \cup B) = Entries(d, A) \cup Entries(d, B)
         /\ \A d : Entries(d, {}) = {}
<1>1. \A n, x : x \in Revealed(n) =>
        n \in Dirs \ Unreadable /\ Listed(n) /\ \E m \in Searched(n) : x = Target[n][m]
  BY DEF Revealed, Entries, Listed, Searched
<1>2. \A n, x : x \in Revealed(n) => x \in Nodes /\ x # Root
  BY <1>1 DEF Tree
<1>3. \A n, m, x : x \in Revealed(n) /\ x \in Revealed(m) => n = m
  BY <1>1 DEF Tree
<1>4. \A d, A : Listed(d) /\ A \subseteq ToSet(Listing[d]) => Entries(d, A) \subseteq Revealed(d)
  BY DEF Revealed, Entries
<1>5. \A d, A, B : Entries(d, A \cup B) = Entries(d, A) \cup Entries(d, B)
  BY DEF Entries
<1>6. \A d : Entries(d, {}) = {}
  BY DEF Entries
<1> QED BY <1>1, <1>2, <1>3, <1>4, <1>5, <1>6

\* One name is one entry.
LEMMA EntryOnce ==
  ASSUME Tree, NEW d, Listed(d), NEW A, A \subseteq ToSet(Listing[d]),
         NEW n \in ToSet(Listing[d]), n \notin A, n # Dot, n # DotDot
  PROVE  /\ Target[d][n] \notin Entries(d, A)
         /\ Entries(d, {n}) = {Target[d][n]} /\ Target[d][n] \in Revealed(d)
<1>1. d \in Dirs \ Unreadable
  BY DEF Listed
<1>2. \A m \in A \ {Dot, DotDot} : m \in Searched(d)
  BY DEF Searched
<1>3. n \in Searched(d)
  BY DEF Searched
<1>4. Target[d][n] \notin Entries(d, A)
  BY <1>1, <1>2, <1>3 DEF Tree, Entries
<1>5. Entries(d, {n}) = {Target[d][n]} /\ Target[d][n] \in Revealed(d)
  BY DEF Entries, Revealed
<1> QED BY <1>4, <1>5

\* A thread that does nothing lists what it listed, unless another reads a name.
LEMMA StillReads ==
  ASSUME TreeInv, NEW t \in Threads, pc'[t] = pc[t], local'[t] = local[t],
         entry' = entry \/ pc[t] \notin {"dot", "dotdot", "name"},
         \A e \in 1..used : node'[e] = node[e] /\ e \in 1..used'
  PROVE  Reads(t)' /\ Owed(t)' = Owed(t)
<1>1. Reads(t)
  BY DEF TreeInv
<1>2. Unlisted(t)' = Unlisted(t)
  BY DEF Unlisted
<1>3. CASE pc[t] \in Reading
  <2>1. Lists(t) /\ node'[local[t].el] = node[local[t].el] /\ local[t].el \in 1..used'
    BY <1>1, <1>3 DEF Reads, Lists
  <2>2. Lists(t)'
    BY <1>2, <2>1 DEF Lists
  <2>3. Owed(t)' = Owed(t)
    BY <1>2, <2>1 DEF Owed
  <2> QED BY <1>3, <2>2, <2>3 DEF Reads
<1>4. CASE pc[t] \notin Reading
  BY <1>1, <1>4 DEF Reads, Owed
<1> QED BY <1>3, <1>4

\* A step that finds nothing and handles nothing.
LEMMA TreeSame ==
  ASSUME TreeInv, node' = node, used' = used, Waiting' = Waiting,
         \A t \in Threads : /\ Reads(t)' /\ Owed(t)' = Owed(t)
                            /\ Owed(t) # {} => local'[t].el = local[t].el
  PROVE  TreeInv' /\ Todo' = Todo /\ Counted' = Counted
<1>1. Known' = Known
  BY DEF Known
<1>2. Planted'
  BY DEF TreeInv, Planted
<1>3. Untouched'
  BY <1>1 DEF TreeInv, Untouched
<1>4. Complete'
  BY <1>1 DEF TreeInv, Complete
<1>5. TreeInv'
  BY <1>2, <1>3, <1>4 DEF TreeInv
<1>6. Todo' = Todo
  BY DEF Todo, Owing
<1>7. Counted' = Counted
  BY DEF Counted
<1> QED BY <1>5, <1>6, <1>7

LEMMA MoreOwed ==
  ASSUME NEW i \in Threads, NEW A, Owed(i) = {}, Owed(i)' = A,
         \A t \in Threads : t # i => Owed(t)' = Owed(t)
  PROVE  Owing' = Owing \cup A
<1>1. ASSUME NEW z, z \in Owing' PROVE z \in Owing \cup A
  BY <1>1 DEF Owing
<1>2. ASSUME NEW z, z \in Owing \cup A PROVE z \in Owing'
  BY <1>2 DEF Owing
<1> QED BY <1>1, <1>2

LEMMA LessOwed ==
  ASSUME NEW i \in Threads, NEW A, Owed(i) = Owed(i)' \cup A,
         \A t \in Threads : t # i => Owed(t)' = Owed(t)
  PROVE  Owing = Owing' \cup A
<1>1. ASSUME NEW z, z \in Owing PROVE z \in Owing' \cup A
  BY <1>1 DEF Owing
<1>2. ASSUME NEW z, z \in Owing' \cup A PROVE z \in Owing
  BY <1>2 DEF Owing
<1> QED BY <1>1, <1>2

\* A step that handles an element, whose directory is listed from then on.
LEMMA TreeHandle ==
  ASSUME Tree, TreeInv, NEW i \in Threads, pc[i] \notin Reading,
         local[i].el \in Waiting, local'[i].el = local[i].el,
         Waiting' = Waiting \ {local[i].el}, node' = node, used' = used,
         \A t \in Threads : t # i => Reads(t)' /\ Owed(t)' = Owed(t) /\ local'[t].el = local[t].el,
         \/ /\ Listed(node[local[i].el]) /\ pc'[i] = "read"
            /\ local'[i].unread = Listing[node[local[i].el]]
         \/ /\ ~Listed(node[local[i].el]) /\ pc'[i] \notin Reading
            /\ local'[i].unread = local[i].unread
  PROVE  LET n == node[local[i].el] IN
         /\ TreeInv' /\ n \in Todo
         /\ Todo' = (Todo \ {n}) \cup Revealed(n)
         /\ n \notin Counted
         /\ Counted' = IF n \in Files \ Unreadable THEN Counted \cup {n} ELSE Counted
<1> DEFINE el == local[i].el
           n == node[el]
<1>1. Known' = Known /\ el \in 1..used
  BY DEF Known, TreeInv
<1>2. Owed(i) = {} /\ local[i].unread = <<>>
  BY DEF Owed, TreeInv, Reads
<1>3. Owed(i)' = Revealed(n) /\ Reads(i)'
  <2>1. CASE Listed(n) /\ pc'[i] = "read" /\ local'[i].unread = Listing[n]
    <3>1. Unlisted(i)' = ToSet(Listing[n]) /\ "read" \in Reading
      BY <2>1 DEF Unlisted, Reading
    <3>2. Owed(i)' = Revealed(n)
      BY <2>1, <3>1 DEF Owed, Revealed
    <3>3. IsInjective(Listing[n])
      BY <2>1 DEF Tree, Listed
    <3>4. Lists(i)'
      BY <1>1, <2>1, <3>1, <3>3 DEF Lists
    <3> QED BY <2>1, <3>1, <3>2, <3>4 DEF Reads
  <2>2. CASE ~Listed(n) /\ pc'[i] \notin Reading /\ local'[i].unread = local[i].unread
    BY <1>2, <2>2 DEF Owed, Revealed, Reads
  <2> QED BY <2>1, <2>2
<1>4. Planted'
  BY DEF TreeInv, Planted
<1>5. Untouched'
  <2>1. \A e \in Waiting' : Revealed(node'[e]) \cap Known' = {}
    BY <1>1 DEF TreeInv, Untouched
  <2>2. \A t \in Threads : Owed(t)' \cap Known' = {}
    BY <1>1, <1>3 DEF TreeInv, Untouched
  <2> QED BY <2>1, <2>2 DEF Untouched
<1>6. Complete'
  <2> SUFFICES ASSUME NEW e \in (1..used) \ Waiting', NEW x \in Revealed(node[e])
               PROVE  x \in Known \/ \E t \in Threads : local'[t].el = e /\ x \in Owed(t)'
    BY <1>1 DEF Complete
  <2>1. CASE e = el
    BY <1>3, <2>1
  <2>2. CASE e # el
    <3>1. x \in Known \/ \E t \in Threads : local[t].el = e /\ x \in Owed(t)
      BY <2>2 DEF TreeInv, Complete
    <3> QED BY <1>2, <3>1
  <2> QED BY <2>1, <2>2
<1>7. TreeInv'
  BY <1>3, <1>4, <1>5, <1>6 DEF TreeInv
<1>8. n \in Todo
  BY DEF Todo
<1>9. \A e \in 1..used : node[e] = n => e = el
  BY <1>1 DEF TreeInv, Planted
<1>10. Todo' = (Todo \ {n}) \cup Revealed(n)
  <2>1. n \in Known /\ \A t \in Threads : n \notin Owed(t)
    BY <1>1 DEF Known, TreeInv, Untouched
  <2>2. {node'[e] : e \in Waiting'} = {node[e] : e \in Waiting} \ {n}
    BY <1>9 DEF TreeInv
  <2>3. Owing' = Owing \cup Revealed(n)
    BY <1>2, <1>3, MoreOwed
  <2>4. n \notin Owing
    BY <2>1 DEF Owing
  <2>5. Todo' = {node'[e] : e \in Waiting'} \cup Owing'
    BY DEF Todo
  <2> QED BY <2>2, <2>3, <2>4, <2>5 DEF Todo
<1>11. n \notin Counted
  BY <1>9 DEF Counted
<1>12. Counted' = IF n \in Files \ Unreadable THEN Counted \cup {n} ELSE Counted
  <2>1. \A f : (\E e \in (1..used) \ Waiting' : node[e] = f)
               <=> f = n \/ \E e \in (1..used) \ Waiting : node[e] = f
    BY <1>1, <1>9
  <2>2. Counted' = {f \in Files \ Unreadable : \E e \in (1..used) \ Waiting' : node[e] = f}
    BY DEF Counted
  <2> QED BY <2>1, <2>2 DEF Counted
<1> QED BY <1>7, <1>8, <1>10, <1>11, <1>12

\* A step that makes an element of a name.
LEMMA TreeName ==
  ASSUME Tree, TreeInv, StateOK, NEW i \in Threads, pc[i] = "name", pc'[i] = "insert",
         local[i].el \notin Waiting,
         used + 1 \in Elements, used' = used + 1, used \in Nat, used >= 1,
         local'[i].el = local[i].el, local'[i].unread = local[i].unread,
         node' = [node EXCEPT ![used + 1] = Target[node[local[i].el]][entry]],
         Waiting' = Waiting \cup {used + 1}, entry' = entry,
         \A t \in Threads : t # i => Reads(t)' /\ Owed(t)' = Owed(t) /\ local'[t].el = local[t].el,
         \A t \in Threads : t # i => Owed(t) = {}
  PROVE  TreeInv' /\ Todo' = Todo /\ Counted' = Counted
<1> DEFINE el == local[i].el
           d == node[el]
           x == Target[d][entry]
<1>1. "name" \in Reading /\ "insert" \in Reading
  BY DEF Reading, InsertSteps
<1>2. Lists(i) /\ el \in 1..used /\ Listed(d)
  BY <1>1 DEF TreeInv, Reads, Lists
<1>3. /\ entry \in ToSet(Listing[d]) /\ entry # Dot /\ entry # DotDot
      /\ entry \notin ToSet(local[i].unread) /\ ToSet(local[i].unread) \subseteq ToSet(Listing[d])
      /\ Unlisted(i) = ToSet(local[i].unread) \cup {entry}
  BY <1>2 DEF Lists, Unlisted
<1>4. Unlisted(i)' = ToSet(local[i].unread)
  BY DEF Unlisted
<1>5. 1..used' = (1..used) \cup {used + 1} /\ used + 1 \notin 1..used
  OBVIOUS
<1>6. /\ node'[used + 1] = x /\ \A e \in 1..used : node'[e] = node[e]
  <2>1. MaxElements \in Nat /\ used + 1 <= MaxElements
    BY Numbers DEF Elements
  <2>2. 1..used \subseteq Elements
    BY <2>1 DEF Elements
  <2>3. node \in [Elements -> Nodes \cup {Nowhere}]
    BY DEF StateOK
  <2> QED BY <1>5, <2>2, <2>3
<1>7. /\ x \notin Entries(d, ToSet(local[i].unread))
      /\ Entries(d, {entry}) = {x} /\ x \in Revealed(d)
  <2> HIDE DEF x, d
  <2> QED BY <1>2, <1>3, EntryOnce DEF x
<1>8. Owed(i) = Owed(i)' \cup {x} /\ x \notin Owed(i)'
  <2>1. Owed(i) = Entries(d, ToSet(local[i].unread) \cup {entry})
    BY <1>1, <1>3 DEF Owed
  <2>2. Owed(i)' = Entries(d, ToSet(local[i].unread))
    BY <1>1, <1>2, <1>4, <1>6 DEF Owed
  <2> QED BY <1>7, <2>1, <2>2, TreeFacts
<1>9. x \notin Known /\ Known' = Known \cup {x}
  <2>1. x \notin Known
    BY <1>8 DEF TreeInv, Untouched
  <2>2. Known' = Known \cup {x}
    BY <1>5, <1>6 DEF Known
  <2> QED BY <2>1, <2>2
<1>10. Reads(i)'
  <2>1. Lists(i)'
    BY <1>2, <1>3, <1>4, <1>5, <1>6 DEF Lists
  <2> QED BY <1>1, <2>1 DEF Reads
<1>11. Waiting \subseteq 1..used
  BY DEF TreeInv
<1>12. Planted'
  <2>1. node'[1] = Root
    BY <1>6 DEF TreeInv, Planted
  <2>2. ASSUME NEW e \in 1..used', NEW f \in 1..used', node'[e] = node'[f] PROVE e = f
    BY <1>5, <1>6, <1>9, <2>2 DEF TreeInv, Planted, Known
  <2>3. ASSUME NEW e \in 2..used' PROVE \E f \in 1..used' : node'[e] \in Revealed(node'[f])
    <3>1. CASE e = used + 1
      BY <1>2, <1>5, <1>6, <1>7, <3>1
    <3>2. CASE e # used + 1
      <4>1. e \in 2..used /\ e \in 1..used
        BY <3>2
      <4> QED BY <1>5, <1>6, <4>1 DEF TreeInv, Planted
    <3> QED BY <3>1, <3>2
  <2> QED BY <2>1, <2>2, <2>3 DEF Planted
<1>13. d \in Known /\ x # Root
  <2>1. d \in Known
    BY <1>2 DEF Known
  <2> QED BY <1>7, <2>1, TreeFacts
\* Nothing that x reveals is known, for its parent would be.
<1>14. Revealed(x) \cap (Known \cup {x}) = {}
  <2> SUFFICES ASSUME NEW y \in Revealed(x), y \in Known \cup {x} PROVE FALSE
    OBVIOUS
  <2>1. y # Root /\ \A m : y \in Revealed(m) => m = x
    BY TreeFacts
  <2>2. CASE y = x
    <3>1. d = x
      BY <1>7, <2>1, <2>2
    <3> QED BY <1>9, <1>13, <3>1
  <2>3. CASE y \in Known
    <3>1. PICK e \in 1..used : y = node[e]
      BY <2>3 DEF Known
    <3>2. e # 1
      BY <2>1, <3>1 DEF TreeInv, Planted
    <3>3. e \in 2..used
      BY <3>2
    <3>4. PICK f \in 1..used : y \in Revealed(node[f])
      BY <3>1, <3>3 DEF TreeInv, Planted
    <3>5. x = node[f]
      BY <2>1, <3>4
    <3> QED BY <1>9, <3>5 DEF Known
  <2> QED BY <2>2, <2>3
<1>15. Untouched'
  <2>1. ASSUME NEW e \in Waiting' PROVE Revealed(node'[e]) \cap Known' = {}
    <3>1. CASE e = used + 1
      BY <1>6, <1>9, <1>14, <3>1
    <3>2. CASE e \in Waiting
      <4>1. node'[e] = node[e] /\ Revealed(node[e]) \cap Known = {}
        BY <1>6, <1>11, <3>2 DEF TreeInv, Untouched
      <4>2. x \notin Revealed(node[e])
        <5>1. SUFFICES ASSUME x \in Revealed(node[e]) PROVE FALSE
          OBVIOUS
        <5>2. node[e] = d
          BY <1>7, <5>1, TreeFacts
        <5>3. e = el
          BY <1>2, <1>11, <3>2, <5>2 DEF TreeInv, Planted
        <5> QED BY <3>2, <5>3
      <4> QED BY <1>9, <4>1, <4>2
    <3> QED BY <3>1, <3>2
  <2>2. ASSUME NEW t \in Threads PROVE Owed(t)' \cap Known' = {}
    <3>1. CASE t = i
      BY <1>8, <1>9, <3>1 DEF TreeInv, Untouched
    <3>2. CASE t # i
      BY <3>2
    <3> QED BY <3>1, <3>2
  <2> QED BY <2>1, <2>2 DEF Untouched
<1>16. Complete'
  <2> SUFFICES ASSUME NEW e \in (1..used') \ Waiting', NEW y \in Revealed(node'[e])
               PROVE  y \in Known' \/ \E t \in Threads : local'[t].el = e /\ y \in Owed(t)'
    BY DEF Complete
  <2>1. e \in (1..used) \ Waiting /\ node'[e] = node[e]
    BY <1>5, <1>6
  <2>2. y \in Known \/ \E t \in Threads : local[t].el = e /\ y \in Owed(t)
    BY <2>1 DEF TreeInv, Complete
  <2> QED BY <1>8, <1>9, <2>2
<1>17. TreeInv'
  <2>1. Waiting' \subseteq 1..used'
    BY <1>5, <1>11
  <2> QED BY <1>10, <1>12, <1>15, <1>16, <2>1 DEF TreeInv
<1>18. Todo' = Todo
  <2>1. {node'[e] : e \in Waiting'} = {node[e] : e \in Waiting} \cup {x}
    BY <1>6, <1>11
  <2>2. Owing = Owing' \cup {x}
    BY <1>8, LessOwed
  <2>3. Todo' = {node'[e] : e \in Waiting'} \cup Owing'
    BY DEF Todo
  <2> QED BY <2>1, <2>2, <2>3 DEF Todo
<1>19. Counted' = Counted
  <2>1. (1..used') \ Waiting' = (1..used) \ Waiting
    BY <1>5
  <2>2. Counted' = {f \in Files \ Unreadable : \E e \in (1..used) \ Waiting : node'[e] = f}
    BY <2>1 DEF Counted
  <2> QED BY <1>6, <2>2 DEF Counted
<1> QED BY <1>17, <1>18, <1>19


\* What a thread owes as it reads on does not change.
LEMMA ReadOn ==
  ASSUME Tree, StateOK, NEW i \in Threads, Reads(i), Read(i), used' = used
  PROVE  /\ Reads(i)' /\ Owed(i)' = Owed(i)
         /\ local'[i].el = local[i].el
<1> DEFINE unread == local[i].unread
           d == node[local[i].el]
<1>1. pc[i] = "read" /\ "read" \in Reading /\ "dot" \in Reading /\ "return" \notin Reading
  BY DEF Read, At, Reading, InsertSteps
<1>2. /\ Lists(i) /\ unread \in Seq(Names) /\ IsInjective(unread)
      /\ Unlisted(i) = ToSet(unread) /\ ToSet(unread) \subseteq ToSet(Listing[d])
      /\ local \in [Threads -> Locals] /\ pc \in [Threads -> Steps]
  <2>1. Lists(i) /\ local \in [Threads -> Locals] /\ pc \in [Threads -> Steps]
    BY <1>1 DEF Reads, StateOK
  <2>2. unread \in Seq(Names)
    BY <2>1 DEF Locals
  <2>3. Unlisted(i) = ToSet(unread)
    BY <1>1 DEF Unlisted
  <2> QED BY <2>1, <2>2, <2>3 DEF Lists
<1>3. node' = node
  BY DEF Read
<1>4. CASE unread # <<>>
  <2>1. /\ entry' = Head(unread) /\ local'[i].unread = Tail(unread) /\ pc'[i] = "dot"
        /\ local'[i].el = local[i].el
    <3>1. /\ entry' = Head(unread) /\ local' = [local EXCEPT ![i].unread = Tail(unread)]
          /\ pc' = [pc EXCEPT ![i] = "dot"]
      BY <1>4 DEF Read, Goto
    <3>2. local[i] \in Locals
      BY <1>2
    <3> QED BY <1>2, <3>1, <3>2 DEF Locals
  <2>2. /\ ToSet(unread) = {Head(unread)} \cup ToSet(Tail(unread))
        /\ Head(unread) \notin ToSet(Tail(unread)) /\ IsInjective(Tail(unread))
    BY <1>2, <1>4, HeadTail
  <2>3. Unlisted(i)' = ToSet(unread)
    BY <2>1, <2>2 DEF Unlisted
  <2>4. Lists(i)'
    BY <1>2, <1>3, <2>1, <2>2, <2>3 DEF Lists
  <2>5. Owed(i)' = Owed(i)
    BY <1>1, <1>2, <1>3, <2>1, <2>3 DEF Owed
  <2> QED BY <1>1, <2>1, <2>4, <2>5 DEF Reads
<1>5. CASE unread = <<>>
  <2>1. local' = local /\ pc'[i] = "return"
    BY <1>2, <1>5 DEF Read, Goto
  <2>2. Unlisted(i) = {}
    BY <1>2, <1>5 DEF ToSet
  <2>3. Owed(i) = {} /\ Owed(i)' = {}
    BY <1>1, <2>1, <2>2, TreeFacts DEF Owed
  <2> QED BY <1>1, <1>5, <2>1, <2>3 DEF Reads
<1> QED BY <1>4, <1>5

LEMMA SkipOn ==
  ASSUME Tree, StateOK, NEW i \in Threads, Reads(i), SkipDot(i) \/ SkipDotDot(i)
  PROVE  /\ Reads(i)' /\ Owed(i)' = Owed(i)
         /\ local'[i].el = local[i].el
<1> DEFINE unread == local[i].unread
           d == node[local[i].el]
<1>1. {"read", "dot", "dotdot", "name"} \subseteq Reading
  BY DEF Reading
<1>2. /\ pc[i] \in {"dot", "dotdot"} /\ local' = local /\ entry' = entry /\ node' = node /\ used' = used
      /\ pc'[i] = IF entry = (IF pc[i] = "dot" THEN Dot ELSE DotDot) THEN "read"
                  ELSE IF pc[i] = "dot" THEN "dotdot" ELSE "name"
  BY DEF SkipDot, SkipDotDot, At, Goto, memory, queue, StateOK
<1>3. Lists(i) /\ Unlisted(i) = ToSet(unread) \cup {entry}
  BY <1>1, <1>2 DEF Reads, Unlisted
<1>4. CASE pc'[i] = "read"
  <2>1. entry \in {Dot, DotDot}
    BY <1>2, <1>4
  <2>2. Unlisted(i)' = ToSet(unread)
    BY <1>2, <1>4 DEF Unlisted
  <2>3. Entries(d, Unlisted(i)') = Entries(d, Unlisted(i))
    BY <1>3, <2>1, <2>2 DEF Entries
  <2>4. Lists(i)'
    BY <1>2, <1>3, <1>4, <2>2 DEF Lists
  <2>5. Owed(i)' = Owed(i)
    BY <1>1, <1>2, <1>4, <2>3 DEF Owed
  <2> QED BY <1>1, <1>2, <1>4, <2>4, <2>5 DEF Reads
<1>5. CASE pc'[i] # "read"
  <2>1. Unlisted(i)' = Unlisted(i)
    BY <1>2, <1>3, <1>5 DEF Unlisted
  <2>2. Lists(i)'
    BY <1>2, <1>3, <1>5, <2>1 DEF Lists
  <2>3. Owed(i)' = Owed(i)
    BY <1>1, <1>2, <1>5, <2>1 DEF Owed
  <2> QED BY <1>1, <1>2, <1>5, <2>2, <2>3 DEF Reads
<1> QED BY <1>4, <1>5

LEMMA InsertOn ==
  ASSUME NEW i \in Threads, Reads(i), pc[i] \in InsertSteps, pc'[i] \in InsertSteps \cup {"read"},
         local'[i].el = local[i].el, local'[i].unread = local[i].unread,
         node' = node, used' = used
  PROVE  Reads(i)' /\ Owed(i)' = Owed(i)
<1>1. pc[i] \in Reading /\ pc'[i] \in Reading
  BY DEF Reading
<1>2. pc[i] \notin {"dot", "dotdot", "name"} /\ pc'[i] \notin {"dot", "dotdot", "name"}
  BY DEF InsertSteps
<1>3. Unlisted(i)' = Unlisted(i)
  BY <1>2 DEF Unlisted
<1>4. Lists(i)
  BY <1>1 DEF Reads
<1>5. Lists(i)'
  BY <1>2, <1>3, <1>4 DEF Lists
<1>6. Owed(i)' = Owed(i)
  BY <1>1, <1>3 DEF Owed
<1> QED BY <1>1, <1>5, <1>6 DEF Reads

\* So does a thread that lists nothing before and after.
LEMMA IdleOn ==
  ASSUME NEW i \in Threads, Reads(i), pc[i] \notin Reading, pc'[i] \notin Reading,
         local'[i].unread = local[i].unread \/ local'[i].unread = <<>>
  PROVE  Reads(i)' /\ Owed(i)' = Owed(i) /\ Owed(i) = {}
BY DEF Reads, Owed

LEMMA KnownNodes ==
  ASSUME Tree, TreeInv
  PROVE  Known \subseteq Nodes
<1>1. SUFFICES ASSUME NEW e \in 1..used PROVE node[e] \in Nodes
  BY DEF Known
<1>2. CASE e = 1
  BY <1>2, MiniGrepAssumption DEF TreeInv, Planted, Nodes
<1>3. CASE e # 1
  <2>1. e \in 2..used
    BY <1>3
  <2>2. \E f \in 1..used : node[e] \in Revealed(node[f])
    BY <2>1 DEF TreeInv, Planted
  <2> QED BY <2>2, TreeFacts
<1> QED BY <1>2, <1>3

\* What handling something adds.
LEMMA YieldIs ==
  ASSUME Tree, NEW n \in Nodes
  PROVE  /\ n \in Files \ Unreadable => Yield(n) = Hits[n] /\ ~Listed(n)
         /\ n \notin Files \ Unreadable => Yield(n) = 0
<1>1. n # Nowhere
  BY MiniGrepAssumption
<1>2. ASSUME n \in Files \ Unreadable PROVE n \notin Dirs \cup Unreadable
  BY <1>2 DEF Tree
<1>3. ASSUME n \notin Files \ Unreadable PROVE n \in Dirs \cup Unreadable
  BY <1>3 DEF Nodes
<1> QED BY <1>1, <1>2, <1>3 DEF Yield, Listed

\* One more file counted.
LEMMA HitsMore ==
  ASSUME Tree, NEW S \in SUBSET (Files \ Unreadable), NEW n \in (Files \ Unreadable) \ S
  PROVE  SumTo(Hits, S \cup {n}) = SumTo(Hits, S) + Hits[n]
<1>1. IsFiniteSet(S \cup {n}) /\ IsFiniteSet(S)
  <2>1. IsFiniteSet(Files) /\ S \cup {n} \in SUBSET Files
    BY DEF Tree
  <2> QED BY <2>1, FS_Subset
<1>2. \A x \in S \cup {n} : Hits[x] \in Int
  BY MiniGrepAssumption
<1>3. SumTo(Hits, S \cup {n}) = Hits[n] + SumTo(Hits, (S \cup {n}) \ {n})
  BY <1>1, <1>2, SumRemove
<1>4. (S \cup {n}) \ {n} = S
  OBVIOUS
<1>5. SumTo(Hits, S) \in Int /\ Hits[n] \in Int
  BY <1>1, <1>2, SumRemove
<1>6. SumTo(Hits, (S \cup {n}) \ {n}) = SumTo(Hits, S)
  BY <1>4
<1> QED BY <1>3, <1>5, <1>6

\* Two lists of next pointers that agree on a chain have the same chain.
LEMMA ReachSame ==
  ASSUME NEW nx \in [Elements -> Pointers], NEW ny \in [Elements -> Pointers],
         NEW p \in Pointers, \A e \in Reach(nx, p) : ny[e] = nx[e]
  PROVE  Reach(ny, p) = Reach(nx, p)
<1>1. /\ Reach(nx, p) \in SUBSET Elements /\ p \in Reach(nx, p) \cup {NULL}
      /\ Closed(nx, Reach(nx, p))
  BY ReachHas
<1>2. Reach(ny, p) \subseteq Reach(nx, p)
  <2>1. Closed(ny, Reach(nx, p))
    BY <1>1 DEF Closed
  <2> QED BY <1>1, <2>1, ReachWithin
<1>3. Reach(nx, p) \subseteq Reach(ny, p)
  <2>1. /\ Reach(ny, p) \in SUBSET Elements /\ p \in Reach(ny, p) \cup {NULL}
        /\ Closed(ny, Reach(ny, p))
    BY ReachHas
  <2>2. Closed(nx, Reach(ny, p))
    BY <1>2, <2>1 DEF Closed
  <2> QED BY <2>1, <2>2, ReachWithin
<1> QED BY <1>2, <1>3

-----------------------------------------------------------------------------
(* What each thread knows of its queue, and that no two have one element.  *)

\* One thread at a time is in handle_dir.
Alone == \A t, u \in Listers : t = u

\* What a thread that inserts has seen still holds, and the tail is in the queue.
Tails(q) ==
  LET new == local[q].new IN
  /\ pc[q] = "set head" => head[q] = NULL
  /\ pc[q] = "get next" => tail[q] \in Elements /\ next[tail[q]] = new /\ new \in Chained(q)
  /\ pc[q] = "set tail" => local[q].reg = new /\ new \in Chained(q)
  /\ pc[q] \notin {"get next", "set tail"} /\ head[q] # NULL => tail[q] \in Chained(q)

Handling == Busy \cup {"open", "exit"}
Hands ==
  \A t, u \in Threads :
    t # u /\ pc[t] \in Handling /\ pc[u] \in Handling => local[t].el # local[u].el

Serial == (\A q \in Queues : Tails(q)) /\ Hands

\* A file or a directory that cannot be listed is counted.
Counts(i) == pc[i] = "stat" /\ pc'[i] = "return"

\* What the steps that handle nothing do.
Still ==
  /\ Serial' /\ TreeInv' /\ Todo' = Todo /\ Counted' = Counted
  /\ \A i \in Workers : ~Counts(i)

\* Where the search stands: what the proofs below take up at each step.
Now == PartedInv /\ Serial /\ TreeInv /\ Alone

\* Only t moves, and at its own queue.
Lone(t) ==
  \A u \in Threads : u # t => /\ pc'[u] = pc[u] /\ local'[u] = local[u]
                              /\ head'[u] = head[u] /\ tail'[u] = tail[u]

\* The types that the proofs below need.
LEMMA Kinds ==
  ASSUME PartedInv
  PROVE  /\ pc \in [Threads -> Steps] /\ local \in [Threads -> Locals]
         /\ next \in [Elements -> Pointers] /\ node \in [Elements -> Nodes \cup {Nowhere}]
         /\ head \in [Threads -> Pointers] /\ tail \in [Threads -> Pointers]
         /\ \A t \in Threads : /\ head[t] \in Pointers /\ local[t].el \in Pointers
                               /\ local[t].new \in Pointers /\ QueueOf(t) = t
                               /\ local[t] \in Locals
         /\ used \in Nat /\ used >= 1 /\ ~fault /\ StateOK /\ Roles
<1>1. StateOK /\ Roles /\ ~fault
  BY DEF PartedInv, Typed, Parted
<1>2. \A t \in Threads : QueueOf(t) = t
  BY <1>1, OwnQueue
<1> QED BY <1>1, <1>2, Numbers DEF StateOK, Locals

\* The sets of the queues have the chains.
LEMMA InSets ==
  ASSUME PartedInv
  PROVE  \E S \in [Queues -> SUBSET Elements] :
           Parted(S) /\ \A q \in Queues : Chained(q) \subseteq S[q]
<1>1. PICK S \in [Queues -> SUBSET Elements] : Parted(S)
  BY DEF PartedInv
<1>2. ASSUME NEW q \in Queues PROVE Chained(q) \subseteq S[q]
  <2>1. Line(S, q) /\ S[q] \in SUBSET Elements
    BY <1>1 DEF Parted
  <2>2. head[q] \in S[q] \cup {NULL} /\ Closed(next, S[q])
    BY <2>1 DEF Line, Closed
  <2> QED BY <2>1, <2>2, ReachWithin DEF Chained
<1> QED BY <1>1, <1>2

\* What the queues have is in one place.
LEMMA QueueFacts ==
  ASSUME PartedInv
  PROVE  /\ \A t \in Threads : Chained(t) \in SUBSET Elements
         /\ \A t, u \in Threads : t # u => Chained(t) \cap Chained(u) = {}
         /\ \A t, u \in Threads : pc[t] \in Handling => local[t].el \notin Chained(u)
         /\ \A t \in Threads : head[t] # NULL => head[t] \in Chained(t)
<1>1. PICK S \in [Queues -> SUBSET Elements] :
        Parted(S) /\ \A q \in Queues : Chained(q) \subseteq S[q]
  BY InSets
<1>2. \A t \in Threads : Chained(t) \in SUBSET Elements
  BY <1>1, Numbers
<1>3. \A t, u \in Threads : t # u => Chained(t) \cap Chained(u) = {}
  BY <1>1, Numbers DEF Parted, Apart
<1>4. \A t, u \in Threads : pc[t] \in Handling => local[t].el \notin Chained(u)
  BY <1>1, Numbers DEF Parted, Apart, Handling
<1>5. ASSUME NEW t \in Threads, head[t] # NULL PROVE head[t] \in Chained(t)
  BY <1>5, Kinds, ReachHas DEF Chained
<1> QED BY <1>2, <1>3, <1>4, <1>5

\* A new element is nowhere.
LEMMA NewFacts ==
  ASSUME PartedInv, NEW t \in Threads, pc[t] \in Linking
  PROVE  LET new == local[t].new IN
         /\ new \in Elements /\ next[new] = NULL
         /\ \A u \in Threads : new \notin Chained(u) /\ local[u].el # new
<1>1. PICK S \in [Queues -> SUBSET Elements] :
        Parted(S) /\ \A q \in Queues : Chained(q) \subseteq S[q]
  BY InSets
<1>2. local[t].new \in Elements
  <2>1. local[t].new \in 1..used /\ used \in 1..MaxElements
    BY DEF PartedInv, Typed, InHand, StateOK
  <2> QED BY <2>1, Numbers DEF Elements
<1>3. Loose(local[t].new)
  BY DEF Loose
<1> QED BY <1>1, <1>2, <1>3, Numbers DEF Parted, LooseEnds

\* What a thread has seen of its own queue.
LEMMA EndFacts ==
  ASSUME PartedInv, NEW t \in Threads
  PROVE  /\ pc[t] \in {"get tail", "link", "get next", "take", "follow", "advance"} => head[t] # NULL
         /\ pc[t] = "link" => local[t].reg = tail[t]
         /\ pc[t] \notin {"get next", "set tail"} /\ head[t] # NULL => next[tail[t]] = NULL
         /\ pc[t] \in {"follow", "advance"} => local[t].el = head[t]
         /\ pc[t] = "advance" => local[t].reg = next[head[t]]
BY Numbers DEF PartedInv, Parted, End

\* Where the others are that list.
LEMMA AloneOthers ==
  ASSUME Alone, NEW t \in Threads, pc[t] \in Reading
  PROVE  \A u \in Threads : u # t => pc[u] \notin Reading
BY DEF Alone, Listers, Reading

LEMMA OthersTails ==
  ASSUME Serial, NEW t \in Threads, Lone(t), next' = next, Tails(t)'
  PROVE  \A q \in Queues : Tails(q)'
<1> SUFFICES ASSUME NEW q \in Queues, q # t PROVE Tails(q)'
  OBVIOUS
<1>1. Tails(q) /\ pc'[q] = pc[q] /\ local'[q] = local[q] /\ head'[q] = head[q] /\ tail'[q] = tail[q]
  BY Numbers DEF Serial, Lone
<1> QED BY <1>1 DEF Tails, Chained

\* A thread that has not touched its queue.
LEMMA CalmTails ==
  ASSUME Serial, NEW t \in Threads, Lone(t), next' = next, head' = head, tail' = tail,
         pc[t] \notin {"get next", "set tail"}, pc'[t] \notin {"set head", "get next", "set tail"}
  PROVE  \A q \in Queues : Tails(q)'
<1>1. Tails(t)
  BY Numbers DEF Serial
<1>2. Tails(t)'
  BY <1>1 DEF Tails, Chained
<1> QED BY <1>2, OthersTails

LEMMA HandsKept ==
  ASSUME Serial, NEW t \in Threads,
         \A u \in Threads : u # t => pc'[u] = pc[u] /\ local'[u] = local[u],
         \/ pc[t] \in Handling /\ local'[t].el = local[t].el
         \/ pc'[t] \notin Handling
         \/ \A u \in Threads : u # t /\ pc[u] \in Handling => local[u].el # local'[t].el
  PROVE  Hands'
BY DEF Serial, Hands

\* What the threads have is what they had.
LEMMA SameWaiting ==
  ASSUME \A t \in Threads : Has(t)' = Has(t)
  PROVE  Waiting' = Waiting
<1>1. ASSUME NEW e \in Waiting PROVE e \in Waiting'
  BY <1>1 DEF Waiting
<1>2. ASSUME NEW e \in Waiting' PROVE e \in Waiting
  BY <1>2 DEF Waiting
<1> QED BY <1>1, <1>2

\* A thread has an element more, or one less that no other has.
LEMMA MoreWaiting ==
  ASSUME NEW t \in Threads, NEW n, Has(t)' = Has(t) \cup {n},
         \A u \in Threads : u # t => Has(u)' = Has(u)
  PROVE  Waiting' = Waiting \cup {n}
<1>1. ASSUME NEW e \in Waiting \cup {n} PROVE e \in Waiting'
  BY <1>1 DEF Waiting
<1>2. ASSUME NEW e \in Waiting' PROVE e \in Waiting \cup {n}
  BY <1>2 DEF Waiting
<1> QED BY <1>1, <1>2

LEMMA LessWaiting ==
  ASSUME NEW t \in Threads, NEW n \in Has(t), Has(t)' = Has(t) \ {n},
         \A u \in Threads : u # t => Has(u)' = Has(u) /\ n \notin Has(u)
  PROVE  n \in Waiting /\ Waiting' = Waiting \ {n}
<1>1. ASSUME NEW e \in Waiting \ {n} PROVE e \in Waiting'
  BY <1>1 DEF Waiting
<1>2. ASSUME NEW e \in Waiting' PROVE e \in Waiting \ {n}
  BY <1>2 DEF Waiting
<1>3. n \in Waiting
  BY DEF Waiting
<1> QED BY <1>1, <1>2, <1>3

\* A thread that does nothing has what it had.
LEMMA OthersHas ==
  ASSUME NEW t \in Threads, Lone(t), NEW u \in Threads, u # t, next' = next
  PROVE  Has(u)' = Has(u)
<1>1. pc'[u] = pc[u] /\ local'[u] = local[u] /\ head'[u] = head[u]
  BY DEF Lone
<1> QED BY <1>1 DEF Has, Holds, Chained

\* An element that is being handled is neither queued nor in another hand.
LEMMA ElApart ==
  ASSUME PartedInv, Serial, NEW i \in Threads, pc[i] \in Handling
  PROVE  \A t \in Threads : local[i].el \notin Chained(t) /\ (t # i => local[i].el \notin Holds(t))
<1> SUFFICES ASSUME NEW t \in Threads
             PROVE  local[i].el \notin Chained(t) /\ (t # i => local[i].el \notin Holds(t))
  OBVIOUS
<1>1. local[i].el \notin Chained(t)
  BY QueueFacts
<1>2. ASSUME t # i, pc[t] \in {"open", "exit", "stat"} PROVE local[i].el # local[t].el
  BY <1>2 DEF Serial, Hands, Handling, Busy, HandleSteps
<1>3. ASSUME pc[t] \in {"follow", "advance"} PROVE local[i].el # local[t].el
  <2>1. local[t].el = head[t] /\ head[t] # NULL
    BY <1>3, EndFacts
  <2>2. head[t] \in Chained(t)
    BY <2>1, QueueFacts
  <2> QED BY <1>1, <2>1, <2>2
<1>4. ASSUME pc[t] \in InsertSteps PROVE local[i].el # local[t].new
  <2>1. CASE pc[t] \in Linking
    BY <2>1, NewFacts
  <2>2. CASE pc[t] \in {"get next", "set tail"}
    <3>1. local[t].new \in Chained(t)
      BY <2>2, Numbers DEF Serial, Tails
    <3> QED BY <1>1, <3>1
  <2> QED BY <1>4, <2>1, <2>2 DEF InsertSteps, Linking
<1>5. t # i => local[i].el \notin Holds(t)
  BY <1>2, <1>3, <1>4 DEF Holds
<1> QED BY <1>1, <1>5

LEMMA StillIs ==
  ASSUME TreeInv, Serial', node' = node, used' = used, Waiting' = Waiting,
         \A t \in Threads : Reads(t)' /\ Owed(t)' = Owed(t) /\ (Owed(t) # {} => local'[t].el = local[t].el),
         \A t \in Threads : pc'[t] = pc[t] \/ pc[t] # "stat"
  PROVE  Still
<1>1. TreeInv' /\ Todo' = Todo /\ Counted' = Counted
  BY TreeSame
<1>2. \A i \in Workers : ~Counts(i)
  BY Numbers DEF Counts
<1> QED BY <1>1, <1>2 DEF Still

\* A step of t that handles nothing.
LEMMA OwnStill ==
  ASSUME Now, NEW t \in Threads, Serial', node' = node, used' = used,
         \A u \in Threads : u # t => pc'[u] = pc[u] /\ local'[u] = local[u],
         entry' = entry \/ pc[t] \in Reading,
         Reads(t)', Owed(t)' = Owed(t), Owed(t) # {} => local'[t].el = local[t].el,
         pc'[t] = pc[t] \/ pc[t] # "stat",
         \A u \in Threads : Has(u)' = Has(u)
  PROVE  Still
<1>1. Waiting' = Waiting
  BY SameWaiting
<1>2. ASSUME NEW u \in Threads
      PROVE  Reads(u)' /\ Owed(u)' = Owed(u) /\ (Owed(u) # {} => local'[u].el = local[u].el)
  <2>1. CASE u # t
    <3>1. entry' = entry \/ pc[u] \notin {"dot", "dotdot", "name"}
      BY <2>1, AloneOthers DEF Now, Reading
    <3> QED BY <2>1, <3>1, StillReads DEF Now
  <2> QED BY <2>1
<1> QED BY <1>1, <1>2, StillIs DEF Now

\* A step of t within the loops of serialSearchActual or of main.
LEMMA IdleStill ==
  ASSUME Now, NEW t \in Threads, Lone(t), node' = node, used' = used, next' = next, entry' = entry,
         \A q \in Queues : Tails(q)', Hands',
         pc[t] \notin Reading \cup {"stat"}, pc'[t] \notin Reading,
         local'[t].unread = local[t].unread \/ local'[t].unread = <<>>,
         Has(t)' = Has(t)
  PROVE  Still
<1>1. Reads(t)' /\ Owed(t)' = Owed(t) /\ Owed(t) = {}
  BY IdleOn DEF Now, TreeInv
<1>2. \A u \in Threads : Has(u)' = Has(u)
  BY OthersHas
<1>3. Serial'
  BY DEF Serial
<1>4. \A u \in Threads : u # t => pc'[u] = pc[u] /\ local'[u] = local[u]
  BY DEF Lone
<1> QED BY <1>1, <1>2, <1>3, <1>4, OwnStill

-----------------------------------------------------------------------------
(* The steps of handle_element.                                            *)

\* What a step of t leaves to the others.
LEMMA OwnStepIs ==
  ASSUME PartedInv, NEW t \in Threads, HandleStep(t), UNCHANGED mainVars
  PROVE  OwnStep(t) /\ Lone(t)
<1>1. Typed
  BY DEF PartedInv
<1>2. OwnStep(t)
  <2>1. CASE Name(t)
    <3>1. used + 1 \in Elements /\ used + 1 > used
      BY <2>1, Kinds, Numbers DEF Name, Elements
    <3>2. Loose(used + 1)
      BY <3>1 DEF Loose
    <3>3. \A u \in Threads : local[u].el # used + 1
      BY <3>1, <3>2 DEF PartedInv, Parted, LooseEnds
    <3> QED BY <1>1, <2>1, <3>3, NameTypes
  <2>2. CASE ~Name(t)
    BY <1>1, <2>2, StatTypes, ReadTypes, SkipDotTypes, SkipDotDotTypes, InsertTypes,
       SetHeadTypes, GetTailTypes, LinkTypes, GetNextTypes, SetTailTypes DEF HandleStep
  <2> QED BY <2>1, <2>2
<1>3. QueueOf(t) = t
  BY Kinds
<1>4. \A u \in Threads : u # t => head'[u] = head[u] /\ tail'[u] = tail[u]
  <2>1. head' = head \/ head' = [head EXCEPT ![t] = local[t].new]
    BY <1>3 DEF HandleStep, Stat, Read, SkipDot, SkipDotDot, Name, Insert, SetHead, GetTail, Link,
       GetNext, SetTail, queue
  <2>2. tail' = tail \/ tail' = [tail EXCEPT ![t] = local[t].reg]
    BY <1>3 DEF HandleStep, Stat, Read, SkipDot, SkipDotDot, Name, Insert, SetHead, GetTail, Link,
       GetNext, SetTail, queue
  <2> QED BY <2>1, <2>2, Kinds
<1>5. Lone(t)
  BY <1>2, <1>4 DEF OwnStep, Lone
<1> QED BY <1>2, <1>5

\* The hands, after a step of handle_element.
LEMMA OwnHands ==
  ASSUME Serial, NEW t \in Threads, OwnStep(t)
  PROVE  Hands'
<1>1. pc[t] \in Handling /\ local'[t].el = local[t].el
  BY DEF OwnStep, Handling
<1> QED BY <1>1, HandsKept DEF OwnStep

\* A step that inserts leaves the tree as it is.
LEMMA InsertStill ==
  ASSUME Now, NEW t \in Threads, OwnStep(t), pc[t] \in InsertSteps, pc'[t] \in InsertSteps \cup {"read"},
         local'[t].unread = local[t].unread,
         node' = node, used' = used, entry' = entry, \A q \in Queues : Tails(q)',
         \A u \in Threads : Has(u)' = Has(u)
  PROVE  Still
<1>1. Reads(t) /\ local'[t].el = local[t].el
  BY DEF Now, TreeInv, OwnStep
<1>2. Reads(t)' /\ Owed(t)' = Owed(t)
  BY <1>1, InsertOn
<1>3. Serial'
  BY OwnHands DEF Serial, Now
<1>4. pc[t] # "stat"
  BY DEF InsertSteps
<1> QED BY <1>1, <1>2, <1>3, <1>4, OwnStill DEF OwnStep

LEMMA InsertIsStill ==
  ASSUME Now, NEW t \in Threads, Insert(t), UNCHANGED mainVars
  PROVE  Still
<1>1. OwnStep(t) /\ Lone(t) /\ QueueOf(t) = t /\ Tails(t) /\ pc \in [Threads -> Steps]
  BY OwnStepIs, Kinds, Numbers DEF HandleStep, Now, Serial
<1>2. /\ pc[t] = "insert" /\ pc'[t] = IF head[t] = NULL THEN "set head" ELSE "get tail"
      /\ local' = local /\ node' = node /\ used' = used /\ next' = next
      /\ head' = head /\ tail' = tail /\ entry' = entry
  BY <1>1 DEF Insert, At, Goto, memory, queue
<1>3. pc[t] \in InsertSteps /\ pc'[t] \in InsertSteps
  BY <1>2 DEF InsertSteps
<1>4. \A q \in Queues : Tails(q)'
  <2>1. Tails(t)'
    BY <1>1, <1>2 DEF Tails, Chained
  <2> QED BY <1>1, <1>2, <2>1, OthersTails DEF Now
<1>5. ASSUME NEW u \in Threads PROVE Has(u)' = Has(u)
  <2>1. CASE u = t
    BY <1>2, <1>3, <2>1 DEF Has, Holds, Chained, InsertSteps
  <2> QED BY <1>1, <1>2, <2>1, OthersHas
<1> QED BY <1>1, <1>2, <1>3, <1>4, <1>5, InsertStill

LEMMA GetTailIsStill ==
  ASSUME Now, NEW t \in Threads, GetTail(t), UNCHANGED mainVars
  PROVE  Still
<1>1. OwnStep(t) /\ Lone(t) /\ QueueOf(t) = t /\ Tails(t) /\ pc \in [Threads -> Steps]
      /\ local \in [Threads -> Locals] /\ local[t] \in Locals
  BY OwnStepIs, Kinds, Numbers DEF HandleStep, Now, Serial
<1>2. /\ pc[t] = "get tail" /\ pc'[t] = "link"
      /\ local'[t].new = local[t].new /\ local'[t].unread = local[t].unread
      /\ node' = node /\ used' = used /\ next' = next
      /\ head' = head /\ tail' = tail /\ entry' = entry
  BY <1>1 DEF GetTail, At, Goto, memory, queue, Locals
<1>3. pc[t] \in InsertSteps /\ pc'[t] \in InsertSteps
  BY <1>2 DEF InsertSteps
<1>4. \A q \in Queues : Tails(q)'
  BY <1>1, <1>2, CalmTails DEF Now
<1>5. ASSUME NEW u \in Threads PROVE Has(u)' = Has(u)
  <2>1. CASE u = t
    BY <1>2, <1>3, <2>1 DEF Has, Holds, Chained, InsertSteps
  <2> QED BY <1>1, <1>2, <2>1, OthersHas
<1> QED BY <1>1, <1>2, <1>3, <1>4, <1>5, InsertStill

LEMMA GetNextIsStill ==
  ASSUME Now, NEW t \in Threads, GetNext(t), UNCHANGED mainVars
  PROVE  Still
<1>1. OwnStep(t) /\ Lone(t) /\ QueueOf(t) = t /\ Tails(t) /\ pc \in [Threads -> Steps]
      /\ local \in [Threads -> Locals] /\ local[t] \in Locals
  BY OwnStepIs, Kinds, Numbers DEF HandleStep, Now, Serial
<1>s. pc[t] = "get next"
  BY DEF GetNext, At
<1>q. tail[t] # NULL /\ next[tail[t]] = local[t].new /\ local[t].new \in Chained(t)
  BY <1>1, <1>s, Numbers DEF Tails
<1>2. /\ pc'[t] = "set tail" /\ local'[t].reg = local[t].new
      /\ local'[t].new = local[t].new /\ local'[t].unread = local[t].unread
      /\ node' = node /\ used' = used /\ next' = next
      /\ head' = head /\ tail' = tail /\ entry' = entry
  <2>1. local' = [local EXCEPT ![t].reg = next[tail[t]]] /\ pc' = [pc EXCEPT ![t] = "set tail"]
    BY <1>1, <1>q DEF GetNext, Goto
  <2>2. node' = node /\ used' = used /\ next' = next /\ head' = head /\ tail' = tail /\ entry' = entry
    BY DEF GetNext, memory, queue
  <2> QED BY <1>1, <1>q, <2>1, <2>2 DEF Locals
<1>3. pc[t] \in InsertSteps /\ pc'[t] \in InsertSteps
  BY <1>2, <1>s DEF InsertSteps
<1>4. \A q \in Queues : Tails(q)'
  <2>1. Tails(t)'
    BY <1>q, <1>2 DEF Tails, Chained
  <2> QED BY <1>1, <1>2, <2>1, OthersTails DEF Now
<1>5. ASSUME NEW u \in Threads PROVE Has(u)' = Has(u)
  <2>1. CASE u = t
    BY <1>s, <1>2, <1>3, <2>1 DEF Has, Holds, Chained, InsertSteps
  <2> QED BY <1>1, <1>2, <2>1, OthersHas
<1> QED BY <1>1, <1>2, <1>3, <1>4, <1>5, InsertStill

LEMMA SetTailIsStill ==
  ASSUME Now, NEW t \in Threads, SetTail(t), UNCHANGED mainVars
  PROVE  Still
<1>1. OwnStep(t) /\ Lone(t) /\ QueueOf(t) = t /\ Tails(t) /\ pc \in [Threads -> Steps]
      /\ local \in [Threads -> Locals] /\ local[t] \in Locals /\ tail \in [Threads -> Pointers]
  BY OwnStepIs, Kinds, Numbers DEF HandleStep, Now, Serial
<1>s. pc[t] = "set tail"
  BY DEF SetTail, At
<1>q. local[t].reg = local[t].new /\ local[t].new \in Chained(t)
  BY <1>1, <1>s DEF Tails
<1>2. /\ pc'[t] = "read" /\ tail'[t] = local[t].new
      /\ local'[t].unread = local[t].unread
      /\ node' = node /\ used' = used /\ next' = next
      /\ head' = head /\ entry' = entry
  <2>1. /\ local' = [local EXCEPT ![t].new = NULL, ![t].reg = NULL] /\ pc' = [pc EXCEPT ![t] = "read"]
        /\ tail' = [tail EXCEPT ![t] = local[t].reg]
    BY <1>1 DEF SetTail, Goto
  <2>2. node' = node /\ used' = used /\ next' = next /\ head' = head /\ entry' = entry
    BY DEF SetTail, memory
  <2> QED BY <1>1, <1>q, <2>1, <2>2, Numbers DEF Locals
<1>3. pc[t] \in InsertSteps /\ pc'[t] \notin InsertSteps
  BY <1>2, <1>s DEF InsertSteps
<1>4. \A q \in Queues : Tails(q)'
  <2>1. Tails(t)'
    BY <1>q, <1>2 DEF Tails, Chained
  <2> QED BY <1>1, <1>2, <2>1, OthersTails DEF Now
<1>5. ASSUME NEW u \in Threads PROVE Has(u)' = Has(u)
  <2>1. CASE u = t
    <3>1. Holds(t) = {local[t].new} /\ Holds(t)' = {}
      BY <1>2, <1>s DEF Holds, InsertSteps
    <3>2. Chained(t)' = Chained(t)
      BY <1>2 DEF Chained
    <3> QED BY <1>q, <2>1, <3>1, <3>2 DEF Has
  <2> QED BY <1>1, <1>2, <2>1, OthersHas
<1> QED BY <1>1, <1>2, <1>3, <1>4, <1>5, InsertStill

LEMMA SetHeadIsStill ==
  ASSUME Now, NEW t \in Threads, SetHead(t), UNCHANGED mainVars
  PROVE  Still
<1>1. OwnStep(t) /\ Lone(t) /\ QueueOf(t) = t /\ Tails(t) /\ pc \in [Threads -> Steps]
      /\ local \in [Threads -> Locals] /\ local[t] \in Locals
      /\ next \in [Elements -> Pointers] /\ head \in [Threads -> Pointers] /\ PartedInv
  BY OwnStepIs, Kinds, Numbers DEF HandleStep, Now, Serial
<1>s. pc[t] = "set head"
  BY DEF SetHead, At
<1>q. head[t] = NULL /\ local[t].new \in Elements /\ next[local[t].new] = NULL
  <2>1. pc[t] \in Linking
    BY <1>s DEF Linking
  <2> QED BY <1>1, <1>s, <2>1, NewFacts DEF Tails
<1>2. /\ pc'[t] = "set tail" /\ head'[t] = local[t].new
      /\ local'[t].reg = local[t].new /\ local'[t].new = local[t].new
      /\ local'[t].unread = local[t].unread
      /\ node' = node /\ used' = used /\ next' = next
      /\ entry' = entry
  <2>1. /\ local' = [local EXCEPT ![t].reg = local[t].new] /\ pc' = [pc EXCEPT ![t] = "set tail"]
        /\ head' = [head EXCEPT ![t] = local[t].new]
    BY <1>1 DEF SetHead, Goto
  <2>2. node' = node /\ used' = used /\ next' = next /\ entry' = entry
    BY DEF SetHead, memory
  <2> QED BY <1>1, <1>q, <2>1, <2>2, Numbers DEF Locals
<1>3. pc[t] \in InsertSteps /\ pc'[t] \in InsertSteps
  BY <1>2, <1>s DEF InsertSteps
<1>r. Chained(t) = {} /\ Chained(t)' = {local[t].new}
  <2>1. Reach(next, NULL) = {}
    BY <1>1, Numbers, ReachHas
  <2>2. Reach(next, local[t].new) \subseteq {local[t].new}
    BY <1>1, <1>q, ReachLast
  <2>3. local[t].new \in Reach(next, local[t].new)
    BY <1>1, <1>q, Numbers, ReachHas
  <2> QED BY <1>2, <1>q, <2>1, <2>2, <2>3 DEF Chained
<1>4. \A q \in Queues : Tails(q)'
  <2>1. Tails(t)'
    BY <1>r, <1>2 DEF Tails
  <2> QED BY <1>1, <1>2, <2>1, OthersTails DEF Now
<1>5. ASSUME NEW u \in Threads PROVE Has(u)' = Has(u)
  <2>1. CASE u = t
    <3>1. Holds(t) = {local[t].new} /\ Holds(t)' = {local[t].new}
      BY <1>2, <1>s, <1>3 DEF Holds, InsertSteps
    <3> QED BY <1>r, <2>1, <3>1 DEF Has
  <2> QED BY <1>1, <1>2, <2>1, OthersHas
<1> QED BY <1>1, <1>2, <1>3, <1>4, <1>5, InsertStill

LEMMA LinkIsStill ==
  ASSUME Now, NEW t \in Threads, Link(t), UNCHANGED mainVars
  PROVE  Still
<1>1. OwnStep(t) /\ Lone(t) /\ QueueOf(t) = t /\ Tails(t) /\ pc \in [Threads -> Steps]
      /\ next \in [Elements -> Pointers] /\ \A u \in Threads : head[u] \in Pointers
  BY OwnStepIs, Kinds, Numbers DEF HandleStep, Now, Serial
<1>s. pc[t] = "link"
  BY DEF Link, At
<1> DEFINE last == tail[t]
           new == local[t].new
<1>q. /\ local[t].reg = last /\ last \in Chained(t) /\ next[last] = NULL
      /\ new \in Elements /\ next[new] = NULL /\ last # new /\ last \in Elements
  <2>0. PartedInv
    BY DEF Now
  <2>1. local[t].reg = last /\ head[t] # NULL /\ next[last] = NULL
    BY <1>s, <2>0, EndFacts
  <2>2. last \in Chained(t)
    BY <1>1, <1>s, <2>1 DEF Tails
  <2>3. pc[t] \in Linking
    BY <1>s DEF Linking
  <2>4. new \in Elements /\ next[new] = NULL /\ new \notin Chained(t)
    BY <2>0, <2>3, NewFacts
  <2>5. last \in Elements
    BY <2>0, <2>2, QueueFacts
  <2> QED BY <2>1, <2>2, <2>4, <2>5
<1>2. /\ pc'[t] = "get next" /\ next' = [next EXCEPT ![last] = new]
      /\ local' = local /\ node' = node /\ used' = used
      /\ head' = head /\ tail' = tail /\ entry' = entry
  <2>1. local[t].reg # NULL
    BY <1>q, Numbers
  <2>2. pc' = [pc EXCEPT ![t] = "get next"] /\ next' = [next EXCEPT ![local[t].reg] = new]
    BY <2>1 DEF Link, Goto
  <2>3. local' = local /\ node' = node /\ used' = used /\ head' = head /\ tail' = tail /\ entry' = entry
    BY DEF Link, queue
  <2> QED BY <1>1, <1>q, <2>2, <2>3
<1>3. pc[t] \in InsertSteps /\ pc'[t] \in InsertSteps
  BY <1>2, <1>s DEF InsertSteps
<1>n. /\ next'[last] = new /\ \A e \in Elements : e # last => next'[e] = next[e]
      /\ next' \in [Elements -> Pointers]
  BY <1>1, <1>2, <1>q, Numbers
<1>r. Chained(t)' = Chained(t) \cup {new}
  <2>1. Reach(Linked(next, last, new), head[t]) = Reach(next, head[t]) \cup {new}
    <3>1. /\ next \in [Elements -> Pointers] /\ head[t] \in Pointers /\ new \in Elements
          /\ last \in Reach(next, head[t]) /\ last # new /\ next[last] = NULL /\ next[new] = NULL
      BY <1>1, <1>q DEF Chained
    <3> HIDE DEF last, new
    <3> QED BY ONLY <3>1, ReachAppend
  <2> QED BY <1>2, <2>1 DEF Linked, Chained
<1>o. \A u \in Threads : u # t => Chained(u)' = Chained(u)
  <2> SUFFICES ASSUME NEW u \in Threads, u # t PROVE Chained(u)' = Chained(u)
    OBVIOUS
  <2>1. last \notin Chained(u) /\ Chained(u) \in SUBSET Elements
    BY <1>q, QueueFacts DEF Now
  <2>2. \A e \in Reach(next, head[u]) : next'[e] = next[e]
    BY <1>n, <2>1 DEF Chained
  <2>3. Reach(next', head[u]) = Reach(next, head[u])
    BY <1>1, <1>n, <2>2, ReachSame
  <2> QED BY <1>2, <2>3 DEF Chained
<1>4. ASSUME NEW q \in Queues PROVE Tails(q)'
  <2>1. CASE q = t
    BY <1>2, <1>q, <1>r, <1>n, <2>1 DEF Tails
  <2>2. CASE q # t
    <3>1. q \in Threads /\ Tails(q) /\ Chained(q)' = Chained(q) /\ pc'[q] = pc[q]
      BY <1>1, <1>o, <2>2, Numbers DEF Now, Serial, Lone
    <3>2. ASSUME pc[q] = "get next" PROVE tail[q] \in Elements /\ tail[q] # last
      <4>1. PICK S \in [Queues -> SUBSET Elements] :
              Parted(S) /\ \A p \in Queues : Chained(p) \subseteq S[p]
        BY InSets DEF Now
      <4>2. tail[q] \in S[q] /\ last \in S[t] /\ S[q] \cap S[t] = {}
        BY <1>q, <2>2, <3>2, <4>1, Numbers DEF Parted, End, Apart
      <4>3. tail[q] \in Elements
        BY <3>1, <3>2 DEF Tails
      <4> QED BY <4>2, <4>3
    <3>3. pc[q] = "get next" => next'[tail[q]] = next[tail[q]]
      BY <1>n, <3>2
    <3> QED BY <1>2, <3>1, <3>3 DEF Tails
  <2> QED BY <2>1, <2>2
<1>5. ASSUME NEW u \in Threads PROVE Has(u)' = Has(u)
  <2>1. CASE u = t
    <3>1. Holds(t) = {new} /\ Holds(t)' = {new}
      BY <1>2, <1>s, <1>3 DEF Holds, InsertSteps
    <3> QED BY <1>r, <2>1, <3>1 DEF Has
  <2>2. CASE u # t
    <3>1. Holds(u)' = Holds(u)
      BY <1>1, <2>2 DEF Holds, Lone
    <3> QED BY <1>o, <2>2, <3>1 DEF Has
  <2> QED BY <2>1, <2>2
<1> QED BY <1>1, <1>2, <1>3, <1>4, <1>5, InsertStill

\* Reading the dirent, and what it holds, is a step of the one thread there.
LEMMA ReadIsStill ==
  ASSUME Tree, Now, NEW t \in Threads, Read(t) \/ SkipDot(t) \/ SkipDotDot(t), UNCHANGED mainVars
  PROVE  Still
<1>1. OwnStep(t) /\ Lone(t) /\ pc \in [Threads -> Steps] /\ StateOK /\ TreeInv /\ Reads(t)
  BY OwnStepIs, Kinds DEF HandleStep, Now, TreeInv
<1>2. /\ pc[t] \in {"read", "dot", "dotdot"} /\ pc'[t] \in {"read", "dot", "dotdot", "name", "return"}
      /\ node' = node /\ used' = used /\ next' = next
      /\ head' = head /\ tail' = tail
  BY <1>1 DEF Read, SkipDot, SkipDotDot, At, Goto, memory, queue
<1>3. pc[t] \in Reading
  BY <1>2 DEF Reading
<1>4. Reads(t)' /\ Owed(t)' = Owed(t) /\ local'[t].el = local[t].el
  BY <1>1, <1>2, ReadOn, SkipOn
<1>5. Serial'
  <2>1. \A q \in Queues : Tails(q)'
    BY <1>1, <1>2, CalmTails DEF Now
  <2> QED BY <1>1, <2>1, OwnHands DEF Serial, Now
<1>6. ASSUME NEW u \in Threads PROVE Has(u)' = Has(u)
  <2>1. CASE u = t
    <3>1. Holds(t) = {} /\ Holds(t)' = {}
      BY <1>2 DEF Holds, InsertSteps
    <3> QED BY <1>2, <2>1, <3>1 DEF Has, Chained
  <2> QED BY <1>1, <1>2, <2>1, OthersHas
<1>7. pc[t] # "stat"
  BY <1>2
<1> QED BY <1>1, <1>2, <1>3, <1>4, <1>5, <1>6, <1>7, OwnStill DEF OwnStep

LEMMA NameIsStill ==
  ASSUME Tree, Now, NEW t \in Threads, Name(t), UNCHANGED mainVars
  PROVE  Still
<1>1. OwnStep(t) /\ Lone(t) /\ pc \in [Threads -> Steps] /\ StateOK /\ TreeInv /\ Reads(t)
      /\ local \in [Threads -> Locals] /\ local[t] \in Locals /\ PartedInv /\ Serial
      /\ node \in [Elements -> Nodes \cup {Nowhere}] /\ Alone
  BY OwnStepIs, Kinds DEF HandleStep, Now, TreeInv
<1>u. used \in Nat /\ used + 1 \in Elements /\ used >= 1
  BY <1>1, Kinds, Numbers DEF Name, Elements
<1>2. /\ pc[t] = "name" /\ pc'[t] = "insert" /\ used' = used + 1
      /\ node' = [node EXCEPT ![used + 1] = Target[node[local[t].el]][entry]]
      /\ local'[t].new = used + 1 /\ local'[t].el = local[t].el /\ local'[t].unread = local[t].unread
      /\ next' = next /\ head' = head /\ tail' = tail /\ entry' = entry
  <2>1. local' = [local EXCEPT ![t].new = used + 1] /\ pc' = [pc EXCEPT ![t] = "insert"]
    BY DEF Name, Goto
  <2>2. /\ pc[t] = "name" /\ used' = used + 1 /\ next' = next /\ entry' = entry
        /\ node' = [node EXCEPT ![used + 1] = Target[node[local[t].el]][entry]]
        /\ head' = head /\ tail' = tail
    BY DEF Name, At, queue
  <2> QED BY <1>1, <2>1, <2>2 DEF Locals
<1>3. pc[t] \in Reading /\ pc[t] \in Handling
  BY <1>2 DEF Reading, Handling, Busy, HandleSteps
<1>n. \A e \in 1..used : node'[e] = node[e] /\ e \in 1..used'
  <2>1. MaxElements \in Nat /\ used + 1 <= MaxElements
    BY <1>u, Numbers DEF Elements
  <2>2. \A e \in 1..used : e \in Elements /\ e # used + 1 /\ e \in 1..(used + 1)
    BY <1>u, <2>1 DEF Elements
  <2> QED BY <1>1, <1>2, <2>2
<1>5. \A u \in Threads : u # t => Reads(u)' /\ Owed(u)' = Owed(u) /\ local'[u].el = local[u].el
                                  /\ Has(u)' = Has(u)
  <2> SUFFICES ASSUME NEW u \in Threads, u # t
               PROVE  Reads(u)' /\ Owed(u)' = Owed(u) /\ local'[u].el = local[u].el
                      /\ Has(u)' = Has(u)
    OBVIOUS
  <2>1. pc'[u] = pc[u] /\ local'[u] = local[u]
    BY <1>1 DEF Lone
  <2>2. Reads(u)' /\ Owed(u)' = Owed(u)
    BY <1>1, <1>2, <1>n, <2>1, StillReads
  <2> QED BY <1>1, <1>2, <2>1, <2>2, OthersHas
<1>6. \A u \in Threads : u # t => Owed(u) = {}
  BY <1>1, <1>3, AloneOthers DEF Owed
<1>h. Holds(t) = {} /\ Holds(t)' = {used + 1}
  BY <1>2 DEF Holds, InsertSteps
<1>7. local[t].el \notin Waiting
  <2>1. \A u \in Threads : local[t].el \notin Has(u)
    BY <1>1, <1>3, <1>h, ElApart DEF Has
  <2> QED BY <2>1 DEF Waiting
<1>8. Waiting' = Waiting \cup {used + 1}
  <2>1. Has(t)' = Has(t) \cup {used + 1}
    BY <1>2, <1>h DEF Has, Chained
  <2> QED BY <1>5, <2>1, MoreWaiting
<1>9. TreeInv' /\ Todo' = Todo /\ Counted' = Counted
  BY <1>1, <1>u, <1>2, <1>5, <1>6, <1>7, <1>8, TreeName
<1>10. Serial'
  <2>1. \A q \in Queues : Tails(q)'
    BY <1>1, <1>2, CalmTails
  <2> QED BY <1>1, <2>1, OwnHands DEF Serial
<1>11. \A j \in Workers : ~Counts(j)
  BY <1>1, <1>2, Numbers DEF Counts, Lone
<1> QED BY <1>9, <1>10, <1>11 DEF Still

\* A thread handles the element in its hand.
Handles(t) ==
  LET n == node[local[t].el] IN
  /\ Serial' /\ TreeInv' /\ local[t].el \in 1..used /\ n \in Todo
  /\ Todo' = (Todo \ {n}) \cup Revealed(n)
  /\ n \notin Counted
  /\ Counted' = IF n \in Files \ Unreadable THEN Counted \cup {n} ELSE Counted
  /\ ~Listed(n) => t \in Workers
  /\ \A i \in Workers : Counts(i) <=> i = t /\ ~Listed(n)

\* What the two steps that handle an element have in common.
LEMMA HandlesIs ==
  ASSUME Tree, Now, NEW t \in Threads, Lone(t), Serial',
         pc[t] \in {"open", "stat"}, pc[t] = "open" => t \notin Workers,
         local'[t].el = local[t].el,
         \/ Listed(node[local[t].el]) /\ pc'[t] = "read" /\ local'[t].unread = Listing[node[local[t].el]]
         \/ /\ ~Listed(node[local[t].el]) /\ pc'[t] = "return" /\ local'[t].unread = local[t].unread
            /\ t \in Workers,
         node' = node, used' = used, next' = next, head' = head, entry' = entry
  PROVE  Handles(t)
<1> DEFINE n == node[local[t].el]
<1>1. PartedInv /\ Serial /\ TreeInv
  BY DEF Now
<1>2. /\ pc[t] \in Handling /\ pc[t] \notin Reading /\ "return" \notin Reading
      /\ pc'[t] \notin InsertSteps /\ pc'[t] \in {"read", "return"}
  BY DEF Handling, Busy, HandleSteps, Reading, InsertSteps
<1>3. \A u \in Threads : u # t => Reads(u)' /\ Owed(u)' = Owed(u) /\ local'[u].el = local[u].el
                                  /\ Has(u)' = Has(u)
  <2> SUFFICES ASSUME NEW u \in Threads, u # t
               PROVE  Reads(u)' /\ Owed(u)' = Owed(u) /\ local'[u].el = local[u].el
                      /\ Has(u)' = Has(u)
    OBVIOUS
  <2>1. pc'[u] = pc[u] /\ local'[u] = local[u]
    BY DEF Lone
  <2>2. Reads(u)' /\ Owed(u)' = Owed(u)
    BY <1>1, <2>1, StillReads
  <2> QED BY <2>1, <2>2, OthersHas
<1>4. local[t].el \in Waiting /\ Waiting' = Waiting \ {local[t].el}
  <2>1. Holds(t) = {local[t].el} /\ Holds(t)' = {} /\ Chained(t)' = Chained(t)
    BY <1>2 DEF Holds, InsertSteps, Chained
  <2>2. \A u \in Threads : local[t].el \notin Chained(u) /\ (u # t => local[t].el \notin Holds(u))
    BY <1>1, <1>2, ElApart
  <2>3. local[t].el \in Has(t) /\ Has(t)' = Has(t) \ {local[t].el}
    BY <2>1, <2>2 DEF Has
  <2>4. \A u \in Threads : u # t => Has(u)' = Has(u) /\ local[t].el \notin Has(u)
    BY <1>3, <2>2 DEF Has
  <2> QED BY <2>3, <2>4, LessWaiting
<1>5. /\ TreeInv' /\ n \in Todo
      /\ Todo' = (Todo \ {n}) \cup Revealed(n)
      /\ n \notin Counted
      /\ Counted' = IF n \in Files \ Unreadable THEN Counted \cup {n} ELSE Counted
  <2>1. \/ Listed(n) /\ pc'[t] = "read" /\ local'[t].unread = Listing[n]
        \/ ~Listed(n) /\ pc'[t] \notin Reading /\ local'[t].unread = local[t].unread
    BY <1>2
  <2> QED BY <1>1, <1>2, <1>3, <1>4, <2>1, TreeHandle
<1>6. \A i \in Workers : Counts(i) <=> i = t /\ ~Listed(n)
  BY Numbers DEF Counts, Lone
<1>7. local[t].el \in 1..used
  BY <1>1, <1>4 DEF TreeInv
<1> QED BY <1>5, <1>6, <1>7 DEF Handles

LEMMA StatHandles ==
  ASSUME Tree, Now, NEW t \in Threads, Stat(t), UNCHANGED mainVars
  PROVE  Handles(t)
<1>1. OwnStep(t) /\ Lone(t) /\ pc \in [Threads -> Steps] /\ Roles /\ local[t] \in Locals
      /\ local \in [Threads -> Locals]
  BY OwnStepIs, Kinds DEF HandleStep, Now
<1> DEFINE n == node[local[t].el]
<1>2. /\ pc[t] = "stat" /\ node' = node /\ used' = used /\ next' = next
      /\ head' = head /\ tail' = tail /\ entry' = entry
  BY DEF Stat, At, queue
<1>3. t \in Workers
  <2>1. t # Main
    BY <1>1, <1>2 DEF Roles, MainSteps, Busy, HandleSteps, InsertSteps
  <2> QED BY <2>1 DEF Threads, Workers, Main
<1>4. /\ \/ Listed(n) /\ pc'[t] = "read" /\ local'[t].unread = Listing[n]
         \/ ~Listed(n) /\ pc'[t] = "return" /\ local'[t].unread = local[t].unread
      /\ local'[t].el = local[t].el
  <2>1. \/ Listed(n) /\ pc' = [pc EXCEPT ![t] = "read"] /\ local' = [local EXCEPT ![t].unread = Listing[n]]
        \/ ~Listed(n) /\ pc' = [pc EXCEPT ![t] = "return"] /\ local' = [local EXCEPT ![t].found = Yield(n)]
    BY DEF Stat, Goto
  <2> QED BY <1>1, <2>1 DEF Locals
<1>5. Serial'
  <2>1. \A q \in Queues : Tails(q)'
    BY <1>1, <1>2, <1>4, CalmTails DEF Now
  <2> QED BY <1>1, <2>1, OwnHands DEF Serial, Now
<1> QED BY <1>1, <1>2, <1>3, <1>4, <1>5, HandlesIs

LEMMA OpenWorks ==
  ASSUME Tree, Now, Open
  PROVE  Still \/ Handles(Main)
<1>1. /\ Main \in Threads /\ Main \notin Workers /\ pc \in [Threads -> Steps] /\ Roles
      /\ local[Main] \in Locals /\ local \in [Threads -> Locals]
  BY Numbers, Kinds DEF Now
<1>2. /\ pc[Main] = "open" /\ node' = node /\ used' = used /\ next' = next
      /\ head' = head /\ tail' = tail /\ entry' = entry
      /\ \/ Listed(Root) /\ local' = [local EXCEPT ![Main].unread = Listing[Root]]
                         /\ pc' = [pc EXCEPT ![Main] = "read"]
         \/ pc' = [pc EXCEPT ![Main] = "exit"] /\ local' = local
  BY DEF Open, At, Goto, memory, queue
<1>3. Lone(Main) /\ local'[Main].el = local[Main].el
  BY <1>1, <1>2 DEF Lone, Locals
<1>4. pc[Main] \in Handling /\ pc'[Main] \in {"read", "exit"}
  BY <1>1, <1>2 DEF Handling
<1>5. Serial'
  <2>1. \A q \in Queues : Tails(q)'
    BY <1>1, <1>2, <1>3, <1>4, CalmTails DEF Now
  <2>2. Hands'
    BY <1>1, <1>3, <1>4, HandsKept DEF Now, Lone
  <2> QED BY <2>1, <2>2 DEF Serial
<1>6. CASE pc'[Main] = "read"
  <2>1. Listed(Root) /\ local' = [local EXCEPT ![Main].unread = Listing[Root]]
    BY <1>1, <1>2, <1>6
  <2>2. node[local[Main].el] = Root
    BY <1>1, <1>2 DEF Roles
  <2>3. local'[Main].unread = Listing[Root]
    BY <1>1, <2>1 DEF Locals
  <2> QED BY <1>1, <1>2, <1>3, <1>5, <1>6, <2>1, <2>2, <2>3, HandlesIs
<1>7. CASE pc'[Main] = "exit"
  <2>1. local' = local
    BY <1>1, <1>2, <1>7
  <2>2. pc[Main] \notin Reading \cup {"stat"} /\ pc'[Main] \notin Reading
    BY <1>2, <1>7 DEF Reading, InsertSteps
  <2>3. Has(Main)' = Has(Main)
    BY <1>2, <1>7, <2>1 DEF Has, Holds, Chained, InsertSteps
  <2>4. Still
    BY <1>1, <1>2, <1>3, <1>5, <2>1, <2>2, <2>3, IdleStill DEF Serial
  <2> QED BY <2>4
<1> QED BY <1>4, <1>6, <1>7

-----------------------------------------------------------------------------
(* The other steps of the threads and of main.                             *)

\* A step that leaves the queues alone.
LEMMA CalmStill ==
  ASSUME Now, NEW t \in Threads,
         \A u \in Threads : u # t => pc'[u] = pc[u] /\ local'[u] = local[u],
         node' = node, used' = used, next' = next, head' = head, tail' = tail, entry' = entry,
         pc[t] \notin Reading \cup {"stat"}, pc'[t] \notin Handling,
         local'[t].unread = local[t].unread \/ local'[t].unread = <<>>,
         Has(t)' = Has(t)
  PROVE  Still
<1>1. Lone(t)
  BY DEF Lone
<1>2. /\ pc[t] \notin {"get next", "set tail"} /\ pc'[t] \notin {"set head", "get next", "set tail"}
      /\ pc'[t] \notin Reading
  BY DEF Reading, Handling, Busy, HandleSteps, InsertSteps
<1>3. \A q \in Queues : Tails(q)'
  BY <1>1, <1>2, CalmTails DEF Now
<1>4. Hands'
  BY HandsKept DEF Now
<1> QED BY <1>1, <1>2, <1>3, <1>4, IdleStill

\* The same for a step to and from where a thread holds nothing.
LEMMA LoopStill ==
  ASSUME Now, NEW t \in Threads,
         \A u \in Threads : u # t => pc'[u] = pc[u] /\ local'[u] = local[u],
         node' = node, used' = used, next' = next, head' = head, tail' = tail, entry' = entry,
         pc[t] \in {"loop", "return", "deal", "create", "join", "off"},
         pc'[t] \in {"loop", "take", "deal", "create", "join", "done", "off"},
         local'[t] = local[t] \/ local'[t] = Fresh
  PROVE  Still
<1>1. /\ pc[t] \notin Reading \cup {"stat"} /\ pc'[t] \notin Handling
      /\ Holds(t) = {} /\ Holds(t)' = {}
  BY DEF Reading, Handling, Busy, HandleSteps, InsertSteps, Holds
<1>2. local'[t].unread = local[t].unread \/ local'[t].unread = <<>>
  BY DEF Fresh
<1>3. Has(t)' = Has(t)
  BY <1>1 DEF Has, Chained
<1> QED BY <1>1, <1>2, <1>3, CalmStill

LEMMA WorkerStill ==
  ASSUME Now, NEW t \in Workers, Loop(t) \/ Add(t)
  PROVE  Still
<1>1. t \in Threads /\ pc \in [Threads -> Steps] /\ local \in [Threads -> Locals]
  BY Numbers, Kinds DEF Now
<1>2. /\ pc[t] \in {"loop", "return"} /\ pc'[t] \in {"take", "off", "loop"}
      /\ \A u \in Threads : u # t => pc'[u] = pc[u] /\ local'[u] = local[u]
      /\ local'[t] = local[t] \/ local'[t] = Fresh
      /\ node' = node /\ used' = used /\ next' = next
      /\ head' = head /\ tail' = tail /\ entry' = entry
  BY <1>1 DEF Loop, Add, At, Goto, memory, queue
<1> QED BY <1>1, <1>2, LoopStill

LEMMA MainStill ==
  ASSUME Now, Opened \/ Dealt \/ Join
  PROVE  Still
<1>1. Main \in Threads /\ pc \in [Threads -> Steps] /\ local \in [Threads -> Locals]
  BY Numbers, Kinds DEF Now
<1>2. /\ pc[Main] \in {"return", "deal", "join"} /\ pc'[Main] \in {"deal", "create", "join", "done"}
      /\ \A u \in Threads : u # Main => pc'[u] = pc[u] /\ local'[u] = local[u]
      /\ local'[Main] = local[Main] \/ local'[Main] = Fresh
      /\ node' = node /\ used' = used /\ next' = next
      /\ head' = head /\ tail' = tail /\ entry' = entry
  <2>1. CASE Opened
    BY <1>1, <2>1 DEF Opened, At, Goto, memory, queue
  <2>2. CASE Dealt
    BY <1>1, <2>2 DEF Dealt, At, Goto, memory, queue
  <2>3. CASE Join
    BY <1>1, <2>3 DEF Join, At, Goto, memory, queue
  <2> QED BY <2>1, <2>2, <2>3
<1> QED BY <1>1, <1>2, LoopStill

LEMMA CreateStill ==
  ASSUME Now, Create
  PROVE  Still
<1>1. Main \in Threads /\ pc \in [Threads -> Steps] /\ local \in [Threads -> Locals] /\ Roles
  BY Numbers, Kinds DEF Now
<1>2. /\ pc[Main] = "create" /\ local' = local
      /\ node' = node /\ used' = used /\ next' = next
      /\ head' = head /\ tail' = tail /\ entry' = entry
  BY DEF Create, At, memory, queue
<1>3. CASE slot \in Workers /\ Goto(slot, "loop")
  <2>1. PICK t \in Workers : t = slot
    BY <1>3
  <2>2. t \in Threads /\ pc[t] = "off"
    <3>1. t >= slot
      BY <2>1 DEF Workers
    <3> QED BY <1>1, <1>2, <2>1, <3>1, Numbers DEF Roles
  <2>3. pc'[t] = "loop" /\ \A u \in Threads : u # t => pc'[u] = pc[u] /\ local'[u] = local[u]
    BY <1>1, <1>2, <1>3, <2>1, <2>2 DEF Goto
  <2> QED BY <1>2, <2>2, <2>3, LoopStill
<1>4. CASE Goto(Main, "join")
  <2>1. pc'[Main] = "join" /\ \A u \in Threads : u # Main => pc'[u] = pc[u] /\ local'[u] = local[u]
    BY <1>1, <1>2, <1>4 DEF Goto
  <2> QED BY <1>1, <1>2, <2>1, LoopStill
<1> QED BY <1>3, <1>4 DEF Create

LEMMA TakeIsStill ==
  ASSUME Now, NEW t \in Workers, Take(t)
  PROVE  Still
<1>1. /\ t \in Threads /\ pc \in [Threads -> Steps] /\ local \in [Threads -> Locals]
      /\ local[t] \in Locals /\ QueueOf(t) = t /\ head[t] \in Pointers /\ PartedInv
  BY Numbers, Kinds DEF Now
<1>2. /\ pc[t] = "take" /\ pc'[t] = "follow" /\ local'[t].el = head[t]
      /\ local'[t].unread = local[t].unread
      /\ \A u \in Threads : u # t => pc'[u] = pc[u] /\ local'[u] = local[u]
      /\ node' = node /\ used' = used /\ next' = next
      /\ head' = head /\ tail' = tail /\ entry' = entry
  <2>1. local' = [local EXCEPT ![t].el = head[t]] /\ pc' = [pc EXCEPT ![t] = "follow"]
    BY <1>1 DEF Take, Goto
  <2>2. /\ pc[t] = "take" /\ node' = node /\ used' = used /\ next' = next
        /\ head' = head /\ tail' = tail /\ entry' = entry
    BY DEF Take, At, memory, queue
  <2> QED BY <1>1, <2>1, <2>2 DEF Locals
<1>3. head[t] # NULL /\ head[t] \in Chained(t)
  BY <1>1, <1>2, EndFacts, QueueFacts
<1>4. Has(t)' = Has(t)
  <2>1. Holds(t) = {} /\ Holds(t)' = {head[t]} /\ Chained(t)' = Chained(t)
    BY <1>2 DEF Holds, InsertSteps, Chained
  <2> QED BY <1>3, <2>1 DEF Has
<1>5. pc[t] \notin Reading \cup {"stat"} /\ pc'[t] \notin Handling
  BY <1>2 DEF Reading, Handling, Busy, HandleSteps, InsertSteps
<1> QED BY <1>1, <1>2, <1>4, <1>5, CalmStill

LEMMA FollowIsStill ==
  ASSUME Now, NEW t \in Workers, Follow(t)
  PROVE  Still
<1>1. /\ t \in Threads /\ pc \in [Threads -> Steps] /\ local \in [Threads -> Locals]
      /\ local[t] \in Locals /\ QueueOf(t) = t
  BY Numbers, Kinds DEF Now
<1>2. /\ pc[t] = "follow" /\ pc'[t] = "advance" /\ local'[t].el = local[t].el
      /\ local'[t].unread = local[t].unread
      /\ \A u \in Threads : u # t => pc'[u] = pc[u] /\ local'[u] = local[u]
      /\ node' = node /\ used' = used /\ next' = next
      /\ head' = head /\ tail' = tail /\ entry' = entry
  <2>1. local' = [local EXCEPT ![t].reg = next[head[t]]] /\ pc' = [pc EXCEPT ![t] = "advance"]
    BY <1>1 DEF Follow, Goto
  <2>2. /\ pc[t] = "follow" /\ node' = node /\ used' = used /\ next' = next
        /\ head' = head /\ tail' = tail /\ entry' = entry
    BY DEF Follow, At, memory, queue
  <2> QED BY <1>1, <2>1, <2>2 DEF Locals
<1>4. Has(t)' = Has(t)
  BY <1>2 DEF Has, Holds, InsertSteps, Chained
<1>5. pc[t] \notin Reading \cup {"stat"} /\ pc'[t] \notin Handling
  BY <1>2 DEF Reading, Handling, Busy, HandleSteps, InsertSteps
<1> QED BY <1>1, <1>2, <1>4, <1>5, CalmStill

\* The element leaves the queue for the hand that has it.
LEMMA AdvanceIsStill ==
  ASSUME Now, NEW t \in Workers, Advance(t, "stat")
  PROVE  Still
<1>1. /\ t \in Threads /\ pc \in [Threads -> Steps] /\ local \in [Threads -> Locals]
      /\ local[t] \in Locals /\ QueueOf(t) = t /\ head[t] \in Pointers /\ PartedInv
      /\ next \in [Elements -> Pointers] /\ head \in [Threads -> Pointers] /\ Tails(t)
  BY Numbers, Kinds DEF Now, Serial
<1>s. pc[t] = "advance"
  BY DEF Advance, At
<1>3. /\ head[t] # NULL /\ head[t] \in Elements /\ head[t] \in Chained(t)
      /\ local[t].el = head[t] /\ local[t].reg = next[head[t]]
      /\ tail[t] \in Chained(t) /\ next[tail[t]] = NULL
  <2>1. /\ head[t] # NULL /\ local[t].el = head[t] /\ local[t].reg = next[head[t]]
        /\ next[tail[t]] = NULL
    BY <1>1, <1>s, EndFacts
  <2>2. head[t] \in Chained(t) /\ tail[t] \in Chained(t)
    BY <1>1, <1>s, <2>1, QueueFacts DEF Tails
  <2> QED BY <1>1, <2>1, <2>2 DEF Pointers
<1>2. /\ pc'[t] = "stat" /\ head'[t] = next[head[t]] /\ local'[t].el = head[t]
      /\ local'[t].unread = local[t].unread
      /\ Lone(t)
      /\ node' = node /\ used' = used /\ next' = next /\ tail' = tail /\ entry' = entry
  <2>1. /\ local' = [local EXCEPT ![t].reg = NULL] /\ pc' = [pc EXCEPT ![t] = "stat"]
        /\ head' = [head EXCEPT ![t] = next[head[t]]]
    BY <1>1, <1>3 DEF Advance, Goto
  <2>2. node' = node /\ used' = used /\ next' = next /\ tail' = tail /\ entry' = entry
    BY DEF Advance, memory
  <2>3. local'[t].el = local[t].el /\ local'[t].unread = local[t].unread
    BY <1>1, <2>1 DEF Locals
  <2>4. Lone(t)
    BY <1>1, <2>1, <2>2 DEF Lone
  <2> QED BY <1>1, <1>3, <2>1, <2>2, <2>3, <2>4
<1>4. Chained(t) = {head[t]} \cup Chained(t)'
  <2>1. Reach(next, head[t]) = {head[t]} \cup Reach(next, next[head[t]])
    BY <1>1, <1>3, ReachFirst
  <2> QED BY <1>2, <2>1 DEF Chained
<1>5. \A q \in Queues : Tails(q)'
  <2>1. ASSUME head'[t] # NULL PROVE tail[t] \in Chained(t)'
    BY <1>2, <1>3, <1>4, <2>1
  <2>2. Tails(t)'
    BY <1>2, <2>1 DEF Tails
  <2> QED BY <1>1, <1>2, <2>2, OthersTails DEF Now
<1>6. Hands'
  <2>1. \A u \in Threads : u # t /\ pc[u] \in Handling => local[u].el # local'[t].el
    BY <1>1, <1>2, <1>3, QueueFacts
  <2> QED BY <1>1, <1>2, <2>1, HandsKept DEF Now, Lone
<1>7. Has(t)' = Has(t)
  <2>1. Holds(t) = {head[t]} /\ Holds(t)' = {head[t]}
    BY <1>2, <1>3, <1>s DEF Holds, InsertSteps
  <2> QED BY <1>4, <2>1 DEF Has
<1>8. pc[t] \notin Reading \cup {"stat"} /\ pc'[t] \notin Reading
  BY <1>2, <1>s DEF Reading, InsertSteps
<1> QED BY <1>1, <1>2, <1>5, <1>6, <1>7, <1>8, IdleStill

\* An element goes from one thread to another.
LEMMA MovedWaiting ==
  ASSUME NEW t \in Threads, NEW k \in Threads, t # k, NEW n \in Has(t),
         Has(t)' = Has(t) \ {n}, Has(k)' = Has(k) \cup {n},
         \A u \in Threads : u # t /\ u # k => Has(u)' = Has(u)
  PROVE  Waiting' = Waiting
<1>1. ASSUME NEW e \in Waiting PROVE e \in Waiting'
  <2>1. PICK u \in Threads : e \in Has(u)
    BY DEF Waiting
  <2>2. CASE u = t /\ e # n
    BY <2>1, <2>2 DEF Waiting
  <2>3. CASE e = n
    BY <2>3 DEF Waiting
  <2>4. CASE u # t
    BY <2>1, <2>4 DEF Waiting
  <2> QED BY <2>2, <2>3, <2>4
<1>2. ASSUME NEW e \in Waiting' PROVE e \in Waiting
  <2>1. PICK u \in Threads : e \in Has(u)'
    BY <1>2 DEF Waiting
  <2>2. CASE u = t
    BY <2>1, <2>2 DEF Waiting
  <2>3. CASE u = k
    BY <2>1, <2>3 DEF Waiting
  <2>4. CASE u # t /\ u # k
    BY <2>1, <2>4 DEF Waiting
  <2> QED BY <2>2, <2>3, <2>4
<1> QED BY <1>1, <1>2

\* Dealing takes the first element from main's chain to the end of another.
LEMMA DealChains ==
  ASSUME Now, Deal, NEW k \in Workers, k = slot
  PROVE  LET e == head[Main] IN
         /\ e \in Chained(Main) /\ Chained(Main)' = Chained(Main) \ {e}
         /\ Chained(k)' = Chained(k) \cup {e}
         /\ \A u \in Threads : u # Main /\ u # k => Chained(u)' = Chained(u)
         /\ head'[Main] = next[e] /\ tail'[Main] = tail[Main] /\ tail'[k] = e
         /\ \A u \in Threads : u # Main /\ u # k => head'[u] = head[u] /\ tail'[u] = tail[u]
<1> DEFINE e == head[Main]
           last == tail[k]
<1>1. /\ PartedInv /\ Main \in Threads /\ k \in Threads /\ k # Main
      /\ next \in [Elements -> Pointers] /\ \A u \in Threads : head[u] \in Pointers
      /\ head \in [Threads -> Pointers] /\ tail \in [Threads -> Pointers] /\ Roles
  BY Numbers, Kinds DEF Now
<1>2. /\ pc[Main] = "deal" /\ e # NULL
      /\ head' = [head EXCEPT ![Main] = next[e], ![k] = IF @ = NULL THEN e ELSE @]
      /\ next' = [x \in Elements |-> IF x = e THEN NULL
                                     ELSE IF head[k] # NULL /\ x = last THEN e
                                     ELSE next[x]]
      /\ tail' = [tail EXCEPT ![k] = e]
  BY DEF Deal, At
<1>3. /\ e \in Elements /\ e \in Chained(Main)
      /\ \A t \in Threads : Chained(t) \in SUBSET Elements
      /\ \A t, u \in Threads : t # u => Chained(t) \cap Chained(u) = {}
  BY <1>1, <1>2, QueueFacts DEF Pointers
<1>4. pc[k] = "off"
  BY <1>1, <1>2 DEF Roles
<1>5. head[k] # NULL => last \in Chained(k) /\ next[last] = NULL /\ last # e
  <2>1. head[k] # NULL => last \in Chained(k)
    BY <1>1, <1>4, Numbers DEF Now, Serial, Tails
  <2>2. head[k] # NULL => next[last] = NULL
    BY <1>1, <1>4, EndFacts
  <2> QED BY <1>1, <1>3, <2>1, <2>2
<1>6. /\ next' \in [Elements -> Pointers] /\ next'[e] = NULL
      /\ \A x \in Elements : x # e /\ (head[k] = NULL \/ x # last) => next'[x] = next[x]
  BY <1>1, <1>2, <1>3, Numbers
<1>7. Chained(Main)' = Chained(Main) \ {e}
  <2> DEFINE T == Reach(next, next[e])
  <2>1. next[e] \in Pointers /\ Chained(Main) = {e} \cup T
    BY <1>1, <1>3, ReachFirst DEF Chained
  <2>2. e \notin T
    <3>1. PICK S \in [Queues -> SUBSET Elements] :
            Parted(S) /\ \A q \in Queues : Chained(q) \subseteq S[q]
      BY <1>1, InSets
    <3>2. \A d \in Chained(Main) : next[d] # NULL => next[d] # e
      BY <1>1, <3>1, Numbers DEF Parted, Line
    <3>3. T \in SUBSET Elements /\ next[e] \in T \cup {NULL} /\ Closed(next, T)
      BY <1>1, <2>1, ReachHas
    <3>4. T \ {e} \in SUBSET Elements /\ next[e] \in (T \ {e}) \cup {NULL} /\ Closed(next, T \ {e})
      BY <1>3, <2>1, <3>2, <3>3 DEF Closed
    <3>5. T \subseteq T \ {e}
      BY <3>4, ReachWithin
    <3> QED BY <3>5
  <2>3. \A x \in T : next'[x] = next[x]
    <3>1. \A x \in T : x \in Elements /\ x # e /\ (head[k] # NULL => x # last)
      BY <1>1, <1>3, <1>5, <2>1, <2>2
    <3> QED BY <1>6, <3>1
  <2>4. Reach(next', next[e]) = T
    BY <1>1, <1>6, <2>1, <2>3, ReachSame
  <2>5. head'[Main] = next[e]
    BY <1>1, <1>2
  <2> QED BY <2>1, <2>2, <2>4, <2>5 DEF Chained
<1>8. Chained(k)' = Chained(k) \cup {e}
  <2>1. CASE head[k] = NULL
    <3>1. head'[k] = e
      BY <1>1, <1>2, <2>1
    <3>2. Chained(k) = {}
      BY <1>1, <2>1, Numbers, ReachHas DEF Chained
    <3>3. Reach(next', e) \subseteq {e}
      BY <1>3, <1>6, ReachLast
    <3>4. e \in Reach(next', e)
      BY <1>1, <1>2, <1>6, ReachHas
    <3> QED BY <3>1, <3>2, <3>3, <3>4 DEF Chained
  <2>2. CASE head[k] # NULL
    <3> DEFINE m == [next EXCEPT ![e] = NULL]
    <3>1. head'[k] = head[k]
      BY <1>1, <1>2, <2>2
    <3>2. /\ m \in [Elements -> Pointers] /\ m[e] = NULL
          /\ \A x \in Elements : x # e => m[x] = next[x]
      BY <1>1, <1>3, Numbers
    <3>3. last \in Elements /\ last # e /\ last \in Chained(k) /\ m[last] = NULL
      BY <1>1, <1>3, <1>5, <2>2, <3>2
    <3>4. next' = [m EXCEPT ![last] = e]
      BY <1>2, <1>3, <2>2, <3>3, <3>2
    <3>5. Reach(m, head[k]) = Chained(k)
      <4>1. \A x \in Reach(next, head[k]) : m[x] = next[x]
        BY <1>1, <1>3, <3>2 DEF Chained
      <4> HIDE DEF m
      <4>2. Reach(m, head[k]) = Reach(next, head[k])
        BY <1>1, <3>2, <4>1, ReachSame
      <4> QED BY <4>2 DEF Chained
    <3>6. Reach(Linked(m, last, e), head[k]) = Reach(m, head[k]) \cup {e}
      <4>1. /\ m \in [Elements -> Pointers] /\ head[k] \in Pointers /\ e \in Elements
            /\ last \in Reach(m, head[k]) /\ last # e /\ m[last] = NULL /\ m[e] = NULL
        BY <1>1, <1>3, <3>2, <3>3, <3>5
      <4> HIDE DEF m, last, e
      <4> QED BY ONLY <4>1, ReachAppend
    <3> HIDE DEF m
    <3>7. Reach(next', head[k]) = Chained(k) \cup {e}
      BY <3>4, <3>5, <3>6 DEF Linked
    <3> QED BY <3>1, <3>7 DEF Chained
  <2> QED BY <2>1, <2>2
<1>9. \A u \in Threads : u # Main /\ u # k => Chained(u)' = Chained(u)
  <2> SUFFICES ASSUME NEW u \in Threads, u # Main, u # k PROVE Chained(u)' = Chained(u)
    OBVIOUS
  <2>1. \A x \in Reach(next, head[u]) : next'[x] = next[x]
    <3>1. \A x \in Chained(u) : x \in Elements /\ x # e /\ (head[k] # NULL => x # last)
      BY <1>1, <1>3, <1>5
    <3> QED BY <1>6, <3>1 DEF Chained
  <2>2. Reach(next', head[u]) = Reach(next, head[u])
    BY <1>1, <1>6, <2>1, ReachSame
  <2>3. head'[u] = head[u]
    BY <1>1, <1>2
  <2> QED BY <2>2, <2>3 DEF Chained
<1>10. /\ head'[Main] = next[e] /\ tail'[Main] = tail[Main] /\ tail'[k] = e
       /\ \A u \in Threads : u # Main /\ u # k => head'[u] = head[u] /\ tail'[u] = tail[u]
  BY <1>1, <1>2
<1> QED BY <1>3, <1>7, <1>8, <1>9, <1>10

LEMMA DealStill ==
  ASSUME Now, Deal
  PROVE  Still
<1> DEFINE e == head[Main]
<1>1. /\ PartedInv /\ Serial /\ TreeInv /\ Main \in Threads /\ Roles
      /\ pc[Main] = "deal" /\ pc' = pc /\ local' = local /\ node' = node /\ used' = used /\ entry' = entry
  BY Numbers, Kinds DEF Now, Deal, At
<1>2. PICK k \in Workers : k = slot
  BY <1>1 DEF Roles
<1>3. k \in Threads /\ k # Main /\ \A i \in Workers : pc[i] = "off"
  BY <1>1, Numbers DEF Roles
<1>4. /\ e \in Chained(Main) /\ Chained(Main)' = Chained(Main) \ {e}
      /\ Chained(k)' = Chained(k) \cup {e}
      /\ \A u \in Threads : u # Main /\ u # k => Chained(u)' = Chained(u)
      /\ head'[Main] = next[e] /\ tail'[Main] = tail[Main] /\ tail'[k] = e
      /\ \A u \in Threads : u # Main /\ u # k => head'[u] = head[u] /\ tail'[u] = tail[u]
  BY <1>2, DealChains
<1>5. \A u \in Threads : pc[u] \in {"deal", "off"}
  BY <1>1, <1>3 DEF Threads, Workers, Main
<1>6. Serial'
  <2>1. ASSUME NEW q \in Queues PROVE Tails(q)'
    <3>1. q \in Threads /\ Tails(q) /\ pc'[q] \in {"deal", "off"}
      BY <1>1, <1>5, Numbers DEF Serial
    <3>2. CASE q = Main
      <4>1. ASSUME head'[q] # NULL PROVE tail'[q] \in Chained(q)'
        <5>1. head[Main] # NULL
          BY DEF Deal
        <5>2. tail[Main] \in Chained(Main) /\ next[tail[Main]] = NULL
          BY <1>1, <3>1, <3>2, <5>1, EndFacts DEF Tails
        <5> QED BY <1>4, <3>2, <4>1, <5>2
      <4> QED BY <3>1, <4>1 DEF Tails
    <3>3. CASE q = k
      BY <1>4, <3>1, <3>3 DEF Tails
    <3>4. CASE q # Main /\ q # k
      <4>1. head'[q] = head[q] /\ tail'[q] = tail[q] /\ Chained(q)' = Chained(q)
        BY <1>4, <3>1, <3>4
      <4> QED BY <1>1, <1>5, <3>1, <4>1 DEF Tails
    <3> QED BY <3>2, <3>3, <3>4
  <2>2. Hands'
    BY <1>1 DEF Serial, Hands
  <2> QED BY <2>1, <2>2 DEF Serial
<1>7. Waiting' = Waiting
  <2>1. \A u \in Threads : Holds(u) = {} /\ Holds(u)' = {}
    BY <1>1, <1>5 DEF Holds, InsertSteps
  <2>2. e \in Has(Main) /\ Has(Main)' = Has(Main) \ {e} /\ Has(k)' = Has(k) \cup {e}
    BY <1>1, <1>3, <1>4, <2>1 DEF Has
  <2>3. \A u \in Threads : u # Main /\ u # k => Has(u)' = Has(u)
    BY <1>4, <2>1 DEF Has
  <2> HIDE DEF e
  <2> QED BY <1>1, <1>3, <2>2, <2>3, MovedWaiting
<1>8. \A u \in Threads : Reads(u)' /\ Owed(u)' = Owed(u)
  BY <1>1, StillReads
<1> QED BY <1>1, <1>6, <1>7, <1>8, StillIs

-----------------------------------------------------------------------------
(* What main has counted and what it has still to collect.                 *)

\* What a thread holds of the count.
Share == [i \in Workers |-> count[i] + (IF pc[i] = "return" THEN local[i].found ELSE 0)]

\* The recursion in Credit, which is that of the sum of the shares.
CreditFn(F, D) ==
  F = [s \in D |->
         IF s = {} THEN 0
         ELSE count[Pick(s)] + (IF pc[Pick(s)] = "return" THEN local[Pick(s)].found ELSE 0)
                + F[s \ {Pick(s)}]]

LEMMA ShareFn ==
  ASSUME NEW D \in SUBSET (SUBSET Workers), NEW F
  PROVE  CreditFn(F, D) <=> SumFn(F, Share, D)
<1>1. \A s \in D : s # {} => Pick(s) \in Workers
  BY DEF Pick
<1> QED BY <1>1 DEF CreditFn, SumFn, Share

LEMMA CreditIs == Credit = num + SumTo(Share, Unjoined)
<1> DEFINE D == SUBSET Unjoined
<1>1. D \in SUBSET (SUBSET Workers)
  BY DEF Unjoined
<1>2. Credit = num + (CHOOSE F : CreditFn(F, D))[Unjoined]
  BY DEF Credit, CreditFn, MapThenSumSet, MapThenFoldSet, Pick
<1>3. SumTo(Share, Unjoined) = (CHOOSE F : SumFn(F, Share, D))[Unjoined]
  BY DEF SumTo
<1> HIDE DEF D
<1>4. \A F : CreditFn(F, D) <=> SumFn(F, Share, D)
  BY <1>1, ShareFn
<1>5. (CHOOSE F : CreditFn(F, D)) = (CHOOSE F : SumFn(F, Share, D))
  BY <1>4
<1> QED BY <1>2, <1>3, <1>5

LEMMA CreditIsNext == Credit' = num' + SumTo(Share', Unjoined')
<1>1. (Credit = num + SumTo(Share, Unjoined))'
  BY CreditIs, PTL
<1> QED BY <1>1

LEMMA ShareInt == PartedInv => \A i \in Workers : Share[i] \in Int
<1>1. PartedInv => \A i \in Workers : local[i].found \in Int /\ count[i] \in Int
  BY Numbers DEF PartedInv, Typed, StateOK, Locals
<1> QED BY <1>1 DEF Share

LEMMA ShareType ==
  ASSUME PartedInv
  PROVE  /\ \A i \in Workers : Share[i] \in Int /\ count[i] \in Int
         /\ num \in Int /\ IsFiniteSet(Unjoined) /\ Unjoined \subseteq Workers
<1>1. IsFiniteSet(Workers)
  BY Numbers, FS_Interval DEF Workers
<1>2. \A i \in Workers : local[i].found \in Int /\ count[i] \in Int
  BY Numbers DEF PartedInv, Typed, StateOK, Locals
<1> QED BY <1>1, <1>2, FS_Subset DEF Share, Unjoined, PartedInv, Typed, StateOK

LEMMA ShareTypeNext == PartedInv' => \A i \in Workers : Share'[i] \in Int
<1>1. (PartedInv => \A i \in Workers : Share[i] \in Int)'
  BY ShareInt, PTL
<1> QED BY <1>1

\* The credit changes by what one thread's share does, if it changes.
LEMMA SameCredit ==
  ASSUME PartedInv, num' = num, Unjoined' = Unjoined,
         \A i \in Workers : Share'[i] = Share[i]
  PROVE  Credit' = Credit
<1>1. \A i \in Unjoined : Share[i] = Share'[i]
  BY ShareType
<1>2. SumTo(Share, Unjoined) = SumTo(Share', Unjoined)
  BY <1>1, ShareType, SumAgree
<1> QED BY <1>2, CreditIs, CreditIsNext

LEMMA MoreCredit ==
  ASSUME PartedInv, PartedInv', num' = num, Unjoined' = Unjoined, NEW k \in Unjoined, NEW n \in Int,
         \A i \in Workers : i # k => Share'[i] = Share[i],
         Share'[k] = Share[k] + n
  PROVE  Credit' = Credit + n
<1>1. /\ \A i \in Workers : Share[i] \in Int
      /\ num \in Int /\ IsFiniteSet(Unjoined) /\ Unjoined \subseteq Workers
  BY ShareType
<1>2. \A i \in Workers : Share'[i] \in Int
  BY ShareTypeNext
<1>3. SumTo(Share', Unjoined) = SumTo(Share, Unjoined) + Share'[k] - Share[k]
  BY <1>1, <1>2, SumChange
<1>4. SumTo(Share, Unjoined) \in Int
  BY <1>1, SumRemove
<1> QED BY <1>1, <1>3, <1>4, CreditIs, CreditIsNext

-----------------------------------------------------------------------------
(* A thread that has ended has left its result, and nothing in its queue.  *)

\* A thread holds no result but the one it has just returned, and what it has
\* added up is in its slot when it is off.
Paid(i) ==
  /\ pc[i] = "off" => args[i].result = count[i]
  /\ pc[i] # "return" => local[i].found = 0

\* The threads that main has created, and those it has joined.
Created(i) == pc[Main] \in {"join", "done"} \/ (pc[Main] = "create" /\ i < slot)
JoinedBy(i) == pc[Main] = "done" \/ (pc[Main] = "join" /\ i < slot)

Emptied(i) ==
  /\ pc[i] = "off" /\ Created(i) => head[i] = NULL
  /\ JoinedBy(i) => pc[i] = "off"

MainEmptied == pc[Main] \in {"create", "join", "done"} => head[Main] = NULL

CountInv == MainEmptied /\ \A i \in Workers : Paid(i) /\ Emptied(i)

LEMMA InitCount == Init => CountInv
<1> SUFFICES ASSUME Init PROVE CountInv
  OBVIOUS
<1>1. /\ pc[Main] = "open"
      /\ \A i \in Workers : args[i].result = 0 /\ count[i] = 0 /\ local[i] = Fresh
  BY Numbers DEF Init
<1>2. MainEmptied
  BY <1>1 DEF MainEmptied
<1>3. ASSUME NEW i \in Workers PROVE Paid(i) /\ Emptied(i)
  BY <1>1, <1>3 DEF Paid, Emptied, Created, JoinedBy, Fresh
<1> QED BY <1>2, <1>3 DEF CountInv

\* What a step of thread i leaves of the rest.
Leaves(i) ==
  /\ \A u \in Threads : u # i => pc'[u] = pc[u] /\ local'[u] = local[u] /\ head'[u] = head[u]
  /\ \A u \in Workers : u # i => args'[u] = args[u] /\ count'[u] = count[u]
  /\ slot' = slot /\ num' = num

LEMMA LeavesCount ==
  ASSUME CountInv, NEW i \in Workers, Leaves(i), Paid(i)', Emptied(i)'
  PROVE  CountInv'
<1>1. \A j \in Workers : j \in Threads /\ j # Main
  BY Numbers
<1>2. pc'[Main] = pc[Main] /\ slot' = slot /\ head'[Main] = head[Main]
  BY <1>1, Numbers DEF Leaves
<1>3. MainEmptied'
  BY <1>2 DEF CountInv, MainEmptied
<1>4. ASSUME NEW j \in Workers, j # i PROVE Paid(j)' /\ Emptied(j)'
  <2>1. /\ pc'[j] = pc[j] /\ local'[j] = local[j] /\ head'[j] = head[j]
        /\ args'[j] = args[j] /\ count'[j] = count[j] /\ Paid(j) /\ Emptied(j)
    BY <1>1, <1>4 DEF Leaves, CountInv
  <2> QED BY <1>2, <2>1 DEF Paid, Emptied, Created, JoinedBy
<1> QED BY <1>3, <1>4 DEF CountInv

\* handle_element sets the number found in the one step that counts.
LEMMA HandleFinds ==
  ASSUME PartedInv, NEW t \in Threads, HandleStep(t)
  PROVE  local'[t].found = IF Counts(t) THEN Yield(node[local[t].el]) ELSE local[t].found
<1> DEFINE Found == local'[t].found = IF Counts(t) THEN Yield(node[local[t].el]) ELSE local[t].found
<1>0. pc \in [Threads -> Steps] /\ local \in [Threads -> Locals] /\ local[t] \in Locals
  BY Kinds
<1>1. ASSUME Stat(t) PROVE Found
  BY <1>0, <1>1 DEF Stat, At, Goto, Counts, Locals
<1>2. ASSUME Read(t) PROVE Found
  BY <1>0, <1>2 DEF Read, At, Goto, Counts, Locals
<1>3. ASSUME SkipDot(t) \/ SkipDotDot(t) PROVE Found
  BY <1>0, <1>3 DEF SkipDot, SkipDotDot, At, Goto, Counts, Locals
<1>4. ASSUME Name(t) PROVE Found
  BY <1>0, <1>4 DEF Name, At, Goto, Counts, Locals
<1>5. ASSUME Insert(t) PROVE Found
  BY <1>0, <1>5 DEF Insert, At, Goto, Counts, Locals
<1>10. ASSUME SetHead(t) PROVE Found
  BY <1>0, <1>10 DEF SetHead, At, Goto, Counts, Locals
<1>6. ASSUME GetTail(t) PROVE Found
  BY <1>0, <1>6 DEF GetTail, At, Goto, Counts, Locals
<1>7. ASSUME Link(t) PROVE Found
  BY <1>0, <1>7 DEF Link, At, Goto, Counts, Locals
<1>8. ASSUME GetNext(t) PROVE Found
  BY <1>0, <1>8 DEF GetNext, At, Goto, Counts, Locals
<1>9. ASSUME SetTail(t) PROVE Found
  BY <1>0, <1>9 DEF SetTail, At, Goto, Counts, Locals
<1> QED BY <1>1, <1>2, <1>3, <1>4, <1>5, <1>6, <1>7, <1>8, <1>9, <1>10 DEF HandleStep

LEMMA HandleCount ==
  ASSUME PartedInv, CountInv, NEW i \in Workers, HandleStep(i), UNCHANGED mainVars
  PROVE  CountInv' /\ Leaves(i)
<1>1. i \in Threads /\ OwnStep(i) /\ Lone(i)
  BY Numbers, OwnStepIs
<1>2. Leaves(i)
  BY <1>1, Numbers DEF Leaves, OwnStep, Lone, mainVars
<1>3. local'[i].found = IF Counts(i) THEN Yield(node[local[i].el]) ELSE local[i].found
  BY <1>1, HandleFinds
<1>4. pc[i] \in Busy \ {"return"} /\ pc'[i] \in Busy
  BY <1>1 DEF OwnStep
<1>5. pc[i] # "off" /\ pc'[i] # "off"
  BY <1>4 DEF Busy, HandleSteps, InsertSteps
<1>6. pc'[Main] = pc[Main] /\ slot' = slot
  BY <1>2, Numbers DEF Leaves
<1>7. Paid(i)'
  <2>1. local[i].found = 0
    BY <1>4 DEF CountInv, Paid
  <2> QED BY <1>3, <1>5, <2>1 DEF Paid, Counts
<1>8. Emptied(i)'
  BY <1>5, <1>6 DEF CountInv, Emptied, JoinedBy
<1> QED BY <1>2, <1>7, <1>8, LeavesCount

\* The steps of the loop in serialSearchActual.
LEMMA LoopCount ==
  ASSUME PartedInv, CountInv, NEW i \in Workers,
         \/ Loop(i) \/ Add(i)
         \/ (Take(i) \/ Follow(i) \/ Advance(i, "stat")) /\ UNCHANGED mainVars
  PROVE  CountInv' /\ Leaves(i)
<1>1. /\ i \in Threads /\ pc \in [Threads -> Steps] /\ local \in [Threads -> Locals]
      /\ local[i] \in Locals /\ QueueOf(i) = i /\ head \in [Threads -> Pointers]
      /\ args \in [Workers -> Args] /\ args[i] \in Args /\ count \in [Workers -> Int]
  BY Numbers, Kinds DEF StateOK
<1>2. Leaves(i)
  BY <1>1, Numbers DEF Leaves, Loop, Add, Take, Follow, Advance, Goto, queue, mainVars
<1>3. pc'[Main] = pc[Main] /\ slot' = slot
  BY <1>2, Numbers DEF Leaves
<1>4. Paid(i) /\ Emptied(i)
  BY DEF CountInv
<1>5. CASE Loop(i)
  <2>1. /\ pc[i] = "loop" /\ local' = local /\ head' = head /\ count' = count
        /\ \/ pc' = [pc EXCEPT ![i] = "take"]
           \/ /\ pc' = [pc EXCEPT ![i] = "off"] /\ head[i] = NULL
              /\ args' = [args EXCEPT ![i].result = count[i]]
    BY <1>1, <1>5 DEF Loop, At, Goto, queue, mainVars
  <2>2. pc'[i] = "take" \/ (pc'[i] = "off" /\ args'[i].result = count[i] /\ head[i] = NULL)
    BY <1>1, <2>1 DEF Args
  <2>3. Paid(i)'
    BY <1>4, <2>1, <2>2 DEF Paid
  <2>4. Emptied(i)'
    BY <1>3, <1>4, <2>1, <2>2 DEF Emptied, Created, JoinedBy
  <2> QED BY <1>2, <2>3, <2>4, LeavesCount
<1>6. CASE Add(i)
  <2>1. pc[i] = "return" /\ pc'[i] = "loop" /\ local'[i] = Fresh
    BY <1>1, <1>6 DEF Add, At, Goto
  <2>2. Paid(i)' /\ Emptied(i)'
    BY <1>3, <1>4, <2>1 DEF Paid, Emptied, JoinedBy, Fresh
  <2> QED BY <1>2, <2>2, LeavesCount
<1>7. CASE (Take(i) \/ Follow(i) \/ Advance(i, "stat")) /\ UNCHANGED mainVars
  <2>1. /\ pc[i] \in RemoveSteps /\ pc'[i] \in {"follow", "advance", "stat"}
        /\ local'[i].found = local[i].found
    BY <1>1, <1>7 DEF Take, Follow, Advance, At, Goto, RemoveSteps, Locals
  <2>2. Paid(i)' /\ Emptied(i)'
    BY <1>3, <1>4, <2>1 DEF Paid, Emptied, JoinedBy, RemoveSteps
  <2> QED BY <1>2, <2>2, LeavesCount
<1> QED BY <1>5, <1>6, <1>7

\* main leaves the threads alone, but for the one it creates and what it joins.
LEMMA MainLeaves ==
  ASSUME PartedInv, MainStep
  PROVE  /\ \A i \in Workers : /\ local'[i] = local[i] /\ count'[i] = count[i]
                               /\ pc'[i] = pc[i] \/ pc'[i] = "loop"
         /\ ~Create => \A i \in Workers : pc'[i] = pc[i] /\ args'[i] = args[i]
         /\ ~Join => num' = num
         /\ pc[Main] \in MainSteps
<1>1. /\ Main \in Threads /\ pc \in [Threads -> Steps] /\ local \in [Threads -> Locals]
      /\ \A i \in Workers : i \in Threads /\ i # Main
      /\ pc[Main] \in MainSteps
  BY Numbers, Kinds DEF Roles
<1>2. CASE HandleStep(Main) /\ UNCHANGED mainVars
  <2>1. OwnStep(Main)
    BY <1>1, <1>2, OwnStepIs
  <2> QED BY <1>1, <1>2, <2>1 DEF OwnStep, mainVars
<1>3. CASE Open \/ Opened \/ Deal \/ Dealt
  BY <1>1, <1>3 DEF Open, Opened, Deal, Dealt, Goto, mainVars
<1>4. CASE Create
  BY <1>1, <1>4 DEF Create, Goto
<1>5. CASE Join
  BY <1>1, <1>5 DEF Join, Goto
<1> QED BY <1>2, <1>3, <1>4, <1>5 DEF MainStep

\* The steps of main before it creates the threads.
LEMMA EarlySteps ==
  ASSUME PartedInv,
         Open \/ Opened \/ Deal \/ Dealt \/ (HandleStep(Main) /\ UNCHANGED mainVars)
  PROVE  /\ pc[Main] \notin {"create", "join", "done"}
         /\ pc'[Main] \notin {"create", "join", "done"} \/ Dealt
<1>1. Main \in Threads /\ pc \in [Threads -> Steps]
  BY Numbers, Kinds
<1>2. CASE HandleStep(Main) /\ UNCHANGED mainVars
  <2>1. OwnStep(Main)
    BY <1>1, <1>2, OwnStepIs
  <2> QED BY <2>1 DEF OwnStep, Busy, HandleSteps, InsertSteps
<1>3. CASE Open \/ Opened \/ Deal \/ Dealt
  BY <1>1, <1>3 DEF Open, Opened, Deal, Dealt, At, Goto
<1> QED BY <1>2, <1>3

LEMMA MainCount ==
  ASSUME PartedInv, CountInv, MainStep
  PROVE  CountInv'
<1>1. /\ Main \in Threads /\ pc \in [Threads -> Steps]
      /\ \A i \in Workers : i \in Threads /\ i # Main
      /\ slot \in 1..(NumThreads + 1) /\ NumThreads \in Nat /\ args \in [Workers -> Args]
      /\ StateOK /\ Roles
  BY Numbers, Kinds DEF StateOK
<1>2. /\ \A i \in Workers : local'[i] = local[i] /\ count'[i] = count[i]
      /\ ~Create => \A i \in Workers : pc'[i] = pc[i] /\ args'[i] = args[i]
  BY MainLeaves
<1>3. \A i \in Workers : Paid(i) /\ Emptied(i)
  BY DEF CountInv
<1>4. ASSUME Open \/ Opened \/ Deal \/ Dealt \/ (HandleStep(Main) /\ UNCHANGED mainVars)
      PROVE  CountInv'
  <2>1. pc[Main] \notin {"create", "join", "done"}
        /\ (pc'[Main] \notin {"create", "join", "done"} \/ Dealt)
    BY <1>4, EarlySteps
  <2>2. ~Create
    BY <2>1 DEF Create, At
  <2>3. \A i \in Workers : Paid(i)'
    BY <1>2, <1>3, <2>2 DEF Paid
  <2>4. ASSUME Dealt PROVE pc'[Main] = "create" /\ slot' = 1 /\ head'[Main] = NULL
    BY <1>1, <2>4 DEF Dealt, Goto, queue
  <2>5. MainEmptied'
    BY <2>1, <2>4 DEF MainEmptied
  <2>6. \A i \in Workers : ~Created(i)' /\ ~JoinedBy(i)'
    BY <2>1, <2>4 DEF Created, JoinedBy, Workers
  <2>7. \A i \in Workers : Emptied(i)'
    BY <2>6 DEF Emptied
  <2> QED BY <2>3, <2>5, <2>7 DEF CountInv
<1>5. ASSUME Create PROVE CountInv'
  <2>1. pc[Main] = "create" /\ head' = head /\ local' = local /\ count' = count
    BY <1>5 DEF Create, At, queue
  <2>2. MainEmptied'
    BY <2>1 DEF CountInv, MainEmptied
  <2>3. CASE slot \in Workers
    <3>1. /\ pc' = [pc EXCEPT ![slot] = "loop"] /\ slot' = slot + 1
          /\ args' = [args EXCEPT ![slot].queue = slot, ![slot].result = 0]
      BY <1>5, <2>3 DEF Create, Goto
    <3>2. pc'[slot] = "loop" /\ pc'[Main] = "create" /\ pc[slot] = "off"
      BY <1>1, <2>1, <2>3, <3>1 DEF Roles, Workers
    <3>3. \A i \in Workers : i # slot => pc'[i] = pc[i] /\ args'[i] = args[i]
      BY <1>1, <2>3, <3>1
    <3>4. \A i \in Workers : Paid(i)'
      BY <1>3, <2>1, <3>2, <3>3 DEF Paid
    <3>5. \A i \in Workers : i < slot + 1 /\ i # slot => i < slot
      BY <1>1 DEF Workers
    <3>6. \A i \in Workers : Emptied(i)'
      BY <1>3, <2>1, <3>1, <3>2, <3>3, <3>5 DEF Emptied, Created, JoinedBy
    <3> QED BY <2>2, <3>4, <3>6 DEF CountInv
  <2>4. CASE slot \notin Workers
    <3>1. pc' = [pc EXCEPT ![Main] = "join"] /\ slot' = 1 /\ args' = args
      BY <1>5, <2>4 DEF Create, Goto
    <3>2. pc'[Main] = "join" /\ \A i \in Workers : pc'[i] = pc[i]
      BY <1>1, <3>1
    <3>3. \A i \in Workers : Paid(i)'
      BY <1>3, <2>1, <3>1, <3>2 DEF Paid
    <3>4. \A i \in Workers : i < slot /\ ~(i < 1)
      BY <1>1, <2>4 DEF Workers
    <3>5. \A i \in Workers : Created(i) /\ ~JoinedBy(i)'
      BY <2>1, <3>1, <3>2, <3>4 DEF Created, JoinedBy
    <3>6. \A i \in Workers : Emptied(i)'
      BY <1>3, <2>1, <3>2, <3>5 DEF Emptied
    <3> QED BY <2>2, <3>3, <3>6 DEF CountInv
  <2> QED BY <2>3, <2>4
<1>6. ASSUME Join PROVE CountInv'
  <2>1. /\ pc[Main] = "join" /\ head' = head /\ ~Create
        /\ pc'[Main] \in {"join", "done"}
    BY <1>1, <1>6 DEF Join, Create, At, Goto, queue
  <2>2. MainEmptied'
    BY <2>1 DEF CountInv, MainEmptied
  <2>3. \A i \in Workers : Paid(i)'
    BY <1>2, <1>3, <2>1 DEF Paid
  <2>4. \A i \in Workers : Created(i)
    BY <2>1 DEF Created
  <2>5. ASSUME NEW i \in Workers, JoinedBy(i)' PROVE pc[i] = "off"
    <3>1. CASE slot \in Workers
      <4>1. slot' = slot + 1 /\ pc[slot] = "off" /\ pc' = pc
        BY <1>6, <3>1 DEF Join, Joined
      <4>2. i < slot \/ i = slot
        BY <1>1, <2>1, <2>5, <3>1, <4>1 DEF JoinedBy, Workers
      <4> QED BY <1>3, <2>1, <4>1, <4>2 DEF Emptied, JoinedBy
    <3>2. CASE slot \notin Workers
      <4>1. i < slot
        BY <1>1, <3>2 DEF Workers
      <4> QED BY <1>3, <2>1, <4>1 DEF Emptied, JoinedBy
    <3> QED BY <3>1, <3>2
  <2>6. \A i \in Workers : Emptied(i)'
    BY <1>2, <1>3, <2>1, <2>4, <2>5 DEF Emptied
  <2> QED BY <2>2, <2>3, <2>6 DEF CountInv
<1> QED BY <1>4, <1>5, <1>6 DEF MainStep

LEMMA NextCount == PartedInv /\ CountInv /\ [Next]_vars => CountInv'
<1>1. ASSUME CountInv, UNCHANGED vars PROVE CountInv'
  <2>1. /\ pc' = pc /\ local' = local /\ head' = head /\ args' = args
        /\ count' = count /\ slot' = slot
    BY <1>1 DEF vars, grepVars, queue, mainVars
  <2> QED BY <1>1, <2>1 DEF CountInv, MainEmptied, Paid, Emptied, Created, JoinedBy
<1>2. ASSUME PartedInv, CountInv, NEW i \in Workers, WorkerStep(i) PROVE CountInv'
  BY <1>2, HandleCount, LoopCount DEF WorkerStep
<1>3. ASSUME PartedInv, CountInv, MainStep PROVE CountInv'
  BY <1>3, MainCount
<1> QED BY <1>1, <1>2, <1>3 DEF Next

-----------------------------------------------------------------------------
(* What each step adds to the credit.                                      *)

CreditStep ==
  /\ \A i \in Workers : Counts(i) => Credit' = Credit + Yield(node[local[i].el])
  /\ (\A i \in Workers : ~Counts(i)) => Credit' = Credit

\* Of a step of thread i, what it adds to the share of the thread.
LEMMA LeavesCredit ==
  ASSUME PartedInv, PartedInv', NEW i \in Workers, Leaves(i), i \in Unjoined,
         Counts(i) => /\ Yield(node[local[i].el]) \in Int
                      /\ Share'[i] = Share[i] + Yield(node[local[i].el]),
         ~Counts(i) => Share'[i] = Share[i]
  PROVE  CreditStep
<1>1. \A j \in Workers : j \in Threads /\ j # Main
  BY Numbers
<1>2. pc'[Main] = pc[Main] /\ slot' = slot /\ num' = num
  BY <1>1, Numbers DEF Leaves
<1>3. Unjoined' = Unjoined
  BY <1>2 DEF Unjoined
<1>4. \A j \in Workers : j # i => Share'[j] = Share[j] /\ ~Counts(j)
  BY <1>1 DEF Leaves, Share, Counts
<1>5. CASE Counts(i)
  <2>1. Credit' = Credit + Yield(node[local[i].el])
    BY <1>2, <1>3, <1>4, <1>5, MoreCredit
  <2> QED BY <1>4, <1>5, <2>1 DEF CreditStep
<1>6. CASE ~Counts(i)
  <2>1. Credit' = Credit
    BY <1>2, <1>3, <1>4, <1>6, SameCredit
  <2> QED BY <1>4, <1>6, <2>1 DEF CreditStep
<1> QED BY <1>5, <1>6

\* A thread that is not off has not been joined.
LEMMA AtWork ==
  ASSUME CountInv, NEW i \in Workers, pc[i] # "off"
  PROVE  i \in Unjoined
BY DEF CountInv, Emptied, JoinedBy, Unjoined

LEMMA WorkerCredit ==
  ASSUME PartedInv, PartedInv', CountInv, NEW i \in Workers, WorkerStep(i)
  PROVE  CreditStep
<1>1. /\ i \in Threads /\ pc \in [Threads -> Steps] /\ local \in [Threads -> Locals]
      /\ local[i] \in Locals /\ count \in [Workers -> Int] /\ count[i] \in Int
  BY Numbers, Kinds DEF StateOK
<1>2. Leaves(i)
  BY HandleCount, LoopCount DEF WorkerStep
<1>3. Paid(i)
  BY DEF CountInv
<1>4. CASE HandleStep(i) /\ UNCHANGED mainVars
  <2>1. /\ pc[i] \in Busy \ {"return"} /\ pc'[i] \in Busy /\ count' = count
    BY <1>1, <1>4, OwnStepIs DEF OwnStep, mainVars
  <2>2. local'[i].found = IF Counts(i) THEN Yield(node[local[i].el]) ELSE local[i].found
    BY <1>1, <1>4, HandleFinds
  <2>3. i \in Unjoined
    BY <2>1, AtWork DEF Busy, HandleSteps, InsertSteps
  <2>4. Share[i] = count[i] /\ local[i].found = 0
    BY <1>1, <1>3, <2>1 DEF Share, Paid
  <2>5. ASSUME Counts(i)
        PROVE  /\ Yield(node[local[i].el]) \in Int
               /\ Share'[i] = Share[i] + Yield(node[local[i].el])
    <3>1. local'[i] \in Locals
      BY <1>1, Kinds DEF PartedInv, Typed, StateOK
    <3>2. Yield(node[local[i].el]) \in Int
      BY <2>2, <2>5, <3>1 DEF Locals
    <3>3. pc'[i] = "return"
      BY <2>5 DEF Counts
    <3> QED BY <2>1, <2>2, <2>4, <2>5, <3>2, <3>3 DEF Share
  <2>6. ~Counts(i) => Share'[i] = Share[i]
    BY <1>1, <2>1, <2>2, <2>4 DEF Share
  <2> QED BY <1>2, <2>3, <2>5, <2>6, LeavesCredit
<1>5. CASE ~(HandleStep(i) /\ UNCHANGED mainVars)
  <2>1. pc[i] \in {"loop", "return"} \cup RemoveSteps
    BY <1>5 DEF WorkerStep, Loop, Add, Take, Follow, Advance, At, RemoveSteps
  <2>2. i \in Unjoined /\ ~Counts(i)
    BY <2>1, AtWork DEF RemoveSteps, Counts
  <2>3. Share'[i] = Share[i]
    <3>1. CASE Add(i)
      <4>1. /\ pc[i] = "return" /\ pc'[i] = "loop" /\ local'[i].found = 0
            /\ count'[i] = count[i] + local[i].found
        BY <1>1, <3>1 DEF Add, At, Goto, Fresh
      <4> QED BY <1>1, <4>1 DEF Share, Locals
    <3>2. CASE ~Add(i)
      <4>1. /\ pc[i] \in {"loop"} \cup RemoveSteps /\ pc'[i] \in {"take", "off", "follow", "advance", "stat"}
            /\ count' = count
        BY <1>1, <1>5, <3>2 DEF WorkerStep, Loop, Take, Follow, Advance, At, Goto, RemoveSteps, mainVars
      <4> QED BY <4>1 DEF Share, RemoveSteps
    <3> QED BY <3>1, <3>2
  <2> QED BY <1>2, <2>2, <2>3, LeavesCredit
<1> QED BY <1>4, <1>5

\* A step of main takes over a thread's share or leaves all as it is.
LEMMA MainCredit ==
  ASSUME PartedInv, CountInv, MainStep
  PROVE  CreditStep
<1>1. /\ Main \in Threads /\ pc \in [Threads -> Steps]
      /\ \A i \in Workers : i \in Threads /\ i # Main
      /\ slot \in 1..(NumThreads + 1) /\ NumThreads \in Nat
      /\ StateOK /\ Roles /\ num \in Int
  BY Numbers, Kinds DEF StateOK
<1>2. /\ \A i \in Workers : /\ local'[i] = local[i] /\ count'[i] = count[i]
                            /\ pc'[i] = pc[i] \/ pc'[i] = "loop"
      /\ ~Create => \A i \in Workers : pc'[i] = pc[i] /\ args'[i] = args[i]
      /\ ~Join => num' = num
  BY MainLeaves
<1>3. SUFFICES Credit' = Credit
  BY <1>2 DEF CreditStep, Counts
<1>4. \A i \in Workers : Share'[i] = Share[i]
  <2>1. CASE Create
    <3>1. pc[Main] = "create"
      BY <2>1 DEF Create, At
    <3>2. \A i \in Workers : pc'[i] = pc[i] \/ (pc[i] = "off" /\ pc'[i] = "loop")
      BY <1>1, <2>1, <3>1 DEF Create, Goto, Roles, Workers
    <3> QED BY <1>2, <3>2 DEF Share
  <2>2. CASE ~Create
    BY <1>2, <2>2 DEF Share
  <2> QED BY <2>1, <2>2
<1>5. ASSUME ~Join PROVE Credit' = Credit
  <2>1. pc[Main] \notin {"join", "done"} /\ (pc'[Main] = "join" => slot' = 1) /\ pc'[Main] # "done"
    <3>1. CASE Create
      BY <1>1, <3>1 DEF Create, At, Goto
    <3>2. CASE ~Create
      <4>1. Open \/ Opened \/ Deal \/ Dealt \/ (HandleStep(Main) /\ UNCHANGED mainVars)
        BY <1>5, <3>2 DEF MainStep
      <4>2. Dealt => pc'[Main] = "create"
        BY <1>1 DEF Dealt, Goto
      <4> QED BY <4>1, <4>2, EarlySteps
    <3> QED BY <3>1, <3>2
  <2>2. Unjoined' = Workers /\ Unjoined = Workers
    BY <2>1 DEF Unjoined, Workers
  <2> QED BY <1>2, <1>4, <1>5, <2>2, SameCredit
<1>6. ASSUME Join PROVE Credit' = Credit
  <2>1. pc[Main] = "join"
    BY <1>6 DEF Join, At
  <2>2. CASE slot \in Workers
    <3>1. PICK k \in Workers : k = slot
      BY <2>2
    <3>2. /\ num' = num + args[k].result /\ slot' = k + 1 /\ pc' = pc /\ pc[k] = "off"
      BY <1>6, <3>1 DEF Join, Joined
    <3>3. Share[k] = count[k] + 0 /\ args[k].result = count[k] /\ count[k] \in Int
      BY <3>2, ShareType DEF Share, CountInv, Paid
    <3>4. k \in Unjoined /\ Unjoined' = Unjoined \ {k}
      BY <2>1, <3>1, <3>2 DEF Unjoined, Workers
    <3>5. /\ SumTo(Share, Unjoined) = Share[k] + SumTo(Share, Unjoined \ {k})
          /\ SumTo(Share, Unjoined) \in Int
      BY <3>4, ShareType, SumRemove
    <3>6. IsFiniteSet(Unjoined \ {k}) /\ \A j \in Unjoined \ {k} : Share[j] = Share'[j] /\ Share[j] \in Int
      BY <1>4, ShareType, FS_RemoveElement
    <3>7. SumTo(Share, Unjoined \ {k}) = SumTo(Share', Unjoined \ {k})
      BY <3>6, SumAgree
    <3>8. SumTo(Share, Unjoined \ {k}) \in Int
      BY <3>6, SumRemove
    <3>9. Credit' = num' + SumTo(Share', Unjoined \ {k})
      BY <3>4, CreditIsNext
    <3> QED BY <1>1, <3>2, <3>3, <3>5, <3>7, <3>8, <3>9, CreditIs
  <2>3. CASE slot \notin Workers
    <3>1. num' = num /\ pc'[Main] = "done"
      BY <1>1, <1>6, <2>3 DEF Join, Goto
    <3>2. Unjoined = {} /\ Unjoined' = {}
      BY <1>1, <2>1, <2>3, <3>1 DEF Unjoined, Workers
    <3> QED BY <1>4, <3>1, <3>2, SameCredit
  <2> QED BY <2>2, <2>3
<1> QED BY <1>5, <1>6

-----------------------------------------------------------------------------
(* The search, as long as no two threads list at once.                     *)

\* The work as the property has it is what waits or is owed.
LEMMA PendingIs == PartedInv /\ TreeInv => Pending = Todo
<1> SUFFICES ASSUME PartedInv, TreeInv PROVE Pending = Todo
  OBVIOUS
<1>1. \A q \in Queues : Chain(head[q]) = Chained(q)
  BY ChainIs, Kinds, Numbers DEF Chained
<1>2. /\ \A e \in Queued : \E t \in Threads : e \in Chained(t)
      /\ \A t \in Threads : \A e \in Chained(t) : e \in Queued
  BY <1>1, Numbers DEF Queued
<1> DEFINE Hand == {"follow", "advance", "spawn", "open", "exit", "stat"}
<1>3. \A t \in Threads : pc[t] # "spawn"
  BY Kinds DEF Steps, MainSteps, WorkerSteps, Busy, HandleSteps, InsertSteps, RemoveSteps
<1>4. \A t \in Threads : pc[t] \in Hand \cup Reading => t \in Holders
  BY DEF Holders, Reading, HandleSteps
<1>5. \A t \in Threads : local[t].unread # <<>> => pc[t] \in Reading
  BY DEF TreeInv, Reads
<1>6. Holders \subseteq Threads
  BY DEF Holders
<1> DEFINE P1 == {node[e] : e \in Queued}
           P2 == {node[local[t].el] : t \in {u \in Holders : pc[u] \in Hand}}
           P3 == UNION {Entries(node[local[t].el], ToSet(local[t].unread)) : t \in
                          {u \in Holders : local[u].unread # <<>>}}
           P4 == UNION {Entries(node[local[t].el], {entry}) : t \in
                          {u \in Holders : pc[u] \in {"dot", "dotdot", "name"}}}
           P5 == {node[local[t].new] : t \in {u \in Holders : pc[u] \in InsertSteps}}
<1>7. Pending = P1 \cup P2 \cup P3 \cup P4 \cup P5
  BY DEF Pending
<1>8. P1 \cup P2 \cup P5 = {node[e] : e \in Waiting}
  <2>1. ASSUME NEW e \in Waiting PROVE node[e] \in P1 \cup P2 \cup P5
    <3>1. PICK t \in Threads : e \in Chained(t) \/ e \in Holds(t)
      BY <2>1 DEF Waiting, Has
    <3>2. CASE e \in Chained(t)
      BY <1>2, <3>2
    <3>3. CASE e \in Holds(t)
      <4>1. \/ pc[t] \in Hand /\ e = local[t].el
            \/ pc[t] \in InsertSteps /\ e = local[t].new
        BY <3>3 DEF Holds
      <4>2. t \in Holders
        BY <1>4, <4>1 DEF Reading
      <4> QED BY <4>1, <4>2
    <3> QED BY <3>1, <3>2, <3>3
  <2>2. ASSUME NEW x \in P1 PROVE \E e \in Waiting : x = node[e]
    BY <1>2, <2>2 DEF Waiting, Has
  <2>3. ASSUME NEW x \in P2 PROVE \E e \in Waiting : x = node[e]
    <3>1. PICK t \in Threads : pc[t] \in Hand /\ x = node[local[t].el]
      BY <1>6, <2>3
    <3>2. local[t].el \in Holds(t)
      BY <1>3, <3>1 DEF Holds
    <3> QED BY <3>1, <3>2 DEF Waiting, Has
  <2>4. ASSUME NEW x \in P5 PROVE \E e \in Waiting : x = node[e]
    <3>1. PICK t \in Threads : pc[t] \in InsertSteps /\ x = node[local[t].new]
      BY <1>6, <2>4
    <3>2. local[t].new \in Holds(t)
      BY <3>1 DEF Holds
    <3> QED BY <3>1, <3>2 DEF Waiting, Has
  <2> HIDE DEF P1, P2, P5
  <2> QED BY <2>1, <2>2, <2>3, <2>4
<1>9. P3 \cup P4 = Owing
  <2>1. ASSUME NEW t \in Threads, pc[t] \in Reading
        PROVE  Owed(t) = Entries(node[local[t].el], ToSet(local[t].unread))
                 \cup (IF pc[t] \in {"dot", "dotdot", "name"} THEN Entries(node[local[t].el], {entry}) ELSE {})
    BY <2>1 DEF Owed, Unlisted, Entries
  <2>2. ToSet(<<>>) = {}
    BY DEF ToSet
  <2>3. ASSUME NEW x \in Owing PROVE x \in P3 \cup P4
    <3>1. PICK t \in Threads : x \in Owed(t)
      BY <2>3 DEF Owing
    <3>2. pc[t] \in Reading /\ t \in Holders
      BY <1>4, <3>1 DEF Owed
    <3>3. CASE x \in Entries(node[local[t].el], ToSet(local[t].unread))
      <4>1. local[t].unread # <<>>
        BY <2>2, <3>3 DEF Entries
      <4> QED BY <3>2, <3>3, <4>1
    <3>4. CASE pc[t] \in {"dot", "dotdot", "name"} /\ x \in Entries(node[local[t].el], {entry})
      BY <3>2, <3>4
    <3> QED BY <2>1, <3>1, <3>2, <3>3, <3>4
  <2>4. ASSUME NEW x \in P3 PROVE x \in Owing
    <3>1. PICK t \in Threads : local[t].unread # <<>> /\ x \in Entries(node[local[t].el], ToSet(local[t].unread))
      BY <1>6, <2>4
    <3>2. pc[t] \in Reading
      BY <1>5, <3>1
    <3> QED BY <2>1, <3>1, <3>2 DEF Owing
  <2>5. ASSUME NEW x \in P4 PROVE x \in Owing
    <3>1. PICK t \in Threads : pc[t] \in {"dot", "dotdot", "name"} /\ x \in Entries(node[local[t].el], {entry})
      BY <1>6, <2>5
    <3>2. pc[t] \in Reading
      BY <3>1 DEF Reading
    <3> QED BY <2>1, <3>1, <3>2 DEF Owing
  <2> HIDE DEF P3, P4
  <2> QED BY <2>3, <2>4, <2>5
<1> HIDE DEF P1, P2, P3, P4, P5
<1> QED BY <1>7, <1>8, <1>9 DEF Todo

LEMMA PendingIsNext == PartedInv' /\ TreeInv' => Pending' = Todo'
<1>1. (PartedInv /\ TreeInv => Pending = Todo)'
  BY PendingIs, PTL
<1> QED BY <1>1

\* What is counted is what the files handled so far hold.
Right == Alone /\ Serial /\ TreeInv /\ Credit = SumTo(Hits, Counted)

SearchInv == ~overlap => Right

\* One step of the work, or none.
WorkStep == Work!Next \/ (Pending' = Pending /\ Credit' = Credit)

LEMMA StillWorks ==
  ASSUME PartedInv, PartedInv', CreditStep, Right, Alone', Still
  PROVE  Right' /\ WorkStep
<1>1. Credit' = Credit
  BY DEF Still, CreditStep
<1>2. Right'
  BY <1>1 DEF Right, Still
<1>3. Pending' = Pending
  BY PendingIs, PendingIsNext DEF Right, Still
<1> QED BY <1>1, <1>2, <1>3 DEF WorkStep

LEMMA HandlesWorks ==
  ASSUME Tree, PartedInv, PartedInv', CreditStep, Right, Alone',
         NEW t \in Threads, Handles(t)
  PROVE  Right' /\ WorkStep
<1> DEFINE n == node[local[t].el]
<1>1. /\ TreeInv' /\ n \in Todo /\ Todo' = (Todo \ {n}) \cup Revealed(n)
      /\ n \notin Counted
      /\ Counted' = IF n \in Files \ Unreadable THEN Counted \cup {n} ELSE Counted
      /\ ~Listed(n) => t \in Workers
      /\ \A i \in Workers : Counts(i) <=> i = t /\ ~Listed(n)
      /\ Serial'
  BY DEF Handles
<1>2. Pending = Todo /\ Pending' = Todo'
  BY <1>1, PendingIs, PendingIsNext DEF Right
<1>3. n \in Nodes
  <2>1. local[t].el \in 1..used
    BY DEF Handles
  <2>2. Known \subseteq Nodes
    BY KnownNodes DEF Right
  <2> QED BY <2>1, <2>2 DEF Known
<1>4. /\ n \in Files \ Unreadable => Yield(n) = Hits[n] /\ ~Listed(n)
      /\ n \notin Files \ Unreadable => Yield(n) = 0
  BY <1>3, YieldIs
<1>5. Credit \in Int /\ Counted \in SUBSET (Files \ Unreadable)
  <2>1. Counted \in SUBSET (Files \ Unreadable) /\ IsFiniteSet(Counted)
    <3>1. Counted \in SUBSET (Files \ Unreadable) /\ IsFiniteSet(Files)
      BY DEF Counted, Tree
    <3> QED BY <3>1, FS_Subset
  <2>2. \A x \in Counted : Hits[x] \in Int
    BY <2>1, MiniGrepAssumption
  <2>3. SumTo(Hits, Counted) \in Int
    BY <2>1, <2>2, SumRemove
  <2> QED BY <2>1, <2>3 DEF Right
<1>6. Credit' = Credit + Yield(n)
  <2>1. CASE ~Listed(n)
    BY <1>1, <2>1 DEF CreditStep
  <2>2. CASE Listed(n)
    <3>1. Credit' = Credit
      BY <1>1, <2>2 DEF CreditStep
    <3>2. Yield(n) = 0
      BY <1>4, <2>2
    <3> QED BY <1>5, <3>1, <3>2
  <2> QED BY <2>1, <2>2
<1>7. Credit' = SumTo(Hits, Counted')
  <2>1. CASE n \in Files \ Unreadable
    <3>1. SumTo(Hits, Counted \cup {n}) = SumTo(Hits, Counted) + Hits[n]
      BY <1>1, <1>5, <2>1, HitsMore
    <3>2. Counted' = Counted \cup {n} /\ Yield(n) = Hits[n]
      BY <1>1, <1>4, <2>1
    <3> QED BY <1>6, <3>1, <3>2 DEF Right
  <2>2. CASE n \notin Files \ Unreadable
    <3>1. Counted' = Counted /\ Credit' = Credit
      BY <1>1, <1>4, <1>5, <1>6, <2>2
    <3> QED BY <3>1 DEF Right
  <2> QED BY <2>1, <2>2
<1>8. Right'
  BY <1>1, <1>7 DEF Right
<1>9. Work!Next
  BY <1>1, <1>2, <1>6 DEF Work!Next, Work!Handle
<1> QED BY <1>8, <1>9 DEF WorkStep

\* No two threads list after a step that is not an overlap.
LEMMA WatchAlone ==
  ASSUME Watch, ~overlap'
  PROVE  ~overlap /\ Alone'
<1>1. ~overlap /\ ~(Cardinality(Listers') > 1)
  BY DEF Watch
<1>2. IsFiniteSet(Listers')
  <2>1. IsFiniteSet(Threads)
    BY Numbers, FS_Interval DEF Threads
  <2>2. Listers' \in SUBSET Threads
    BY DEF Listers
  <2> QED BY <2>1, <2>2, FS_Subset
<1>3. ASSUME NEW t \in Listers', NEW u \in Listers', t # u PROVE FALSE
  <2>1. {t, u} \in SUBSET Listers' /\ IsFiniteSet({t, u})
    BY <1>2, FS_Subset
  <2>2. Cardinality({t, u}) <= Cardinality(Listers')
    BY <1>2, <2>1, FS_Subset
  <2>3. {t} \cup {u} = {t, u} /\ u \notin {t} /\ IsFiniteSet({t}) /\ Cardinality({t}) = 1
    BY <1>3, FS_Singleton
  <2>4. Cardinality({t} \cup {u}) = Cardinality({t}) + 1
    BY <2>3, FS_AddElement
  <2>5. Cardinality(Listers') \in Nat
    BY <1>2, FS_CardinalityType
  <2>6. Cardinality({t, u}) = 2
    BY <2>3, <2>4
  <2> QED BY <1>1, <2>2, <2>5, <2>6
<1> QED BY <1>1, <1>3 DEF Alone

LEMMA InitSearch == Tree /\ Init => Right /\ Pending = {Root} /\ Credit = 0
<1> SUFFICES ASSUME Tree, Init PROVE Right /\ Pending = {Root} /\ Credit = 0
  OBVIOUS
<1>1. PartedInv
  BY PartedInit
<1>2. /\ pc[Main] = "open" /\ local[Main].el = 1 /\ local[Main].unread = <<>>
      /\ \A i \in Workers : pc[i] = "off" /\ local[i] = Fresh /\ count[i] = 0
      /\ used = 1 /\ node[1] = Root /\ num = 0
      /\ \A t \in Threads : head[t] = NULL
  BY Numbers DEF Init, Fresh
<1>3. \A t \in Threads : t = Main \/ t \in Workers
  BY Numbers DEF Threads, Workers, Main
<1>4. \A t \in Threads : /\ pc[t] \in {"open", "off"} /\ pc[t] \notin Reading \cup InsertSteps
                         /\ local[t].unread = <<>>
  <2>1. Fresh.unread = <<>>
    BY DEF Fresh
  <2>2. \A t \in Threads : pc[t] \in {"open", "off"} /\ local[t].unread = <<>>
    BY <1>2, <1>3, <2>1
  <2> QED BY <2>2 DEF Reading, InsertSteps
<1>5. \A t \in Threads : Chained(t) = {}
  BY <1>2, Kinds, <1>1, Numbers, ReachHas DEF Chained
<1>6. Alone
  BY <1>4 DEF Alone, Listers, Reading
<1>7. Serial
  <2>1. \A q \in Queues : Tails(q)
    BY <1>2, <1>4, Numbers DEF Tails, InsertSteps
  <2>2. \A t \in Threads : pc[t] \in Handling => t = Main
    BY <1>2, <1>3 DEF Handling, Busy, HandleSteps, InsertSteps
  <2> QED BY <2>1, <2>2 DEF Serial, Hands
<1>8. Waiting = {1}
  <2>1. Holds(Main) = {1}
    BY <1>2, <1>4, Numbers DEF Holds
  <2>2. \A i \in Workers : Holds(i) = {}
    BY <1>2, <1>4, Numbers DEF Holds
  <2>3. \A t \in Threads : Has(t) \subseteq {1}
    BY <1>3, <1>5, <2>1, <2>2 DEF Has
  <2>4. 1 \in Has(Main)
    BY <2>1 DEF Has
  <2> QED BY <2>3, <2>4, Numbers DEF Waiting
<1>9. \A t \in Threads : Owed(t) = {} /\ Reads(t)
  BY <1>4 DEF Owed, Reads
<1>10. Known = {Root} /\ 1..used = {1} /\ 2..used = {}
  BY <1>2 DEF Known
<1>11. TreeInv
  <2>1. Planted
    BY <1>2, <1>10 DEF Planted
  <2>2. Untouched
    <3>1. Revealed(Root) \cap {Root} = {}
      BY TreeFacts
    <3> QED BY <1>2, <1>8, <1>9, <1>10, <3>1 DEF Untouched
  <2>3. Complete
    BY <1>8, <1>10 DEF Complete
  <2> QED BY <1>8, <1>9, <1>10, <2>1, <2>2, <2>3 DEF TreeInv
<1>12. Todo = {Root} /\ Counted = {}
  <2>1. Owing = {}
    BY <1>9 DEF Owing
  <2> QED BY <1>2, <1>8, <1>10, <2>1 DEF Todo, Counted
<1>13. Credit = 0
  <2>1. \A i \in Workers : Share[i] = 0
    BY <1>2 DEF Share
  <2>2. IsFiniteSet(Unjoined) /\ Unjoined \subseteq Workers
    BY <1>1, ShareType
  <2>3. \A i \in Unjoined : Share[i] = 0
    BY <2>1, <2>2
  <2>4. SumTo(Share, Unjoined) = 0
    BY <2>2, <2>3, SumZero
  <2> QED BY <1>2, <2>4, CreditIs
<1>14. SumTo(Hits, Counted) = 0
  <2>1. IsFiniteSet({}) /\ \A x \in {} : Hits[x] = 0
    BY FS_EmptySet
  <2>2. SumTo(Hits, {}) = 0
    BY <2>1, SumZero
  <2> QED BY <1>12, <2>2
<1>15. Pending = Todo
  BY <1>1, <1>11, PendingIs
<1> QED BY <1>6, <1>7, <1>11, <1>12, <1>13, <1>14, <1>15 DEF Right

LEMMA HandleWorks ==
  ASSUME Tree, Now, NEW t \in Threads, HandleStep(t), UNCHANGED mainVars
  PROVE  Still \/ Handles(t)
BY StatHandles, ReadIsStill, NameIsStill, InsertIsStill, SetHeadIsStill, GetTailIsStill,
   LinkIsStill, GetNextIsStill, SetTailIsStill DEF HandleStep

LEMMA NextSearch ==
  ASSUME Tree, PartedInv, PartedInv', CountInv, Right, Next, ~overlap'
  PROVE  Right' /\ WorkStep
<1>1. Now
  BY DEF Now, Right
<1>2. Alone'
  BY WatchAlone DEF Next
<1>3. CreditStep
  BY WorkerCredit, MainCredit DEF Next
<1>4. ASSUME MainStep PROVE Still \/ Handles(Main)
  BY <1>1, <1>4, Numbers, OpenWorks, MainStill, CreateStill, DealStill, HandleWorks DEF MainStep
<1>5. ASSUME NEW i \in Workers, WorkerStep(i) PROVE Still \/ Handles(i)
  BY <1>1, <1>5, Numbers, WorkerStill, TakeIsStill, FollowIsStill, AdvanceIsStill, HandleWorks
     DEF WorkerStep
<1>6. Still \/ \E t \in Threads : Handles(t)
  BY <1>4, <1>5, Numbers DEF Next
<1> QED BY <1>2, <1>3, <1>6, StillWorks, HandlesWorks

LEMMA StutterSearch ==
  ASSUME PartedInv, PartedInv', Right, UNCHANGED vars
  PROVE  Right' /\ WorkStep
<1>1. /\ node' = node /\ used' = used /\ next' = next /\ head' = head /\ tail' = tail /\ entry' = entry
      /\ pc' = pc /\ local' = local /\ args' = args /\ num' = num /\ slot' = slot /\ count' = count
  BY DEF vars, grepVars, memory, queue, mainVars
<1>2. Serial' /\ Alone' /\ TreeInv'
  <2>1. Serial'
    BY <1>1 DEF Right, Serial, Tails, Hands, Chained
  <2>2. Alone'
    BY <1>1 DEF Right, Alone, Listers
  <2>3. \A t \in Threads : Has(t)' = Has(t)
    BY <1>1 DEF Has, Holds, Chained
  <2>4. Waiting' = Waiting
    BY <2>3, SameWaiting
  <2>5. \A t \in Threads : Reads(t)' /\ Owed(t)' = Owed(t)
    BY <1>1 DEF Right, TreeInv, Reads, Lists, Unlisted, Owed
  <2>6. TreeInv'
    BY <1>1, <2>4, <2>5, TreeSame DEF Right
  <2> QED BY <2>1, <2>2, <2>6
<1>3. Waiting' = Waiting /\ \A t \in Threads : Owed(t)' = Owed(t)
  <2>1. \A t \in Threads : Has(t)' = Has(t)
    BY <1>1 DEF Has, Holds, Chained
  <2> QED BY <1>1, <2>1, SameWaiting DEF Owed, Unlisted
<1>4. Todo' = Todo /\ Counted' = Counted
  BY <1>1, <1>3 DEF Todo, Owing, Counted
<1>5. \A i \in Workers : ~Counts(i)
  BY <1>1 DEF Counts
<1>6. Still
  BY <1>2, <1>4, <1>5 DEF Still
<1>7. CreditStep
  <2>1. Credit' = Credit
    BY <1>1, SameCredit DEF Unjoined, Share
  <2> QED BY <1>5, <2>1 DEF CreditStep
<1> QED BY <1>2, <1>6, <1>7, StillWorks

LEMMA SearchInvariant ==
  ASSUME Tree
  PROVE  /\ Init => SearchInv /\ Work!Init
         /\ PartedInv /\ PartedInv' /\ CountInv /\ SearchInv /\ [Next]_vars
              => SearchInv' /\ (overlap' \/ WorkStep)
<1>1. Init => SearchInv /\ Work!Init
  BY InitSearch DEF SearchInv, Work!Init
<1>2. ASSUME PartedInv, PartedInv', CountInv, SearchInv, [Next]_vars, ~overlap'
      PROVE  Right' /\ WorkStep
  <2>1. CASE Next
    <3>1. ~overlap
      BY <1>2, <2>1, WatchAlone DEF Next
    <3> QED BY <1>2, <2>1, <3>1, NextSearch DEF SearchInv
  <2>2. CASE UNCHANGED vars
    <3>1. ~overlap
      BY <1>2, <2>2 DEF vars
    <3> QED BY <1>2, <2>2, <3>1, StutterSearch DEF SearchInv
  <2> QED BY <1>2, <2>1, <2>2
<1>3. PartedInv /\ PartedInv' /\ CountInv /\ SearchInv /\ [Next]_vars
        => SearchInv' /\ (overlap' \/ WorkStep)
  BY <1>2 DEF SearchInv
<1> QED BY <1>1, <1>3

\* When main is done, nothing is left of the tree that can be read.
LEMMA DoneFinds == Tree /\ PartedInv /\ CountInv /\ SearchInv => FindsAll
<1> SUFFICES ASSUME Tree, PartedInv, CountInv, SearchInv, pc[Main] = "done", ~overlap
             PROVE  num = Total
  BY DEF FindsAll
<1>1. Right
  BY DEF SearchInv
<1>2. \A t \in Threads : pc[t] \in {"done", "off"} /\ head[t] = NULL
  <2>1. \A i \in Workers : pc[i] = "off" /\ head[i] = NULL
    BY DEF CountInv, Emptied, Created, JoinedBy
  <2>2. head[Main] = NULL
    BY DEF CountInv, MainEmptied
  <2>3. \A t \in Threads : t = Main \/ t \in Workers
    BY Numbers DEF Threads, Workers, Main
  <2> QED BY <2>1, <2>2, <2>3
<1>3. Waiting = {}
  <2>1. Reach(next, NULL) = {}
    BY Numbers, Kinds, ReachHas
  <2>2. \A t \in Threads : Has(t) = {}
    BY <1>2, <2>1 DEF Has, Chained, Holds, InsertSteps
  <2> QED BY <2>2 DEF Waiting
<1>4. \A t \in Threads : Owed(t) = {}
  BY <1>2 DEF Owed, Reading, InsertSteps
<1>5. \A n \in Known : Revealed(n) \subseteq Known
  BY <1>1, <1>3, <1>4 DEF Right, TreeInv, Complete, Known
<1>6. Known \in SUBSET Nodes /\ Root \in Known
  <2>1. 1 \in 1..used /\ node[1] = Root
    BY <1>1, Kinds DEF Right, TreeInv, Planted
  <2> QED BY <1>1, <2>1, KnownNodes DEF Right, Known
<1>7. Files \ Unreadable \subseteq Known
  BY <1>5, <1>6 DEF Tree
<1>8. Counted = Files \ Unreadable
  BY <1>3, <1>7 DEF Counted, Known
<1>9. Credit = num
  <2>1. Unjoined = {}
    BY DEF Unjoined
  <2>2. SumTo(Share, {}) = 0
    BY FS_EmptySet, SumPick
  <2>3. num \in Int
    BY ShareType
  <2> QED BY <2>1, <2>2, <2>3, CreditIs
<1> QED BY <1>1, <1>8, <1>9, TotalIs DEF Right

\* The static search finds what there is in every tree, whatever the number of
\* threads and the order in which they run, as long as no two of them are in
\* handle_dir at the same time.
THEOREM StaticFindsAll == ASSUME Tree PROVE Spec => []FindsAll
<1>1. Init => PartedInv /\ CountInv /\ SearchInv
  BY PartedInit, InitCount, SearchInvariant
<1>2. PartedInv /\ CountInv /\ SearchInv /\ [Next]_vars => (PartedInv /\ CountInv /\ SearchInv)'
  BY PartedStep, NextCount, SearchInvariant
<1>3. PartedInv /\ CountInv /\ SearchInv => FindsAll
  BY DoneFinds
<1> QED BY <1>1, <1>2, <1>3, PTL DEF Spec

\* Dealing, searching and adding up handle everything once and add what that yields:
\* each step is one of GrepWork or none, until two threads list at once.
THEOREM StaticImplementsWork == ASSUME Tree PROVE Spec => ImplementsWork
<1>1. Init => PartedInv /\ CountInv /\ SearchInv /\ Work!Init
  BY PartedInit, InitCount, SearchInvariant
<1>2. PartedInv /\ CountInv /\ SearchInv /\ [Next]_vars => (PartedInv /\ CountInv /\ SearchInv)'
  BY PartedStep, NextCount, SearchInvariant
<1>3. PartedInv /\ PartedInv' /\ CountInv /\ SearchInv /\ [Next]_vars
        => [overlap' \/ Work!Next]_<<Pending, Credit>>
  BY SearchInvariant DEF WorkStep
<1> QED BY <1>1, <1>2, <1>3, PTL DEF Spec, ImplementsWork

=============================================================================
