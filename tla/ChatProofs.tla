----------------------------- MODULE ChatProofs -----------------------------
(***************************************************************************)
(* Proofs about Chat, for any clients, groups, texts, capacity, types of   *)
(* uninitialised messages and number of user actions: first what every     *)
(* execution keeps, then what the serial ones keep besides.                *)
(***************************************************************************)
EXTENDS Chat, FiniteSetTheorems, SequenceTheorems, WellFoundedInduction, TLAPS

USE ChatAssumption

-----------------------------------------------------------------------------
(* Threads and steps *)

\* The threads of a process have that process as their owner, a process has one
\* main thread, and the server has no other.
LEMMA ThreadFacts ==
  /\ \A n \in Names : MainOf(n) \in Threads /\ Owner(MainOf(n)) = n
  /\ \A c \in Clients :
       /\ c \in Names /\ c # Server /\ c # None
       /\ InputOf(c) \in Threads /\ Owner(InputOf(c)) = c
       /\ SigOf(c) \in Threads /\ Owner(SigOf(c)) = c
       /\ InputOf(c) # SigOf(c)
  /\ \A t \in Threads : Owner(t) \in Names
  /\ \A n \in Names, c \in Clients : MainOf(n) # InputOf(c) /\ MainOf(n) # SigOf(c)
  /\ \A c, d \in Clients : InputOf(c) # SigOf(d)
  /\ \A n, m \in Names : n # m => MainOf(n) # MainOf(m)
  /\ \A t \in Threads : Owner(t) = Server => t = server
  /\ server \in Threads /\ Owner(server) = Server /\ Server \in Names
  /\ None \notin Contents /\ None \notin Names
  BY DEF Threads, Names, MainOf, InputOf, SigOf, Owner, server

LEMMA CallFacts == Blank \in Message /\ Idle \in Calls
  BY DEF Blank, Idle, Calls, Message, MessageType, Senders, Contents, Steps

\* A nonempty set of positions has a least one.
LEMMA LeastPosition ==
  ASSUME NEW n \in Nat, NEW I \in SUBSET (1..n), I # {}
  PROVE  Min(I) \in I
<1>1. \E i \in I : \A j \in I : ~(<<j, i>> \in OpToRel(<, Nat))
  <2>1. IsWellFoundedOn(OpToRel(<, Nat), Nat)  BY NatLessThanWellFounded
  <2>2. I \subseteq Nat                        OBVIOUS
  <2> QED  BY <2>1, <2>2, WFMin
<1>2. \A i, j \in Nat : i < j => <<i, j>> \in OpToRel(<, Nat)
  BY DEF OpToRel
<1>3. \E i \in I : \A j \in I : i <= j
  <2>1. PICK i \in I : \A j \in I : ~(<<j, i>> \in OpToRel(<, Nat))
    BY <1>1
  <2>2. ASSUME NEW j \in I PROVE i <= j
    <3>1. i \in Nat /\ j \in Nat  OBVIOUS
    <3>2. ~(j < i)               BY <1>2, <2>1, <3>1, Zenon
    <3> QED  BY <3>1, <3>2
  <2> QED  BY <2>2
<1> QED  BY <1>3 DEF Min

\* Taking an element out of a list leaves a list.
LEMMA RemoveAtType ==
  ASSUME NEW S, NEW s \in Seq(S), NEW i \in 1..Len(s)
  PROVE  RemoveAt(s, i) \in Seq(S)
<1>1. Len(s) \in Nat /\ i \in Int /\ 1 <= i /\ i <= Len(s)
  BY LenProperties
<1>2. \A k \in 1..Len(s) : s[k] \in S
  BY ElementOfSeq
<1>3. SubSeq(s, 1, i - 1) \in Seq(S)
  <2>1. \A k \in 1 .. i - 1 : k \in 1..Len(s)       BY <1>1
  <2> QED  BY <1>1, <1>2, <2>1, SubSeqProperties
<1>4. SubSeq(s, i + 1, Len(s)) \in Seq(S)
  <2>1. \A k \in i + 1 .. Len(s) : k \in 1..Len(s)  BY <1>1
  <2> QED  BY <1>1, <1>2, <2>1, SubSeqProperties
<1> QED  BY <1>3, <1>4, ConcatProperties DEF RemoveAt

\* So does taking out the first occurrence of a value.
LEMMA RemoveFirstType ==
  ASSUME NEW S, NEW s \in Seq(S), NEW e
  PROVE  RemoveFirst(s, e) \in Seq(S)
<1> DEFINE I == {i \in 1..Len(s) : s[i] = e}
<1>1. CASE I = {}
  BY <1>1 DEF RemoveFirst
<1>2. CASE I # {}
  <2>1. Min(I) \in 1..Len(s)
    <3>1. Len(s) \in Nat                        BY LenProperties
    <3>2. I \in SUBSET (1..Len(s))              OBVIOUS
    <3>3. Min(I) \in I                          BY <1>2, <3>1, <3>2, LeastPosition
    <3> QED  BY <3>3
  <2>2. RemoveFirst(s, e) = RemoveAt(s, Min(I))
    BY <1>2 DEF RemoveFirst, SelectInSeq
  <2> QED  BY <2>1, <2>2, RemoveAtType
<1> QED  BY <1>1, <1>2

-----------------------------------------------------------------------------
(* Type correctness *)

\* Where the server is in a call, as far as its types depend on it: it sends
\* only while forwarding a broadcast, it responds before it logs, awaits or
\* polls, and it holds a member list when it is about to use one.
ServerCalls ==
  /\ pc[server] \in SendSteps => call[server].back = "forward"
  /\ pc[server] \in RespondSteps => call[server].back \in {"log", "await", "poll"}

ServerLists ==
  \/ pc[server] \in {"await", "remove"}
  \/ pc[server] \in RespondSteps /\ call[server].back = "await"
  => list \in Contents

TypeInv == TypeOK /\ ServerCalls /\ ServerLists

\* The building blocks of the actions keep the types of what they assign.
LEMMA GotoType ==
  ASSUME TypeOK, NEW t \in Threads, NEW s \in Steps, Goto(t, s)
  PROVE  pc' \in [Threads -> Steps]
  BY DEF TypeOK, Goto

LEMMA ExitType ==
  ASSUME TypeOK, NEW n \in Names, Exit(n)
  PROVE  /\ pc' \in [Threads -> Steps]
         /\ call' \in [Threads -> Calls]
         /\ kill' \in [Clients -> BOOLEAN]
<1>1. "off" \in Steps           BY DEF Steps
<1>2. pc' \in [Threads -> Steps]  BY <1>1 DEF TypeOK, Exit
<1>3. call' \in [Threads -> Calls]  BY CallFacts DEF TypeOK, Exit
<1> QED  BY <1>2, <1>3 DEF Exit

LEMMA OrphanedType ==
  ASSUME NEW k \in Calls, NEW t, NEW n
  PROVE  Orphaned(k, t, n) \in Calls
  BY DEF Orphaned, Calls, Senders

LEMMA FreeNodeType ==
  ASSUME TypeOK, NEW n \in Names, FreeNode(n)
  PROVE  up' \subseteq Names /\ call' \in [Threads -> Calls]
  BY OrphanedType DEF TypeOK, FreeNode

LEMMA SendType ==
  ASSUME TypeOK, NEW t \in Threads, NEW to \in Senders, NEW m \in Message,
         NEW b \in Steps, Send(t, to, m, b)
  PROVE  pc' \in [Threads -> Steps] /\ call' \in [Threads -> Calls]
<1>1. "copy" \in Steps                          BY DEF Steps, SendSteps
<1>2. [peer |-> to, msg |-> m, back |-> b] \in Calls  BY DEF Calls
<1> QED  BY <1>1, <1>2, GotoType DEF TypeOK, Send

LEMMA RespondType ==
  ASSUME TypeOK, NEW t \in Threads, NEW m \in Message, NEW b \in Steps,
         Respond(t, m, b)
  PROVE  pc' \in [Threads -> Steps] /\ call' \in [Threads -> Calls]
<1>1. "check" \in Steps                         BY DEF Steps, RespondSteps
<1>2. [peer |-> None, msg |-> m, back |-> b] \in Calls  BY DEF Calls, Senders
<1> QED  BY <1>1, <1>2, GotoType DEF TypeOK, Respond

\* Detaching from the peer, or choosing one, leaves a call a call.
LEMMA PeerType ==
  ASSUME TypeOK, NEW t \in Threads, NEW p \in Senders,
         call' = [call EXCEPT ![t].peer = p]
  PROVE  call' \in [Threads -> Calls]
<1>1. call \in [Threads -> Calls] /\ call[t] \in Calls  BY DEF TypeOK
<1>2. [call[t] EXCEPT !.peer = p] \in Calls  BY <1>1 DEF Calls
<1>3. call' = [call EXCEPT ![t] = [call[t] EXCEPT !.peer = p]]  OBVIOUS
<1> QED  BY <1>1, <1>2, <1>3

LEMMA TextType ==
  ASSUME TypeOK, NEW t \in Threads, NEW m \in Message,
         call' = [call EXCEPT ![t].msg = m]
  PROVE  call' \in [Threads -> Calls]
<1>1. call \in [Threads -> Calls] /\ call[t] \in Calls  BY DEF TypeOK
<1>2. [call[t] EXCEPT !.msg = m] \in Calls  BY <1>1 DEF Calls
<1>3. call' = [call EXCEPT ![t] = [call[t] EXCEPT !.msg = m]]  OBVIOUS
<1> QED  BY <1>1, <1>2, <1>3

LEMMA NodeStepType ==
  ASSUME TypeOK, NEW t \in Threads, NodeStep(t), UNCHANGED <<serverVars, acts>>
  PROVE  TypeOK'
<1> USE ThreadFacts
<1>0. /\ Owner(t) \in Names
      /\ call[t].peer \in Senders /\ call[t].msg \in Message
      /\ call[t].back \in Steps
      /\ {"claim", "post", "spin", "attach", "reply", "release", "finish"} \subseteq Steps
      /\ {"AVAILABLE", "RECIEVED_MESSAGE", "WAITING_FOR_RESPONSE"} \subseteq NodeStatus
      /\ None \in Senders
  BY DEF TypeOK, Calls, Steps, SendSteps, RespondSteps, NodeStatus, Senders
<1>1. CASE SendCopy(t)
  <2>1. CASE CanAttach(call[t].peer)
    BY <1>0, <1>1, <2>1, GotoType DEF SendCopy, CanAttach, TypeOK, serverVars, tables, cursor
  <2>2. CASE ~CanAttach(call[t].peer)
    BY <1>0, <1>1, <2>2, ExitType DEF SendCopy, CanAttach, TypeOK, serverVars, tables, cursor
  <2> QED  BY <2>1, <2>2
<1>2. CASE SendClaim(t)
  BY <1>0, <1>2, GotoType DEF SendClaim, TypeOK, serverVars, tables, cursor
<1>3. CASE SendPost(t)
  BY <1>0, <1>3, GotoType, PeerType DEF SendPost, TypeOK, serverVars, tables, cursor
<1>4. CASE SendSpin(t)
  BY <1>0, <1>4, GotoType DEF SendSpin, TypeOK, nodes, serverVars, tables, cursor
<1>5. CASE RespondCheck(t)
  <2>1. CASE status[Owner(t)] = "RECIEVED_MESSAGE"
    BY <1>0, <1>5, <2>1, GotoType
    DEF RespondCheck, TypeOK, nodes, serverVars, tables, cursor
  <2>2. CASE status[Owner(t)] # "RECIEVED_MESSAGE"
    BY <1>0, <1>5, <2>2, ExitType
    DEF RespondCheck, TypeOK, nodes, serverVars, tables, cursor
  <2> QED  BY <2>1, <2>2
<1>6. CASE RespondAttach(t)
  <2> DEFINE r == Requester(Owner(t))
  <2>1. r \in Senders
    BY <1>0 DEF TypeOK, Requester, Message
  <2>2. CASE Waits(r)
    BY <1>0, <1>6, <2>1, <2>2, GotoType, PeerType
    DEF RespondAttach, TypeOK, nodes, serverVars, tables, cursor
  <2>3. CASE ~Waits(r)
    BY <1>0, <1>6, <2>3, ExitType
    DEF RespondAttach, TypeOK, nodes, serverVars, tables, cursor
  <2> QED  BY <2>2, <2>3
<1>7. CASE RespondReply(t)
  BY <1>0, <1>7, GotoType DEF RespondReply, TypeOK, serverVars, tables, cursor
<1>8. CASE RespondRelease(t)
  BY <1>0, <1>8, GotoType, PeerType
  DEF RespondRelease, TypeOK, serverVars, tables, cursor
<1>9. CASE RespondFinish(t)
  BY <1>0, <1>9, GotoType, CallFacts
  DEF RespondFinish, TypeOK, serverVars, tables, cursor
<1>10. CASE Fault(t)
  BY <1>0, <1>10, ExitType DEF Fault, TypeOK, nodes, serverVars, tables, cursor
<1> QED
  BY <1>1, <1>2, <1>3, <1>4, <1>5, <1>6, <1>7, <1>8, <1>9, <1>10 DEF NodeStep

LEMMA MessageFacts ==
  ASSUME TypeOK
  PROVE  /\ Request.sender \in Senders /\ Request.content \in Contents
         /\ \A ty \in MessageType : ServerSays(ty) \in Message
         /\ \A x \in Contents :
              [ServerSays("BROADCAST_MESSAGE") EXCEPT !.content = x] \in Message
         /\ \A c \in Clients, ty \in MessageType, x \in Contents :
              ClientSays(c, ty, x) \in Message
         /\ {"JOIN_CREATE_GROUP", "BROADCAST_MESSAGE", "LEAVE_GROUP",
             "DISPLAY_USERS"} \subseteq MessageType
         /\ Empty \in Contents
  BY ThreadFacts
  DEF TypeOK, Request, Message, MessageType, ServerSays, ClientSays, Senders,
      Contents, Names

LEMMA ServerStepType ==
  ASSUME TypeInv, ServerStep, UNCHANGED acts
  PROVE  TypeOK'
<1> USE ThreadFacts, MessageFacts DEF TypeInv
<1>0. /\ {"poll", "enroll", "log", "await", "forward", "remove"} \subseteq Steps
      /\ Stale \subseteq MessageType
      /\ \A s \in Senders : clients[s] \in Contents \cup {None}
      /\ \A g \in Contents : groups[g] \in Seq(Senders)
  BY DEF TypeOK, Steps, ServerSteps, ChatAssumption
<1>1. CASE ServerJoin
  <2>1. Cons(Request.sender, groups[Request.content]) \in Seq(Senders)
    BY <1>0, ConcatProperties DEF Cons
  <2> QED  BY <1>0, <1>1, <2>1, GotoType DEF ServerJoin, LlPrepend, TypeOK, nodes
<1>2. CASE ServerEnroll
  BY <1>0, <1>2, RespondType DEF ServerEnroll, HtSet, TypeOK, nodes, cursor
<1>3. CASE ServerFull
  <2>1. Lookup(Request.content) \in Contents \cup {None}  BY DEF Lookup
  <2> QED  BY <1>0, <1>3, <2>1, RespondType DEF ServerFull, TypeOK, nodes, tables
<1>4. CASE ServerLog
  <2>1. CASE list # None
    BY <1>0, <1>4, <2>1, GotoType DEF ServerLog, TypeOK, nodes, tables, cursor
  <2>2. CASE list = None
    BY <1>0, <1>4, <2>2, ExitType DEF ServerLog, TypeOK, nodes, tables, cursor
  <2> QED  BY <2>1, <2>2
<1>5. CASE ServerNull
  BY <1>5, ExitType DEF ServerNull, TypeOK, nodes, serverVars, tables, cursor
<1>6. CASE ServerBroadcast
  BY <1>0, <1>6, RespondType DEF ServerBroadcast, HtGet, TypeOK, nodes, tables
<1>7. CASE ServerAwait
  <2>1. list \in Contents  BY <1>7 DEF ServerAwait, Own, At, ServerLists
  <2>2. Walk \in Seq(Senders)  BY <1>0, <2>1 DEF Walk
  <2>3. call' \in [Threads -> Calls]
    <3> DEFINE m == [ServerSays("BROADCAST_MESSAGE") EXCEPT !.content = Request.content]
    <3>1. m \in Message  OBVIOUS
    <3> HIDE DEF m
    <3>2. call' = [call EXCEPT ![server].msg = m]  BY <1>7 DEF ServerAwait, m
    <3> QED  BY <3>1, <3>2, TextType
  <2> QED  BY <1>0, <1>7, <2>2, <2>3, GotoType DEF ServerAwait, TypeOK, nodes, tables
<1>8. CASE ServerRevive
  <2>1. "AVAILABLE" \in NodeStatus  BY DEF NodeStatus
  <2> QED  BY <1>8, <2>1, ExitType, CallFacts
           DEF ServerRevive, TypeOK, serverVars, tables, cursor
<1>9. CASE ServerForward
  <2>1. CASE todo # <<>>
    <3>1. Addressee \in Senders /\ Tail(todo) \in Seq(Senders)
      BY <2>1, HeadTailProperties DEF Addressee, TypeOK
    <3>2. call[server].msg \in Message  BY DEF TypeOK, Calls
    <3> QED  BY <1>0, <1>9, <2>1, <3>1, <3>2, SendType
             DEF ServerForward, TypeOK, nodes, tables
  <2>2. CASE todo = <<>>
    <3>1. call' \in [Threads -> Calls]
      BY <1>9, <2>2, CallFacts DEF ServerForward, TypeOK
    <3> QED  BY <1>0, <1>9, <2>2, <3>1, GotoType
             DEF ServerForward, TypeOK, nodes, tables
  <2> QED  BY <2>1, <2>2
<1>10. CASE ServerDisplay
  BY <1>0, <1>10, RespondType
  DEF ServerDisplay, TypeOK, nodes, serverVars, tables, cursor
<1>11. CASE ServerLeave
  BY <1>0, <1>11, GotoType DEF ServerLeave, HtGet, TypeOK, nodes, tables
<1>12. CASE ServerRemove
  <2>1. list \in Contents  BY <1>12 DEF ServerRemove, Own, At, ServerLists
  <2>2. Without(Request.sender) \in Seq(Senders)
    BY <1>0, <2>1, RemoveFirstType DEF Without
  <2>3. /\ clients' \in [Senders -> Contents \cup {None}]
        /\ groups' \in [Contents -> Seq(Senders)]
        /\ client_count' \in Int
    BY <1>12, <2>1, <2>2 DEF ServerRemove, HtRemove, TypeOK
  <2>4. pc' \in [Threads -> Steps] /\ call' \in [Threads -> Calls]
    BY <1>0, <1>12, RespondType DEF ServerRemove
  <2> QED  BY <1>12, <2>3, <2>4 DEF ServerRemove, TypeOK, nodes, cursor
<1>13. CASE ServerRefuse
  BY <1>0, <1>13, RespondType
  DEF ServerRefuse, TypeOK, nodes, serverVars, tables, cursor
<1> QED
  BY <1>1, <1>2, <1>3, <1>4, <1>5, <1>6, <1>7, <1>8, <1>9, <1>10, <1>11, <1>12,
     <1>13 DEF ServerStep

LEMMA ClientStepType ==
  ASSUME TypeOK, NEW c \in Clients, ClientMain(c) \/ InputLoop(c) \/ SigFree(c),
         UNCHANGED <<serverVars, acts>>
  PROVE  TypeOK'
<1> USE ThreadFacts, MessageFacts DEF serverVars, tables, cursor
<1>0. /\ {"off", "poll", "loop", "prompt"} \subseteq Steps
      /\ Stale \subseteq MessageType
      /\ Killed(c) \in [Clients -> BOOLEAN]
  BY DEF Steps, ClientSteps, ChatAssumption, TypeOK, Killed
<1>1. CASE ClientAdmit(c)
  <2>1. pc' \in [Threads -> Steps]  BY <1>0, <1>1 DEF ClientAdmit, TypeOK
  <2>2. call' \in [Threads -> Calls]
    <3>1. CASE buffer[c].type = "LEAVE_GROUP"
      <4>1. call' = [t \in Threads |-> IF Owner(t) = c THEN Idle
                                       ELSE Orphaned(call[t], t, c)]
        BY <1>1, <3>1, Zenon DEF ClientAdmit
      <4> QED  BY <4>1, CallFacts, OrphanedType DEF TypeOK
    <3>2. CASE buffer[c].type # "LEAVE_GROUP"
      <4>1. call' = [call EXCEPT ![MainOf(c)] = Idle]
        BY <1>1, <3>2, Zenon DEF ClientAdmit
      <4> QED  BY <4>1, CallFacts DEF TypeOK
    <3> QED  BY <3>1, <3>2
  <2>3. up' \subseteq Names  BY <1>1 DEF ClientAdmit, TypeOK
  <2> QED  BY <1>1, <2>1, <2>2, <2>3 DEF ClientAdmit, TypeOK
<1>2. CASE ClientServe(c)
  <2>1. CASE buffer[c].type = "LEAVE_GROUP"
    BY <1>0, <1>2, <2>1, FreeNodeType DEF ClientServe, TypeOK
  <2>2. CASE buffer[c].type # "LEAVE_GROUP"
    BY <1>0, <1>2, <2>2, RespondType DEF ClientServe, TypeOK, nodes
  <2> QED  BY <2>1, <2>2
<1>3. CASE ClientQuit(c)
  BY <1>3, ExitType DEF ClientQuit, TypeOK, nodes
<1>4. CASE InputLoop(c)
  BY <1>0, <1>4, GotoType, CallFacts DEF InputLoop, TypeOK, nodes
<1>5. CASE SigFree(c)
  <2>1. call' \in [Threads -> Calls]
    BY <1>5, CallFacts, OrphanedType DEF SigFree, TypeOK
  <2> QED  BY <1>0, <1>5, <2>1, GotoType DEF SigFree, TypeOK
<1> QED  BY <1>1, <1>2, <1>3, <1>4, <1>5 DEF ClientMain

LEMMA UserStepType ==
  ASSUME TypeOK, UserStep
  PROVE  TypeOK'
<1> USE ThreadFacts, MessageFacts
<1>0. /\ {"off", "poll", "loop", "admit", "free"} \subseteq Steps
      /\ Stale \subseteq MessageType
      /\ \A c \in Clients : Killed(c) \in [Clients -> BOOLEAN]
      /\ Groups \subseteq Contents /\ Texts \subseteq Contents
      /\ Server \in Senders /\ Names \subseteq Senders
      /\ "AVAILABLE" \in NodeStatus
  BY DEF Steps, ClientSteps, ChatAssumption, TypeOK, Killed, Contents, Senders,
         NodeStatus
<1>1. ASSUME NEW cmd, Does(cmd) PROVE acts' \in 0..MaxActs
  BY <1>1 DEF Does, TypeOK, ChatAssumption
<1>2. CASE UserAct /\ UNCHANGED serverVars
  <2> USE DEF serverVars, tables, cursor
  <2>1. ASSUME NEW c \in Clients, NEW g \in Groups, Start(c, g) PROVE TypeOK'
    BY <1>0, <1>1, <1>2, <2>1, SendType, CallFacts DEF Start, TypeOK
  <2>2. ASSUME NEW c \in Clients, NEW u \in Names, NEW m \in Message,
               Types(c, u, m), UNCHANGED kill, acts' \in 0..MaxActs
        PROVE  TypeOK'
    BY <1>0, <1>2, <2>2, SendType DEF Types, TypeOK, nodes
  <2>3. ASSUME NEW c \in Clients, NEW x \in Texts, TypeLine(c, x) PROVE TypeOK'
    BY <1>0, <1>1, <2>2, <2>3 DEF TypeLine
  <2>4. ASSUME NEW c \in Clients, TypeDisplay(c) PROVE TypeOK'
    BY <1>0, <1>1, <2>2, <2>4 DEF TypeDisplay
  <2>5. ASSUME NEW c \in Clients, TypeExit(c) PROVE TypeOK'
    BY <1>0, <1>1, <1>2, <2>5, SendType DEF TypeExit, Types, TypeOK, nodes
  <2>6. ASSUME NEW c \in Clients, NEW u \in Names, NEW x \in Texts,
               TypePrivate(c, u, x)
        PROVE  TypeOK'
    BY <1>0, <1>1, <2>2, <2>6 DEF TypePrivate
  <2>7. ASSUME NEW c \in Clients, CtrlC(c) PROVE TypeOK'
    BY <1>0, <1>1, <1>2, <2>7, SendType DEF CtrlC, TypeOK, nodes
  <2>8. CASE Stop
    BY <1>1, <1>2, <2>8, FreeNodeType DEF Stop, TypeOK
  <2> QED  BY <1>2, <2>1, <2>3, <2>4, <2>5, <2>6, <2>7, <2>8 DEF UserAct
<1>3. CASE Restart
  <2>1. NoClients \in [Senders -> Contents \cup {None}]  BY DEF NoClients
  <2>2. NoGroups \in [Contents -> Seq(Senders)]          BY DEF NoGroups
  <2>3. <<>> \in Seq(Senders)                            OBVIOUS
  <2> QED  BY <1>0, <1>1, <1>3, <2>1, <2>2, <2>3, CallFacts DEF Restart, TypeOK
<1> QED  BY <1>2, <1>3 DEF UserStep

-----------------------------------------------------------------------------
(* The server's own thread *)

\* Only the server moves the server: what the threads of a client do leaves its
\* place and the continuation of its call as they are.
ServerUndisturbed ==
  pc'[server] = pc[server] /\ call'[server].back = call[server].back

LEMMA OtherThreads ==
  ASSUME TypeOK, NEW t \in Threads, t # server, NodeStep(t)
  PROVE  ServerUndisturbed
<1>1. Owner(t) # Server  BY ThreadFacts
<1>2. Owner(server) # Owner(t)  BY <1>1, ThreadFacts
<1>3. ASSUME NEW s, Goto(t, s) PROVE pc'[server] = pc[server]
  BY <1>3, ThreadFacts DEF Goto, TypeOK
<1>4. ASSUME Exit(Owner(t))
      PROVE  pc'[server] = pc[server] /\ call'[server] = call[server]
  BY <1>2, <1>4, ThreadFacts DEF Exit
<1>5. \/ call' = call
      \/ \E k : call' = [call EXCEPT ![t] = k]
      \/ Exit(Owner(t))
  BY DEF NodeStep, SendCopy, SendClaim, SendPost, SendSpin, RespondCheck,
         RespondAttach, RespondReply, RespondRelease, RespondFinish, Fault, nodes
<1>6. (\E s : Goto(t, s)) \/ Exit(Owner(t))
  BY DEF NodeStep, SendCopy, SendClaim, SendPost, SendSpin, RespondCheck,
         RespondAttach, RespondReply, RespondRelease, RespondFinish, Fault
<1> QED  BY <1>3, <1>4, <1>5, <1>6, ThreadFacts DEF ServerUndisturbed, TypeOK

LEMMA OrphanedBack ==
  ASSUME NEW k \in Calls, NEW t, NEW n
  PROVE  Orphaned(k, t, n).back = k.back
  BY DEF Orphaned, Calls

LEMMA ClientsApart ==
  ASSUME TypeOK, NEW c \in Clients, ClientMain(c) \/ InputLoop(c) \/ SigFree(c)
  PROVE  ServerUndisturbed
<1> USE ThreadFacts, OrphanedBack DEF TypeOK, ServerUndisturbed
<1>0. /\ server # MainOf(c) /\ server # InputOf(c) /\ server # SigOf(c)
      /\ Owner(server) # c /\ call[server] \in Calls
  BY DEF server
<1>1. CASE ClientAdmit(c)
  <2>1. CASE buffer[c].type = "LEAVE_GROUP"
    BY <1>0, <1>1, <2>1 DEF ClientAdmit
  <2>2. CASE buffer[c].type # "LEAVE_GROUP"
    BY <1>0, <1>1, <2>2 DEF ClientAdmit
  <2> QED  BY <2>1, <2>2
<1>2. CASE ClientServe(c)
  BY <1>0, <1>2 DEF ClientServe, FreeNode, Respond, Goto
<1>3. CASE ClientQuit(c)
  BY <1>0, <1>3 DEF ClientQuit, Exit
<1>4. CASE InputLoop(c)
  BY <1>0, <1>4 DEF InputLoop, Goto
<1>5. CASE SigFree(c)
  BY <1>0, <1>5 DEF SigFree, Goto
<1> QED  BY <1>1, <1>2, <1>3, <1>4, <1>5 DEF ClientMain

LEMMA UsersApart ==
  ASSUME TypeOK, UserAct
  PROVE  ServerUndisturbed
<1> USE ThreadFacts, OrphanedBack DEF TypeOK, ServerUndisturbed
<1>0. /\ \A c \in Clients : server # MainOf(c) /\ server # InputOf(c) /\ server # SigOf(c)
      /\ call[server] \in Calls
  BY DEF server
<1>1. ASSUME NEW t \in Threads, t # server, NEW to, NEW m, NEW b, Send(t, to, m, b)
      PROVE  ServerUndisturbed
  BY <1>1 DEF Send, Goto
<1>2. CASE Stop
  BY <1>0, <1>2 DEF Stop, FreeNode
<1>3. CASE ~Stop
  <2>1. \E t \in Threads \ {server} : \E to, m, b : Send(t, to, m, b)
    BY <1>0, <1>3 DEF UserAct, Start, TypeLine, TypeDisplay, TypeExit, TypePrivate,
                      Types, CtrlC
  <2> QED  BY <1>1, <2>1
<1> QED  BY <1>2, <1>3

\* The server adds a client only while there is room for it.
Room ==
  /\ client_count <= MaxClients
  /\ pc[server] = "enroll" => client_count < MaxClients

ServerInv == TypeInv /\ Room

\* Where a step of the server inside a send or a respond takes it.
LEMMA ServerNodeStep ==
  ASSUME ServerInv, NodeStep(server), UNCHANGED <<serverVars, acts>>
  PROVE  ServerCalls' /\ ServerLists' /\ Room'
<1> USE ThreadFacts DEF ServerInv, TypeInv, serverVars, tables, cursor
<1> DEFINE Moves(s) == pc'[server] = s
           Keeps == call'[server].back = call[server].back
<1>0. /\ call[server] \in Calls /\ server \in Threads
      /\ \A s : Goto(server, s) => Moves(s)
      /\ Exit(Owner(server)) => Moves("off")
      /\ call' = call => Keeps
      /\ \A r : call' = [call EXCEPT ![server].peer = r] => Keeps
  BY DEF TypeOK, Calls, Goto, Exit
<1>1. CASE Moves("off")
  BY <1>1 DEF ServerCalls, ServerLists, Room, SendSteps, RespondSteps
<1>2. ASSUME pc[server] \in SendSteps, Keeps, NEW s \in SendSteps, Moves(s)
      PROVE  ServerCalls' /\ ServerLists' /\ Room'
  BY <1>2 DEF ServerCalls, ServerLists, Room, SendSteps, RespondSteps
<1>3. ASSUME pc[server] \in RespondSteps, Keeps, NEW s \in RespondSteps, Moves(s)
      PROVE  ServerCalls' /\ ServerLists' /\ Room'
  BY <1>3 DEF ServerCalls, ServerLists, Room, SendSteps, RespondSteps
<1>4. \/ Moves("off")
      \/ pc[server] \in SendSteps /\ Keeps /\ \E s \in SendSteps : Moves(s)
      \/ pc[server] \in RespondSteps /\ Keeps /\ \E s \in RespondSteps : Moves(s)
      \/ SendSpin(server) \/ RespondFinish(server)
  <2>1. CASE SendCopy(server) \/ SendClaim(server) \/ SendPost(server)
    BY <1>0, <2>1 DEF SendCopy, SendClaim, SendPost, At, Own, SendSteps
  <2>2. CASE RespondCheck(server) \/ RespondAttach(server) \/ RespondReply(server)
               \/ RespondRelease(server)
    BY <1>0, <2>2 DEF RespondCheck, RespondAttach, RespondReply, RespondRelease,
                      At, Own, RespondSteps
  <2>3. CASE Fault(server)
    BY <1>0, <2>3 DEF Fault
  <2> QED  BY <2>1, <2>2, <2>3 DEF NodeStep
<1>5. CASE SendSpin(server)
  <2>1. pc[server] \in SendSteps /\ Moves(call[server].back)
    BY <1>0, <1>5 DEF SendSpin, At, Own, SendSteps
  <2>2. Moves("forward")  BY <2>1 DEF ServerCalls
  <2> QED  BY <2>2 DEF ServerCalls, ServerLists, Room, SendSteps, RespondSteps
<1>6. CASE RespondFinish(server)
  <2>1. pc[server] \in RespondSteps /\ Moves(call[server].back)
    BY <1>0, <1>6 DEF RespondFinish, At, Own, RespondSteps
  <2>2. call[server].back \in {"log", "await", "poll"}  BY <2>1 DEF ServerCalls
  <2> QED  BY <2>1, <2>2 DEF ServerCalls, ServerLists, Room, SendSteps, RespondSteps
<1> QED  BY <1>1, <1>2, <1>3, <1>4, <1>5, <1>6

\* The steps of the server's loop.
LEMMA ServerLoopStep ==
  ASSUME ServerInv, ServerStep
  PROVE  ServerCalls' /\ ServerLists' /\ Room'
<1> USE ThreadFacts, MessageFacts
    DEF ServerInv, TypeInv, ServerCalls, ServerLists, Room, SendSteps, RespondSteps
<1>0. /\ server \in DOMAIN pc /\ server \in DOMAIN call
      /\ client_count \in Int /\ MaxClients \in Nat
      /\ created \subseteq Contents
  BY DEF TypeOK, ChatAssumption
<1>1. ASSUME NEW m, NEW b, Respond(server, m, b)
      PROVE  pc'[server] = "check" /\ call'[server].back = b
  BY <1>0, <1>1 DEF Respond, Goto
<1>2. ASSUME NEW s, Goto(server, s)
      PROVE  pc'[server] = s
  BY <1>0, <1>2 DEF Goto
<1>3. ASSUME Exit(Server)
      PROVE  pc'[server] = "off"
  BY <1>3 DEF Exit
<1>4. CASE ServerJoin
  BY <1>0, <1>2, <1>4 DEF ServerJoin, HasRoom
<1>5. CASE ServerEnroll
  BY <1>0, <1>1, <1>5 DEF ServerEnroll, Own, At
<1>6. CASE ServerFull
  BY <1>0, <1>1, <1>6 DEF ServerFull, tables
<1>7. CASE ServerLog
  BY <1>0, <1>2, <1>3, <1>7 DEF ServerLog, tables
<1>8. CASE ServerNull
  BY <1>3, <1>8 DEF ServerNull, serverVars, tables
<1>9. CASE ServerBroadcast
  <2>1. list' \in Contents  BY <1>0, <1>9 DEF ServerBroadcast, Known
  <2> QED  BY <1>1, <1>9, <2>1 DEF ServerBroadcast, tables
<1>10. CASE ServerAwait
  BY <1>2, <1>10 DEF ServerAwait, tables
<1>11. CASE ServerRevive
  BY <1>3, <1>11 DEF ServerRevive, serverVars, tables
<1>12. CASE ServerForward
  <2>1. CASE todo # <<>>
    BY <1>0, <1>12, <2>1 DEF ServerForward, Send, Goto, tables
  <2>2. CASE todo = <<>>
    BY <1>2, <1>12, <2>2 DEF ServerForward, tables
  <2> QED  BY <2>1, <2>2
<1>13. CASE ServerDisplay
  BY <1>1, <1>13 DEF ServerDisplay, serverVars, tables
<1>14. CASE ServerLeave
  <2>1. list' \in Contents  BY <1>0, <1>14 DEF ServerLeave, Known
  <2> QED  BY <1>2, <1>14, <2>1 DEF ServerLeave, tables
<1>15. CASE ServerRemove
  BY <1>0, <1>1, <1>15 DEF ServerRemove, Own, At
<1>16. CASE ServerRefuse
  BY <1>1, <1>16 DEF ServerRefuse, serverVars, tables
<1> QED
  BY <1>4, <1>5, <1>6, <1>7, <1>8, <1>9, <1>10, <1>11, <1>12, <1>13, <1>14, <1>15,
     <1>16 DEF ServerStep

LEMMA ServerInvInit == Init => ServerInv
<1> SUFFICES ASSUME Init PROVE ServerInv
  OBVIOUS
<1> USE ThreadFacts, CallFacts DEF Init
<1>1. TypeOK
  <2>1. "poll" \in Steps /\ "off" \in Steps /\ "AVAILABLE" \in NodeStatus
    BY DEF Steps, NodeStatus
  <2>2. /\ NoClients \in [Senders -> Contents \cup {None}]
        /\ NoGroups \in [Contents -> Seq(Senders)] /\ <<>> \in Seq(Senders)
    BY DEF NoClients, NoGroups
  <2>3. 0 \in 0..MaxActs  BY DEF ChatAssumption
  <2> QED  BY <2>1, <2>2, <2>3 DEF TypeOK
<1>2. pc[server] = "poll"  OBVIOUS
<1>3. client_count <= MaxClients  BY DEF ChatAssumption
<1> QED
  BY <1>1, <1>2, <1>3
  DEF ServerInv, TypeInv, ServerCalls, ServerLists, Room, SendSteps, RespondSteps

LEMMA ServerInvStep == ServerInv /\ [Next]_vars => ServerInv'
<1> SUFFICES ASSUME ServerInv, [Next]_vars PROVE ServerInv'
  OBVIOUS
<1> USE DEF ServerInv, TypeInv
<1>1. ASSUME ServerUndisturbed, UNCHANGED serverVars
      PROVE  ServerCalls' /\ ServerLists' /\ Room'
  BY <1>1 DEF ServerUndisturbed, ServerCalls, ServerLists, Room, serverVars, tables,
              cursor
<1>2. ASSUME NEW t \in Threads, ThreadStep(t) PROVE ServerInv'
  BY <1>1, <1>2, NodeStepType, OtherThreads, ServerNodeStep DEF ThreadStep
<1>3. ASSUME NEW c \in Clients, MainStep(c) \/ InputStep(c) \/ SigStep(c)
      PROVE  ServerInv'
  BY <1>1, <1>3, ClientStepType, ClientsApart DEF MainStep, InputStep, SigStep
<1>4. CASE Serve
  BY <1>4, ServerStepType, ServerLoopStep DEF Serve
<1>5. CASE UserStep
  <2>1. TypeOK'  BY <1>5, UserStepType
  <2>2. CASE UserAct /\ UNCHANGED serverVars
    BY <1>1, <2>1, <2>2, UsersApart
  <2>3. CASE Restart
    <3>1. pc'[server] = "poll" /\ client_count' = 0
      BY <2>3, ThreadFacts DEF Restart, TypeOK
    <3> QED  BY <2>1, <3>1 DEF ServerCalls, ServerLists, Room, SendSteps, RespondSteps,
                               ChatAssumption
  <2> QED  BY <1>5, <2>2, <2>3 DEF UserStep
<1>6. CASE UNCHANGED vars
  BY <1>6 DEF vars, nodeVars, nodes, frames, serverVars, tables, cursor, TypeOK,
              ServerCalls, ServerLists, Room
<1> QED  BY <1>2, <1>3, <1>4, <1>5, <1>6 DEF Next, SystemStep

\* Every variable stays within its type, for any constants: in particular the
\* server never follows a member list it does not hold (server.c, broadcast and
\* leave), and lists stay lists when a member is taken out.
THEOREM TypeCorrect == Spec => []TypeOK
<1>1. ServerInv => TypeOK  BY DEF ServerInv, TypeInv
<1> QED  BY <1>1, ServerInvInit, ServerInvStep, PTL DEF Spec

\* The server never counts more than max_size clients (server.c), however the
\* requests in its node overwrite each other.
THEOREM Capacity == Spec => []CapacityRespected
<1>1. ServerInv => CapacityRespected  BY DEF ServerInv, Room, CapacityRespected
<1> QED  BY <1>1, ServerInvInit, ServerInvStep, PTL DEF Spec

-----------------------------------------------------------------------------
(* Who holds a node *)

\* The SIGINT handler runs only in a client that has been told to end.
Handlers == \A c \in Clients : pc[SigOf(c)] # "off" => kill[c]

HoldInv == TypeOK /\ Handlers /\ NodeHeldUntilKilled

\* A step of the node layer moves a thread that runs, or ends its process.
LEMMA NodeStepMoves ==
  ASSUME TypeOK, NEW t \in Threads, NodeStep(t)
  PROVE  /\ up' = up
         /\ \/ Exit(Owner(t))
            \/ kill' = kill /\ pc[t] # "off" /\ \E s : Goto(t, s)
  BY DEF NodeStep, SendCopy, SendClaim, SendPost, SendSpin, RespondCheck,
         RespondAttach, RespondReply, RespondRelease, RespondFinish, Fault, nodes,
         At, Own

\* So does a step of the server's loop.
LEMMA ServerStepMoves ==
  ASSUME TypeOK, ServerStep
  PROVE  /\ up \subseteq up'
         /\ \/ Exit(Server)
            \/ kill' = kill /\ pc[server] # "off" /\ \E s : Goto(server, s)
<1> USE DEF Own, At, Handles, nodes, Respond, Send
<1>1. CASE ServerJoin \/ ServerEnroll \/ ServerFull \/ ServerLog \/ ServerNull
  BY <1>1 DEF ServerJoin, ServerEnroll, ServerFull, ServerLog, ServerNull
<1>2. CASE ServerBroadcast \/ ServerAwait \/ ServerRevive \/ ServerForward
  BY <1>2 DEF ServerBroadcast, ServerAwait, ServerRevive, ServerForward
<1>3. CASE ServerDisplay \/ ServerLeave \/ ServerRemove \/ ServerRefuse
  BY <1>3 DEF ServerDisplay, ServerLeave, ServerRemove, ServerRefuse
<1> QED  BY <1>1, <1>2, <1>3 DEF ServerStep

\* Neither kind of move takes a node away from a client or wakes a thread.
LEMMA MoveHolds ==
  ASSUME HoldInv, NEW t \in Threads, up \subseteq up',
         kill' = kill /\ pc[t] # "off" /\ \E s : Goto(t, s)
  PROVE  Handlers' /\ NodeHeldUntilKilled'
<1>1. PICK s : Goto(t, s)  OBVIOUS
<1>2. \A x \in Threads : pc'[x] # "off" => pc[x] # "off"
  BY <1>1 DEF Goto, HoldInv, TypeOK
<1> QED  BY <1>2, ThreadFacts DEF HoldInv, Handlers, NodeHeldUntilKilled

LEMMA ExitHolds ==
  ASSUME HoldInv, NEW n \in Names, Exit(n), up \subseteq up'
  PROVE  Handlers' /\ NodeHeldUntilKilled'
<1>1. ASSUME NEW c \in Clients, c = n
      PROVE  pc'[SigOf(c)] = "off" /\ pc'[MainOf(c)] = "off"
  BY <1>1, ThreadFacts DEF Exit
<1>2. ASSUME NEW c \in Clients, c # n
      PROVE  /\ pc'[SigOf(c)] = pc[SigOf(c)] /\ pc'[MainOf(c)] = pc[MainOf(c)]
             /\ kill'[c] = kill[c]
  BY <1>2, ThreadFacts DEF Exit, HoldInv, TypeOK
<1> QED  BY <1>1, <1>2 DEF HoldInv, Handlers, NodeHeldUntilKilled

LEMMA ClientHolds ==
  ASSUME HoldInv, NEW c \in Clients, ClientMain(c) \/ InputLoop(c) \/ SigFree(c)
  PROVE  Handlers' /\ NodeHeldUntilKilled'
<1> USE ThreadFacts DEF HoldInv, TypeOK
<1>0. \A d \in Clients : d # c => /\ Owner(SigOf(d)) # c /\ Owner(MainOf(d)) # c
                                 /\ SigOf(d) # SigOf(c) /\ MainOf(d) # MainOf(c)
  OBVIOUS
<1>1. CASE ClientAdmit(c)
  <2>1. CASE buffer[c].type = "LEAVE_GROUP"
    <3>1. /\ pc' = [t \in Threads |-> IF Owner(t) = c THEN "off" ELSE pc[t]]
          /\ up' = up \ {c} /\ kill' = kill
      BY <1>1, <2>1 DEF ClientAdmit
    <3> QED  BY <1>0, <3>1 DEF Handlers, NodeHeldUntilKilled
  <2>2. CASE buffer[c].type # "LEAVE_GROUP"
    <3>1. /\ pc' = [pc EXCEPT ![MainOf(c)] = "poll", ![InputOf(c)] = "loop"]
          /\ up' = up /\ kill' = kill /\ pc[MainOf(c)] # "off"
      BY <1>1, <2>2 DEF ClientAdmit, Own, At
    <3>2. \A d \in Clients : /\ pc'[SigOf(d)] = pc[SigOf(d)]
                            /\ pc'[MainOf(d)] # "off" => pc[MainOf(d)] # "off"
      BY <3>1
    <3> QED  BY <3>1, <3>2 DEF Handlers, NodeHeldUntilKilled
  <2> QED  BY <2>1, <2>2
<1>2. CASE ClientServe(c)
  <2>1. CASE buffer[c].type = "LEAVE_GROUP"
    BY <1>2, <2>1 DEF ClientServe, FreeNode, Killed, Handlers, NodeHeldUntilKilled
  <2>2. CASE buffer[c].type # "LEAVE_GROUP"
    <3>1. pc[MainOf(c)] # "off" /\ up' = up /\ kill' = kill /\ Goto(MainOf(c), "check")
      BY <1>2, <2>2 DEF ClientServe, Own, At, Respond, nodes
    <3> QED  BY <3>1, MoveHolds
  <2> QED  BY <2>1, <2>2
<1>3. CASE ClientQuit(c)
  BY <1>3, ExitHolds DEF ClientQuit, nodes
<1>4. CASE InputLoop(c)
  <2>1. pc[InputOf(c)] # "off" /\ up' = up /\ kill' = kill /\ \E s : Goto(InputOf(c), s)
    BY <1>4 DEF InputLoop, At, nodes
  <2> QED  BY <2>1, MoveHolds
<1>5. CASE SigFree(c)
  <2>1. kill[c]  BY <1>5 DEF SigFree, Own, At, Handlers
  <2> QED  BY <1>0, <1>5, <2>1 DEF SigFree, Goto, Handlers, NodeHeldUntilKilled
<1> QED  BY <1>1, <1>2, <1>3, <1>4, <1>5 DEF ClientMain

LEMMA UserHolds ==
  ASSUME HoldInv, UserStep
  PROVE  Handlers' /\ NodeHeldUntilKilled'
<1> USE ThreadFacts DEF HoldInv, TypeOK
<1>1. ASSUME NEW c \in Clients, NEW g \in Groups, Start(c, g)
      PROVE  Handlers' /\ NodeHeldUntilKilled'
  <2>1. /\ pc' = [pc EXCEPT ![MainOf(c)] = "copy"]
        /\ up' = up \cup {c} /\ kill' = kill
    BY <1>1 DEF Start, Send, Goto
  <2>2. \A d \in Clients : /\ pc'[SigOf(d)] = pc[SigOf(d)]
                          /\ d # c => pc'[MainOf(d)] = pc[MainOf(d)]
    BY <2>1
  <2> QED  BY <2>1, <2>2 DEF Handlers, NodeHeldUntilKilled
<1>2. ASSUME NEW c \in Clients, NEW u, NEW m, Types(c, u, m), kill' \in {kill, Killed(c)}
      PROVE  Handlers' /\ NodeHeldUntilKilled'
  <2>1. pc' = [pc EXCEPT ![InputOf(c)] = "copy"] /\ up' = up
    BY <1>2 DEF Types, Send, Goto, nodes
  <2>2. \A d \in Clients : /\ pc'[SigOf(d)] = pc[SigOf(d)]
                          /\ pc'[MainOf(d)] = pc[MainOf(d)]
                          /\ kill[d] => kill'[d]
    BY <1>2, <2>1 DEF Killed
  <2> QED  BY <2>1, <2>2 DEF Handlers, NodeHeldUntilKilled
<1>3. ASSUME NEW c \in Clients, CtrlC(c)
      PROVE  Handlers' /\ NodeHeldUntilKilled'
  <2>1. /\ pc' = [pc EXCEPT ![SigOf(c)] = "copy"] /\ up' = up
        /\ kill' = [kill EXCEPT ![c] = TRUE]
    BY <1>3 DEF CtrlC, Send, Goto, nodes, Killed
  <2>2. \A d \in Clients : /\ d # c => pc'[SigOf(d)] = pc[SigOf(d)]
                          /\ pc'[MainOf(d)] = pc[MainOf(d)]
                          /\ kill'[d] = (kill[d] \/ d = c)
    BY <2>1
  <2> QED  BY <2>1, <2>2 DEF Handlers, NodeHeldUntilKilled
<1>4. CASE Stop
  BY <1>4 DEF Stop, FreeNode, Handlers, NodeHeldUntilKilled
<1>5. CASE Restart
  <2>1. \A c \in Clients : /\ pc'[SigOf(c)] = pc[SigOf(c)]
                          /\ pc'[MainOf(c)] = pc[MainOf(c)]
    BY <1>5 DEF Restart
  <2> QED  BY <1>5, <2>1 DEF Restart, Handlers, NodeHeldUntilKilled
<1> QED
  BY <1>1, <1>2, <1>3, <1>4, <1>5
  DEF UserStep, UserAct, TypeLine, TypeDisplay, TypeExit, TypePrivate

LEMMA HoldInvInit == Init => HoldInv
<1> SUFFICES ASSUME Init PROVE HoldInv
  OBVIOUS
<1>1. TypeOK  BY ServerInvInit DEF ServerInv, TypeInv
<1>2. \A c \in Clients : pc[SigOf(c)] = "off" /\ pc[MainOf(c)] = "off"
  BY ThreadFacts DEF Init
<1> QED  BY <1>1, <1>2 DEF HoldInv, Handlers, NodeHeldUntilKilled

LEMMA HoldInvStep == ServerInv /\ HoldInv /\ [Next]_vars => HoldInv'
<1> SUFFICES ASSUME ServerInv, HoldInv, [Next]_vars PROVE HoldInv'
  OBVIOUS
<1>0. TypeOK /\ TypeOK'  BY ServerInvStep DEF ServerInv, TypeInv
<1> SUFFICES Handlers' /\ NodeHeldUntilKilled'
  BY <1>0 DEF HoldInv
<1>1. ASSUME NEW t \in Threads, ThreadStep(t)
      PROVE  Handlers' /\ NodeHeldUntilKilled'
  BY <1>0, <1>1, NodeStepMoves, MoveHolds, ExitHolds, ThreadFacts DEF ThreadStep
<1>2. CASE Serve
  BY <1>0, <1>2, ServerStepMoves, MoveHolds, ExitHolds, ThreadFacts DEF Serve
<1>3. ASSUME NEW c \in Clients, MainStep(c) \/ InputStep(c) \/ SigStep(c)
      PROVE  Handlers' /\ NodeHeldUntilKilled'
  BY <1>3, ClientHolds DEF MainStep, InputStep, SigStep
<1>4. CASE UserStep
  BY <1>4, UserHolds
<1>5. CASE UNCHANGED vars
  BY <1>5 DEF HoldInv, Handlers, NodeHeldUntilKilled, vars, nodeVars, nodes, frames
<1> QED  BY <1>1, <1>2, <1>3, <1>4, <1>5 DEF Next, SystemStep

\* No thread of a client, in any interleaving with the server and the other
\* clients, finds its own node gone before the client was told to end: main,
\* input thread and SIGINT handler (client.c) free the node only after
\* kill_client is set.
THEOREM NodeHeld == Spec => []NodeHeldUntilKilled
<1>1. HoldInv => NodeHeldUntilKilled  BY DEF HoldInv
<1> QED
  BY <1>1, HoldInvInit, HoldInvStep, ServerInvInit, ServerInvStep, PTL DEF Spec

-----------------------------------------------------------------------------
(* The input thread follows main *)

\* main sends only the join and then responds only from its loop, and the input
\* thread exists only while main is in that loop.
Follows(c) ==
  /\ pc[MainOf(c)] \in SendSteps => call[MainOf(c)].back = "admit"
  /\ pc[MainOf(c)] \in RespondSteps => call[MainOf(c)].back = "poll"
  /\ pc[InputOf(c)] # "off" => pc[MainOf(c)] \in {"poll"} \cup RespondSteps

FollowInv == TypeOK /\ \A c \in Clients : Follows(c)

Same(t) == pc'[t] = pc[t] /\ call'[t].back = call[t].back

\* What a step of the node layer does to a thread and to the others.
LEMMA NodeStepPhases ==
  ASSUME TypeOK, NEW t \in Threads, NodeStep(t)
  PROVE  \/ Exit(Owner(t))
         \/ /\ pc[t] # "off" /\ \A x \in Threads \ {t} : Same(x)
            /\ \/ /\ pc[t] \in SendSteps /\ pc'[t] \in SendSteps
                  /\ call'[t].back = call[t].back
               \/ /\ pc[t] \in RespondSteps /\ pc'[t] \in RespondSteps
                  /\ call'[t].back = call[t].back
               \/ pc[t] \in SendSteps \cup RespondSteps /\ pc'[t] = call[t].back
<1> DEFINE Keeps == call'[t].back = call[t].back
<1>0. call \in [Threads -> Calls]
  BY DEF TypeOK
<1>1. ASSUME NEW s, Goto(t, s)
      PROVE  pc'[t] = s /\ \A x \in Threads \ {t} : pc'[x] = pc[x]
  BY <1>1 DEF TypeOK, Goto
<1>2. ASSUME call' = call
      PROVE  Keeps /\ \A x \in Threads \ {t} : call'[x].back = call[x].back
  BY <1>2
<1>3. ASSUME NEW r, call' = [call EXCEPT ![t].peer = r]
      PROVE  Keeps /\ \A x \in Threads \ {t} : call'[x].back = call[x].back
  BY <1>0, <1>3 DEF Calls
<1>4. CASE SendCopy(t) \/ SendClaim(t) \/ SendPost(t)
  BY <1>1, <1>2, <1>3, <1>4 DEF SendCopy, SendClaim, SendPost, At, Own, SendSteps, Same
<1>5. CASE SendSpin(t)
  BY <1>1, <1>2, <1>5 DEF SendSpin, At, Own, SendSteps, Same
<1>6. CASE RespondCheck(t) \/ RespondAttach(t) \/ RespondReply(t) \/ RespondRelease(t)
  BY <1>1, <1>2, <1>3, <1>6
  DEF RespondCheck, RespondAttach, RespondReply, RespondRelease, At, Own,
      RespondSteps, Same
<1>7. CASE RespondFinish(t)
  <2>1. \A x \in Threads \ {t} : call'[x] = call[x]
    BY <1>0, <1>7 DEF RespondFinish
  <2> QED  BY <1>1, <1>7, <2>1 DEF RespondFinish, At, Own, RespondSteps, Same
<1>8. CASE Fault(t)
  BY <1>8 DEF Fault
<1> QED  BY <1>4, <1>5, <1>6, <1>7, <1>8 DEF NodeStep

LEMMA SameFollows ==
  ASSUME NEW c \in Clients, Follows(c), Same(MainOf(c)),
         pc'[InputOf(c)] # "off" => pc[InputOf(c)] # "off"
  PROVE  Follows(c)'
  BY DEF Follows, Same

LEMMA ExitFollows ==
  ASSUME FollowInv, NEW n \in Names, Exit(n), NEW c \in Clients
  PROVE  Follows(c)'
<1>1. CASE c = n
  <2>1. pc'[MainOf(c)] = "off" /\ pc'[InputOf(c)] = "off"
    BY <1>1, ThreadFacts DEF Exit
  <2> QED  BY <2>1 DEF Follows, SendSteps, RespondSteps
<1>2. CASE c # n
  <2>1. /\ pc'[MainOf(c)] = pc[MainOf(c)] /\ pc'[InputOf(c)] = pc[InputOf(c)]
        /\ call'[MainOf(c)] = call[MainOf(c)]
    BY <1>2, ThreadFacts DEF Exit
  <2> QED  BY <2>1, SameFollows DEF FollowInv, Same
<1> QED  BY <1>1, <1>2

LEMMA NodeStepFollows ==
  ASSUME FollowInv, NEW t \in Threads, NodeStep(t), NEW c \in Clients
  PROVE  Follows(c)'
<1> USE ThreadFacts DEF FollowInv
<1>1. CASE Exit(Owner(t))
  BY <1>1, ExitFollows
<1>2. CASE ~Exit(Owner(t)) /\ t = MainOf(c)
  <2>1. Same(InputOf(c))  BY <1>2, NodeStepPhases
  <2>2. \/ /\ pc[t] \in SendSteps /\ pc'[t] \in SendSteps
           /\ call'[t].back = call[t].back
        \/ /\ pc[t] \in RespondSteps /\ pc'[t] \in RespondSteps
           /\ call'[t].back = call[t].back
        \/ pc[t] \in SendSteps \cup RespondSteps /\ pc'[t] = call[t].back
    BY <1>2, NodeStepPhases
  <2> QED  BY <1>2, <2>1, <2>2 DEF Follows, Same, SendSteps, RespondSteps
<1>3. CASE ~Exit(Owner(t)) /\ t # MainOf(c)
  <2>1. Same(MainOf(c)) /\ pc[t] # "off" /\ (t # InputOf(c) => Same(InputOf(c)))
    BY <1>3, NodeStepPhases
  <2> QED  BY <2>1, SameFollows DEF Same
<1> QED  BY <1>1, <1>2, <1>3

LEMMA ServerStepFollows ==
  ASSUME FollowInv, ServerStep, NEW c \in Clients
  PROVE  Follows(c)'
<1> USE ThreadFacts DEF FollowInv
<1>1. MainOf(c) # server /\ InputOf(c) # server
  OBVIOUS
<1>2. \/ Exit(Server)
      \/ /\ \E s : Goto(server, s)
         /\ call' = call \/ \E k : call' = [call EXCEPT ![server] = k]
  <2> USE DEF Respond, Send
  <2>1. CASE ServerJoin \/ ServerEnroll \/ ServerFull \/ ServerLog \/ ServerNull
    BY <2>1 DEF ServerJoin, ServerEnroll, ServerFull, ServerLog, ServerNull
  <2>2. CASE ServerBroadcast \/ ServerAwait \/ ServerRevive \/ ServerForward
    BY <2>2 DEF ServerBroadcast, ServerAwait, ServerRevive, ServerForward
  <2>3. CASE ServerDisplay \/ ServerLeave \/ ServerRemove \/ ServerRefuse
    BY <2>3 DEF ServerDisplay, ServerLeave, ServerRemove, ServerRefuse
  <2> QED  BY <2>1, <2>2, <2>3 DEF ServerStep
<1>3. CASE ~Exit(Server)
  <2>1. PICK s : Goto(server, s)  BY <1>2, <1>3
  <2>2. pc'[MainOf(c)] = pc[MainOf(c)] /\ pc'[InputOf(c)] = pc[InputOf(c)]
    BY <1>1, <2>1 DEF Goto, TypeOK
  <2>3. call'[MainOf(c)] = call[MainOf(c)]
    BY <1>1, <1>2, <1>3 DEF TypeOK
  <2> QED  BY <2>2, <2>3, SameFollows DEF Same
<1> QED  BY <1>3, ExitFollows

LEMMA ClientStepFollows ==
  ASSUME FollowInv, NEW d \in Clients, ClientMain(d) \/ InputLoop(d) \/ SigFree(d),
         NEW c \in Clients
  PROVE  Follows(c)'
<1> USE ThreadFacts, OrphanedBack DEF FollowInv
<1>0. /\ pc \in [Threads -> Steps] /\ call \in [Threads -> Calls]
      /\ call[MainOf(c)] \in Calls
  BY DEF TypeOK
<1>1. CASE ClientAdmit(d)
  <2>1. CASE buffer[d].type = "LEAVE_GROUP"
    <3>1. /\ pc' = [t \in Threads |-> IF Owner(t) = d THEN "off" ELSE pc[t]]
          /\ call' = [t \in Threads |-> IF Owner(t) = d THEN Idle
                                        ELSE Orphaned(call[t], t, d)]
      BY <1>1, <2>1 DEF ClientAdmit
    <3>2. CASE c = d
      <4>1. pc'[MainOf(c)] = "off" /\ pc'[InputOf(c)] = "off"  BY <3>1, <3>2
      <4> QED  BY <4>1 DEF Follows, SendSteps, RespondSteps
    <3>3. CASE c # d
      <4>1. Same(MainOf(c)) /\ pc'[InputOf(c)] = pc[InputOf(c)]
        BY <1>0, <3>1, <3>3 DEF Same
      <4> QED  BY <4>1, SameFollows
    <3> QED  BY <3>2, <3>3
  <2>2. CASE buffer[d].type # "LEAVE_GROUP"
    <3>1. /\ pc' = [pc EXCEPT ![MainOf(d)] = "poll", ![InputOf(d)] = "loop"]
          /\ call' = [call EXCEPT ![MainOf(d)] = Idle]
      BY <1>1, <2>2 DEF ClientAdmit
    <3>2. CASE c = d
      <4>1. pc'[MainOf(c)] = "poll"  BY <1>0, <3>1, <3>2
      <4> QED  BY <4>1 DEF Follows, SendSteps, RespondSteps
    <3>3. CASE c # d
      <4>1. Same(MainOf(c)) /\ pc'[InputOf(c)] = pc[InputOf(c)]
        BY <1>0, <3>1, <3>3 DEF Same
      <4> QED  BY <4>1, SameFollows
    <3> QED  BY <3>2, <3>3
  <2> QED  BY <2>1, <2>2
<1>2. CASE ClientServe(d)
  <2>1. CASE buffer[d].type = "LEAVE_GROUP"
    <3>1. Same(MainOf(c)) /\ pc'[InputOf(c)] = pc[InputOf(c)]
      BY <1>0, <1>2, <2>1 DEF ClientServe, FreeNode, Same
    <3> QED  BY <3>1, SameFollows
  <2>2. CASE buffer[d].type # "LEAVE_GROUP"
    <3>1. PICK m : Respond(MainOf(d), m, "poll")  BY <1>2, <2>2 DEF ClientServe
    <3>2. pc'[InputOf(c)] = pc[InputOf(c)]  BY <1>0, <3>1 DEF Respond, Goto
    <3>3. CASE c = d
      <4>1. /\ pc'[MainOf(c)] = "check" /\ call'[MainOf(c)].back = "poll"
        BY <1>0, <3>1, <3>3 DEF Respond, Goto
      <4> QED  BY <3>2, <4>1 DEF Follows, SendSteps, RespondSteps
    <3>4. CASE c # d
      <4>1. Same(MainOf(c))  BY <1>0, <3>1, <3>4 DEF Respond, Goto, Same
      <4> QED  BY <3>2, <4>1, SameFollows
    <3> QED  BY <3>3, <3>4
  <2> QED  BY <2>1, <2>2
<1>3. CASE ClientQuit(d)
  BY <1>3, ExitFollows DEF ClientQuit
<1>4. CASE InputLoop(d)
  <2>1. Same(MainOf(c)) /\ (c # d => pc'[InputOf(c)] = pc[InputOf(c)])
    BY <1>0, <1>4 DEF InputLoop, Goto, Same
  <2>2. pc[InputOf(d)] # "off"  BY <1>4 DEF InputLoop, At
  <2> QED  BY <2>1, <2>2, SameFollows
<1>5. CASE SigFree(d)
  <2>1. Same(MainOf(c)) /\ pc'[InputOf(c)] = pc[InputOf(c)]
    BY <1>0, <1>5 DEF SigFree, Goto, Same
  <2> QED  BY <2>1, SameFollows
<1> QED  BY <1>1, <1>2, <1>3, <1>4, <1>5 DEF ClientMain

LEMMA UserStepFollows ==
  ASSUME FollowInv, UserStep, NEW c \in Clients
  PROVE  Follows(c)'
<1> USE ThreadFacts, OrphanedBack DEF FollowInv
<1>0. /\ pc \in [Threads -> Steps] /\ call \in [Threads -> Calls]
      /\ call[MainOf(c)] \in Calls
  BY DEF TypeOK
<1>1. ASSUME NEW d \in Clients, NEW to, NEW m, Send(MainOf(d), to, m, "admit"),
             pc[MainOf(d)] = "off"
      PROVE  Follows(c)'
  <2>1. pc'[InputOf(c)] = pc[InputOf(c)]  BY <1>0, <1>1 DEF Send, Goto
  <2>2. CASE c = d
    <3>1. pc'[MainOf(c)] = "copy" /\ call'[MainOf(c)].back = "admit"
      BY <1>0, <1>1, <2>2 DEF Send, Goto
    <3>2. pc[InputOf(c)] = "off"  BY <1>1, <2>2 DEF Follows, RespondSteps
    <3> QED  BY <2>1, <3>1, <3>2 DEF Follows, RespondSteps
  <2>3. CASE c # d
    <3>1. Same(MainOf(c))  BY <1>0, <1>1, <2>3 DEF Send, Goto, Same
    <3> QED  BY <2>1, <3>1, SameFollows
  <2> QED  BY <2>2, <2>3
<1>2. ASSUME NEW d \in Clients, NEW to, NEW m, Send(InputOf(d), to, m, "loop"),
             pc[InputOf(d)] = "prompt"
      PROVE  Follows(c)'
  <2>1. Same(MainOf(c)) /\ (c # d => pc'[InputOf(c)] = pc[InputOf(c)])
    BY <1>0, <1>2 DEF Send, Goto, Same
  <2> QED  BY <1>2, <2>1, SameFollows
<1>3. ASSUME NEW d \in Clients, NEW to, NEW m, Send(SigOf(d), to, m, "free")
      PROVE  Follows(c)'
  <2>1. Same(MainOf(c)) /\ pc'[InputOf(c)] = pc[InputOf(c)]
    BY <1>0, <1>3 DEF Send, Goto, Same
  <2> QED  BY <2>1, SameFollows
<1>4. CASE Stop
  <2>1. Same(MainOf(c)) /\ pc'[InputOf(c)] = pc[InputOf(c)]
    BY <1>0, <1>4 DEF Stop, FreeNode, Same
  <2> QED  BY <2>1, SameFollows
<1>5. CASE Restart
  <2>1. Same(MainOf(c)) /\ pc'[InputOf(c)] = pc[InputOf(c)]
    BY <1>0, <1>5 DEF Restart, Same
  <2> QED  BY <2>1, SameFollows
<1> QED
  BY <1>1, <1>2, <1>3, <1>4, <1>5
  DEF UserStep, UserAct, Start, TypeLine, TypeDisplay, TypeExit, TypePrivate, CtrlC,
      Types, At

-----------------------------------------------------------------------------
(* Who waits *)

WaitInv == FollowInv /\ WaitingMeansBlocked

\* No node but that of n becomes WAITING in this step.
OnlyWaiter(n) ==
  \A m \in Names : m # n /\ status'[m] = "WAITING_FOR_RESPONSE" =>
                      status[m] = "WAITING_FOR_RESPONSE"

\* A thread that is not posting or polling moves on, and nobody starts to wait.
LEMMA MoveWaits ==
  ASSUME WaitInv, NEW t \in Threads, pc[t] \notin {"off", "post", "spin"},
         NEW s, Goto(t, s), OnlyWaiter(None)
  PROVE  WaitingMeansBlocked'
<1>1. /\ pc'[t] = s /\ \A x \in Threads \ {t} : pc'[x] = pc[x]
  BY DEF Goto, WaitInv, FollowInv, TypeOK
<1> QED  BY <1>1, ThreadFacts DEF WaitInv, WaitingMeansBlocked, OnlyWaiter

\* A process ends, and no other starts to wait.
LEMMA ExitWaits ==
  ASSUME WaitInv, NEW n \in Names, Exit(n), OnlyWaiter(n)
  PROVE  WaitingMeansBlocked'
<1>1. \A x \in Threads : pc'[x] = IF Owner(x) = n THEN "off" ELSE pc[x]
  BY DEF Exit
<1> QED  BY <1>1, ThreadFacts DEF WaitInv, WaitingMeansBlocked, OnlyWaiter

LEMMA NodeStepWaits ==
  ASSUME WaitInv, NEW t \in Threads, NodeStep(t)
  PROVE  WaitingMeansBlocked'
<1> USE ThreadFacts DEF WaitInv, FollowInv, OnlyWaiter
<1>1. CASE SendCopy(t)
  <2>1. status' = status /\ pc[t] = "copy"  BY <1>1 DEF SendCopy, At
  <2>2. Goto(t, "claim") \/ Exit(Owner(t))   BY <1>1 DEF SendCopy
  <2> QED  BY <2>1, <2>2, MoveWaits, ExitWaits
<1>2. CASE SendClaim(t)
  <2>1. /\ pc[t] = "claim" /\ pc' = [pc EXCEPT ![t] = "post"]
        /\ status' = [status EXCEPT ![Owner(t)] = "WAITING_FOR_RESPONSE"]
    BY <1>2 DEF SendClaim, Own, At, Goto
  <2>2. pc'[t] = "post" /\ \A x \in Threads \ {t} : pc'[x] = pc[x]
    BY <2>1 DEF TypeOK
  <2>3. \A n \in Names \ {Owner(t)} : status'[n] = status[n]
    BY <2>1 DEF TypeOK
  <2> QED  BY <2>1, <2>2, <2>3 DEF WaitingMeansBlocked
<1>3. CASE SendPost(t)
  <2>1. /\ pc[t] = "post" /\ pc' = [pc EXCEPT ![t] = "spin"]
        /\ status' = [n \in Names |-> IF n = call[t].peer THEN "RECIEVED_MESSAGE"
                                                          ELSE status[n]]
    BY <1>3 DEF SendPost, At, Goto
  <2>2. pc'[t] = "spin" /\ \A x \in Threads \ {t} : pc'[x] = pc[x]
    BY <2>1 DEF TypeOK
  <2>3. \A n \in Names : status'[n] = "WAITING_FOR_RESPONSE" =>
                            status[n] = "WAITING_FOR_RESPONSE"
    BY <2>1
  <2> QED  BY <2>1, <2>2, <2>3 DEF WaitingMeansBlocked
<1>4. CASE SendSpin(t)
  <2>1. /\ pc[t] = "spin" /\ status[Owner(t)] = "AVAILABLE" /\ status' = status
        /\ Goto(t, call[t].back)
    BY <1>4 DEF SendSpin, Own, At, Released, nodes
  <2>2. \A x \in Threads \ {t} : pc'[x] = pc[x]
    BY <2>1 DEF Goto, TypeOK
  <2> QED  BY <2>1, <2>2 DEF WaitingMeansBlocked
<1>5. CASE RespondCheck(t) \/ RespondAttach(t)
  <2>1. status' = status /\ pc[t] \in {"check", "attach"}
    BY <1>5 DEF RespondCheck, RespondAttach, Own, At, nodes
  <2>2. (\E s : Goto(t, s)) \/ Exit(Owner(t))
    BY <1>5 DEF RespondCheck, RespondAttach
  <2> QED  BY <2>1, <2>2, MoveWaits, ExitWaits
<1>6. CASE RespondReply(t) \/ RespondRelease(t) \/ RespondFinish(t)
  <2>1. pc[t] \in {"reply", "release", "finish"} /\ \E s : Goto(t, s)
    BY <1>6 DEF RespondReply, RespondRelease, RespondFinish, Own, At
  <2>2. \A n \in Names : status'[n] \in {status[n], "AVAILABLE"}
    BY <1>6 DEF RespondReply, RespondRelease, RespondFinish, TypeOK
  <2> QED  BY <2>1, <2>2, MoveWaits
<1>7. CASE Fault(t)
  BY <1>7, ExitWaits DEF Fault, nodes
<1> QED  BY <1>1, <1>2, <1>3, <1>4, <1>5, <1>6, <1>7 DEF NodeStep

LEMMA ServerStepWaits ==
  ASSUME WaitInv, ServerStep
  PROVE  WaitingMeansBlocked'
<1> USE ThreadFacts DEF WaitInv, FollowInv, OnlyWaiter
<1>1. \/ Exit(Server)
      \/ pc[server] \notin {"off", "post", "spin"} /\ \E s : Goto(server, s)
  <2> USE DEF Own, At, Handles, Respond, Send
  <2>1. CASE ServerJoin \/ ServerEnroll \/ ServerFull \/ ServerLog \/ ServerNull
    BY <2>1 DEF ServerJoin, ServerEnroll, ServerFull, ServerLog, ServerNull
  <2>2. CASE ServerBroadcast \/ ServerAwait \/ ServerRevive \/ ServerForward
    BY <2>2 DEF ServerBroadcast, ServerAwait, ServerRevive, ServerForward
  <2>3. CASE ServerDisplay \/ ServerLeave \/ ServerRemove \/ ServerRefuse
    BY <2>3 DEF ServerDisplay, ServerLeave, ServerRemove, ServerRefuse
  <2> QED  BY <2>1, <2>2, <2>3 DEF ServerStep
<1>2. status' = status \/ status' = [status EXCEPT ![Server] = "AVAILABLE"]
  BY DEF ServerStep, ServerJoin, ServerEnroll, ServerFull, ServerLog, ServerNull,
         ServerBroadcast, ServerAwait, ServerRevive, ServerForward, ServerDisplay,
         ServerLeave, ServerRemove, ServerRefuse, nodes
<1>3. \A n \in Names : status'[n] \in {status[n], "AVAILABLE"}
  BY <1>2 DEF TypeOK
<1> QED  BY <1>1, <1>3, MoveWaits, ExitWaits

LEMMA ClientWaits ==
  ASSUME WaitInv, NEW c \in Clients, ClientMain(c) \/ InputLoop(c) \/ SigFree(c)
  PROVE  WaitingMeansBlocked'
<1> USE ThreadFacts DEF WaitInv, FollowInv, OnlyWaiter
<1>0. status' = status
  BY DEF ClientMain, ClientAdmit, ClientServe, ClientQuit, InputLoop, SigFree, nodes
<1>1. CASE ClientAdmit(c)
  <2>1. CASE buffer[c].type = "LEAVE_GROUP"
    <3>1. \A x \in Threads : pc'[x] = IF Owner(x) = c THEN "off" ELSE pc[x]
      BY <1>1, <2>1 DEF ClientAdmit
    <3> QED  BY <1>0, <3>1 DEF WaitingMeansBlocked
  <2>2. CASE buffer[c].type # "LEAVE_GROUP"
    <3>1. /\ pc' = [pc EXCEPT ![MainOf(c)] = "poll", ![InputOf(c)] = "loop"]
          /\ pc[MainOf(c)] = "admit"
      BY <1>1, <2>2 DEF ClientAdmit, Own, At
    <3>2. pc[InputOf(c)] = "off"  BY <3>1 DEF Follows, RespondSteps
    <3>3. /\ \A x \in Threads : pc[x] \in {"post", "spin"} => pc'[x] = pc[x]
          /\ \A n \in Names : pc'[MainOf(n)] # "off" => pc[MainOf(n)] # "off"
      BY <3>1, <3>2 DEF TypeOK
    <3> QED  BY <1>0, <3>3 DEF WaitingMeansBlocked
  <2> QED  BY <2>1, <2>2
<1>2. CASE ClientServe(c)
  <2>1. CASE buffer[c].type = "LEAVE_GROUP"
    BY <1>0, <1>2, <2>1 DEF ClientServe, WaitingMeansBlocked
  <2>2. CASE buffer[c].type # "LEAVE_GROUP"
    BY <1>0, <1>2, <2>2, MoveWaits DEF ClientServe, Own, At, Respond
  <2> QED  BY <2>1, <2>2
<1>3. CASE ClientQuit(c)
  BY <1>0, <1>3, ExitWaits DEF ClientQuit
<1>4. CASE InputLoop(c)
  BY <1>0, <1>4, MoveWaits DEF InputLoop, At
<1>5. CASE SigFree(c)
  BY <1>0, <1>5, MoveWaits DEF SigFree, Own, At
<1> QED  BY <1>1, <1>2, <1>3, <1>4, <1>5 DEF ClientMain

LEMMA UserWaits ==
  ASSUME WaitInv, UserStep
  PROVE  WaitingMeansBlocked'
<1> USE ThreadFacts DEF WaitInv, FollowInv, OnlyWaiter
<1>1. ASSUME NEW n \in Names, status'[n] = "AVAILABLE",
             \A m \in Names \ {n} : status'[m] = status[m],
             NEW s, Goto(MainOf(n), s), pc[MainOf(n)] = "off"
      PROVE  WaitingMeansBlocked'
  <2>1. \A x \in Threads : Owner(x) # n => pc'[x] = pc[x]
    BY <1>1 DEF Goto, TypeOK
  <2> QED  BY <1>1, <2>1 DEF WaitingMeansBlocked
<1>2. ASSUME NEW c \in Clients, NEW t \in {InputOf(c), SigOf(c)}, NEW s, Goto(t, s),
             pc[t] \in {"prompt", "off"}, status' = status
      PROVE  WaitingMeansBlocked'
  <2>1. \A x \in Threads \ {t} : pc'[x] = pc[x]
    BY <1>2 DEF Goto, TypeOK
  <2>2. \A n \in Names : pc'[MainOf(n)] = pc[MainOf(n)]
    BY <2>1
  <2> QED  BY <1>2, <2>1, <2>2 DEF WaitingMeansBlocked
<1>3. ASSUME NEW c \in Clients, NEW g \in Groups, Start(c, g)
      PROVE  WaitingMeansBlocked'
  BY <1>1, <1>3 DEF Start, Send, TypeOK
<1>4. ASSUME NEW c \in Clients, NEW u, NEW m, Types(c, u, m)
      PROVE  WaitingMeansBlocked'
  BY <1>2, <1>4 DEF Types, At, Send, nodes
<1>5. ASSUME NEW c \in Clients, CtrlC(c)
      PROVE  WaitingMeansBlocked'
  BY <1>2, <1>5 DEF CtrlC, Send, nodes
<1>6. CASE Stop
  BY <1>6 DEF Stop, WaitingMeansBlocked
<1>7. CASE Restart
  <2>1. /\ Goto(MainOf(Server), "poll") /\ pc[MainOf(Server)] = "off"
        /\ status' = [status EXCEPT ![Server] = "AVAILABLE"]
    BY <1>7 DEF Restart, server, Goto
  <2> QED  BY <1>1, <2>1 DEF TypeOK
<1> QED
  BY <1>3, <1>4, <1>5, <1>6, <1>7
  DEF UserStep, UserAct, TypeLine, TypeDisplay, TypeExit, TypePrivate

LEMMA WaitInvInit == Init => WaitInv
<1> SUFFICES ASSUME Init PROVE WaitInv
  OBVIOUS
<1>1. TypeOK  BY ServerInvInit DEF ServerInv, TypeInv
<1>2. \A c \in Clients : pc[MainOf(c)] = "off" /\ pc[InputOf(c)] = "off"
  BY ThreadFacts DEF Init
<1>3. \A c \in Clients : Follows(c)
  BY <1>2 DEF Follows, SendSteps, RespondSteps
<1> QED  BY <1>1, <1>3 DEF WaitInv, FollowInv, WaitingMeansBlocked, Init

LEMMA WaitInvStep == ServerInv /\ WaitInv /\ [Next]_vars => WaitInv'
<1> SUFFICES ASSUME ServerInv, WaitInv, [Next]_vars PROVE WaitInv'
  OBVIOUS
<1>0. TypeOK' /\ FollowInv  BY ServerInvStep DEF ServerInv, TypeInv, WaitInv
<1> SUFFICES WaitingMeansBlocked' /\ \A c \in Clients : Follows(c)'
  BY <1>0 DEF WaitInv, FollowInv
<1>1. ASSUME NEW t \in Threads, ThreadStep(t)
      PROVE  WaitingMeansBlocked' /\ \A c \in Clients : Follows(c)'
  BY <1>0, <1>1, NodeStepWaits, NodeStepFollows DEF ThreadStep
<1>2. CASE Serve
  BY <1>0, <1>2, ServerStepWaits, ServerStepFollows DEF Serve
<1>3. ASSUME NEW d \in Clients, MainStep(d) \/ InputStep(d) \/ SigStep(d)
      PROVE  WaitingMeansBlocked' /\ \A c \in Clients : Follows(c)'
  BY <1>0, <1>3, ClientWaits, ClientStepFollows DEF MainStep, InputStep, SigStep
<1>4. CASE UserStep
  BY <1>0, <1>4, UserWaits, UserStepFollows
<1>5. CASE UNCHANGED vars
  <2>1. WaitingMeansBlocked'
    BY <1>5 DEF WaitInv, WaitingMeansBlocked, vars, nodeVars, nodes, frames
  <2>2. \A c \in Clients : Follows(c)'
    BY <1>0, <1>5 DEF FollowInv, Follows, vars, nodeVars, frames
  <2> QED  BY <2>1, <2>2
<1> QED  BY <1>1, <1>2, <1>3, <1>4, <1>5 DEF Next, SystemStep

\* Whoever respond_to_message (chat.c) finds WAITING is inside send_message at that
\* moment, or its process is gone: however requests, answers, exits and signals
\* interleave, no running process is ever marked WAITING without a thread in its
\* send.  It says nothing of the moment in which the answer is written.
THEOREM WaitersWait == Spec => []WaitingMeansBlocked
<1>1. WaitInv => WaitingMeansBlocked  BY DEF WaitInv
<1> QED
  BY <1>1, WaitInvInit, WaitInvStep, ServerInvInit, ServerInvStep, PTL DEF Spec

-----------------------------------------------------------------------------
(***************************************************************************)
(* The serial executions of Chat: users act only when the system is at     *)
(* rest, whatever they do then.                                            *)
(*                                                                         *)
(* The inductive invariant has three layers.  PlaceInv says where the      *)
(* threads of a client can be together.  TurnInv says that at most one     *)
(* thread has the turn - it is about to put a message before a process, or *)
(* has one to answer, or is the server going on by itself - and what the   *)
(* other threads and the nodes are like meanwhile: that is all the         *)
(* assertions of respond_to_message need (Rendezvous).  TalkInv says what  *)
(* is asked and answered, and how it fits the tables of the server: with   *)
(* it the tables agree, broadcasts arrive, no lookup of the server fails,  *)
(* and the server implements ChatGroups.  TalkInv needs one hypothesis     *)
(* more, ToClientsOnly: a private message to the server is served as       *)
(* whatever its uninitialised type says, and a server started anew does    *)
(* not know the clients that still run.                                    *)
(***************************************************************************)

-----------------------------------------------------------------------------
(* Places *)

\* Where the threads of a client can be, when users wait for the system to be
\* at rest: ctrl-c finds main in its loop, so main never runs on beside the
\* handler; and only a client whose main has reached its loop is told to end.
Places(c) ==
  /\ pc[MainOf(c)] \in {"off", "poll", "admit"} \cup SendSteps \cup RespondSteps
  /\ pc[InputOf(c)] \in {"off", "loop", "prompt"} \cup SendSteps
  /\ pc[SigOf(c)] \in {"off", "free"} \cup SendSteps
  /\ pc[InputOf(c)] \in SendSteps => call[InputOf(c)].back = "loop"
  /\ pc[SigOf(c)] \in SendSteps => call[SigOf(c)].back = "free"
  /\ pc[SigOf(c)] # "off" => pc[MainOf(c)] = "poll"
  /\ kill[c] => pc[MainOf(c)] \in {"poll"} \cup RespondSteps

\* main is suspended while the handler runs, and nothing else is.
LEMMA SuspendedFacts ==
  /\ \A c \in Clients : Suspended(MainOf(c)) <=> pc[SigOf(c)] # "off"
  /\ \A c \in Clients : ~Suspended(InputOf(c)) /\ ~Suspended(SigOf(c))
  /\ ~Suspended(server)
<1>1. \A c \in Clients : /\ MainOf(c) \in Clients \X {"main"}
                        /\ InputOf(c) \notin Clients \X {"main"}
                        /\ SigOf(c) \notin Clients \X {"main"}
  BY DEF MainOf, InputOf, SigOf
<1>2. server \notin Clients \X {"main"}
  BY ThreadFacts DEF server, MainOf
<1> QED  BY <1>1, <1>2, ThreadFacts DEF Suspended

ServerPlace == pc[server] \notin ClientSteps

PlaceInv == /\ ServerInv /\ HoldInv /\ WaitInv
            /\ ServerPlace /\ \A c \in Clients : Places(c)

\* The threads of another client, and its order to end, are as they were.
Untouched(c) ==
  /\ Same(MainOf(c)) /\ Same(InputOf(c)) /\ Same(SigOf(c))
  /\ kill'[c] = kill[c]

LEMMA UntouchedPlaces ==
  ASSUME NEW c \in Clients, Places(c), Untouched(c)
  PROVE  Places(c)'
  BY DEF Places, Untouched, Same

LEMMA ExitPlaces ==
  ASSUME PlaceInv, NEW n \in Names, Exit(n), NEW c \in Clients
  PROVE  Places(c)'
<1> USE ThreadFacts DEF PlaceInv, WaitInv
<1>1. CASE c = n
  <2>1. /\ pc'[MainOf(c)] = "off" /\ pc'[InputOf(c)] = "off" /\ pc'[SigOf(c)] = "off"
        /\ ~kill'[c]
    BY <1>1 DEF Exit
  <2> QED  BY <2>1 DEF Places, SendSteps
<1>2. CASE c # n
  <2>1. Untouched(c)
    BY <1>2 DEF Exit, Untouched, Same, HoldInv, TypeOK
  <2> QED  BY <2>1, UntouchedPlaces
<1> QED  BY <1>1, <1>2

LEMMA NodeStepPlaces ==
  ASSUME PlaceInv, NEW t \in Threads, NodeStep(t), NEW c \in Clients
  PROVE  Places(c)'
<1> USE ThreadFacts DEF PlaceInv, WaitInv, FollowInv
<1>1. CASE Exit(Owner(t))
  BY <1>1, ExitPlaces
<1>2. CASE ~Exit(Owner(t))
  <2>1. /\ kill' = kill /\ pc[t] # "off" /\ \A x \in Threads \ {t} : Same(x)
        /\ \/ /\ pc[t] \in SendSteps /\ pc'[t] \in SendSteps
              /\ call'[t].back = call[t].back
           \/ /\ pc[t] \in RespondSteps /\ pc'[t] \in RespondSteps
              /\ call'[t].back = call[t].back
           \/ pc[t] \in SendSteps \cup RespondSteps /\ pc'[t] = call[t].back
    BY <1>2, NodeStepPhases, NodeStepMoves
  <2>2. CASE t = MainOf(c)
    <3>1. pc[SigOf(c)] = "off"
      <4>1. ~Suspended(t)
        BY DEF NodeStep, SendCopy, SendClaim, SendPost, SendSpin, RespondCheck,
               RespondAttach, RespondReply, RespondRelease, RespondFinish, Fault, At, Own
      <4> QED  BY <2>2, <4>1, SuspendedFacts
    <3>2. Same(InputOf(c)) /\ Same(SigOf(c))  BY <2>1, <2>2
    <3>3. Follows(c) /\ Places(c)  OBVIOUS
    <3> QED  BY <2>1, <2>2, <3>1, <3>2, <3>3
             DEF Places, Follows, Same, SendSteps, RespondSteps
  <2>3. CASE t = InputOf(c)
    <3>1. Same(MainOf(c)) /\ Same(SigOf(c))  BY <2>1, <2>3
    <3>2. Places(c)  OBVIOUS
    <3> QED  BY <2>1, <2>3, <3>1, <3>2 DEF Places, Same, SendSteps, RespondSteps
  <2>4. CASE t = SigOf(c)
    <3>1. Same(MainOf(c)) /\ Same(InputOf(c))  BY <2>1, <2>4
    <3>2. Places(c)  OBVIOUS
    <3> QED  BY <2>1, <2>4, <3>1, <3>2 DEF Places, Same, SendSteps, RespondSteps
  <2>5. CASE t \notin {MainOf(c), InputOf(c), SigOf(c)}
    BY <2>1, <2>5, UntouchedPlaces DEF Untouched
  <2> QED  BY <2>2, <2>3, <2>4, <2>5
<1> QED  BY <1>1, <1>2

LEMMA ServerStepPlaces ==
  ASSUME PlaceInv, ServerStep, NEW c \in Clients
  PROVE  Places(c)'
<1> USE ThreadFacts DEF PlaceInv, WaitInv, FollowInv
<1>1. \/ Exit(Server)
      \/ /\ \E s : Goto(server, s)
         /\ call' = call \/ \E k : call' = [call EXCEPT ![server] = k]
         /\ kill' = kill
  <2> USE DEF Respond, Send
  <2>1. CASE ServerJoin \/ ServerEnroll \/ ServerFull \/ ServerLog \/ ServerNull
    BY <2>1 DEF ServerJoin, ServerEnroll, ServerFull, ServerLog, ServerNull
  <2>2. CASE ServerBroadcast \/ ServerAwait \/ ServerRevive \/ ServerForward
    BY <2>2 DEF ServerBroadcast, ServerAwait, ServerRevive, ServerForward
  <2>3. CASE ServerDisplay \/ ServerLeave \/ ServerRemove \/ ServerRefuse
    BY <2>3 DEF ServerDisplay, ServerLeave, ServerRemove, ServerRefuse
  <2> QED  BY <2>1, <2>2, <2>3 DEF ServerStep
<1>2. CASE ~Exit(Server)
  <2>1. Untouched(c)
    BY <1>1, <1>2 DEF Goto, TypeOK, Untouched, Same
  <2> QED  BY <2>1, UntouchedPlaces
<1> QED  BY <1>2, ExitPlaces

LEMMA ClientStepPlaces ==
  ASSUME PlaceInv, NEW d \in Clients, ClientMain(d) \/ InputLoop(d) \/ SigFree(d),
         NEW c \in Clients
  PROVE  Places(c)'
<1> USE ThreadFacts, OrphanedBack DEF PlaceInv, WaitInv
<1>0. /\ pc \in [Threads -> Steps] /\ call \in [Threads -> Calls]
      /\ kill \in [Clients -> BOOLEAN]
      /\ \A t \in Threads : call[t] \in Calls
      /\ Places(c) /\ Follows(c)
  BY DEF HoldInv, FollowInv, TypeOK
<1>1. CASE ClientAdmit(d)
  <2>1. CASE buffer[d].type = "LEAVE_GROUP"
    <3>1. /\ pc' = [t \in Threads |-> IF Owner(t) = d THEN "off" ELSE pc[t]]
          /\ call' = [t \in Threads |-> IF Owner(t) = d THEN Idle
                                        ELSE Orphaned(call[t], t, d)]
          /\ kill' = kill /\ pc[MainOf(d)] = "admit"
      BY <1>1, <2>1 DEF ClientAdmit, Own, At
    <3>2. CASE c = d
      <4>1. /\ pc'[MainOf(c)] = "off" /\ pc'[InputOf(c)] = "off" /\ pc'[SigOf(c)] = "off"
            /\ ~kill'[c]
        BY <1>0, <3>1, <3>2 DEF Places, RespondSteps
      <4> QED  BY <4>1 DEF Places, SendSteps
    <3>3. CASE c # d
      <4>1. Untouched(c)  BY <1>0, <3>1, <3>3 DEF Untouched, Same
      <4> QED  BY <1>0, <4>1, UntouchedPlaces
    <3> QED  BY <3>2, <3>3
  <2>2. CASE buffer[d].type # "LEAVE_GROUP"
    <3>1. /\ pc' = [pc EXCEPT ![MainOf(d)] = "poll", ![InputOf(d)] = "loop"]
          /\ call' = [call EXCEPT ![MainOf(d)] = Idle]
          /\ kill' = kill /\ pc[MainOf(d)] = "admit"
      BY <1>1, <2>2 DEF ClientAdmit, Own, At
    <3>2. CASE c = d
      <4>1. /\ pc'[MainOf(c)] = "poll" /\ pc'[InputOf(c)] = "loop"
            /\ pc'[SigOf(c)] = pc[SigOf(c)] /\ call'[SigOf(c)] = call[SigOf(c)]
            /\ kill'[c] = kill[c]
        BY <1>0, <3>1, <3>2
      <4>2. pc[SigOf(c)] = "off"  BY <1>0, <3>1, <3>2 DEF Places
      <4> QED  BY <4>1, <4>2 DEF Places, SendSteps
    <3>3. CASE c # d
      <4>1. Untouched(c)  BY <1>0, <3>1, <3>3 DEF Untouched, Same
      <4> QED  BY <1>0, <4>1, UntouchedPlaces
    <3> QED  BY <3>2, <3>3
  <2> QED  BY <2>1, <2>2
<1>2. CASE ClientServe(d)
  <2>0. pc[MainOf(d)] = "poll" /\ pc[SigOf(d)] = "off"
    BY <1>2, SuspendedFacts DEF ClientServe, Own, At
  <2>1. CASE buffer[d].type = "LEAVE_GROUP"
    <3>1. /\ Same(MainOf(c)) /\ Same(InputOf(c)) /\ Same(SigOf(c))
          /\ kill' = [kill EXCEPT ![d] = TRUE]
      BY <1>0, <1>2, <2>1 DEF ClientServe, FreeNode, Killed, Same
    <3> QED  BY <1>0, <2>0, <3>1 DEF Places, Same
  <2>2. CASE buffer[d].type # "LEAVE_GROUP"
    <3>1. PICK m : Respond(MainOf(d), m, "poll") /\ kill' = kill
      BY <1>2, <2>2 DEF ClientServe
    <3>2. CASE c = d
      <4>1. /\ pc'[MainOf(c)] = "check" /\ pc'[InputOf(c)] = pc[InputOf(c)]
            /\ pc'[SigOf(c)] = "off" /\ call'[InputOf(c)] = call[InputOf(c)]
        BY <1>0, <2>0, <3>1, <3>2 DEF Respond, Goto
      <4> QED  BY <1>0, <3>1, <4>1 DEF Places, SendSteps, RespondSteps
    <3>3. CASE c # d
      <4>1. Untouched(c)  BY <1>0, <3>1, <3>3 DEF Respond, Goto, Untouched, Same
      <4> QED  BY <1>0, <4>1, UntouchedPlaces
    <3> QED  BY <3>2, <3>3
  <2> QED  BY <2>1, <2>2
<1>3. CASE ClientQuit(d)
  BY <1>3, ExitPlaces DEF ClientQuit
<1>4. CASE InputLoop(d)
  <2>1. /\ Same(MainOf(c)) /\ Same(SigOf(c)) /\ kill' = kill
        /\ pc'[InputOf(c)] \in {pc[InputOf(c)], "off", "prompt"}
        /\ c # d => Same(InputOf(c))
        /\ c = d => pc'[InputOf(c)] \in {"off", "prompt"}
    BY <1>0, <1>4 DEF InputLoop, Goto, Same
  <2> QED  BY <1>0, <2>1 DEF Places, Same, SendSteps
<1>5. CASE SigFree(d)
  <2>1. /\ Same(MainOf(c)) /\ Same(InputOf(c)) /\ kill' = kill
        /\ c # d => Same(SigOf(c))
        /\ c = d => pc'[SigOf(c)] = "off"
    BY <1>0, <1>5 DEF SigFree, Goto, Same
  <2> QED  BY <1>0, <2>1 DEF Places, Same, SendSteps
<1> QED  BY <1>1, <1>2, <1>3, <1>4, <1>5 DEF ClientMain

LEMMA UserStepPlaces ==
  ASSUME PlaceInv, AtRest, UserStep, NEW c \in Clients
  PROVE  Places(c)'
<1> USE ThreadFacts, OrphanedBack DEF PlaceInv, WaitInv
<1>0. /\ pc \in [Threads -> Steps] /\ call \in [Threads -> Calls]
      /\ kill \in [Clients -> BOOLEAN]
      /\ \A t \in Threads : call[t] \in Calls
      /\ Places(c) /\ Follows(c)
  BY DEF HoldInv, FollowInv, TypeOK
<1>1. ASSUME NEW d \in Clients, NEW to, NEW m, Send(MainOf(d), to, m, "admit"),
             pc[MainOf(d)] = "off", kill' = kill
      PROVE  Places(c)'
  <2>1. CASE c = d
    <3>1. /\ pc'[MainOf(c)] = "copy" /\ pc'[InputOf(c)] = "off" /\ pc'[SigOf(c)] = "off"
          /\ ~kill'[c]
      BY <1>0, <1>1, <2>1 DEF Send, Goto, Places, Follows, RespondSteps
    <3> QED  BY <3>1 DEF Places, SendSteps
  <2>2. CASE c # d
    <3>1. Untouched(c)  BY <1>0, <1>1, <2>2 DEF Send, Goto, Untouched, Same
    <3> QED  BY <1>0, <3>1, UntouchedPlaces
  <2> QED  BY <2>1, <2>2
<1>2. ASSUME NEW d \in Clients, NEW to, NEW m, Send(InputOf(d), to, m, "loop"),
             pc[InputOf(d)] = "prompt", kill' \in {kill, Killed(d)}
      PROVE  Places(c)'
  <2>1. CASE c = d
    <3>1. /\ pc'[InputOf(c)] = "copy" /\ call'[InputOf(c)].back = "loop"
          /\ Same(MainOf(c)) /\ Same(SigOf(c))
      BY <1>0, <1>2, <2>1 DEF Send, Goto, Same
    <3>2. pc[MainOf(c)] \in {"poll"} \cup RespondSteps
      BY <1>0, <1>2, <2>1 DEF Follows
    <3> QED  BY <1>0, <3>1, <3>2 DEF Places, Same, SendSteps
  <2>2. CASE c # d
    <3>1. Untouched(c)  BY <1>0, <1>2, <2>2 DEF Send, Goto, Untouched, Same, Killed
    <3> QED  BY <1>0, <3>1, UntouchedPlaces
  <2> QED  BY <2>1, <2>2
<1>3. ASSUME NEW d \in Clients, NEW to, NEW m, Send(SigOf(d), to, m, "free"),
             pc[MainOf(d)] # "off", kill' = Killed(d)
      PROVE  Places(c)'
  <2>1. CASE c = d
    <3>1. /\ pc'[SigOf(c)] = "copy" /\ call'[SigOf(c)].back = "free"
          /\ Same(MainOf(c)) /\ Same(InputOf(c))
      BY <1>0, <1>3, <2>1 DEF Send, Goto, Same
    <3>2. pc[MainOf(c)] = "poll"
      BY <1>3, <2>1 DEF AtRest
    <3> QED  BY <1>0, <3>1, <3>2 DEF Places, Same, SendSteps
  <2>2. CASE c # d
    <3>1. Untouched(c)  BY <1>0, <1>3, <2>2 DEF Send, Goto, Untouched, Same, Killed
    <3> QED  BY <1>0, <3>1, UntouchedPlaces
  <2> QED  BY <2>1, <2>2
<1>4. CASE Stop
  <2>1. Untouched(c)
    BY <1>0, <1>4 DEF Stop, FreeNode, Untouched, Same
  <2> QED  BY <1>0, <2>1, UntouchedPlaces
<1>5. CASE Restart
  <2>1. Untouched(c)
    BY <1>0, <1>5 DEF Restart, Untouched, Same
  <2> QED  BY <1>0, <2>1, UntouchedPlaces
<1> QED
  BY <1>1, <1>2, <1>3, <1>4, <1>5
  DEF UserStep, UserAct, Start, TypeLine, TypeDisplay, TypeExit, TypePrivate, CtrlC,
      Types, At

LEMMA ServerPlaceStep ==
  ASSUME PlaceInv, [SerialNext]_vars
  PROVE  ServerPlace'
<1> USE ThreadFacts DEF PlaceInv, ServerInv, TypeInv, ServerPlace, ClientSteps
<1>1. ASSUME NEW t \in Threads, NodeStep(t)
      PROVE  ServerPlace'
  <2>1. CASE t # server
    BY <1>1, <2>1, OtherThreads DEF ServerUndisturbed
  <2>2. CASE t = server
    <3>1. \/ pc'[server] = "off"
          \/ pc'[server] \in SendSteps \cup RespondSteps
          \/ pc[server] \in SendSteps \cup RespondSteps /\ pc'[server] = call[server].back
      BY <1>1, <2>2, NodeStepPhases DEF Exit
    <3> QED  BY <3>1 DEF ServerCalls, SendSteps, RespondSteps
  <2> QED  BY <2>1, <2>2
<1>2. CASE ServerStep
  <2>1. \/ Exit(Server)
        \/ \E s \in {"enroll", "check", "poll", "forward", "copy", "remove"} : Goto(server, s)
    BY <1>2
    DEF ServerStep, ServerJoin, ServerEnroll, ServerFull, ServerLog, ServerNull,
        ServerBroadcast, ServerAwait, ServerRevive, ServerForward, ServerDisplay,
        ServerLeave, ServerRemove, ServerRefuse, Respond, Send
  <2> QED  BY <2>1 DEF Exit, Goto, TypeOK
<1>3. ASSUME ServerUndisturbed
      PROVE  ServerPlace'
  BY <1>3 DEF ServerUndisturbed
<1>4. CASE Restart
  BY <1>4 DEF Restart, TypeOK
<1>5. CASE UNCHANGED vars
  BY <1>5 DEF vars, nodeVars, frames
<1> QED
  BY <1>1, <1>2, <1>3, <1>4, <1>5, ClientsApart, UsersApart
  DEF SerialNext, SystemStep, UserStep, ThreadStep, MainStep, InputStep, SigStep, Serve

LEMMA SerialStep == SerialNext => Next
  BY DEF SerialNext, Next

LEMMA PlaceInvInit == Init => PlaceInv
<1> SUFFICES ASSUME Init PROVE PlaceInv
  OBVIOUS
<1>1. ServerPlace  BY ThreadFacts DEF Init, ServerPlace, ClientSteps
<1>2. ASSUME NEW c \in Clients PROVE Places(c)
  BY ThreadFacts DEF Init, Places, SendSteps
<1> QED  BY <1>1, <1>2, ServerInvInit, HoldInvInit, WaitInvInit DEF PlaceInv

LEMMA PlaceInvStep == PlaceInv /\ [SerialNext]_vars => PlaceInv'
<1> SUFFICES ASSUME PlaceInv, [SerialNext]_vars PROVE PlaceInv'
  OBVIOUS
<1>1. ServerInv' /\ HoldInv' /\ WaitInv'
  BY SerialStep, ServerInvStep, HoldInvStep, WaitInvStep DEF PlaceInv
<1>2. ASSUME NEW c \in Clients PROVE Places(c)'
  <2>1. CASE SystemStep
    BY <2>1, NodeStepPlaces, ServerStepPlaces, ClientStepPlaces
    DEF SystemStep, ThreadStep, MainStep, InputStep, SigStep, Serve
  <2>2. CASE AtRest /\ UserStep
    BY <2>2, UserStepPlaces
  <2>3. CASE UNCHANGED vars
    BY <2>3 DEF PlaceInv, Places, vars, nodeVars, frames
  <2> QED  BY <2>1, <2>2, <2>3 DEF SerialNext
<1> QED  BY <1>1, <1>2, ServerPlaceStep DEF PlaceInv

-----------------------------------------------------------------------------
(* Whose turn it is *)

\* A thread that is about to put a message into the node of another process.
Asking(t) == pc[t] \in {"copy", "claim", "post"}

\* A process with a request in its node that it has still to answer.
Answering(n) ==
  \/ pc[MainOf(n)] \in {"enroll", "remove", "check", "attach", "reply", "release"}
  \/ n \in up /\ pc[MainOf(n)] = "poll" /\ status[n] = "RECIEVED_MESSAGE"

\* The server goes on by itself after it has answered, and when it is released.
Proceeding ==
  \/ pc[server] \in {"finish", "log", "await", "forward"}
  \/ pc[server] = "spin" /\ status[Server] = "AVAILABLE"

Turn(t) ==
  \/ Asking(t)
  \/ t = MainOf(Owner(t)) /\ Answering(Owner(t))
  \/ t = server /\ Proceeding

OneTurn == \A t, u \in Threads : Turn(t) /\ Turn(u) => t = u

\* A thread that waits for a message, for a user, or for nothing any more; and
\* one that waits for the answer to a request of r.
Rests(u)      == pc[u] \in {"off", "poll", "prompt"}
Blocked(u, r) == Owner(u) = r /\ pc[u] = "spin"

\* A thread asks in its own name.  While a thread of a client asks, all others
\* rest, and only an input thread asks for a broadcast.
AskOK(t) ==
  /\ call[t].msg.sender = Owner(t)
  /\ pc[t] # "copy" => /\ call[t].peer \in Names
                       /\ buffer[call[t].peer] = call[t].msg
  /\ pc[t] = "post" => /\ Owner(t) \in up
                       /\ status[Owner(t)] = "WAITING_FOR_RESPONSE"
  /\ t # server => /\ call[t].peer # Owner(t)
                   /\ \A u \in Threads \ {t} : Rests(u)
                   /\ call[t].msg.type = "BROADCAST_MESSAGE" => t = InputOf(Owner(t))

\* The server has a request for a broadcast to answer.
AsksBroadcast ==
  \/ pc[server] = "poll" /\ Request.type = "BROADCAST_MESSAGE"
  \/ pc[server] \in RespondSteps /\ call[server].back = "await"

\* Whoever answers finds its requester waiting.  It is a client, and everybody
\* else rests; or it is the server, which forwards a broadcast.
AnswerOK(n) ==
  LET r == Requester(n) IN
    /\ r \in up /\ r # n
    /\ status[n] = "RECIEVED_MESSAGE"
    /\ status[r] = "WAITING_FOR_RESPONSE"
    /\ pc[MainOf(n)] \in {"reply", "release"} => call[MainOf(n)].peer = r
    /\ r # Server => \A u \in Threads \ {MainOf(n)} : Rests(u) \/ Blocked(u, r)
    /\ r = Server => /\ pc[server] = "spin"
                     /\ pc[MainOf(n)] = "poll" => buffer[n].type = "BROADCAST_MESSAGE"
    /\ n = Server /\ AsksBroadcast => pc[MainOf(r)] # "spin" /\ pc[SigOf(r)] # "spin"

\* A broadcast is under way, from the answer to its requester on.
Walking   == pc[server] \in {"forward"} \cup SendSteps
Spreading == \/ pc[server] = "await" \/ Walking
             \/ pc[server] = "finish" /\ call[server].back = "await"

\* All clients are in their loops then.
SpreadOK ==
  /\ Walking => /\ call[server].msg.sender = Server
                /\ call[server].msg.type = "BROADCAST_MESSAGE"
  /\ \A c \in Clients : /\ pc[MainOf(c)] \in {"off", "poll"} \cup RespondSteps
                        /\ pc[SigOf(c)] = "off"

\* Who is about to go back to its loop finds its node AVAILABLE there.
Settled ==
  /\ pc[server] \in {"log", "await", "forward"} => status[Server] = "AVAILABLE"
  /\ \A c \in Clients : pc[MainOf(c)] = "admit" => status[c] = "AVAILABLE"

TurnInv ==
  /\ OneTurn
  /\ \A t \in Threads : Asking(t) => AskOK(t)
  /\ \A n \in Names : Answering(n) => AnswerOK(n)
  /\ Spreading => SpreadOK
  /\ Settled

LEMMA Roles ==
  ASSUME NEW t \in Threads
  PROVE  \/ t = server
         \/ Owner(t) \in Clients /\ t \in {MainOf(Owner(t)), InputOf(Owner(t)), SigOf(Owner(t))}
  BY DEF Threads, Names, MainOf, InputOf, SigOf, Owner, server

LEMMA TypeFacts ==
  ASSUME PlaceInv
  PROVE  /\ up \subseteq Names
         /\ status \in [Names -> NodeStatus] /\ buffer \in [Names -> Message]
         /\ pc \in [Threads -> Steps] /\ call \in [Threads -> Calls]
         /\ kill \in [Clients -> BOOLEAN]
         /\ \A t \in Threads : /\ call[t] \in Calls /\ call[t].peer \in Senders
                               /\ call[t].msg \in Message
         /\ \A n \in Names : buffer[n].sender \in Senders
  BY DEF PlaceInv, HoldInv, TypeOK, Calls, Message

\* The threads that rest are at the places where their kind rests.
LEMMA RestPlaces ==
  ASSUME PlaceInv
  PROVE  /\ Rests(server) => pc[server] \in {"off", "poll"}
         /\ \A c \in Clients :
              /\ Rests(MainOf(c)) => pc[MainOf(c)] \in {"off", "poll"}
              /\ Rests(InputOf(c)) => pc[InputOf(c)] \in {"off", "prompt"}
              /\ Rests(SigOf(c)) => pc[SigOf(c)] = "off"
<1>1. Rests(server) => pc[server] \in {"off", "poll"}
  BY DEF PlaceInv, ServerPlace, ClientSteps, Rests
<1>2. ASSUME NEW c \in Clients
      PROVE  /\ Rests(MainOf(c)) => pc[MainOf(c)] \in {"off", "poll"}
             /\ Rests(InputOf(c)) => pc[InputOf(c)] \in {"off", "prompt"}
             /\ Rests(SigOf(c)) => pc[SigOf(c)] = "off"
  <2>1. Places(c)  BY DEF PlaceInv
  <2> QED  BY <2>1 DEF Places, Rests, SendSteps, RespondSteps
<1> QED  BY <1>1, <1>2

\* Nobody but the thread whose turn it is asks or answers.
LEMMA HolderAlone ==
  ASSUME TurnInv, NEW t \in Threads, Turn(t)
  PROVE  /\ \A u \in Threads \ {t} : ~Turn(u) /\ ~Asking(u)
         /\ \A n \in Names : MainOf(n) # t => ~Answering(n)
         /\ t # server => ~Proceeding
<1>1. \A u \in Threads \ {t} : ~Turn(u)  BY DEF TurnInv, OneTurn
<1> QED  BY <1>1, ThreadFacts DEF Turn

\* A thread of a client that has had its answer goes its own way while nobody
\* asks or answers, except in the course of a broadcast.
Trailing(t) ==
  /\ t # server
  /\ \/ pc[t] \in {"admit", "loop", "free", "finish"}
     \/ pc[t] = "spin" /\ status[Owner(t)] = "AVAILABLE"

LEMMA TrailApart ==
  ASSUME PlaceInv, TurnInv, NEW t \in Threads, Trailing(t)
  PROVE  /\ \A u \in Threads : Asking(u) => u = server
         /\ \A n \in Names : Answering(n) => Requester(n) = Server
<1>1. ~Rests(t)  BY DEF Trailing, Rests
<1>2. ASSUME NEW u \in Threads, Asking(u), u # server PROVE FALSE
  <2>1. AskOK(u)  BY <1>2 DEF TurnInv
  <2>2. t # u     BY <1>2 DEF Trailing, Asking
  <2> QED  BY <1>1, <1>2, <2>1, <2>2 DEF AskOK
<1>3. ASSUME NEW n \in Names, Answering(n), Requester(n) # Server PROVE FALSE
  <2>1. AnswerOK(n)  BY <1>3 DEF TurnInv
  <2>2. t # MainOf(n)  BY <1>3, ThreadFacts DEF Trailing, Answering
  <2>3. Blocked(t, Requester(n))  BY <1>1, <1>3, <2>1, <2>2 DEF AnswerOK
  <2> QED  BY <2>1, <2>3 DEF AnswerOK, Blocked, Trailing
<1> QED  BY <1>2, <1>3

\* Threads of main and of the handler have their way only when no broadcast is
\* under way: then nobody asks or answers at all.
LEMMA TrailAlone ==
  ASSUME PlaceInv, TurnInv, NEW t \in Threads, Trailing(t),
         t # InputOf(Owner(t)), pc[t] # "finish"
  PROVE  /\ ~Spreading
         /\ \A u \in Threads : ~Asking(u)
         /\ \A n \in Names : ~Answering(n)
<1>1. ~Spreading
  <2> SUFFICES ASSUME Spreading PROVE FALSE
    OBVIOUS
  <2>1. Owner(t) \in Clients /\ t \in {MainOf(Owner(t)), SigOf(Owner(t))}
    BY Roles DEF Trailing
  <2>2. SpreadOK  BY DEF TurnInv
  <2> QED  BY <2>1, <2>2 DEF SpreadOK, Trailing, RespondSteps
<1>2. ~Asking(server)  BY <1>1 DEF Spreading, Walking, Asking, SendSteps
<1>3. pc[server] # "spin"  BY <1>1 DEF Spreading, Walking, SendSteps
<1>4. \A n \in Names : ~Answering(n)
  BY <1>3, TrailApart DEF TurnInv, AnswerOK
<1> QED  BY <1>1, <1>2, <1>4, TrailApart

\* A process that ends leaves the others as they were, unless the server ends
\* while somebody answers it.
LEMMA ExitTurns ==
  ASSUME PlaceInv, TurnInv, NEW n \in Names, Exit(n), UNCHANGED nodes,
         n = Server => pc[server] # "spin" \/ Server \notin up
  PROVE  TurnInv'
<1> USE ThreadFacts, TypeFacts
<1>0. /\ up' = up /\ status' = status /\ buffer' = buffer
      /\ \A u \in Threads : /\ Owner(u) = n => pc'[u] = "off"
                            /\ Owner(u) # n => pc'[u] = pc[u] /\ call'[u] = call[u]
  BY DEF Exit, nodes
<1>1. \A u \in Threads : Turn(u)' => Turn(u) /\ Owner(u) # n
  BY <1>0 DEF Turn, Asking, Answering, Proceeding
<1>2. OneTurn'
  BY <1>1 DEF TurnInv, OneTurn
<1>3. ASSUME NEW u \in Threads, Asking(u)' PROVE AskOK(u)'
  <2>1. Asking(u) /\ Owner(u) # n  BY <1>0, <1>3 DEF Asking
  <2>2. AskOK(u)                   BY <2>1 DEF TurnInv
  <2>3. \A x \in Threads : Rests(x) => Rests(x)'  BY <1>0 DEF Rests
  <2> QED  BY <1>0, <2>1, <2>2, <2>3 DEF AskOK
<1>4. ASSUME NEW m \in Names, Answering(m)' PROVE AnswerOK(m)'
  <2>1. Answering(m) /\ m # n      BY <1>0, <1>4 DEF Answering
  <2>2. AnswerOK(m)                BY <2>1 DEF TurnInv
  <2>3. Requester(m)' = Requester(m)  BY <1>0 DEF Requester
  <2>4. \A x \in Threads : /\ Rests(x) => Rests(x)'
                           /\ Blocked(x, Requester(m)) => Rests(x)' \/ Blocked(x, Requester(m))'
    BY <1>0, <2>3 DEF Rests, Blocked
  <2>5. Requester(m) = Server => n # Server
    BY <2>2 DEF AnswerOK
  <2>6. pc'[MainOf(m)] = pc[MainOf(m)] /\ call'[MainOf(m)] = call[MainOf(m)]
    BY <1>0, <2>1
  <2>7. Requester(m) = Server => pc'[server] = pc[server]
    BY <1>0, <2>5
  <2>8. m = Server => (AsksBroadcast' => AsksBroadcast)
    BY <1>0, <2>1 DEF AsksBroadcast, Request
  <2>9. \A c \in Clients : /\ pc'[MainOf(c)] \in {pc[MainOf(c)], "off"}
                           /\ pc'[SigOf(c)] \in {pc[SigOf(c)], "off"}
    BY <1>0
  <2>10. m = Server => Requester(m) \in Clients
    BY <2>2 DEF AnswerOK, Names
  <2> QED  BY <1>0, <2>2, <2>3, <2>4, <2>6, <2>7, <2>8, <2>9, <2>10 DEF AnswerOK
<1>5. ASSUME Spreading' PROVE SpreadOK'
  <2>1. Spreading /\ n # Server
    BY <1>0, <1>5 DEF Spreading, Walking, SendSteps
  <2>2. SpreadOK  BY <2>1 DEF TurnInv
  <2>3. pc'[server] = pc[server] /\ call'[server] = call[server]  BY <1>0, <2>1
  <2>4. \A c \in Clients : /\ pc'[MainOf(c)] \in {pc[MainOf(c)], "off"}
                           /\ pc'[SigOf(c)] \in {pc[SigOf(c)], "off"}
    BY <1>0
  <2> QED  BY <2>2, <2>3, <2>4 DEF SpreadOK, Walking
<1>6. Settled'
  BY <1>0 DEF TurnInv, Settled
<1> QED  BY <1>2, <1>3, <1>4, <1>5, <1>6 DEF TurnInv

\* The steps of a sender up to its post: it is the sender's turn, so nobody
\* else asks or answers.
LEMMA CopyTurns ==
  ASSUME PlaceInv, TurnInv, NEW t \in Threads, SendCopy(t)
  PROVE  TurnInv'
<1> USE ThreadFacts, TypeFacts
<1>0. /\ pc[t] = "copy" /\ Asking(t) /\ Turn(t) /\ AskOK(t)
  BY DEF SendCopy, At, Asking, Turn, TurnInv
<1>1. CASE ~CanAttach(call[t].peer)
  <2>1. Exit(Owner(t)) /\ UNCHANGED nodes
    BY <1>1 DEF SendCopy, nodes
  <2>2. Owner(t) = Server => t = server  OBVIOUS
  <2> QED  BY <1>0, <2>1, <2>2, ExitTurns
<1>2. CASE CanAttach(call[t].peer)
  <2>1. /\ call[t].peer \in up
        /\ buffer' = [buffer EXCEPT ![call[t].peer] = call[t].msg]
        /\ pc' = [pc EXCEPT ![t] = "claim"]
        /\ call' = call /\ up' = up /\ status' = status
    BY <1>2 DEF SendCopy, CanAttach, Goto
  <2>2. \A u \in Threads \ {t} : ~Turn(u) /\ ~Asking(u)
    BY <1>0, HolderAlone
  <2>3. \A n \in Names : ~Answering(n)
    BY <1>0, HolderAlone, ThreadFacts DEF Answering
  <2>4. \A u \in Threads \ {t} : pc'[u] = pc[u]
    BY <2>1
  <2>5. \A n \in Names : ~Answering(n)'
    BY <2>1, <2>3 DEF Answering
  <2>6. OneTurn'
    BY <2>1, <2>2, <2>4, <2>5 DEF OneTurn, Turn, Asking, Proceeding
  <2>7. ASSUME NEW u \in Threads, Asking(u)' PROVE AskOK(u)'
    <3>1. u = t  BY <2>2, <2>4, <2>7 DEF Asking
    <3>2. \A x \in Threads \ {t} : Rests(x) => Rests(x)'  BY <2>4 DEF Rests
    <3>3. pc'[t] = "claim" /\ buffer'[call[t].peer] = call[t].msg  BY <2>1
    <3> QED  BY <1>0, <2>1, <3>1, <3>2, <3>3 DEF AskOK
  <2>8. ASSUME Spreading' PROVE SpreadOK'
    <3>1. Spreading
      BY <1>0, <2>1, <2>8 DEF Spreading, Walking, SendSteps
    <3>2. SpreadOK  BY <3>1 DEF TurnInv
    <3>3. Walking' => Walking
      BY <1>0, <2>1 DEF Walking, SendSteps
    <3>4. \A c \in Clients : t # MainOf(c) /\ t # SigOf(c)
      BY <1>0, <3>2 DEF SpreadOK, RespondSteps
    <3> QED  BY <2>1, <3>2, <3>3, <3>4 DEF SpreadOK
  <2>9. Settled'
    BY <1>0, <2>1 DEF TurnInv, Settled
  <2> QED  BY <2>5, <2>6, <2>7, <2>8, <2>9 DEF TurnInv
<1> QED  BY <1>1, <1>2

LEMMA ClaimTurns ==
  ASSUME PlaceInv, TurnInv, NEW t \in Threads, SendClaim(t)
  PROVE  TurnInv'
<1> USE ThreadFacts, TypeFacts
<1>0. /\ pc[t] = "claim" /\ Asking(t) /\ Turn(t) /\ AskOK(t)
  BY DEF SendClaim, Own, At, Asking, Turn, TurnInv
<1>1. /\ Owner(t) \in up /\ Owner(t) \in Names
      /\ status' = [status EXCEPT ![Owner(t)] = "WAITING_FOR_RESPONSE"]
      /\ pc' = [pc EXCEPT ![t] = "post"]
      /\ call' = call /\ up' = up /\ buffer' = buffer
  BY DEF SendClaim, Own, Goto
<1>2. \A u \in Threads \ {t} : ~Turn(u) /\ ~Asking(u)
  BY <1>0, HolderAlone
<1>3. \A n \in Names : ~Answering(n)
  BY <1>0, HolderAlone DEF Answering
<1>4. \A u \in Threads \ {t} : pc'[u] = pc[u]
  BY <1>1
<1>5. \A n \in Names : ~Answering(n)'
  BY <1>1, <1>3 DEF Answering
<1>6. OneTurn'
  BY <1>1, <1>2, <1>4, <1>5 DEF OneTurn, Turn, Asking, Proceeding
<1>7. ASSUME NEW u \in Threads, Asking(u)' PROVE AskOK(u)'
  <2>1. u = t  BY <1>2, <1>4, <1>7 DEF Asking
  <2>2. \A x \in Threads \ {t} : Rests(x) => Rests(x)'  BY <1>4 DEF Rests
  <2> QED  BY <1>0, <1>1, <2>1, <2>2 DEF AskOK
<1>8. ASSUME Spreading' PROVE SpreadOK'
  <2>1. Spreading
    BY <1>0, <1>1, <1>8 DEF Spreading, Walking, SendSteps
  <2>2. SpreadOK  BY <2>1 DEF TurnInv
  <2>3. Walking' => Walking
    BY <1>0, <1>1 DEF Walking, SendSteps
  <2>4. \A c \in Clients : t # MainOf(c) /\ t # SigOf(c)
    BY <1>0, <2>2 DEF SpreadOK, RespondSteps
  <2> QED  BY <1>1, <2>2, <2>3, <2>4 DEF SpreadOK
<1>9. Settled'
  <2>1. pc'[server] \in {"log", "await", "forward"} => status'[Server] = "AVAILABLE"
    <3>1. CASE t = server
      BY <1>1, <3>1
    <3>2. CASE t # server
      <4>1. pc'[server] = pc[server] /\ Rests(server)  BY <1>0, <1>4, <3>2 DEF AskOK
      <4> QED  BY <4>1, RestPlaces
    <3> QED  BY <3>1, <3>2
  <2>2. ASSUME NEW c \in Clients, pc'[MainOf(c)] = "admit"
        PROVE  status'[c] = "AVAILABLE"
    <3>1. t # MainOf(c) /\ pc[MainOf(c)] = "admit"  BY <1>1, <2>2
    <3>2. status[c] = "AVAILABLE"  BY <3>1, <2>2 DEF TurnInv, Settled
    <3>3. Trailing(MainOf(c))  BY <3>1 DEF Trailing
    <3>4. Owner(t) # c  BY <1>0, <3>1, <3>3, TrailAlone
    <3> QED  BY <1>1, <3>2, <3>4
  <2> QED  BY <2>1, <2>2 DEF Settled
<1> QED  BY <1>5, <1>6, <1>7, <1>8, <1>9 DEF TurnInv

\* The post passes the turn to the process that has got the message, when it
\* looks for one.
LEMMA PostTurns ==
  ASSUME PlaceInv, TurnInv, NEW t \in Threads, SendPost(t)
  PROVE  TurnInv'
<1> USE ThreadFacts, TypeFacts
<1> DEFINE p == call[t].peer
<1>0. /\ pc[t] = "post" /\ Asking(t) /\ Turn(t) /\ AskOK(t)
  BY DEF SendPost, At, Asking, Turn, TurnInv
<1>1. /\ p \in Names /\ Owner(t) \in up /\ Owner(t) \in Names
      /\ buffer[p] = call[t].msg /\ call[t].msg.sender = Owner(t)
      /\ status[Owner(t)] = "WAITING_FOR_RESPONSE"
  BY <1>0 DEF AskOK
<1>2. /\ status' = [n \in Names |-> IF n = p THEN "RECIEVED_MESSAGE" ELSE status[n]]
      /\ pc' = [pc EXCEPT ![t] = "spin"]
      /\ call' = [call EXCEPT ![t].peer = None]
      /\ up' = up /\ buffer' = buffer
  BY DEF SendPost, Goto
<1> HIDE DEF p
<1>3. /\ \A u \in Threads \ {t} : ~Turn(u) /\ ~Asking(u)
      /\ \A n \in Names : ~Answering(n)
  BY <1>0, HolderAlone DEF Answering
<1>4. /\ pc'[t] = "spin" /\ \A u \in Threads \ {t} : pc'[u] = pc[u]
      /\ call'[t].msg = call[t].msg /\ call'[t].back = call[t].back
      /\ \A u \in Threads \ {t} : call'[u] = call[u]
  BY <1>2 DEF Calls
<1>5. \A u \in Threads : ~Asking(u)'
  BY <1>3, <1>4 DEF Asking
<1>6. ASSUME NEW n \in Names, Answering(n)'
      PROVE  /\ n = p /\ t # MainOf(n) /\ p # Owner(t)
             /\ pc[MainOf(n)] = "poll" /\ pc'[MainOf(n)] = "poll"
  <2>1. n = p /\ pc'[MainOf(n)] = "poll" /\ t # MainOf(n) /\ pc[MainOf(n)] = "poll"
    BY <1>2, <1>3, <1>4, <1>6 DEF Answering
  <2>2. p # Owner(t)
    BY <1>0, <2>1 DEF AskOK, p
  <2> QED  BY <2>1, <2>2
<1>7. ~Proceeding'
  <2>1. CASE t = server
    BY <1>1, <1>2, <2>1 DEF Proceeding
  <2>2. CASE t # server
    <3>1. Rests(server)  BY <1>0, <2>2 DEF AskOK
    <3> QED  BY <1>4, <2>2, <3>1, RestPlaces DEF Proceeding
  <2> QED  BY <2>1, <2>2
<1>8. OneTurn'
  BY <1>5, <1>6, <1>7 DEF OneTurn, Turn
<1>9. ASSUME NEW n \in Names, Answering(n)' PROVE AnswerOK(n)'
  <2>1. /\ n = p /\ t # MainOf(n) /\ p # Owner(t)
        /\ pc[MainOf(n)] = "poll" /\ pc'[MainOf(n)] = "poll"
    BY <1>6, <1>9
  <2>2. Requester(n)' = Owner(t)  BY <1>1, <1>2, <2>1 DEF Requester
  <2>3. /\ status'[n] = "RECIEVED_MESSAGE"
        /\ status'[Owner(t)] = "WAITING_FOR_RESPONSE"
    BY <1>1, <1>2, <2>1
  <2>4. Blocked(t, Owner(t))'  BY <1>4 DEF Blocked
  <2>5. CASE t = server
    <3>1. SpreadOK /\ Walking
      BY <1>0, <2>5 DEF TurnInv, Spreading, Walking, SendSteps
    <3>2. buffer'[n].type = "BROADCAST_MESSAGE"
      BY <1>1, <1>2, <2>1, <2>5, <3>1 DEF SpreadOK
    <3> QED  BY <1>1, <1>2, <1>4, <2>1, <2>2, <2>3, <2>5, <3>2 DEF AnswerOK
  <2>6. CASE t # server
    <3>1. \A u \in Threads \ {t} : Rests(u)'
      BY <1>0, <1>4, <2>6 DEF AskOK, Rests
    <3>2. Owner(t) \in Clients  BY <2>6, Roles
    <3>3. ASSUME n = Server, AsksBroadcast'
          PROVE  pc'[MainOf(Owner(t))] # "spin" /\ pc'[SigOf(Owner(t))] # "spin"
      <4>1. call[t].msg.type = "BROADCAST_MESSAGE"
        BY <1>1, <1>2, <2>1, <3>3 DEF AsksBroadcast, Request, RespondSteps, server
      <4>2. t = InputOf(Owner(t))  BY <1>0, <2>6, <4>1 DEF AskOK
      <4> QED  BY <3>1, <3>2, <4>2 DEF Rests
    <3> QED  BY <1>1, <1>2, <2>1, <2>2, <2>3, <2>4, <3>1, <3>2, <3>3 DEF AnswerOK
  <2> QED  BY <2>5, <2>6
<1>10. ASSUME Spreading' PROVE SpreadOK'
  <2>1. t = server
    <3>1. t # server => Rests(server)  BY <1>0 DEF AskOK
    <3> QED  BY <1>4, <1>10, <3>1, RestPlaces DEF Spreading, Walking, SendSteps
  <2>2. SpreadOK /\ Walking
    BY <1>0, <2>1 DEF TurnInv, Spreading, Walking, SendSteps
  <2> QED  BY <1>4, <2>1, <2>2 DEF SpreadOK
<1>11. Settled'
  <2>1. pc'[server] \notin {"log", "await", "forward"}
    BY <1>4, <1>7 DEF Proceeding
  <2>2. ASSUME NEW c \in Clients, pc'[MainOf(c)] = "admit" PROVE FALSE
    <3>1. Trailing(MainOf(c))  BY <1>4, <2>2 DEF Trailing
    <3>2. pc[MainOf(c)] = "admit"  BY <1>4, <2>2
    <3> QED  BY <1>0, <3>1, <3>2, TrailAlone
  <2> QED  BY <2>1, <2>2 DEF Settled
<1> QED  BY <1>5, <1>8, <1>9, <1>10, <1>11 DEF TurnInv

\* A client moves on, after an answer, to places where it neither asks nor
\* answers anew; at most its own node changes, which becomes AVAILABLE.
LEMMA TrailTurns ==
  ASSUME PlaceInv, TurnInv, NEW c \in Clients,
         NEW t \in Threads, Owner(t) = c, Trailing(t),
         up' = up, buffer' = buffer,
         status' = status \/ status' = [status EXCEPT ![c] = "AVAILABLE"],
         \A u \in Threads : Owner(u) # c => pc'[u] = pc[u] /\ call'[u] = call[u],
         \A u \in Threads : Owner(u) = c /\ Asking(u)' => Asking(u),
         Answering(c)' => /\ Answering(c) /\ status' = status
                          /\ pc'[MainOf(c)] = pc[MainOf(c)]
                          /\ call'[MainOf(c)] = call[MainOf(c)],
         Spreading => /\ pc'[MainOf(c)] \in {"off", "poll"} \cup RespondSteps
                      /\ pc'[SigOf(c)] = "off",
         pc'[MainOf(c)] = "admit" => status'[c] = "AVAILABLE"
  PROVE  TurnInv'
<1> USE ThreadFacts, TypeFacts
<1>0. /\ pc'[server] = pc[server] /\ call'[server] = call[server]
      /\ status'[Server] = status[Server]
      /\ \A d \in Clients : d # c => /\ pc'[MainOf(d)] = pc[MainOf(d)]
                                     /\ pc'[SigOf(d)] = pc[SigOf(d)]
      /\ \A n \in Names : n # c => status'[n] = status[n]
  OBVIOUS
<1>1. \A u \in Threads : Asking(u)' => u = server /\ Asking(u)
  <2>1. \A u \in Threads : Asking(u)' => Asking(u)
    BY DEF Asking
  <2> QED  BY <2>1, TrailApart
<1>2. \A n \in Names : Answering(n)' => Answering(n) /\ Requester(n) = Server
  <2>1. \A n \in Names : Answering(n)' => Answering(n)
    BY <1>0 DEF Answering
  <2> QED  BY <2>1, TrailApart
<1>3. Proceeding' => Proceeding
  BY <1>0 DEF Proceeding
<1>4. OneTurn'
  BY <1>1, <1>2, <1>3 DEF TurnInv, OneTurn, Turn
<1>5. ASSUME NEW u \in Threads, Asking(u)' PROVE AskOK(u)'
  <2>1. u = server /\ AskOK(u)  BY <1>1, <1>5 DEF TurnInv
  <2> QED  BY <1>0, <2>1 DEF AskOK
<1>6. ASSUME NEW n \in Names, Answering(n)' PROVE AnswerOK(n)'
  <2>1. AnswerOK(n) /\ Requester(n) = Server /\ Requester(n)' = Requester(n)
    BY <1>2, <1>6 DEF TurnInv, Requester
  <2>2. n # Server  BY <2>1 DEF AnswerOK
  <2>3. /\ pc'[MainOf(n)] = pc[MainOf(n)] /\ call'[MainOf(n)] = call[MainOf(n)]
        /\ status'[n] = status[n]
    BY <1>0, <1>6
  <2> QED  BY <1>0, <2>1, <2>2, <2>3 DEF AnswerOK
<1>7. ASSUME Spreading' PROVE SpreadOK'
  <2>1. Spreading  BY <1>0, <1>7 DEF Spreading, Walking
  <2>2. SpreadOK   BY <2>1 DEF TurnInv
  <2> QED  BY <1>0, <2>1, <2>2 DEF SpreadOK, Walking
<1>8. Settled'
  BY <1>0 DEF TurnInv, Settled
<1> QED  BY <1>4, <1>5, <1>6, <1>7, <1>8 DEF TurnInv

\* A client ends or lets its node go while nobody asks, answers or broadcasts.
LEMMA AloneTurns ==
  ASSUME PlaceInv, TurnInv, NEW c \in Clients,
         ~Spreading,
         \A u \in Threads : ~Asking(u),
         \A n \in Names : ~Answering(n),
         up' = up \ {c}, status' = status,
         pc'[server] = pc[server], call'[server].back = call[server].back,
         \A u \in Threads : pc'[u] \in {pc[u], "off"}
  PROVE  TurnInv'
<1> USE ThreadFacts, TypeFacts
<1>1. \A u \in Threads : ~Asking(u)'
  BY DEF Asking
<1>2. \A n \in Names : ~Answering(n)'
  BY DEF Answering
<1>3. Proceeding' => Proceeding
  BY DEF Proceeding
<1>4. OneTurn'
  BY <1>1, <1>2, <1>3 DEF TurnInv, OneTurn, Turn
<1>5. ~Spreading'
  BY DEF Spreading, Walking
<1>6. Settled'
  <2>1. \A d \in Clients : pc'[MainOf(d)] = "admit" => pc[MainOf(d)] = "admit"
    OBVIOUS
  <2> QED  BY <2>1 DEF TurnInv, Settled
<1> QED  BY <1>1, <1>2, <1>4, <1>5, <1>6 DEF TurnInv

LEMMA SpinTurns ==
  ASSUME PlaceInv, TurnInv, NEW t \in Threads, SendSpin(t)
  PROVE  TurnInv'
<1> USE ThreadFacts, TypeFacts
<1>0. /\ pc[t] = "spin" /\ status[Owner(t)] = "AVAILABLE"
      /\ pc' = [pc EXCEPT ![t] = call[t].back]
      /\ call' = call /\ up' = up /\ status' = status /\ buffer' = buffer
  BY DEF SendSpin, Own, At, Released, Goto, nodes
<1>1. CASE t = server
  <2>1. Walking /\ Spreading /\ SpreadOK /\ Turn(server)
    BY <1>0, <1>1 DEF TurnInv, Spreading, Walking, SendSteps, Turn, Proceeding
  <2>2. pc'[server] = "forward" /\ \A u \in Threads \ {server} : pc'[u] = pc[u]
    BY <1>0, <1>1 DEF PlaceInv, ServerInv, TypeInv, ServerCalls, SendSteps
  <2>3. /\ \A u \in Threads : ~Asking(u)'
        /\ \A n \in Names : ~Answering(n)'
    <3>1. /\ \A u \in Threads \ {server} : ~Asking(u)
          /\ \A n \in Names : n # Server => ~Answering(n)
      BY <2>1, HolderAlone
    <3>2. \A n \in Names : n # Server => ~Answering(n)'
      BY <1>0, <2>2, <3>1 DEF Answering
    <3> QED  BY <2>2, <3>1, <3>2 DEF Asking, Answering, server
  <2>4. OneTurn'
    BY <2>3 DEF OneTurn, Turn
  <2>5. SpreadOK'
    BY <1>0, <2>1, <2>2 DEF SpreadOK, Walking
  <2>6. Settled'
    BY <1>0, <1>1, <2>2 DEF TurnInv, Settled
  <2> QED  BY <2>3, <2>4, <2>5, <2>6 DEF TurnInv
<1>2. CASE t # server
  <2> DEFINE c == Owner(t)
  <2>1. c \in Clients /\ t \in {MainOf(c), InputOf(c), SigOf(c)} /\ Trailing(t)
    BY <1>0, <1>2, Roles DEF Trailing
  <2> HIDE DEF c
  <2>2. /\ t = MainOf(c) => call[t].back = "admit"
        /\ t = InputOf(c) => call[t].back = "loop"
        /\ t = SigOf(c) => call[t].back = "free"
    BY <1>0, <2>1 DEF PlaceInv, WaitInv, FollowInv, Follows, Places, SendSteps
  <2>3. /\ pc'[t] \in {"admit", "loop", "free"}
        /\ \A u \in Threads \ {t} : pc'[u] = pc[u]
    BY <1>0, <2>1, <2>2
  <2>4. Spreading => SpreadOK /\ t = InputOf(c)
    <3>1. c = Owner(t)  BY DEF c
    <3> QED  BY <1>0, <2>1, <3>1, TrailAlone DEF TurnInv
  <2>5. pc'[MainOf(c)] = "admit" => status'[c] = "AVAILABLE"
    <3>1. c = Owner(t)  BY DEF c
    <3>2. CASE t = MainOf(c)
      BY <1>0, <3>1
    <3>3. CASE t # MainOf(c)
      BY <1>0, <2>1, <2>3, <3>3 DEF TurnInv, Settled
    <3> QED  BY <3>2, <3>3
  <2>6. Answering(c)' => /\ Answering(c) /\ pc'[MainOf(c)] = pc[MainOf(c)]
    BY <1>0, <2>1, <2>3 DEF Answering
  <2>7. \A u \in Threads : Asking(u)' => Asking(u)
    BY <2>3 DEF Asking
  <2>8. Spreading => /\ pc'[MainOf(c)] \in {"off", "poll"} \cup RespondSteps
                     /\ pc'[SigOf(c)] = "off"
    BY <2>1, <2>3, <2>4 DEF SpreadOK
  <2>9. \A u \in Threads : Owner(u) # c => pc'[u] = pc[u] /\ call'[u] = call[u]
    BY <1>0, <2>1, <2>3 DEF c
  <2>10. c = Owner(t)  BY DEF c
  <2> QED  BY <1>0, <2>1, <2>5, <2>6, <2>7, <2>8, <2>9, <2>10, TrailTurns
<1> QED  BY <1>1, <1>2

\* The responder is a main thread: of the server, or of a client in its loop.
LEMMA Responder ==
  ASSUME PlaceInv, NEW t \in Threads, pc[t] \in RespondSteps
  PROVE  t = MainOf(Owner(t)) /\ Owner(t) \in Names
<1>1. CASE t = server
  BY <1>1, ThreadFacts DEF server
<1>2. CASE t # server
  <2>1. Owner(t) \in Clients /\ t \in {MainOf(Owner(t)), InputOf(Owner(t)), SigOf(Owner(t))}
    BY <1>2, Roles
  <2>2. Places(Owner(t))  BY <2>1 DEF PlaceInv
  <2> QED  BY <2>1, <2>2, ThreadFacts DEF Places, SendSteps, RespondSteps
<1> QED  BY <1>1, <1>2

\* The process n goes on with its answer: the turn stays with its main thread.
LEMMA AnswerTurns ==
  ASSUME PlaceInv, TurnInv, NEW n \in Names, Answering(n),
         Answering(n)', ~Asking(MainOf(n))',
         pc'[MainOf(n)] \notin {"finish", "log", "await", "forward", "spin", "copy", "admit"},
         up' = up, status' = status,
         \A m \in Names : Requester(n) # m => buffer'[m] = buffer[m],
         \A u \in Threads \ {MainOf(n)} : pc'[u] = pc[u] /\ call'[u] = call[u],
         pc'[MainOf(n)] \in {"reply", "release"} => call'[MainOf(n)].peer = Requester(n),
         pc'[MainOf(n)] = "poll" => pc[MainOf(n)] = "poll",
         n # Server => pc'[MainOf(n)] \in {"poll"} \cup RespondSteps,
         n = Server /\ AsksBroadcast' => AsksBroadcast
  PROVE  TurnInv'
<1> USE ThreadFacts, TypeFacts
<1> DEFINE r == Requester(n)
<1>0. Turn(MainOf(n)) /\ AnswerOK(n)
  BY DEF TurnInv, Turn
<1>1. /\ \A u \in Threads \ {MainOf(n)} : ~Asking(u)
      /\ \A m \in Names : m # n => ~Answering(m)
      /\ n # Server => ~Proceeding
  BY <1>0, HolderAlone DEF server
<1>2. r \in Names /\ r # n /\ buffer'[n] = buffer[n] /\ Requester(n)' = r
  BY <1>0 DEF AnswerOK, Requester
<1> HIDE DEF r
<1>3. \A u \in Threads : ~Asking(u)'
  BY <1>1 DEF Asking
<1>4. \A m \in Names : m # n => ~Answering(m)'
  BY <1>1 DEF Answering
<1>5. ~Proceeding'
  BY <1>1 DEF Proceeding, server
<1>6. OneTurn'
  BY <1>3, <1>4, <1>5 DEF OneTurn, Turn
<1>7. AnswerOK(n)'
  <2>1. \A u \in Threads \ {MainOf(n)} :
          /\ Rests(u) => Rests(u)'
          /\ Blocked(u, Requester(n)) => Blocked(u, Requester(n))'
    BY <1>2 DEF Rests, Blocked, r
  <2>2. r = Server => pc'[server] = pc[server]
    BY <1>2 DEF server
  <2>3. n = Server => r \in Clients
    BY <1>2 DEF Names
  <2>4. \A c \in Clients : c # n => /\ pc'[MainOf(c)] = pc[MainOf(c)]
                                   /\ pc'[SigOf(c)] = pc[SigOf(c)]
    OBVIOUS
  <2> QED  BY <1>0, <1>2, <2>1, <2>2, <2>3, <2>4 DEF AnswerOK, r
<1>8. ASSUME Spreading' PROVE SpreadOK'
  <2>1. n # Server /\ Spreading
    BY <1>8 DEF Spreading, Walking, SendSteps, Answering, Asking, server
  <2>2. SpreadOK  BY <2>1 DEF TurnInv
  <2>3. pc'[MainOf(n)] \in {"poll"} \cup RespondSteps
    BY <2>1
  <2> QED  BY <2>1, <2>2, <2>3 DEF SpreadOK, Walking, server
<1>9. Settled'
  BY DEF TurnInv, Settled, server
<1> QED  BY <1>3, <1>4, <1>6, <1>7, <1>8, <1>9 DEF TurnInv

\* The assertions of a responder do not fail, and its answer goes to the process
\* whose request it has in its node.
LEMMA RespondTurns ==
  ASSUME PlaceInv, TurnInv, NEW t \in Threads,
         RespondCheck(t) \/ RespondAttach(t) \/ RespondReply(t)
  PROVE  TurnInv'
<1> USE ThreadFacts, TypeFacts
<1> DEFINE n == Owner(t)
<1>1. /\ pc[t] \in {"check", "attach", "reply"} /\ t = MainOf(n) /\ n \in Names
  BY Responder DEF RespondCheck, RespondAttach, RespondReply, Own, At, RespondSteps
<1>2. Answering(n) /\ AnswerOK(n)
  BY <1>1 DEF Answering, TurnInv
<1> HIDE DEF n
<1>3. ASSUME NEW s \in {"attach", "reply", "release"}, Goto(t, s),
             up' = up, status' = status,
             \A m \in Names : Requester(n) # m => buffer'[m] = buffer[m],
             \A u \in Threads \ {t} : call'[u] = call[u],
             call'[t].back = call[t].back,
             s \in {"reply", "release"} => call'[t].peer = Requester(n)
      PROVE  TurnInv'
  <2>1. pc'[t] = s /\ \A u \in Threads \ {t} : pc'[u] = pc[u]
    BY <1>3 DEF Goto
  <2>2. Answering(n)' /\ ~Asking(t)'
    BY <1>1, <2>1 DEF Answering, Asking
  <2>3. n = Server /\ AsksBroadcast' => AsksBroadcast
    BY <1>1, <1>3, <2>1 DEF AsksBroadcast, RespondSteps, server
  <2> QED  BY <1>1, <1>2, <1>3, <2>1, <2>2, <2>3, AnswerTurns DEF RespondSteps
<1>4. CASE RespondCheck(t)
  <2>1. Goto(t, "attach") /\ call' = call /\ UNCHANGED nodes
    BY <1>2, <1>4 DEF RespondCheck, AnswerOK, n
  <2> QED  BY <1>3, <2>1 DEF nodes
<1>5. CASE RespondAttach(t)
  <2>1. Waits(Requester(n))
    BY <1>2 DEF AnswerOK, Waits, CanAttach
  <2>2. Goto(t, "reply") /\ call' = [call EXCEPT ![t].peer = Requester(n)] /\ UNCHANGED nodes
    BY <1>5, <2>1 DEF RespondAttach, n
  <2>3. /\ call'[t].peer = Requester(n) /\ call'[t].back = call[t].back
        /\ \A u \in Threads \ {t} : call'[u] = call[u]
    BY <2>2 DEF Calls
  <2> QED  BY <1>3, <2>2, <2>3 DEF nodes
<1>6. CASE RespondReply(t)
  <2>1. /\ pc[t] = "reply" /\ Goto(t, "release") /\ call' = call
        /\ up' = up /\ status' = status
        /\ buffer' = [m \in Names |-> IF m = call[t].peer THEN call[t].msg ELSE buffer[m]]
    BY <1>6 DEF RespondReply, At
  <2>2. call[t].peer = Requester(n)
    BY <1>1, <1>2, <2>1 DEF AnswerOK
  <2> QED  BY <1>3, <2>1, <2>2
<1> QED  BY <1>4, <1>5, <1>6

LEMMA ReleaseTurns ==
  ASSUME PlaceInv, TurnInv, NEW t \in Threads, RespondRelease(t)
  PROVE  TurnInv'
<1> USE ThreadFacts, TypeFacts
<1> DEFINE n == Owner(t)
           r == Requester(n)
<1>1. /\ pc[t] = "release" /\ t = MainOf(n) /\ n \in Names
  BY Responder DEF RespondRelease, At, RespondSteps
<1>2. Answering(n) /\ AnswerOK(n) /\ Turn(t)
  BY <1>1 DEF Answering, TurnInv, Turn
<1>3. r \in Names /\ r # n /\ call[t].peer = r
  BY <1>1, <1>2 DEF AnswerOK
<1>4. /\ status' = [m \in Names |-> IF m = r THEN "AVAILABLE" ELSE status[m]]
      /\ pc'[t] = "finish" /\ \A u \in Threads \ {t} : pc'[u] = pc[u]
      /\ call'[t].back = call[t].back
      /\ up' = up /\ buffer' = buffer
      /\ \A u \in Threads \ {t} : call'[u] = call[u]
  BY <1>3 DEF RespondRelease, Goto, Calls
<1>5. /\ \A u \in Threads \ {t} : ~Turn(u) /\ ~Asking(u)
      /\ \A m \in Names : m # n => ~Answering(m)
      /\ n # Server => ~Proceeding
  BY <1>1, <1>2, HolderAlone DEF server
<1> HIDE DEF n, r
<1>6. \A u \in Threads : ~Asking(u)'
  BY <1>4, <1>5 DEF Asking
<1>7. \A m \in Names : ~Answering(m)'
  BY <1>1, <1>4, <1>5 DEF Answering
<1>8. OneTurn'
  BY <1>6, <1>7 DEF OneTurn, Turn
<1>9. ASSUME Spreading' PROVE SpreadOK'
  <2>1. CASE n = Server
    <3>1. AsksBroadcast /\ ~Walking'
      BY <1>1, <1>4, <1>9, <2>1
      DEF AsksBroadcast, Spreading, Walking, SendSteps, RespondSteps, server
    <3>2. r \in Clients  BY <1>3, <2>1 DEF Names
    <3>3. /\ pc[MainOf(r)] # "spin" /\ pc[SigOf(r)] # "spin"
          /\ \A u \in Threads \ {t} : Rests(u) \/ Blocked(u, r)
      BY <1>1, <1>2, <2>1, <3>1, <3>2 DEF AnswerOK, r
    <3>4. ASSUME NEW c \in Clients
          PROVE  pc'[MainOf(c)] \in {"off", "poll"} /\ pc'[SigOf(c)] = "off"
      <4>1. MainOf(c) # t /\ SigOf(c) # t  BY <1>1, <2>1
      <4>2. Rests(MainOf(c)) /\ Rests(SigOf(c))
        BY <3>3, <4>1 DEF Blocked
      <4> QED  BY <1>4, <4>1, <4>2, RestPlaces
    <3> QED  BY <3>1, <3>4 DEF SpreadOK
  <2>2. CASE n # Server
    <3>1. t # server  BY <1>1, <2>2
    <3>2. Spreading /\ (Walking' => Walking)
      BY <1>4, <1>9, <3>1 DEF Spreading, Walking
    <3>3. SpreadOK  BY <3>2 DEF TurnInv
    <3> QED  BY <1>1, <1>4, <3>1, <3>2, <3>3 DEF SpreadOK, RespondSteps
  <2> QED  BY <2>1, <2>2
<1>10. Settled'
  BY <1>1, <1>4 DEF TurnInv, Settled, server
<1> QED  BY <1>6, <1>7, <1>8, <1>9, <1>10 DEF TurnInv

LEMMA FinishTurns ==
  ASSUME PlaceInv, TurnInv, NEW t \in Threads, RespondFinish(t)
  PROVE  TurnInv'
<1> USE ThreadFacts, TypeFacts
<1> DEFINE n == Owner(t)
<1>1. /\ pc[t] = "finish" /\ t = MainOf(n) /\ n \in Names
  BY Responder DEF RespondFinish, Own, At, RespondSteps
<1>2. /\ status' = [status EXCEPT ![n] = "AVAILABLE"]
      /\ pc'[t] = call[t].back /\ \A u \in Threads \ {t} : pc'[u] = pc[u]
      /\ up' = up /\ buffer' = buffer
      /\ call'[t] = Idle /\ \A u \in Threads \ {t} : call'[u] = call[u]
  BY DEF RespondFinish, Goto
<1>3. CASE t = server
  <2>0. n = Server  BY <1>3
  <2>1. Turn(server)  BY <1>1, <1>3 DEF Turn, Proceeding
  <2>2. pc'[server] \in {"log", "await", "poll"}
    BY <1>1, <1>2, <1>3 DEF PlaceInv, ServerInv, TypeInv, ServerCalls, RespondSteps
  <2>3. /\ \A u \in Threads \ {server} : ~Asking(u)
        /\ \A m \in Names : m # Server => ~Answering(m)
    BY <2>1, HolderAlone DEF server
  <2>4. \A u \in Threads : ~Asking(u)'
    BY <1>2, <1>3, <2>2, <2>3 DEF Asking
  <2>5. \A m \in Names : ~Answering(m)'
    <3>1. \A m \in Names : m # Server => ~Answering(m)'
      BY <1>2, <1>3, <2>0, <2>3 DEF Answering
    <3>2. ~Answering(Server)'
      BY <1>2, <2>0, <2>2 DEF Answering, server
    <3> QED  BY <3>1, <3>2
  <2>6. OneTurn'
    BY <2>4, <2>5 DEF OneTurn, Turn
  <2>7. ASSUME Spreading' PROVE SpreadOK'
    <3>1. call[server].back = "await" /\ ~Walking'
      BY <1>2, <1>3, <2>2, <2>7 DEF Spreading, Walking, SendSteps
    <3>2. SpreadOK  BY <1>1, <1>3, <3>1 DEF TurnInv, Spreading
    <3> QED  BY <1>2, <1>3, <3>1, <3>2 DEF SpreadOK
  <2>8. Settled'
    BY <1>2, <1>3, <2>0 DEF TurnInv, Settled
  <2> QED  BY <2>4, <2>5, <2>6, <2>7, <2>8 DEF TurnInv
<1>4. CASE t # server
  <2>1. n \in Clients /\ t = MainOf(n) /\ Trailing(t) /\ n = Owner(t)
    BY <1>1, <1>4, Roles DEF Trailing
  <2>2. pc'[t] = "poll"
    BY <1>1, <1>2, <2>1 DEF PlaceInv, WaitInv, FollowInv, Follows, RespondSteps
  <2>3. ~Answering(n)'
    BY <1>2, <2>1, <2>2 DEF Answering
  <2>4. \A u \in Threads : Asking(u)' => Asking(u)
    BY <1>2, <2>2 DEF Asking
  <2>5. Spreading => pc'[MainOf(n)] = "poll" /\ pc'[SigOf(n)] = "off"
    BY <1>2, <2>1, <2>2 DEF TurnInv, SpreadOK
  <2>6. \A u \in Threads : Owner(u) # n => pc'[u] = pc[u] /\ call'[u] = call[u]
    BY <1>2, <2>1
  <2> HIDE DEF n
  <2> QED  BY <1>2, <2>1, <2>2, <2>3, <2>4, <2>5, <2>6, TrailTurns
<1> QED  BY <1>3, <1>4

LEMMA NodeStepTurns ==
  ASSUME PlaceInv, TurnInv, NEW t \in Threads, NodeStep(t)
  PROVE  TurnInv'
<1>1. CASE Fault(t)
  <2>1. Exit(Owner(t)) /\ UNCHANGED nodes /\ Owner(t) \notin up
    BY <1>1 DEF Fault
  <2> QED  BY <2>1, ExitTurns, ThreadFacts
<1> QED
  BY <1>1, CopyTurns, ClaimTurns, PostTurns, SpinTurns, RespondTurns, ReleaseTurns,
     FinishTurns DEF NodeStep

LEMMA ClientTurns ==
  ASSUME PlaceInv, TurnInv, NEW c \in Clients, ClientMain(c) \/ InputLoop(c) \/ SigFree(c)
  PROVE  TurnInv'
<1> USE ThreadFacts, TypeFacts, OrphanedBack
<1>0. c \in Names /\ Places(c)  BY DEF PlaceInv
<1>1. CASE ClientAdmit(c)
  <2>1. /\ pc[MainOf(c)] = "admit" /\ Trailing(MainOf(c))
        /\ status' = status /\ buffer' = buffer
    BY <1>1 DEF ClientAdmit, Own, At, Trailing
  <2>2. /\ ~Spreading
        /\ \A u \in Threads : ~Asking(u)
        /\ \A n \in Names : ~Answering(n)
    BY <2>1, TrailAlone
  <2>3. CASE buffer[c].type = "LEAVE_GROUP"
    <3>1. /\ up' = up \ {c}
          /\ pc' = [u \in Threads |-> IF Owner(u) = c THEN "off" ELSE pc[u]]
          /\ call' = [u \in Threads |-> IF Owner(u) = c THEN Idle
                                        ELSE Orphaned(call[u], u, c)]
      BY <1>1, <2>3 DEF ClientAdmit
    <3>2. pc'[server] = pc[server] /\ call'[server].back = call[server].back
      BY <3>1
    <3> QED  BY <2>1, <2>2, <3>1, <3>2, AloneTurns
  <2>4. CASE buffer[c].type # "LEAVE_GROUP"
    <3>1. /\ up' = up
          /\ pc' = [pc EXCEPT ![MainOf(c)] = "poll", ![InputOf(c)] = "loop"]
          /\ call' = [call EXCEPT ![MainOf(c)] = Idle]
      BY <1>1, <2>4 DEF ClientAdmit
    <3>2. /\ pc'[MainOf(c)] = "poll" /\ pc'[InputOf(c)] = "loop"
          /\ \A u \in Threads \ {MainOf(c), InputOf(c)} : pc'[u] = pc[u]
          /\ \A u \in Threads \ {MainOf(c)} : call'[u] = call[u]
      BY <3>1
    <3>3. status[c] = "AVAILABLE"  BY <2>1 DEF TurnInv, Settled
    <3>4. ~Answering(c)'
      BY <2>1, <3>2, <3>3 DEF Answering
    <3>5. \A u \in Threads : Asking(u)' => Asking(u)
      BY <3>2 DEF Asking
    <3>6. \A u \in Threads : Owner(u) # c => pc'[u] = pc[u] /\ call'[u] = call[u]
      BY <3>2
    <3> QED  BY <2>1, <2>2, <3>1, <3>2, <3>4, <3>5, <3>6, TrailTurns
  <2> QED  BY <2>3, <2>4
<1>2. CASE ClientServe(c)
  <2>1. /\ pc[MainOf(c)] = "poll" /\ Answering(c) /\ AnswerOK(c) /\ Turn(MainOf(c))
    BY <1>0, <1>2 DEF ClientServe, Own, At, Answering, TurnInv, Turn
  <2>2. CASE buffer[c].type = "LEAVE_GROUP"
    <3>1. /\ up' = up \ {c} /\ status' = status /\ pc' = pc
          /\ call' = [u \in Threads |-> Orphaned(call[u], u, c)]
      BY <1>2, <2>2 DEF ClientServe, FreeNode
    <3>2. /\ \A u \in Threads \ {MainOf(c)} : ~Asking(u) /\ ~Turn(u)
          /\ \A n \in Names : n # c => ~Answering(n)
      BY <2>1, HolderAlone
    <3>3. Requester(c) # Server
      BY <2>1, <2>2 DEF AnswerOK
    <3>4. Rests(server)
      BY <2>1, <3>3, Roles DEF AnswerOK, Blocked, server
    <3>5. ~Spreading
      BY <3>4, RestPlaces DEF Spreading, Walking, SendSteps
    <3>6. /\ \A u \in Threads : ~Asking(u)'
          /\ \A n \in Names : ~Answering(n)'
      BY <2>1, <3>1, <3>2 DEF Asking, Answering
    <3>7. OneTurn'
      BY <3>6 DEF OneTurn, Turn
    <3>8. ~Spreading'
      BY <3>1, <3>5 DEF Spreading, Walking
    <3>9. Settled'
      BY <3>1 DEF TurnInv, Settled
    <3> QED  BY <3>6, <3>7, <3>8, <3>9 DEF TurnInv
  <2>3. CASE buffer[c].type # "LEAVE_GROUP"
    <3>1. PICK m : Respond(MainOf(c), m, "poll") /\ UNCHANGED nodes
      BY <1>2, <2>3 DEF ClientServe
    <3>2. /\ pc'[MainOf(c)] = "check"
          /\ \A u \in Threads \ {MainOf(c)} : pc'[u] = pc[u] /\ call'[u] = call[u]
      BY <3>1 DEF Respond, Goto
    <3>3. Answering(c)' /\ ~Asking(MainOf(c))'
      BY <3>2 DEF Answering, Asking
    <3> QED  BY <1>0, <2>1, <3>1, <3>2, <3>3, AnswerTurns DEF nodes, RespondSteps
  <2> QED  BY <2>2, <2>3
<1>3. CASE ClientQuit(c)
  BY <1>0, <1>3, ExitTurns DEF ClientQuit
<1>4. CASE InputLoop(c)
  <2>1. /\ pc[InputOf(c)] = "loop" /\ Trailing(InputOf(c))
        /\ pc'[InputOf(c)] \in {"off", "prompt"}
        /\ \A u \in Threads \ {InputOf(c)} : pc'[u] = pc[u] /\ call'[u] = call[u]
        /\ UNCHANGED nodes
    BY <1>4 DEF InputLoop, At, Trailing, Goto
  <2>2. Spreading => SpreadOK  BY DEF TurnInv
  <2>3. \A u \in Threads : Asking(u)' => Asking(u)
    BY <2>1 DEF Asking
  <2>4. Answering(c)' => Answering(c)
    BY <2>1 DEF Answering, nodes
  <2>5. pc'[MainOf(c)] = "admit" => status'[c] = "AVAILABLE"
    BY <2>1 DEF TurnInv, Settled, nodes
  <2>6. Spreading => /\ pc'[MainOf(c)] \in {"off", "poll"} \cup RespondSteps
                     /\ pc'[SigOf(c)] = "off"
    BY <2>1, <2>2 DEF SpreadOK
  <2>7. \A u \in Threads : Owner(u) # c => pc'[u] = pc[u] /\ call'[u] = call[u]
    BY <2>1
  <2>8. pc'[MainOf(c)] = pc[MainOf(c)] /\ call'[MainOf(c)] = call[MainOf(c)]
    BY <2>1
  <2>9. up' = up /\ buffer' = buffer /\ status' = status  BY <2>1 DEF nodes
  <2> QED  BY <2>1, <2>3, <2>4, <2>5, <2>6, <2>7, <2>8, <2>9, TrailTurns
<1>5. CASE SigFree(c)
  <2>1. /\ pc[SigOf(c)] = "free" /\ Trailing(SigOf(c))
        /\ up' = up \ {c} /\ status' = status
        /\ pc' = [pc EXCEPT ![SigOf(c)] = "off"]
        /\ call' = [u \in Threads |-> IF u = SigOf(c) THEN Idle
                                      ELSE Orphaned(call[u], u, c)]
    BY <1>5 DEF SigFree, Own, At, Trailing, Goto
  <2>2. /\ ~Spreading
        /\ \A u \in Threads : ~Asking(u)
        /\ \A n \in Names : ~Answering(n)
    BY <2>1, TrailAlone
  <2>3. pc'[server] = pc[server] /\ call'[server].back = call[server].back
    BY <2>1
  <2> QED  BY <2>1, <2>2, <2>3, AloneTurns
<1> QED  BY <1>1, <1>2, <1>3, <1>4, <1>5 DEF ClientMain

\* The server begins or goes on with its answer.
LEMMA ServerAnswerTurns ==
  ASSUME PlaceInv, TurnInv,
         \/ ServerJoin \/ ServerEnroll \/ ServerFull \/ ServerBroadcast
         \/ ServerDisplay \/ ServerLeave \/ ServerRemove \/ ServerRefuse
  PROVE  TurnInv'
<1> USE ThreadFacts, TypeFacts DEF Own, At, Handles
<1>1. /\ pc[server] \in {"poll", "enroll", "remove"}
      /\ pc[server] = "poll" => Server \in up /\ status[Server] = "RECIEVED_MESSAGE"
      /\ UNCHANGED nodes
  BY DEF ServerJoin, ServerEnroll, ServerFull, ServerBroadcast, ServerDisplay,
         ServerLeave, ServerRemove, ServerRefuse
<1>2. \/ call' = call /\ \E s \in {"enroll", "remove"} : Goto(server, s)
      \/ \E m : Respond(server, m, "log") \/ Respond(server, m, "poll")
      \/ /\ Request.type = "BROADCAST_MESSAGE" /\ pc[server] = "poll"
         /\ \E m : Respond(server, m, "await")
  BY DEF ServerJoin, ServerEnroll, ServerFull, ServerBroadcast, ServerDisplay,
         ServerLeave, ServerRemove, ServerRefuse
<1>3. /\ pc'[server] \in {"enroll", "remove", "check"}
      /\ pc'[server] = "check" /\ call'[server].back = "await" => AsksBroadcast
      /\ \A u \in Threads \ {server} : pc'[u] = pc[u] /\ call'[u] = call[u]
  BY <1>2 DEF Respond, Goto, AsksBroadcast
<1>4. Answering(Server) /\ Answering(Server)' /\ ~Asking(server)' /\ server = MainOf(Server)
  BY <1>1, <1>3 DEF Answering, Asking, server
<1>5. AsksBroadcast' => AsksBroadcast
  BY <1>3 DEF AsksBroadcast, RespondSteps
<1> QED  BY <1>1, <1>3, <1>4, <1>5, AnswerTurns DEF nodes

\* The server, whose turn it is, goes on by itself.
LEMMA ServerGoesTurns ==
  ASSUME PlaceInv, TurnInv, Turn(server), pc[server] # "spin", UNCHANGED nodes,
         \A u \in Threads \ {server} : pc'[u] = pc[u] /\ call'[u] = call[u],
         \/ pc'[server] = "poll" /\ status[Server] # "RECIEVED_MESSAGE"
         \/ /\ pc'[server] \in {"copy", "forward"} /\ Spreading
            /\ call'[server].msg.sender = Server
            /\ call'[server].msg.type = "BROADCAST_MESSAGE",
         pc'[server] = "forward" => status[Server] = "AVAILABLE"
  PROVE  TurnInv'
<1> USE ThreadFacts, TypeFacts
<1>0. up' = up /\ status' = status /\ buffer' = buffer  BY DEF nodes
<1>1. /\ \A u \in Threads \ {server} : ~Asking(u)
      /\ \A n \in Names : n # Server => ~Answering(n)
  BY HolderAlone DEF server
<1>2. \A u \in Threads \ {server} : ~Asking(u)'
  BY <1>1 DEF Asking
<1>3. \A n \in Names : ~Answering(n)'
  BY <1>0, <1>1 DEF Answering, server
<1>4. OneTurn'
  BY <1>2, <1>3 DEF OneTurn, Turn
<1>5. ASSUME NEW u \in Threads, Asking(u)' PROVE AskOK(u)'
  BY <1>2, <1>5 DEF AskOK, Asking
<1>6. ASSUME Spreading' PROVE SpreadOK'
  <2>1. pc'[server] \in {"copy", "forward"} /\ SpreadOK
    BY <1>6 DEF Spreading, Walking, SendSteps, TurnInv
  <2> QED  BY <2>1 DEF SpreadOK
<1>7. Settled'
  BY <1>0 DEF TurnInv, Settled
<1> QED  BY <1>2, <1>3, <1>4, <1>5, <1>6, <1>7 DEF TurnInv

LEMMA ServerTurns ==
  ASSUME PlaceInv, TurnInv, ServerStep
  PROVE  TurnInv'
<1> USE ThreadFacts, TypeFacts DEF Own, At, Handles
<1>1. CASE ServerLog
  <2>1. /\ pc[server] = "log" /\ Turn(server) /\ UNCHANGED nodes
        /\ status[Server] = "AVAILABLE"
    BY <1>1 DEF ServerLog, Turn, Proceeding, TurnInv, Settled
  <2>2. CASE list # None
    <3>1. pc'[server] = "poll" /\ call' = call /\ \A u \in Threads \ {server} : pc'[u] = pc[u]
      BY <1>1, <2>2 DEF ServerLog, Goto
    <3> QED  BY <2>1, <3>1, ServerGoesTurns
  <2>3. CASE list = None
    BY <1>1, <2>1, <2>3, ExitTurns DEF ServerLog
  <2> QED  BY <2>2, <2>3
<1>2. CASE ServerNull
  BY <1>2, ExitTurns DEF ServerNull
<1>3. CASE ServerAwait
  <2>1. /\ pc[server] = "await" /\ Turn(server) /\ UNCHANGED nodes
        /\ status[Server] = "AVAILABLE" /\ Spreading
    BY <1>3 DEF ServerAwait, Turn, Proceeding, Spreading
  <2> DEFINE m == [ServerSays("BROADCAST_MESSAGE") EXCEPT !.content = Request.content]
  <2>2. m.sender = Server /\ m.type = "BROADCAST_MESSAGE"
    BY DEF ServerSays
  <2> HIDE DEF m
  <2>3. /\ call' = [call EXCEPT ![server].msg = m]
        /\ pc'[server] = "forward" /\ \A u \in Threads \ {server} : pc'[u] = pc[u]
    BY <1>3 DEF ServerAwait, Goto, m
  <2>4. call'[server].msg = m /\ \A u \in Threads \ {server} : call'[u] = call[u]
    BY <2>3 DEF Calls
  <2> QED  BY <2>1, <2>2, <2>3, <2>4, ServerGoesTurns
<1>4. CASE ServerRevive
  <2>1. /\ pc[server] = "await" /\ Turn(server) /\ Exit(Server)
        /\ up' = up \cup {Server}
        /\ status' = [status EXCEPT ![Server] = "AVAILABLE"]
    BY <1>4 DEF ServerRevive, Turn, Proceeding
  <2>2. pc'[server] = "off" /\ \A u \in Threads \ {server} : pc'[u] = pc[u]
    BY <2>1 DEF Exit
  <2>3. /\ \A u \in Threads \ {server} : ~Asking(u)
        /\ \A n \in Names : n # Server => ~Answering(n)
    BY <2>1, HolderAlone DEF server
  <2>4. \A u \in Threads : ~Asking(u)'
    BY <2>2, <2>3 DEF Asking
  <2>5. \A n \in Names : ~Answering(n)'
    BY <2>1, <2>2, <2>3 DEF Answering, server
  <2>6. OneTurn' /\ ~Spreading'
    BY <2>2, <2>4, <2>5 DEF OneTurn, Turn, Proceeding, Spreading, Walking, SendSteps
  <2>7. Settled'
    BY <2>1, <2>2 DEF TurnInv, Settled
  <2> QED  BY <2>4, <2>5, <2>6, <2>7 DEF TurnInv
<1>5. CASE ServerForward
  <2>1. /\ pc[server] = "forward" /\ Turn(server) /\ UNCHANGED nodes
        /\ status[Server] = "AVAILABLE" /\ Spreading /\ Walking
    BY <1>5 DEF ServerForward, Turn, Proceeding, Spreading, Walking, TurnInv, Settled
  <2>2. SpreadOK  BY <2>1 DEF TurnInv
  <2>3. CASE todo # <<>>
    <3>1. Send(server, Addressee, call[server].msg, "forward")
      BY <1>5, <2>3 DEF ServerForward
    <3>2. /\ pc'[server] = "copy" /\ call'[server].msg = call[server].msg
          /\ \A u \in Threads \ {server} : pc'[u] = pc[u] /\ call'[u] = call[u]
      BY <3>1 DEF Send, Goto
    <3> QED  BY <2>1, <2>2, <3>2, ServerGoesTurns DEF SpreadOK
  <2>4. CASE todo = <<>>
    <3>1. /\ pc'[server] = "poll"
          /\ \A u \in Threads \ {server} : pc'[u] = pc[u] /\ call'[u] = call[u]
      BY <1>5, <2>4 DEF ServerForward, Goto
    <3> QED  BY <2>1, <3>1, ServerGoesTurns
  <2> QED  BY <2>3, <2>4
<1> QED
  BY <1>1, <1>2, <1>3, <1>4, <1>5, ServerAnswerTurns DEF ServerStep

\* At rest it is nobody's turn, and every thread rests.
LEMMA RestFacts ==
  ASSUME PlaceInv, AtRest
  PROVE  /\ \A u \in Threads : Rests(u) /\ ~Asking(u)
         /\ \A n \in Names : ~Answering(n) /\ pc[MainOf(n)] \in {"poll", "off"}
         /\ ~Proceeding /\ ~Spreading
<1> USE ThreadFacts
<1>1. \A u \in Threads : Rests(u) /\ ~Asking(u)
  BY Roles DEF AtRest, Rests, Asking
<1>2. \A n \in Names : ~Answering(n) /\ pc[MainOf(n)] \in {"poll", "off"}
  BY DEF AtRest, Answering, Names, server
<1>3. ~Proceeding /\ ~Spreading
  BY DEF AtRest, Proceeding, Spreading, Walking, SendSteps
<1> QED  BY <1>1, <1>2, <1>3

\* A user who finds the system at rest gives one thread the turn.
LEMMA SendTurns ==
  ASSUME PlaceInv, AtRest, NEW t \in Threads, t # server, NEW to, NEW m, NEW b,
         Send(t, to, m, b), to # Owner(t), m.sender = Owner(t),
         m.type = "BROADCAST_MESSAGE" => t = InputOf(Owner(t)),
         \A n \in Names : status'[n] = status[n] \/ status'[n] = "AVAILABLE",
         \A n \in Names : n \in up' /\ n \notin up => status'[n] = "AVAILABLE"
  PROVE  TurnInv'
<1> USE ThreadFacts, TypeFacts
<1>0. /\ \A u \in Threads : Rests(u) /\ ~Asking(u)
      /\ \A n \in Names : ~Answering(n) /\ pc[MainOf(n)] \in {"poll", "off"}
      /\ ~Proceeding /\ ~Spreading
  BY RestFacts
<1>1. /\ pc'[t] = "copy" /\ \A u \in Threads \ {t} : pc'[u] = pc[u]
      /\ call'[t] = [peer |-> to, msg |-> m, back |-> b]
      /\ \A u \in Threads \ {t} : call'[u] = call[u]
  BY DEF Send, Goto
<1>2. \A u \in Threads \ {t} : ~Asking(u)' /\ Rests(u)'
  BY <1>0, <1>1 DEF Asking, Rests
<1>3. \A n \in Names : ~Answering(n)'
  BY <1>0, <1>1 DEF Answering
<1>4. ~Proceeding' /\ ~Spreading'
  BY <1>0, <1>1, RestPlaces DEF Proceeding, Spreading, Walking, SendSteps
<1>5. OneTurn'
  BY <1>2, <1>3, <1>4 DEF OneTurn, Turn
<1>6. ASSUME NEW u \in Threads, Asking(u)' PROVE AskOK(u)'
  BY <1>1, <1>2, <1>6 DEF AskOK
<1>7. Settled'
  <2>1. \A n \in Names : pc'[MainOf(n)] \in {"poll", "off", "copy"}
    BY <1>0, <1>1
  <2> QED  BY <2>1 DEF Settled, server
<1> QED  BY <1>3, <1>4, <1>5, <1>6, <1>7 DEF TurnInv

LEMMA UserTurns ==
  ASSUME PlaceInv, TurnInv, AtRest, UserStep
  PROVE  TurnInv'
<1> USE ThreadFacts, TypeFacts
<1>1. ASSUME NEW c \in Clients, NEW g \in Groups, Start(c, g)
      PROVE  TurnInv'
  <2>1. /\ Send(MainOf(c), Server, ClientSays(c, "JOIN_CREATE_GROUP", g), "admit")
        /\ status' = [status EXCEPT ![c] = "AVAILABLE"] /\ up' = up \cup {c}
    BY <1>1 DEF Start
  <2>2. /\ ClientSays(c, "JOIN_CREATE_GROUP", g).sender = c
        /\ ClientSays(c, "JOIN_CREATE_GROUP", g).type = "JOIN_CREATE_GROUP"
    BY DEF ClientSays
  <2> QED  BY <2>1, <2>2, SendTurns
<1>2. ASSUME NEW c \in Clients, NEW u, u # c, NEW m, m.sender = c, Types(c, u, m)
      PROVE  TurnInv'
  <2>1. Send(InputOf(c), u, m, "loop") /\ status' = status /\ up' = up
    BY <1>2 DEF Types, nodes
  <2> QED  BY <1>2, <2>1, SendTurns
<1>3. ASSUME NEW c \in Clients, NEW x \in Texts, TypeLine(c, x)
      PROVE  TurnInv'
  BY <1>2, <1>3 DEF TypeLine, ClientSays
<1>4. ASSUME NEW c \in Clients, TypeDisplay(c) \/ TypeExit(c)
      PROVE  TurnInv'
  BY <1>2, <1>4 DEF TypeDisplay, TypeExit, ClientSays
<1>5. ASSUME NEW c \in Clients, NEW u \in Names, NEW x \in Texts, TypePrivate(c, u, x)
      PROVE  TurnInv'
  <2>1. PICK ty \in Stale : Types(c, u, ClientSays(c, ty, x))
    BY <1>5 DEF TypePrivate
  <2>2. u # c  BY <1>5 DEF TypePrivate
  <2>3. ClientSays(c, ty, x).sender = c  BY DEF ClientSays
  <2> QED  BY <1>2, <2>1, <2>2, <2>3
<1>6. ASSUME NEW c \in Clients, CtrlC(c)
      PROVE  TurnInv'
  <2>1. /\ Send(SigOf(c), Server, ClientSays(c, "LEAVE_GROUP", Empty), "free")
        /\ status' = status /\ up' = up
    BY <1>6 DEF CtrlC, nodes
  <2>2. /\ ClientSays(c, "LEAVE_GROUP", Empty).sender = c
        /\ ClientSays(c, "LEAVE_GROUP", Empty).type = "LEAVE_GROUP"
    BY DEF ClientSays
  <2> QED  BY <2>1, <2>2, SendTurns
<1>7. CASE Stop \/ Restart
  <2>1. /\ \A u \in Threads : Rests(u) /\ ~Asking(u)
        /\ \A n \in Names : ~Answering(n) /\ pc[MainOf(n)] \in {"poll", "off"}
        /\ ~Proceeding /\ ~Spreading
    BY RestFacts
  <2>2. /\ \A u \in Threads : pc'[u] = pc[u] \/ (pc'[u] = "poll" /\ u = server)
        /\ \A n \in Names : \/ status'[n] = "AVAILABLE"
                            \/ /\ status'[n] = status[n] /\ (n \in up' => n \in up)
                               /\ pc'[MainOf(n)] = pc[MainOf(n)]
    <3>1. CASE Stop
      <4>1. up' = up \ {Server} /\ status' = status /\ pc' = pc
        BY <3>1 DEF Stop, FreeNode
      <4>2. \A n \in Names : n \in up' => n \in up
        BY <4>1
      <4> QED  BY <4>1, <4>2
    <3>2. CASE Restart
      <4>1. /\ pc' = [pc EXCEPT ![server] = "poll"]
            /\ status' = [status EXCEPT ![Server] = "AVAILABLE"]
            /\ up' = up \cup {Server}
        BY <3>2 DEF Restart
      <4>2. \A n \in Names \ {Server} : MainOf(n) # server
        BY DEF MainOf, server
      <4>3. ASSUME NEW u \in Threads
            PROVE  pc'[u] = pc[u] \/ (pc'[u] = "poll" /\ u = server)
        BY <4>1
      <4>4. status'[Server] = "AVAILABLE"  BY <4>1
      <4>5. ASSUME NEW n \in Names, n # Server
            PROVE  /\ status'[n] = status[n] /\ (n \in up' => n \in up)
                   /\ pc'[MainOf(n)] = pc[MainOf(n)]
        BY <4>1, <4>2, <4>5
      <4> QED  BY <4>3, <4>4, <4>5
    <3> QED  BY <1>7, <3>1, <3>2
  <2>3. \A u \in Threads : ~Asking(u)'
    BY <2>1, <2>2 DEF Asking
  <2>4. \A n \in Names : ~Answering(n)'
    BY <2>1, <2>2 DEF Answering
  <2>5. ~Proceeding' /\ ~Spreading'
    BY <2>1, <2>2, RestPlaces DEF Proceeding, Spreading, Walking, SendSteps
  <2>6. OneTurn'
    BY <2>3, <2>4, <2>5 DEF OneTurn, Turn
  <2>7. Settled'
    <3>1. \A n \in Names : pc'[MainOf(n)] \in {"poll", "off"}
      BY <2>1, <2>2
    <3> QED  BY <3>1 DEF Settled, server
  <2> QED  BY <2>3, <2>4, <2>5, <2>6, <2>7 DEF TurnInv
<1> QED
  BY <1>1, <1>3, <1>4, <1>5, <1>6, <1>7 DEF UserStep, UserAct

LEMMA TurnInvInit == Init => TurnInv
<1> SUFFICES ASSUME Init PROVE TurnInv
  OBVIOUS
<1> USE ThreadFacts
<1>1. AtRest  BY DEF Init, AtRest
<1>2. /\ \A u \in Threads : ~Asking(u)
      /\ \A n \in Names : ~Answering(n) /\ pc[MainOf(n)] \in {"poll", "off"}
      /\ ~Proceeding /\ ~Spreading
  BY <1>1, PlaceInvInit, RestFacts
<1> QED  BY <1>2 DEF TurnInv, OneTurn, Turn, Settled, server

LEMMA TurnInvStep == PlaceInv /\ TurnInv /\ [SerialNext]_vars => TurnInv'
<1> SUFFICES ASSUME PlaceInv, TurnInv, [SerialNext]_vars PROVE TurnInv'
  OBVIOUS
<1>1. CASE SystemStep
  BY <1>1, NodeStepTurns, ClientTurns, ServerTurns
  DEF SystemStep, ThreadStep, MainStep, InputStep, SigStep, Serve
<1>2. CASE AtRest /\ UserStep
  BY <1>2, UserTurns
<1>3. CASE UNCHANGED vars
  <2> USE <1>3 DEF vars, nodeVars, nodes, frames
  <2>1. OneTurn'
    BY DEF TurnInv, OneTurn, Turn, Asking, Answering, Proceeding
  <2>2. ASSUME NEW t \in Threads, Asking(t)' PROVE AskOK(t)'
    BY <2>2 DEF TurnInv, Asking, AskOK, Rests
  <2>3. ASSUME NEW n \in Names, Answering(n)' PROVE AnswerOK(n)'
    BY <2>3 DEF TurnInv, Answering, AnswerOK, Requester, Rests, Blocked, AsksBroadcast,
                Request
  <2>4. Spreading' => SpreadOK'
    BY DEF TurnInv, Spreading, SpreadOK, Walking
  <2>5. Settled'
    BY DEF TurnInv, Settled
  <2> QED  BY <2>1, <2>2, <2>3, <2>4, <2>5 DEF TurnInv
<1> QED  BY <1>1, <1>2, <1>3 DEF SerialNext

\* When users wait for the system to be at rest, the assertions of
\* respond_to_message (chat.c) never fail: at every response the responder's
\* node is RECIEVED, and the process its buffer names still waits to be
\* answered, whatever users do and whatever an uninitialised type holds.
THEOREM Rendezvous == SerialSpec => []RendezvousPaired
<1>1. PlaceInv /\ TurnInv => RendezvousPaired
  <2> SUFFICES ASSUME PlaceInv, TurnInv, NEW t \in Threads,
                      Own(t, "check") \/ Own(t, "attach")
               PROVE  /\ status[Owner(t)] = "RECIEVED_MESSAGE"
                      /\ Waits(Requester(Owner(t)))
    BY DEF RendezvousPaired
  <2>1. t = MainOf(Owner(t)) /\ Owner(t) \in Names
    BY Responder DEF Own, At, RespondSteps
  <2>2. AnswerOK(Owner(t))
    BY <2>1 DEF Own, At, Answering, TurnInv
  <2> QED  BY <2>2 DEF AnswerOK, Waits, CanAttach
<1> QED
  BY <1>1, PlaceInvInit, PlaceInvStep, TurnInvInit, TurnInvStep, PTL DEF SerialSpec

-----------------------------------------------------------------------------
(* What is asked and what is answered *)

\* Users address private messages to clients only, and nobody starts the server
\* anew: a new server knows none of the clients that still run.
ToClientsOnly == Commands \cap {"private server", "restart"} = {}

\* Nothing moves any more: a client was told to end by a private message, and
\* its sender r waits for an answer that nobody will give.
Stuck ==
  \E r \in Clients :
    /\ pc[InputOf(r)] = "spin" /\ status[r] = "WAITING_FOR_RESPONSE"
    /\ ~kill[r] /\ r \in up
    /\ \A u \in Threads \ {InputOf(r)} : Rests(u)
    /\ \A u \in Threads : ~Turn(u)

\* What client c asks of the server fits what the server knows about c: who
\* joins is starting and unknown, everybody else runs, or ran, and is known; and
\* who has been told to end asks to leave.
Wants(c, m) ==
  /\ m.type \in {"JOIN_CREATE_GROUP", "BROADCAST_MESSAGE", "DISPLAY_USERS", "LEAVE_GROUP"}
  /\ m.type = "JOIN_CREATE_GROUP" =>
       pc[MainOf(c)] \in SendSteps /\ clients[c] = None /\ m.content \in Groups
  /\ m.type # "JOIN_CREATE_GROUP" =>
       pc[MainOf(c)] \notin SendSteps /\ clients[c] # None
  /\ m.type = "LEAVE_GROUP" => kill[c] \/ pc[MainOf(c)] = "off"
  /\ kill[c] => m.type = "LEAVE_GROUP"

AsksWell(t) ==
  /\ call[t].peer = Server => Wants(Owner(t), call[t].msg)
  /\ call[t].peer # Server => t = InputOf(Owner(t)) /\ ~kill[Owner(t)]

\* How the answer to a join fits the tables.
Joined(c, type) == IF type = "LEAVE_GROUP" THEN clients[c] = None ELSE clients[c] # None

\* The server with a request of client r that it has still to answer.
ServesWell ==
  LET r == Request.sender IN
    /\ pc[server] = "poll" => Wants(r, Request)
    /\ pc[server] = "enroll" =>
         /\ pc[MainOf(r)] \in SendSteps /\ clients[r] = None
         /\ Request.content = list /\ list \in created
    /\ pc[server] = "remove" =>
         /\ pc[MainOf(r)] \notin SendSteps /\ clients[r] = list /\ list # None
         /\ kill[r] \/ pc[MainOf(r)] = "off"
    /\ pc[server] \in RespondSteps /\ call[server].back = "log" =>
         pc[MainOf(r)] \in SendSteps /\ Joined(r, call[server].msg.type)
    /\ pc[server] \in RespondSteps /\ call[server].back # "log" =>
         pc[MainOf(r)] \notin SendSteps /\ (kill[r] => clients[r] = None)
    /\ pc[server] = "release" => buffer[r] = call[server].msg

\* What the server still knows of the request after it has answered it.
Logging  == \/ pc[server] = "log"
            \/ pc[server] \in RespondSteps /\ call[server].back = "log"
Awaiting == \/ pc[server] = "await"
            \/ pc[server] \in RespondSteps /\ call[server].back = "await"

Remembers ==
  /\ Logging /\ list = None => /\ client_count >= MaxClients
                               /\ Request.type = "JOIN_CREATE_GROUP"
                               /\ Request.content \notin created
  /\ Awaiting => /\ Request.sender \in Clients
                 /\ clients[Request.sender] = list /\ list # None

\* A private message was typed by a client that has not been told to end.
PrivateWell(n) ==
  LET r == Requester(n) IN r # Server => ~kill[r] /\ pc[InputOf(r)] = "spin"

\* Client c has had its answer, and the tables fit it.
Answered(c, t) == pc[t] = "spin" /\ status[c] = "AVAILABLE"

Fits(c) ==
  /\ pc[MainOf(c)] = "admit" \/ Answered(c, MainOf(c)) => Joined(c, buffer[c].type)
  /\ pc[SigOf(c)] = "free" \/ Answered(c, SigOf(c)) => clients[c] = None
  /\ pc[MainOf(c)] \in {"poll"} \cup RespondSteps /\ ~kill[c] => clients[c] # None
  /\ clients[c] # None => c \in up \/ Stuck

\* The member lists and the count follow the table of clients; between the two
\* updates of a join the list is ahead.
Joining(s, g) == pc[server] = "enroll" /\ s = Request.sender /\ g = list

Books ==
  /\ \A g \in Contents : IsInjective(groups[g])
  /\ \A s \in Senders, g \in Contents :
       s \in ToSet(groups[g]) <=> clients[s] = g \/ Joining(s, g)
  /\ \A s \in Senders : clients[s] # None => s \in Clients /\ clients[s] \in created
  /\ created \subseteq Groups
  /\ IsFiniteSet(Registered) /\ client_count = Cardinality(Registered)

\* The broadcast: whom it has still to reach, and what it leaves behind.
Reached(c) == \/ pc[server] = "copy" /\ call[server].peer = c
              \/ pc[MainOf(c)] = "off"
              \/ buffer[c] = call[server].msg

WalkOK ==
  /\ list \in Contents
  /\ IsInjective(todo) /\ ToSet(todo) \subseteq ToSet(groups[list])
  /\ pc[server] = "copy" => call[server].peer \in ToSet(groups[list])
  /\ \A c \in ToSet(groups[list]) \ ToSet(todo) : Reached(c)

AsksInv    == \A t \in Threads \ {server} : Asking(t) => AsksWell(t)
ServesInv  == Answering(Server) => ServesWell
PrivateInv == \A n \in Clients : Answering(n) => PrivateWell(n)
FitsInv    == \A c \in Clients : Fits(c)
WalkInv    == IF Walking THEN WalkOK ELSE pc[server] = "off" \/ todo = <<>>

\* ctrl-c finds the server in its loop, which then serves nothing any more.
Present    == pc[server] \in {"off", "poll"} \/ Server \in up

TalkInv ==
  /\ AsksInv /\ ServesInv /\ PrivateInv /\ Remembers
  /\ FitsInv /\ Books /\ WalkInv /\ Present

-----------------------------------------------------------------------------
(* Lists without repetitions *)

LEMMA SetOfList ==
  ASSUME NEW S, NEW s \in Seq(S)
  PROVE  /\ Len(s) \in Nat /\ DOMAIN s = 1..Len(s)
         /\ ToSet(s) \subseteq S
         /\ \A x : x \in ToSet(s) <=> \E i \in 1..Len(s) : s[i] = x
<1>1. Len(s) \in Nat /\ DOMAIN s = 1..Len(s) /\ \A i \in 1..Len(s) : s[i] \in S
  BY LenProperties, ElementOfSeq
<1> QED  BY <1>1 DEF ToSet

LEMMA EmptyList == IsInjective(<<>>) /\ ToSet(<<>>) = {}
<1>1. DOMAIN <<>> = {}  OBVIOUS
<1> QED  BY <1>1 DEF IsInjective, ToSet

LEMMA ConsFacts ==
  ASSUME NEW S, NEW s \in Seq(S), NEW e \in S, IsInjective(s), e \notin ToSet(s)
  PROVE  IsInjective(Cons(e, s)) /\ ToSet(Cons(e, s)) = ToSet(s) \cup {e}
<1> DEFINE q == Cons(e, s)
<1>1. /\ <<e>> \in Seq(S) /\ Len(<<e>>) = 1 /\ <<e>>[1] = e
  OBVIOUS
<1>2. /\ q \in Seq(S) /\ Len(q) = 1 + Len(s)
      /\ \A i \in 1..(1 + Len(s)) : q[i] = IF i <= 1 THEN <<e>>[i] ELSE s[i - 1]
  BY <1>1, ConcatProperties DEF Cons
<1>3. q[1] = e /\ \A i \in 2..Len(q) : q[i] = s[i - 1] /\ i - 1 \in 1..Len(s)
  BY <1>1, <1>2, SetOfList
<1>4. \A i \in 1..Len(s) : i + 1 \in 2..Len(q) /\ q[i + 1] = s[i]
  <2>1. ASSUME NEW i \in 1..Len(s)
        PROVE  i + 1 \in 2..Len(q) /\ (i + 1) - 1 = i
    BY <1>2, SetOfList
  <2> QED  BY <1>3, <2>1
<1> HIDE DEF q
<1>5. \A x : x \in ToSet(q) <=> x = e \/ x \in ToSet(s)
  <2>1. ASSUME NEW x, x \in ToSet(q) PROVE x = e \/ x \in ToSet(s)
    <3>1. PICK i \in 1..Len(q) : q[i] = x  BY <1>2, <2>1, SetOfList
    <3>2. i = 1 \/ i \in 2..Len(q)         BY <1>2, SetOfList
    <3> QED  BY <1>3, <3>1, <3>2, SetOfList
  <2>2. ASSUME NEW x, x \in ToSet(s) PROVE x \in ToSet(q)
    <3>1. PICK i \in 1..Len(s) : s[i] = x  BY <2>2, SetOfList
    <3>2. i + 1 \in 1..Len(q) /\ q[i + 1] = x  BY <1>2, <1>4, <3>1, SetOfList
    <3> QED  BY <1>2, <3>2, SetOfList
  <2>3. e \in ToSet(q)
    <3>1. 1 \in 1..Len(q)  BY <1>2, SetOfList
    <3> QED  BY <1>2, <1>3, <3>1, SetOfList
  <2> QED  BY <2>1, <2>2, <2>3
<1>6. ASSUME NEW i \in 1..Len(q), NEW j \in 1..Len(q), q[i] = q[j]
      PROVE  i = j
  <2>1. \A k \in 1..Len(q) : k = 1 \/ k \in 2..Len(q)  BY <1>2, SetOfList
  <2>2. \A k \in 2..Len(q) : q[k] # e
    BY <1>3, SetOfList
  <2>3. CASE i = 1 \/ j = 1
    BY <1>3, <1>6, <2>1, <2>2, <2>3
  <2>4. CASE i \in 2..Len(q) /\ j \in 2..Len(q)
    <3>1. \A x, y \in 1..Len(s) : s[x] = s[y] => x = y
      BY SetOfList DEF IsInjective
    <3>2. i - 1 = j - 1
      BY <1>3, <1>6, <2>4, <3>1
    <3> QED  BY <1>2, <3>2, SetOfList
  <2> QED  BY <2>1, <2>3, <2>4
<1>7. IsInjective(q)  BY <1>2, <1>6, SetOfList DEF IsInjective
<1> QED  BY <1>5, <1>7 DEF q

LEMMA TailFacts ==
  ASSUME NEW S, NEW s \in Seq(S), s # <<>>, IsInjective(s)
  PROVE  /\ Tail(s) \in Seq(S) /\ IsInjective(Tail(s))
         /\ Head(s) \in ToSet(s) /\ ToSet(Tail(s)) = ToSet(s) \ {Head(s)}
<1> DEFINE q == Tail(s)
<1>1. /\ q \in Seq(S) /\ Len(q) = Len(s) - 1 /\ Head(s) = s[1]
      /\ \A i \in 1..Len(q) : q[i] = s[i + 1]
      /\ Len(s) \in Nat \ {0}
  BY HeadTailProperties, EmptySeq, LenProperties
<1>2. \A i \in 1..Len(q) : i + 1 \in 2..Len(s) /\ i + 1 \in 1..Len(s)
  BY <1>1
<1>3. \A i \in 2..Len(s) : i - 1 \in 1..Len(q) /\ q[i - 1] = s[i]
  <2>1. ASSUME NEW i \in 2..Len(s)
        PROVE  i - 1 \in 1..Len(q) /\ (i - 1) + 1 = i
    BY <1>1
  <2> QED  BY <1>1, <2>1
<1>4. 1 \in 1..Len(s)  BY <1>1
<1> HIDE DEF q
<1>5. IsInjective(q)
  <2>1. ASSUME NEW i \in 1..Len(q), NEW j \in 1..Len(q), q[i] = q[j]
        PROVE  i = j
    <3>1. i + 1 = j + 1  BY <1>1, <1>2, <2>1, SetOfList DEF IsInjective
    <3> QED  BY <1>1, <3>1
  <2> QED  BY <1>1, <2>1, SetOfList DEF IsInjective
<1>6. \A x : x \in ToSet(q) <=> x \in ToSet(s) /\ x # s[1]
  <2>1. ASSUME NEW x, x \in ToSet(q) PROVE x \in ToSet(s) /\ x # s[1]
    <3>1. PICK i \in 1..Len(q) : q[i] = x  BY <1>1, <2>1, SetOfList
    <3>2. s[i + 1] = x /\ i + 1 # 1  BY <1>1, <3>1
    <3>3. s[i + 1] # s[1]  BY <1>2, <1>4, <3>2, SetOfList DEF IsInjective
    <3> QED  BY <1>2, <3>2, <3>3, SetOfList
  <2>2. ASSUME NEW x, x \in ToSet(s), x # s[1] PROVE x \in ToSet(q)
    <3>1. PICK i \in 1..Len(s) : s[i] = x  BY <2>2, SetOfList
    <3>2. i \in 2..Len(s)  BY <1>1, <2>2, <3>1
    <3> QED  BY <1>1, <1>3, <3>1, <3>2, SetOfList
  <2> QED  BY <2>1, <2>2
<1>7. Head(s) \in ToSet(s)  BY <1>1, <1>4, SetOfList
<1> QED  BY <1>1, <1>5, <1>6, <1>7 DEF q

\* Taking out a position: the others keep their order.
LEMMA RemoveAtFacts ==
  ASSUME NEW S, NEW s \in Seq(S), NEW k \in 1..Len(s), IsInjective(s)
  PROVE  /\ IsInjective(RemoveAt(s, k))
         /\ ToSet(RemoveAt(s, k)) = ToSet(s) \ {s[k]}
<1> DEFINE a == SubSeq(s, 1, k - 1)
           b == SubSeq(s, k + 1, Len(s))
           q == RemoveAt(s, k)
<1>1. Len(s) \in Nat /\ k \in Int /\ 1 <= k /\ k <= Len(s)
  BY LenProperties
<1>2. \A i \in 1..Len(s) : s[i] \in S
  BY ElementOfSeq
<1>3. /\ a \in Seq(S) /\ Len(a) = k - 1
      /\ \A i \in 1..(k - 1) : a[i] = s[i]
  <2>1. \A i \in 1 .. k - 1 : i \in 1..Len(s)       BY <1>1
  <2>2. /\ a \in Seq(S) /\ Len(a) = IF 1 <= k - 1 THEN k - 1 - 1 + 1 ELSE 0
        /\ \A i \in 1 .. k - 1 - 1 + 1 : a[i] = s[1 + i - 1]
    BY <1>1, <1>2, <2>1, SubSeqProperties
  <2>3. \A i \in 1..(k - 1) : i \in 1..(k - 1 - 1 + 1) /\ 1 + i - 1 = i  BY <1>1
  <2>4. Len(a) = k - 1  BY <1>1, <2>2
  <2> QED  BY <2>2, <2>3, <2>4
<1>4. /\ b \in Seq(S) /\ Len(b) = Len(s) - k
      /\ \A i \in 1..(Len(s) - k) : b[i] = s[k + i]
  <2>1. \A i \in k + 1 .. Len(s) : i \in 1..Len(s)  BY <1>1
  <2>2. /\ b \in Seq(S)
        /\ Len(b) = IF k + 1 <= Len(s) THEN Len(s) - (k + 1) + 1 ELSE 0
        /\ \A i \in 1 .. Len(s) - (k + 1) + 1 : b[i] = s[(k + 1) + i - 1]
    BY <1>1, <1>2, <2>1, SubSeqProperties
  <2>3. \A i \in 1..(Len(s) - k) : /\ i \in 1 .. Len(s) - (k + 1) + 1
                                   /\ (k + 1) + i - 1 = k + i
    BY <1>1
  <2>4. Len(b) = Len(s) - k  BY <1>1, <2>2
  <2> QED  BY <2>2, <2>3, <2>4
<1> HIDE DEF a, b
<1>5. /\ q \in Seq(S) /\ Len(q) = Len(a) + Len(b)
      /\ \A i \in 1..(Len(a) + Len(b)) : q[i] = IF i <= Len(a) THEN a[i] ELSE b[i - Len(a)]
  BY <1>3, <1>4, ConcatProperties DEF RemoveAt, a, b
<1> HIDE DEF q
<1>6. Len(q) = Len(s) - 1  BY <1>1, <1>3, <1>4, <1>5
<1>7. \A i \in 1..Len(q) : /\ i < k => q[i] = s[i] /\ i \in 1..Len(s)
                           /\ i >= k => q[i] = s[i + 1] /\ i + 1 \in 1..Len(s)
  <2>1. ASSUME NEW i \in 1..Len(q), i < k PROVE q[i] = s[i] /\ i \in 1..Len(s)
    <3>1. i \in 1..(k - 1) /\ i <= Len(a) /\ i \in 1..(Len(a) + Len(b))
      BY <1>1, <1>3, <1>4, <1>6, <2>1
    <3> QED  BY <1>1, <1>3, <1>5, <3>1
  <2>2. ASSUME NEW i \in 1..Len(q), i >= k PROVE q[i] = s[i + 1] /\ i + 1 \in 1..Len(s)
    <3>1. /\ ~(i <= Len(a)) /\ i \in 1..(Len(a) + Len(b))
          /\ i - Len(a) \in 1..(Len(s) - k) /\ k + (i - Len(a)) = i + 1
      BY <1>1, <1>3, <1>4, <1>6, <2>2
    <3>2. q[i] = b[i - Len(a)]  BY <1>5, <3>1
    <3>3. b[i - Len(a)] = s[k + (i - Len(a))]  BY <1>4, <3>1
    <3> QED  BY <1>1, <1>6, <2>2, <3>1, <3>2, <3>3
  <2> QED  BY <2>1, <2>2
<1>8. \A i \in 1..Len(s) : /\ i < k => i \in 1..Len(q) /\ q[i] = s[i]
                           /\ i > k => i - 1 \in 1..Len(q) /\ q[i - 1] = s[i]
  <2>1. ASSUME NEW i \in 1..Len(s), i < k PROVE i \in 1..Len(q) /\ q[i] = s[i]
    BY <1>1, <1>6, <1>7, <2>1
  <2>2. ASSUME NEW i \in 1..Len(s), i > k PROVE i - 1 \in 1..Len(q) /\ q[i - 1] = s[i]
    <3>1. i - 1 \in 1..Len(q) /\ i - 1 >= k /\ (i - 1) + 1 = i  BY <1>1, <1>6, <2>2
    <3> QED  BY <1>7, <3>1
  <2> QED  BY <2>1, <2>2
<1>9. IsInjective(q)
  <2>1. ASSUME NEW i \in 1..Len(q), NEW j \in 1..Len(q), q[i] = q[j]
        PROVE  i = j
    <3> DEFINE f(x) == IF x < k THEN x ELSE x + 1
    <3>1. q[i] = s[f(i)] /\ f(i) \in 1..Len(s) /\ q[j] = s[f(j)] /\ f(j) \in 1..Len(s)
      BY <1>1, <1>6, <1>7
    <3>2. \A x, y \in 1..Len(s) : s[x] = s[y] => x = y
      BY SetOfList DEF IsInjective
    <3>3. f(i) = f(j)
      <4> HIDE DEF f
      <4> QED  BY <2>1, <3>1, <3>2
    <3> QED  BY <1>1, <1>6, <3>3
  <2> QED  BY <1>5, <2>1, SetOfList DEF IsInjective
<1>10. \A x : x \in ToSet(q) <=> x \in ToSet(s) /\ x # s[k]
  <2>1. ASSUME NEW x, x \in ToSet(q) PROVE x \in ToSet(s) /\ x # s[k]
    <3>1. PICK i \in 1..Len(q) : q[i] = x  BY <1>5, <2>1, SetOfList
    <3>2. PICK j \in 1..Len(s) : s[j] = x /\ j # k  BY <1>1, <1>6, <1>7, <3>1
    <3> QED  BY <3>2, SetOfList DEF IsInjective
  <2>2. ASSUME NEW x, x \in ToSet(s), x # s[k] PROVE x \in ToSet(q)
    <3>1. PICK i \in 1..Len(s) : s[i] = x  BY <2>2, SetOfList
    <3>2. i < k \/ i > k  BY <1>1, <2>2, <3>1
    <3> QED  BY <1>5, <1>8, <3>1, <3>2, SetOfList
  <2> QED  BY <2>1, <2>2
<1> QED  BY <1>9, <1>10 DEF q

LEMMA RemoveFirstFacts ==
  ASSUME NEW S, NEW s \in Seq(S), NEW e, IsInjective(s)
  PROVE  /\ IsInjective(RemoveFirst(s, e))
         /\ ToSet(RemoveFirst(s, e)) = ToSet(s) \ {e}
<1> DEFINE I == {i \in 1..Len(s) : s[i] = e}
<1>1. CASE I = {}
  <2>1. RemoveFirst(s, e) = s  BY <1>1 DEF RemoveFirst
  <2>2. e \notin ToSet(s)      BY <1>1, SetOfList
  <2> QED  BY <2>1, <2>2
<1>2. CASE I # {}
  <2>1. Min(I) \in I
    <3>1. Len(s) \in Nat /\ I \in SUBSET (1..Len(s))  BY SetOfList
    <3> QED  BY <1>2, <3>1, LeastPosition
  <2>2. RemoveFirst(s, e) = RemoveAt(s, Min(I))
    BY <1>2 DEF RemoveFirst, SelectInSeq
  <2> QED  BY <2>1, <2>2, RemoveAtFacts
<1> QED  BY <1>1, <1>2

-----------------------------------------------------------------------------
(* Steps of the clients *)

\* A step of a thread of client c.
ClientStep(c) ==
  \/ \E t \in Threads : Owner(t) = c /\ NodeStep(t)
  \/ ClientMain(c) \/ InputLoop(c) \/ SigFree(c)

\* The process of n ends, and its node stays up.
Ends(n) == Exit(n) /\ UNCHANGED nodes

\* Of the threads that rest, only those of a process that ends take a step.
LEMMA RestStep ==
  ASSUME PlaceInv, TurnInv, NEW c \in Clients, ClientStep(c),
         \A n \in Clients : Rests(MainOf(n)) => ~Answering(n)
  PROVE  \/ Ends(c) /\ pc[MainOf(c)] = "poll" /\ (c \in up => kill[c])
         \/ \E t \in Threads : Owner(t) = c /\ ~Rests(t) /\ NodeStep(t)
         \/ ClientAdmit(c) /\ pc[MainOf(c)] = "admit"
         \/ InputLoop(c) /\ pc[InputOf(c)] = "loop"
         \/ SigFree(c) /\ pc[SigOf(c)] = "free"
<1> USE ThreadFacts
<1>1. ASSUME NEW t \in Threads, Owner(t) = c, NodeStep(t), Rests(t)
      PROVE  Ends(c) /\ pc[MainOf(c)] = "poll" /\ c \notin up
  <2>1. pc[t] = "poll" /\ Fault(t)
    BY <1>1 DEF NodeStep, SendCopy, SendClaim, SendPost, SendSpin, RespondCheck,
           RespondAttach, RespondReply, RespondRelease, RespondFinish, Fault, At, Own,
           Rests, OwnSteps
  <2>2. Places(c)  BY DEF PlaceInv
  <2>3. t = MainOf(c)
    BY <1>1, <2>1, <2>2, Roles DEF Places, SendSteps
  <2> QED  BY <1>1, <2>1, <2>3 DEF Fault, Ends
<1>2. CASE ClientServe(c)
  <2>1. pc[MainOf(c)] = "poll" /\ Answering(c)
    BY <1>2 DEF ClientServe, Own, At, Answering
  <2> QED  BY <2>1 DEF Rests
<1>3. CASE ClientQuit(c)
  BY <1>3 DEF ClientQuit, At, Ends
<1> QED
  BY <1>1, <1>2, <1>3 DEF ClientStep, ClientMain, ClientAdmit, InputLoop, SigFree, Own, At

\* While the server has a request to answer, clients can do no more than end.
LEMMA UnderServer ==
  ASSUME PlaceInv, TurnInv, Answering(Server), NEW c \in Clients, ClientStep(c)
  PROVE  Ends(c) /\ pc[MainOf(c)] = "poll" /\ (c \in up => kill[c])
<1> USE ThreadFacts
<1>1. /\ AnswerOK(Server) /\ Turn(server)
  BY DEF TurnInv, Turn, server
<1> DEFINE r == Requester(Server)
<1>2. /\ r \in Clients /\ r \in up /\ status[r] = "WAITING_FOR_RESPONSE"
      /\ \A u \in Threads \ {server} : Rests(u) \/ Blocked(u, r)
  BY <1>1 DEF AnswerOK, Names, server, PlaceInv, HoldInv, TypeOK
<1> HIDE DEF r
<1>3. \A n \in Clients : ~Answering(n)
  BY <1>1, HolderAlone DEF server
<1>4. \A t \in Threads : Owner(t) = c /\ ~Rests(t) => ~NodeStep(t)
  <2> SUFFICES ASSUME NEW t \in Threads, Owner(t) = c, ~Rests(t), NodeStep(t)
               PROVE  FALSE
    OBVIOUS
  <2>1. Owner(t) = r /\ pc[t] = "spin" /\ t # server  BY <1>2 DEF Blocked
  <2> QED
    BY <1>2, <2>1 DEF NodeStep, SendCopy, SendClaim, SendPost, SendSpin, Released,
           RespondCheck, RespondAttach, RespondReply, RespondRelease, RespondFinish,
           Fault, At, Own
<1>5. /\ pc[MainOf(c)] # "admit" /\ pc[InputOf(c)] # "loop" /\ pc[SigOf(c)] # "free"
  BY <1>2 DEF Rests, Blocked
<1> QED  BY <1>3, <1>4, <1>5, RestStep

\* The same while a client asks, but for that client.
LEMMA UnderAsker ==
  ASSUME PlaceInv, TurnInv, NEW t \in Threads, t # server, Asking(t),
         NEW c \in Clients, ClientStep(c)
  PROVE  \/ Ends(c)
         \/ Owner(t) = c /\ (SendCopy(t) \/ SendClaim(t) \/ SendPost(t))
<1> USE ThreadFacts
<1>1. AskOK(t) /\ Turn(t)  BY DEF TurnInv, Turn
<1>2. \A u \in Threads \ {t} : Rests(u)  BY <1>1 DEF AskOK
<1>3. \A n \in Clients : Rests(MainOf(n)) => ~Answering(n)
  <2>1. \A n \in Clients : Rests(MainOf(n)) => MainOf(n) # t
    BY DEF Asking, Rests
  <2> QED  BY <1>1, <2>1, HolderAlone
<1>4. ASSUME Owner(t) = c, NodeStep(t)
      PROVE  Ends(c) \/ SendCopy(t) \/ SendClaim(t) \/ SendPost(t)
  BY <1>4 DEF NodeStep, SendSpin, RespondCheck, RespondAttach, RespondReply,
              RespondRelease, RespondFinish, Fault, At, Own, Asking, Ends
<1>5. /\ pc[MainOf(c)] # "admit" /\ pc[InputOf(c)] # "loop" /\ pc[SigOf(c)] # "free"
  BY <1>2 DEF Rests, Asking
<1> QED  BY <1>2, <1>3, <1>4, <1>5, RestStep

\* The same while a client answers another one.
LEMMA UnderAnswerer ==
  ASSUME PlaceInv, TurnInv, NEW n \in Clients, Answering(n), Requester(n) # Server,
         NEW c \in Clients, c # n, ClientStep(c)
  PROVE  Ends(c) /\ (c \in up => kill[c])
<1> USE ThreadFacts
<1> DEFINE r == Requester(n)
<1>1. AnswerOK(n) /\ Turn(MainOf(n))  BY DEF TurnInv, Turn
<1>2. /\ r \in up /\ status[r] = "WAITING_FOR_RESPONSE"
      /\ \A u \in Threads \ {MainOf(n)} : Rests(u) \/ Blocked(u, r)
  BY <1>1 DEF AnswerOK
<1> HIDE DEF r
<1>3. ASSUME NEW t \in Threads, Owner(t) = c, ~Rests(t), NodeStep(t)
      PROVE  FALSE
  <2>1. Owner(t) = r /\ pc[t] = "spin"  BY <1>2, <1>3 DEF Blocked
  <2> QED
    BY <1>2, <1>3, <2>1 DEF NodeStep, SendCopy, SendClaim, SendPost, SendSpin, Released,
           RespondCheck, RespondAttach, RespondReply, RespondRelease, RespondFinish,
           Fault, At, Own
<1>4. /\ pc[MainOf(c)] # "admit" /\ pc[InputOf(c)] # "loop" /\ pc[SigOf(c)] # "free"
  BY <1>2 DEF Rests, Blocked
<1>5. ~ClientServe(c)
  <2>1. ~Answering(c)  BY <1>1, HolderAlone
  <2> QED  BY <2>1 DEF ClientServe, Own, At, Answering
<1>6. ASSUME NEW t \in Threads, Owner(t) = c, NodeStep(t), Rests(t)
      PROVE  Ends(c) /\ c \notin up
  BY <1>6 DEF NodeStep, SendCopy, SendClaim, SendPost, SendSpin, RespondCheck,
         RespondAttach, RespondReply, RespondRelease, RespondFinish, Fault, At, Own,
         Rests, Ends
<1>7. CASE ClientQuit(c)
  BY <1>7 DEF ClientQuit, Ends
<1> QED
  BY <1>3, <1>4, <1>5, <1>6, <1>7
  DEF ClientStep, ClientMain, ClientAdmit, InputLoop, SigFree, Own, At

\* Clients leave the server's thread alone, but for an end to its exchange.
LEMMA ServerKept ==
  ASSUME PlaceInv, NEW c \in Clients, ClientStep(c)
  PROVE  /\ pc'[server] = pc[server]
         /\ call'[server].back = call[server].back /\ call'[server].msg = call[server].msg
         /\ pc[server] = "copy" => call'[server].peer = call[server].peer
<1> USE ThreadFacts, TypeFacts
<1>0. /\ server # MainOf(c) /\ server # InputOf(c) /\ server # SigOf(c)
      /\ Owner(server) # c /\ call[server] \in Calls
  BY DEF server
<1>1. ASSUME NEW n, NEW k, k = Orphaned(call[server], server, n)
      PROVE  /\ k.back = call[server].back /\ k.msg = call[server].msg
             /\ pc[server] = "copy" => k.peer = call[server].peer
  BY <1>0, <1>1 DEF Orphaned, Calls
<1>2. CASE \E t \in Threads : Owner(t) = c /\ NodeStep(t)
  <2>1. PICK t \in Threads : Owner(t) = c /\ NodeStep(t)  BY <1>2
  <2>2. CASE Exit(c)
    BY <1>0, <2>2 DEF Exit
  <2>3. CASE ~Exit(c)
    <3>1. \/ call' = call
          \/ \E k : call' = [call EXCEPT ![t] = k]
      BY <2>1, <2>3
      DEF NodeStep, SendCopy, SendClaim, SendPost, SendSpin, RespondCheck, RespondAttach,
          RespondReply, RespondRelease, RespondFinish, Fault
    <3>2. \E s : Goto(t, s)
      BY <2>1, <2>3
      DEF NodeStep, SendCopy, SendClaim, SendPost, SendSpin, RespondCheck, RespondAttach,
          RespondReply, RespondRelease, RespondFinish, Fault
    <3> QED  BY <1>0, <2>1, <3>1, <3>2 DEF Goto
  <2> QED  BY <2>2, <2>3
<1>3. CASE ClientAdmit(c)
  <2>1. CASE buffer[c].type = "LEAVE_GROUP"
    <3>1. /\ pc'[server] = pc[server]
          /\ call'[server] = Orphaned(call[server], server, c)
      BY <1>0, <1>3, <2>1 DEF ClientAdmit
    <3> QED  BY <1>1, <3>1
  <2>2. CASE buffer[c].type # "LEAVE_GROUP"
    BY <1>0, <1>3, <2>2 DEF ClientAdmit
  <2> QED  BY <2>1, <2>2
<1>4. CASE ClientServe(c)
  <2>1. CASE buffer[c].type = "LEAVE_GROUP"
    <3>1. /\ pc'[server] = pc[server]
          /\ call'[server] = Orphaned(call[server], server, c)
      BY <1>0, <1>4, <2>1 DEF ClientServe, FreeNode
    <3> QED  BY <1>1, <3>1
  <2>2. CASE buffer[c].type # "LEAVE_GROUP"
    BY <1>0, <1>4, <2>2 DEF ClientServe, Respond, Goto
  <2> QED  BY <2>1, <2>2
<1>5. CASE ClientQuit(c)
  BY <1>0, <1>5 DEF ClientQuit, Exit
<1>6. CASE InputLoop(c)
  BY <1>0, <1>6 DEF InputLoop, Goto
<1>7. CASE SigFree(c)
  <2>1. /\ pc'[server] = pc[server]
        /\ call'[server] = Orphaned(call[server], server, c)
    BY <1>0, <1>7 DEF SigFree, Goto
  <2> QED  BY <1>1, <2>1
<1> QED  BY <1>2, <1>3, <1>4, <1>5, <1>6, <1>7 DEF ClientStep, ClientMain

\* While it is the server's turn no buffer changes under a client's hands, and
\* while it walks over the members no client's does.
LEMMA BuffersKept ==
  ASSUME PlaceInv, TurnInv, NEW c \in Clients, ClientStep(c)
  PROVE  /\ Turn(server) => buffer' = buffer
         /\ Walking => \A d \in Clients : buffer'[d] = buffer[d]
<1> USE ThreadFacts, TypeFacts
<1>1. \/ buffer' = buffer
      \/ \E t \in Threads : /\ Owner(t) = c
                            /\ SendCopy(t) \/ RespondReply(t)
  BY DEF ClientStep, NodeStep, SendClaim, SendPost, SendSpin, RespondCheck,
         RespondAttach, RespondRelease, RespondFinish, Fault, ClientMain, ClientAdmit,
         ClientServe, ClientQuit, InputLoop, SigFree, FreeNode, nodes
<1>2. ASSUME NEW t \in Threads, Owner(t) = c, SendCopy(t)
      PROVE  ~Turn(server) /\ ~Walking
  <2>1. Asking(t) /\ Turn(t) /\ t # server
    BY <1>2 DEF SendCopy, At, Asking, Turn
  <2>2. AskOK(t)  BY <2>1 DEF TurnInv
  <2>3. Rests(server)  BY <2>1, <2>2 DEF AskOK
  <2> QED  BY <2>1, <2>3, HolderAlone DEF Rests, Walking, SendSteps
<1>3. ASSUME NEW t \in Threads, Owner(t) = c, RespondReply(t)
      PROVE  ~Turn(server) /\ (Walking => \A d \in Clients : buffer'[d] = buffer[d])
  <2>1. pc[t] = "reply" /\ t = MainOf(c) /\ t # server
    BY <1>3, Responder DEF RespondReply, At, RespondSteps
  <2>2. Answering(c) /\ Turn(t) /\ AnswerOK(c)
    BY <2>1 DEF Answering, Turn, TurnInv
  <2>3. ASSUME Walking PROVE call[t].peer = Server
    <3>1. ~Rests(server)  BY <2>3 DEF Walking, Rests, SendSteps
    <3>2. Requester(c) = Server
      BY <2>1, <2>2, <3>1 DEF AnswerOK, Blocked
    <3> QED  BY <2>1, <2>2, <3>2 DEF AnswerOK
  <2>4. buffer' = [n \in Names |-> IF n = call[t].peer THEN call[t].msg ELSE buffer[n]]
    BY <1>3 DEF RespondReply
  <2> QED  BY <2>1, <2>2, <2>3, <2>4, HolderAlone
<1> QED  BY <1>1, <1>2, <1>3

LEMMA StuckEnds ==
  ASSUME NEW n \in Names, Ends(n), NEW r \in Clients, n # r,
         PlaceInv, pc[InputOf(r)] = "spin", status[r] = "WAITING_FOR_RESPONSE",
         ~kill[r], r \in up,
         \A u \in Threads \ {InputOf(r)} : Rests(u),
         \A u \in Threads : ~Turn(u)
  PROVE  Stuck'
<1> USE ThreadFacts, TypeFacts
<1>1. /\ up' = up /\ status' = status /\ buffer' = buffer
      /\ \A u \in Threads : pc'[u] = IF Owner(u) = n THEN "off" ELSE pc[u]
      /\ \A c \in Clients : c # n => kill'[c] = kill[c]
  BY DEF Ends, Exit, nodes
<1>2. \A u \in Threads : ~Turn(u)'
  BY <1>1 DEF Turn, Asking, Answering, Proceeding
<1>3. \A u \in Threads \ {InputOf(r)} : Rests(u)'
  BY <1>1 DEF Rests
<1>4. pc'[InputOf(r)] = "spin" /\ status'[r] = "WAITING_FOR_RESPONSE" /\ ~kill'[r] /\ r \in up'
  BY <1>1
<1> QED  BY <1>2, <1>3, <1>4 DEF Stuck

\* Once stuck, the system stays so.
LEMMA StuckStep ==
  ASSUME PlaceInv, TurnInv, Stuck, SystemStep
  PROVE  Stuck'
<1> USE ThreadFacts, TypeFacts
<1>1. PICK r \in Clients :
        /\ pc[InputOf(r)] = "spin" /\ status[r] = "WAITING_FOR_RESPONSE"
        /\ ~kill[r] /\ r \in up
        /\ \A u \in Threads \ {InputOf(r)} : Rests(u)
        /\ \A u \in Threads : ~Turn(u)
  BY DEF Stuck
<1>2. Rests(server) /\ \A n \in Names : ~Answering(n)
  BY <1>1 DEF Turn
<1>3. ASSUME NEW c \in Clients, ClientStep(c) PROVE Stuck'
  <2>1. ASSUME NEW t \in Threads, Owner(t) = c, ~Rests(t), NodeStep(t) PROVE FALSE
    <3>1. t = InputOf(r) /\ pc[t] = "spin" /\ Owner(t) = r
      BY <1>1, <2>1
    <3> QED
      BY <1>1, <2>1, <3>1 DEF NodeStep, SendCopy, SendClaim, SendPost, SendSpin, Released,
             RespondCheck, RespondAttach, RespondReply, RespondRelease, RespondFinish,
             Fault, At, Own
  <2>2. /\ pc[MainOf(c)] # "admit" /\ pc[InputOf(c)] # "loop" /\ pc[SigOf(c)] # "free"
    BY <1>1 DEF Rests
  <2>3. Ends(c) /\ (c \in up => kill[c])
    BY <1>2, <1>3, <2>1, <2>2, RestStep
  <2>4. c \in Names /\ c # r  BY <1>1, <2>3
  <2> QED  BY <1>1, <2>3, <2>4, StuckEnds
<1>4. CASE NodeStep(server)
  <2>1. Ends(Server)
    BY <1>2, <1>4 DEF NodeStep, SendCopy, SendClaim, SendPost, SendSpin, RespondCheck,
           RespondAttach, RespondReply, RespondRelease, RespondFinish, Fault, At, Own,
           Rests, Ends
  <2> QED  BY <1>1, <2>1, StuckEnds
<1>5. CASE ServerStep
  <2>1. ~\E ty : Handles(ty)
    BY <1>2 DEF Handles, Own, At, Answering, server
  <2> QED
    BY <1>2, <1>5, <2>1
    DEF ServerStep, ServerJoin, ServerEnroll, ServerFull, ServerLog, ServerNull,
        ServerBroadcast, ServerAwait, ServerRevive, ServerForward, ServerDisplay,
        ServerLeave, ServerRemove, ServerRefuse, Own, At, Rests
<1> QED
  BY <1>3, <1>4, <1>5, Roles
  DEF SystemStep, ThreadStep, MainStep, InputStep, SigStep, Serve, ClientStep

\* The members of a list are clients that the table gives that group.
LEMMA Members ==
  ASSUME PlaceInv, Books, NEW g \in Contents, pc[server] # "enroll"
  PROVE  \A d : d \in ToSet(groups[g]) <=> d \in Clients /\ clients[d] = g
<1>1. groups[g] \in Seq(Senders)
  BY DEF PlaceInv, HoldInv, TypeOK
<1>2. ToSet(groups[g]) \subseteq Senders  BY <1>1, SetOfList
<1>3. g # None  BY ThreadFacts
<1> QED  BY <1>2, <1>3 DEF Books, Joining, Senders, Names

\* What a step of a client leaves as it was: the server's books, what it knows
\* of the request it serves, and the broadcast.
LEMMA ClientKeeps ==
  ASSUME PlaceInv, TurnInv, TalkInv, NEW c \in Clients, ClientStep(c),
         UNCHANGED serverVars
  PROVE  Remembers' /\ Books' /\ WalkInv'
<1> USE ThreadFacts, TypeFacts
<1>0. /\ pc'[server] = pc[server]
      /\ call'[server].back = call[server].back /\ call'[server].msg = call[server].msg
      /\ pc[server] = "copy" => call'[server].peer = call[server].peer
  BY ServerKept
<1>1. /\ clients' = clients /\ groups' = groups /\ created' = created
      /\ client_count' = client_count /\ list' = list /\ todo' = todo
  BY DEF serverVars, tables, cursor
<1>2. Logging \/ Awaiting \/ pc[server] = "enroll" => Request' = Request
  <2>1. Logging \/ Awaiting \/ pc[server] = "enroll" => Turn(server)
    BY DEF Logging, Awaiting, Turn, Answering, Proceeding, RespondSteps, server
  <2> QED  BY <2>1, BuffersKept DEF Request
<1>3. Remembers'
  <2>1. (Logging' => Logging) /\ (Awaiting' => Awaiting)
    BY <1>0 DEF Logging, Awaiting
  <2>2. Remembers  BY DEF TalkInv
  <2>3. Logging' /\ list' = None => /\ client_count' >= MaxClients
                                    /\ Request'.type = "JOIN_CREATE_GROUP"
                                    /\ Request'.content \notin created'
    BY <1>1, <1>2, <2>1, <2>2 DEF Remembers
  <2>4. Awaiting' => /\ Request'.sender \in Clients
                     /\ clients'[Request'.sender] = list' /\ list' # None
    BY <1>1, <1>2, <2>1, <2>2 DEF Remembers
  <2> QED  BY <2>3, <2>4 DEF Remembers
<1>4. Books'
  <2>1. Books  BY DEF TalkInv
  <2>2. \A s, g : Joining(s, g)' <=> Joining(s, g)
    BY <1>0, <1>1, <1>2 DEF Joining
  <2>3. Registered' = Registered  BY <1>1 DEF Registered
  <2> QED  BY <1>1, <2>1, <2>2, <2>3 DEF Books
<1>5. WalkInv'
  <2>1. WalkInv  BY DEF TalkInv
  <2>2. CASE ~Walking
    BY <1>0, <1>1, <2>1, <2>2 DEF WalkInv, Walking
  <2>3. CASE Walking
    <3>1. WalkOK /\ Walking' /\ Books
      BY <1>0, <2>1, <2>3 DEF WalkInv, Walking, TalkInv
    <3>2. \A d \in Clients : buffer'[d] = buffer[d]
      BY <2>3, BuffersKept
    <3>3. \A d \in Clients : pc[MainOf(d)] = "off" => pc'[MainOf(d)] = "off"
      <4> SUFFICES ASSUME NEW d \in Clients, pc[MainOf(d)] = "off"
                   PROVE  pc'[MainOf(d)] = "off"
        OBVIOUS
      <4>1. ~Answering(d) \/ d \in up  BY DEF Answering
      <4>2. ASSUME NEW t \in Threads, Owner(t) = c, NodeStep(t)
            PROVE  pc'[MainOf(d)] = "off"
        <5>1. pc[t] # "off"
          BY <4>2 DEF NodeStep, SendCopy, SendClaim, SendPost, SendSpin, RespondCheck,
                 RespondAttach, RespondReply, RespondRelease, RespondFinish, Fault,
                 At, Own, OwnSteps
        <5>2. Exit(c) \/ \E s : Goto(t, s)
          BY <4>2
          DEF NodeStep, SendCopy, SendClaim, SendPost, SendSpin, RespondCheck, RespondAttach,
              RespondReply, RespondRelease, RespondFinish, Fault
        <5> QED  BY <5>1, <5>2 DEF Exit, Goto
      <4>3. CASE ClientAdmit(c)
        <5>1. pc[MainOf(c)] = "admit"  BY <4>3 DEF ClientAdmit, Own, At
        <5>2. c # d  BY <5>1
        <5>3. MainOf(d) # MainOf(c) /\ MainOf(d) # InputOf(c) /\ Owner(MainOf(d)) # c
          BY <5>2
        <5> QED  BY <4>3, <5>3 DEF ClientAdmit
      <4>4. CASE ClientServe(c)
        <5>1. pc[MainOf(c)] = "poll"  BY <4>4 DEF ClientServe, Own, At
        <5> QED  BY <4>4, <5>1 DEF ClientServe, Respond, Goto
      <4>5. CASE ClientQuit(c)
        BY <4>5 DEF ClientQuit, Exit
      <4>6. CASE InputLoop(c) \/ SigFree(c)
        BY <4>6 DEF InputLoop, SigFree, Goto
      <4> QED  BY <4>2, <4>3, <4>4, <4>5, <4>6 DEF ClientStep, ClientMain
    <3>4. \A d \in Senders : Reached(d) /\ d \in Clients => Reached(d)'
      BY <1>0, <3>2, <3>3 DEF Reached
    <3>5. \A d \in ToSet(groups[list]) : d \in Clients
      BY <2>3, <3>1, Members DEF Walking, SendSteps, WalkOK
    <3>6. \A d \in ToSet(groups[list]) \ ToSet(todo) : Reached(d)'
      <4>1. \A d \in Clients : d \in Senders  BY DEF Senders
      <4> QED  BY <3>1, <3>4, <3>5, <4>1 DEF WalkOK
    <3>7. WalkOK'
      BY <1>0, <1>1, <3>1, <3>6 DEF WalkOK
    <3> QED  BY <3>1, <3>7 DEF WalkInv
  <2> QED  BY <2>2, <2>3
<1> QED  BY <1>3, <1>4, <1>5

\* A client's step puts a request before a process only by posting it.
LEMMA NewRequest ==
  ASSUME PlaceInv, TurnInv, NEW c \in Clients, ClientStep(c),
         NEW n \in Names, ~Answering(n), Answering(n)'
  PROVE  \E t \in Threads \ {server} : Owner(t) = c /\ SendPost(t) /\ call[t].peer = n
<1> USE ThreadFacts, TypeFacts
<1>0. Places(c) /\ Follows(c) /\ Settled
  BY DEF PlaceInv, WaitInv, FollowInv, TurnInv
<1>1. ASSUME up' \subseteq up, status' = status,
             pc'[MainOf(n)] = pc[MainOf(n)] \/ pc'[MainOf(n)] \in {"off", "claim", "admit"}
      PROVE  FALSE
  BY <1>1 DEF Answering
<1>2. ASSUME NEW t \in Threads, Owner(t) = c, NodeStep(t)
      PROVE  SendPost(t) /\ call[t].peer = n /\ t # server
  <2>1. CASE Exit(c) /\ (SendCopy(t) \/ RespondCheck(t) \/ RespondAttach(t) \/ Fault(t))
    <3>1. up' = up /\ status' = status
      BY <2>1 DEF SendCopy, RespondCheck, RespondAttach, Fault, nodes
    <3>2. pc'[MainOf(n)] \in {pc[MainOf(n)], "off"}  BY <2>1 DEF Exit
    <3> QED  BY <1>1, <3>1, <3>2
  <2>2. CASE SendCopy(t) /\ ~Exit(c)
    BY <1>1, <1>2, <2>2 DEF SendCopy, Goto
  <2>3. CASE SendClaim(t)
    <3>1. /\ up' = up /\ pc'[t] = "post" /\ \A u \in Threads \ {t} : pc'[u] = pc[u]
          /\ status' = [status EXCEPT ![c] = "WAITING_FOR_RESPONSE"]
      BY <1>2, <2>3 DEF SendClaim, Goto
    <3> QED  BY <3>1 DEF Answering
  <2>4. CASE SendPost(t)
    <3>1. /\ up' = up /\ pc'[t] = "spin" /\ \A u \in Threads \ {t} : pc'[u] = pc[u]
          /\ status' = [m \in Names |-> IF m = call[t].peer THEN "RECIEVED_MESSAGE"
                                                            ELSE status[m]]
      BY <2>4 DEF SendPost, Goto
    <3> QED  BY <1>2, <2>4, <3>1 DEF Answering
  <2>5. CASE SendSpin(t)
    <3>1. /\ up' = up /\ status' = status /\ pc[t] = "spin"
          /\ pc'[t] = call[t].back /\ \A u \in Threads \ {t} : pc'[u] = pc[u]
      BY <2>5 DEF SendSpin, Own, At, Goto, nodes
    <3>2. t = MainOf(n) => n = c /\ call[t].back = "admit"
      BY <1>0, <1>2, <3>1 DEF Follows, SendSteps
    <3> QED  BY <1>1, <3>1, <3>2
  <2>6. CASE \/ (RespondCheck(t) \/ RespondAttach(t)) /\ ~Exit(c)
             \/ RespondReply(t)
    <3>1. /\ up' = up /\ status' = status /\ pc[t] \in {"check", "attach", "reply"}
          /\ \A u \in Threads \ {t} : pc'[u] = pc[u]
      BY <1>2, <2>6 DEF RespondCheck, RespondAttach, RespondReply, Own, At, Goto, nodes
    <3>2. t # MainOf(n)  BY <3>1 DEF Answering
    <3> QED  BY <1>1, <3>1, <3>2
  <2>7. CASE RespondRelease(t)
    <3>1. /\ up' = up /\ pc'[t] = "finish" /\ \A u \in Threads \ {t} : pc'[u] = pc[u]
          /\ \A m \in Names : status'[m] \in {status[m], "AVAILABLE"}
      BY <2>7 DEF RespondRelease, Goto
    <3> QED  BY <3>1 DEF Answering
  <2>8. CASE RespondFinish(t)
    <3>1. /\ up' = up /\ pc[t] = "finish" /\ pc'[t] = call[t].back
          /\ \A u \in Threads \ {t} : pc'[u] = pc[u]
          /\ \A m \in Names : status'[m] \in {status[m], "AVAILABLE"}
          /\ status'[c] = "AVAILABLE"
      BY <1>2, <2>8 DEF RespondFinish, Own, At, Goto
    <3>2. t = MainOf(n) => n = c /\ call[t].back = "poll"
      BY <1>0, <1>2, <3>1 DEF Follows, RespondSteps
    <3> QED  BY <3>1, <3>2 DEF Answering
  <2> QED
    BY <1>2, <2>1, <2>2, <2>3, <2>4, <2>5, <2>6, <2>7, <2>8 DEF NodeStep, Fault
<1>3. CASE ClientAdmit(c)
  <2>1. up' \subseteq up /\ status' = status /\ pc[MainOf(c)] = "admit"
    BY <1>3 DEF ClientAdmit, Own, At
  <2>2. status[c] = "AVAILABLE"  BY <1>0, <2>1 DEF Settled
  <2>3. \/ pc'[MainOf(n)] \in {pc[MainOf(n)], "off"}
        \/ n = c /\ pc'[MainOf(n)] = "poll"
    <3>1. CASE buffer[c].type = "LEAVE_GROUP"
      BY <1>3, <3>1 DEF ClientAdmit
    <3>2. CASE buffer[c].type # "LEAVE_GROUP"
      <4>1. pc' = [pc EXCEPT ![MainOf(c)] = "poll", ![InputOf(c)] = "loop"]
        BY <1>3, <3>2 DEF ClientAdmit
      <4>2. n # c => MainOf(n) # MainOf(c)  OBVIOUS
      <4> QED  BY <4>1, <4>2
    <3> QED  BY <3>1, <3>2
  <2> QED  BY <1>1, <2>1, <2>2, <2>3 DEF Answering
<1>4. CASE ClientServe(c)
  <2>1. Answering(c) /\ n # c
    BY <1>4 DEF ClientServe, Own, At, Answering
  <2>2. up' \subseteq up /\ status' = status
    BY <1>4 DEF ClientServe, FreeNode, nodes
  <2>3. pc'[MainOf(n)] = pc[MainOf(n)]
    <3>1. MainOf(n) # MainOf(c)  BY <2>1
    <3> QED  BY <1>4, <3>1 DEF ClientServe, Respond, Goto
  <2> QED  BY <1>1, <2>2, <2>3
<1>5. CASE ClientQuit(c)
  <2>1. up' = up /\ status' = status /\ pc'[MainOf(n)] \in {pc[MainOf(n)], "off"}
    BY <1>5 DEF ClientQuit, Exit, nodes
  <2> QED  BY <1>1, <2>1
<1>6. CASE InputLoop(c) \/ SigFree(c)
  <2>1. up' \subseteq up /\ status' = status /\ pc'[MainOf(n)] = pc[MainOf(n)]
    BY <1>6 DEF InputLoop, SigFree, Goto, nodes
  <2> QED  BY <1>1, <2>1
<1> QED  BY <1>2, <1>3, <1>4, <1>5, <1>6 DEF ClientStep, ClientMain

LEMMA ClientAsks ==
  ASSUME PlaceInv, TurnInv, TalkInv, NEW c \in Clients, ClientStep(c),
         UNCHANGED serverVars
  PROVE  AsksInv'
<1> USE ThreadFacts, TypeFacts
<1>0. clients' = clients  BY DEF serverVars, tables
<1>1. \A t \in Threads : Asking(t)' => Asking(t)
  <2>1. ASSUME NEW t \in Threads, Owner(t) = c, NodeStep(t), NEW u \in Threads, Asking(u)'
        PROVE  Asking(u)
    <3>1. Exit(c) \/ \E s : Goto(t, s)
      BY <2>1
      DEF NodeStep, SendCopy, SendClaim, SendPost, SendSpin, RespondCheck, RespondAttach,
          RespondReply, RespondRelease, RespondFinish, Fault
    <3>2. CASE Exit(c)
      BY <2>1, <3>2 DEF Exit, Asking
    <3>3. CASE ~Exit(c) /\ u # t
      BY <2>1, <3>1, <3>3 DEF Goto, Asking
    <3>4. CASE ~Exit(c) /\ u = t
      <4>1. Places(c) /\ Follows(c)
        BY DEF PlaceInv, WaitInv, FollowInv
      <4>2. t \in {MainOf(c), InputOf(c), SigOf(c)}
        BY <2>1, Roles
      <4>3. /\ pc[t] \in SendSteps => call[t].back \in {"admit", "loop", "free"}
            /\ pc[t] \in RespondSteps => call[t].back = "poll"
        BY <2>1, <4>1, <4>2, Responder DEF Places, Follows, SendSteps, RespondSteps
      <4> QED
        BY <2>1, <3>4, <4>3
        DEF NodeStep, SendCopy, SendClaim, SendPost, SendSpin, RespondCheck, RespondAttach,
            RespondReply, RespondRelease, RespondFinish, Fault, Asking, At, Own, Goto,
            SendSteps, RespondSteps
    <3> QED  BY <3>2, <3>3, <3>4
  <2>2. ASSUME ClientMain(c) \/ InputLoop(c) \/ SigFree(c), NEW u \in Threads, Asking(u)'
        PROVE  Asking(u)
    <3>1. CASE ClientAdmit(c)
      BY <2>2, <3>1 DEF ClientAdmit, Asking
    <3>2. CASE ClientServe(c)
      BY <2>2, <3>2 DEF ClientServe, Respond, Goto, Asking
    <3>3. CASE ClientQuit(c)
      BY <2>2, <3>3 DEF ClientQuit, Exit, Asking
    <3>4. CASE InputLoop(c) \/ SigFree(c)
      BY <2>2, <3>4 DEF InputLoop, SigFree, Goto, Asking
    <3> QED  BY <2>2, <3>1, <3>2, <3>3, <3>4 DEF ClientMain
  <2> QED  BY <2>1, <2>2 DEF ClientStep
<1>2. ASSUME NEW t \in Threads \ {server}, Asking(t)' PROVE AsksWell(t)'
  <2>1. Asking(t) /\ AsksWell(t)  BY <1>1, <1>2 DEF TalkInv, AsksInv
  <2>2. Owner(t) \in Clients  BY <1>2, Roles
  <2>3. CASE Ends(c)
    <3>1. Owner(t) # c  BY <1>2, <2>3 DEF Ends, Exit, Asking
    <3>2. /\ pc'[MainOf(Owner(t))] = pc[MainOf(Owner(t))] /\ call'[t] = call[t]
          /\ kill'[Owner(t)] = kill[Owner(t)]
      BY <2>2, <2>3, <3>1 DEF Ends, Exit
    <3> QED  BY <1>0, <2>1, <3>2 DEF AsksWell, Wants
  <2>4. CASE ~Ends(c)
    <3>1. SendCopy(t) \/ SendClaim(t) \/ SendPost(t)
      BY <1>2, <2>1, <2>4, UnderAsker
    <3>2. ~SendPost(t)
      BY <1>2 DEF SendPost, Goto, Asking
    <3>3. ~Exit(c)
      BY <1>2, <2>2, <2>4, <3>1, <3>2, UnderAsker, <2>1 DEF SendCopy, SendClaim, Exit, Asking
    <3>4. /\ pc[t] \in SendSteps /\ pc'[t] \in SendSteps /\ call' = call /\ kill' = kill
          /\ \A u \in Threads \ {t} : pc'[u] = pc[u]
      BY <1>2, <2>1, <2>4, <3>1, <3>2, <3>3, UnderAsker
      DEF SendCopy, SendClaim, Goto, At, Own, SendSteps
    <3>5. pc'[MainOf(Owner(t))] \in SendSteps <=> pc[MainOf(Owner(t))] \in SendSteps
      BY <2>2, <3>4
    <3>6. pc[MainOf(Owner(t))] = "off" => pc'[MainOf(Owner(t))] = "off"
      BY <2>2, <3>4 DEF SendSteps
    <3> QED  BY <1>0, <2>1, <3>4, <3>5, <3>6 DEF AsksWell, Wants
  <2> QED  BY <2>3, <2>4
<1> QED  BY <1>2 DEF AsksInv

\* The threads of other processes, and their orders to end, stay as they are.
LEMMA Apart ==
  ASSUME PlaceInv, NEW c \in Clients, ClientStep(c)
  PROVE  /\ \A u \in Threads : Owner(u) # c => pc'[u] = pc[u]
         /\ \A d \in Clients : d # c => kill'[d] = kill[d]
<1> USE ThreadFacts, TypeFacts
<1>1. ASSUME NEW t \in Threads, Owner(t) = c, NodeStep(t)
      PROVE  /\ \A u \in Threads : Owner(u) # c => pc'[u] = pc[u]
             /\ \A d \in Clients : d # c => kill'[d] = kill[d]
  <2>1. Exit(c) \/ (kill' = kill /\ \E s : Goto(t, s))
    BY <1>1
    DEF NodeStep, SendCopy, SendClaim, SendPost, SendSpin, RespondCheck, RespondAttach,
        RespondReply, RespondRelease, RespondFinish, Fault
  <2> QED  BY <1>1, <2>1 DEF Exit, Goto
<1>2. CASE ClientAdmit(c)
  BY <1>2 DEF ClientAdmit
<1>3. CASE ClientServe(c)
  BY <1>3 DEF ClientServe, Respond, Goto, Killed
<1>4. CASE ClientQuit(c)
  BY <1>4 DEF ClientQuit, Exit
<1>5. CASE InputLoop(c) \/ SigFree(c)
  BY <1>5 DEF InputLoop, SigFree, Goto
<1> QED  BY <1>1, <1>2, <1>3, <1>4, <1>5 DEF ClientStep, ClientMain

\* A request that has still to be answered stays where it is.
LEMMA RequestKept ==
  ASSUME PlaceInv, TurnInv, NEW c \in Clients, ClientStep(c),
         NEW n \in Names, Answering(n)
  PROVE  Requester(n)' = Requester(n)
<1> USE ThreadFacts, TypeFacts
<1>0. Turn(MainOf(n))  BY DEF Turn
<1>1. \/ buffer' = buffer
      \/ \E t \in Threads : /\ Owner(t) = c
                            /\ SendCopy(t) \/ RespondReply(t)
  BY DEF ClientStep, NodeStep, SendClaim, SendPost, SendSpin, RespondCheck,
         RespondAttach, RespondRelease, RespondFinish, Fault, ClientMain, ClientAdmit,
         ClientServe, ClientQuit, InputLoop, SigFree, FreeNode, nodes
<1>2. ASSUME NEW t \in Threads, SendCopy(t) PROVE FALSE
  <2>1. Turn(t) /\ pc[t] = "copy"  BY <1>2 DEF SendCopy, At, Asking, Turn
  <2>2. t = MainOf(n)  BY <1>0, <2>1, HolderAlone
  <2> QED  BY <2>1, <2>2 DEF Answering
<1>3. ASSUME NEW t \in Threads, Owner(t) = c, RespondReply(t)
      PROVE  Requester(n)' = Requester(n)
  <2>1. pc[t] = "reply" /\ t = MainOf(c)
    BY <1>3, Responder DEF RespondReply, At, RespondSteps
  <2>2. Answering(c) /\ AnswerOK(c)
    BY <2>1 DEF Answering, TurnInv
  <2>3. c = n  BY <1>0, <2>2, HolderAlone
  <2>4. call[t].peer # n
    BY <2>1, <2>2, <2>3 DEF AnswerOK
  <2>5. buffer' = [m \in Names |-> IF m = call[t].peer THEN call[t].msg ELSE buffer[m]]
    BY <1>3 DEF RespondReply
  <2> QED  BY <2>4, <2>5 DEF Requester
<1> QED  BY <1>1, <1>2, <1>3 DEF Requester

LEMMA ClientServes ==
  ASSUME PlaceInv, TurnInv, TalkInv, NEW c \in Clients, ClientStep(c),
         UNCHANGED serverVars
  PROVE  ServesInv'
<1> USE ThreadFacts, TypeFacts
<1>0. clients' = clients /\ created' = created /\ list' = list
  BY DEF serverVars, tables, cursor
<1>1. CASE Answering(Server)
  <2>1. Ends(c) /\ pc[MainOf(c)] = "poll"
    BY <1>1, UnderServer
  <2>2. ServesWell  BY <1>1 DEF TalkInv, ServesInv
  <2>3. PICK r \in Clients : r = Request.sender
    <3>1. AnswerOK(Server)  BY <1>1 DEF TurnInv
    <3> QED  BY <3>1 DEF AnswerOK, Requester, Request, Names
  <2>4. /\ pc'[server] = pc[server] /\ call'[server] = call[server]
        /\ Request' = Request /\ buffer' = buffer
        /\ r = c => pc'[MainOf(r)] = "off" /\ ~kill'[r] /\ pc[MainOf(r)] = "poll"
        /\ r # c => pc'[MainOf(r)] = pc[MainOf(r)] /\ kill'[r] = kill[r]
    BY <2>1, <2>3 DEF Ends, Exit, nodes, Request
  <2>5. /\ pc[MainOf(r)] \in SendSteps => pc'[MainOf(r)] \in SendSteps
        /\ pc[MainOf(r)] \notin SendSteps => pc'[MainOf(r)] \notin SendSteps
        /\ kill[r] \/ pc[MainOf(r)] = "off" => kill'[r] \/ pc'[MainOf(r)] = "off"
        /\ kill'[r] => kill[r]
    BY <2>4 DEF SendSteps
  <2>6. Wants(r, Request) => Wants(r, Request)'
    BY <1>0, <2>4, <2>5 DEF Wants
  <2>7. Joined(r, call[server].msg.type) => Joined(r, call[server].msg.type)'
    BY <1>0, <2>4 DEF Joined
  <2>8. ServesWell'
    BY <1>0, <2>2, <2>3, <2>4, <2>5, <2>6, <2>7 DEF ServesWell
  <2> QED  BY <2>8 DEF ServesInv
<1>2. CASE ~Answering(Server) /\ Answering(Server)'
  <2>1. PICK t \in Threads \ {server} : Owner(t) = c /\ SendPost(t) /\ call[t].peer = Server
    BY <1>2, NewRequest
  <2>2. Asking(t) /\ AskOK(t) /\ AsksWell(t) /\ pc[t] = "post"
    BY <2>1 DEF SendPost, At, Asking, TurnInv, TalkInv, AsksInv
  <2>3. Wants(c, Request) /\ Request.sender = c
    BY <2>1, <2>2 DEF AsksWell, AskOK, Request
  <2>4. /\ buffer' = buffer /\ kill' = kill
        /\ pc'[t] = "spin" /\ \A u \in Threads \ {t} : pc'[u] = pc[u]
    BY <2>1 DEF SendPost, Goto
  <2>5. pc'[server] = "poll"
    BY <1>2, <2>1, <2>4 DEF Answering, server
  <2>6. /\ pc'[MainOf(c)] \in SendSteps <=> pc[MainOf(c)] \in SendSteps
        /\ pc[MainOf(c)] = "off" => pc'[MainOf(c)] = "off"
    BY <2>2, <2>4 DEF SendSteps
  <2>7. Request' = Request  BY <2>4 DEF Request
  <2>8. Wants(c, Request)'
    BY <1>0, <2>3, <2>4, <2>6, <2>7 DEF Wants
  <2>9. ServesWell'
    BY <2>3, <2>5, <2>7, <2>8 DEF ServesWell, RespondSteps
  <2> QED  BY <2>9 DEF ServesInv
<1> QED  BY <1>1, <1>2 DEF ServesInv

LEMMA ClientPrivate ==
  ASSUME PlaceInv, TurnInv, TalkInv, NEW c \in Clients, ClientStep(c)
  PROVE  PrivateInv'
<1> USE ThreadFacts, TypeFacts
<1> SUFFICES ASSUME NEW n \in Clients, Answering(n)' PROVE PrivateWell(n)'
  BY DEF PrivateInv
<1>1. CASE ~Answering(n)
  <2>1. PICK t \in Threads \ {server} : Owner(t) = c /\ SendPost(t) /\ call[t].peer = n
    BY <1>1, NewRequest
  <2>2. Asking(t) /\ AskOK(t) /\ AsksWell(t) /\ pc[t] = "post"
    BY <2>1 DEF SendPost, At, Asking, TurnInv, TalkInv, AsksInv
  <2>3. t = InputOf(c) /\ ~kill[c] /\ Requester(n) = c
    BY <2>1, <2>2 DEF AsksWell, AskOK, Requester
  <2>4. pc'[t] = "spin" /\ kill' = kill /\ buffer' = buffer
    BY <2>1 DEF SendPost, Goto
  <2> QED  BY <2>3, <2>4 DEF PrivateWell, Requester
<1>2. CASE Answering(n)
  <2>1. AnswerOK(n) /\ PrivateWell(n) /\ Requester(n)' = Requester(n)
    BY <1>2, RequestKept DEF TurnInv, TalkInv, PrivateInv
  <2>2. CASE Requester(n) = Server
    BY <2>1, <2>2 DEF PrivateWell
  <2>3. CASE Requester(n) # Server
    <3> DEFINE r == Requester(n)
    <3>1. r \in Clients /\ r \in up /\ r # n /\ ~kill[r] /\ pc[InputOf(r)] = "spin"
      BY <2>1, <2>3 DEF AnswerOK, PrivateWell, Names
    <3>2. r # c
      <4>1. c # n => (c \in up => kill[c])
        BY <1>2, <2>3, UnderAnswerer
      <4> QED  BY <3>1, <4>1
    <3> HIDE DEF r
    <3>3. kill'[r] = kill[r] /\ pc'[InputOf(r)] = pc[InputOf(r)]
      BY <3>1, <3>2, Apart
    <3> QED  BY <2>1, <3>1, <3>3 DEF PrivateWell, r
  <2> QED  BY <2>2, <2>3
<1> QED  BY <1>1, <1>2

\* While anybody asks or answers, no main thread and no handler is on its way
\* from an answer to what follows it.
NoTail(d) ==
  /\ pc[MainOf(d)] # "admit" /\ ~Answered(d, MainOf(d))
  /\ pc[SigOf(d)] # "free" /\ ~Answered(d, SigOf(d))

LEMMA NoTails ==
  ASSUME PlaceInv, TurnInv,
         \/ \E u \in Threads : Asking(u)
         \/ \E n \in Names : Answering(n)
         \/ Spreading,
         NEW d \in Clients
  PROVE  NoTail(d)
<1> USE ThreadFacts
<1>1. ASSUME NEW t \in {MainOf(d), SigOf(d)},
             pc[t] \in {"admit", "free"} \/ Answered(d, t)
      PROVE  FALSE
  <2>1. t \in Threads /\ t # server /\ Owner(t) = d /\ t # InputOf(d) /\ pc[t] # "finish"
    BY <1>1 DEF Answered, server
  <2>2. Trailing(t)  BY <1>1, <2>1 DEF Trailing, Answered
  <2> QED  BY <2>1, <2>2, TrailAlone
<1> QED  BY <1>1 DEF NoTail

\* A step that sends nobody of d on, and that does not free the node of d.
LEMMA FitsKept ==
  ASSUME NEW d \in Clients, Fits(d), clients' = clients, Stuck => Stuck',
         pc'[MainOf(d)] = "admit" \/ Answered(d, MainOf(d))' =>
           /\ pc[MainOf(d)] = "admit" \/ Answered(d, MainOf(d))
           /\ buffer'[d] = buffer[d],
         pc'[SigOf(d)] = "free" \/ Answered(d, SigOf(d))' =>
           pc[SigOf(d)] = "free" \/ Answered(d, SigOf(d)),
         pc'[MainOf(d)] \in {"poll"} \cup RespondSteps /\ ~kill'[d] =>
           pc[MainOf(d)] \in {"poll"} \cup RespondSteps /\ ~kill[d],
         d \in up => d \in up'
  PROVE  Fits(d)'
  BY DEF Fits, Joined

\* The process of another client, when no buffer changes.
LEMMA FitsApart ==
  ASSUME PlaceInv, NEW c \in Clients, ClientStep(c), NEW d \in Clients, d # c,
         Fits(d), clients' = clients, Stuck => Stuck', buffer' = buffer,
         status'[d] = status[d] \/ status'[d] # "AVAILABLE",
         d \in up => d \in up'
  PROVE  Fits(d)'
<1> USE ThreadFacts
<1>1. /\ pc'[MainOf(d)] = pc[MainOf(d)] /\ pc'[SigOf(d)] = pc[SigOf(d)]
      /\ kill'[d] = kill[d]
  BY Apart
<1> QED  BY <1>1, FitsKept DEF Answered

LEMMA ClientNodeFits ==
  ASSUME PlaceInv, TurnInv, TalkInv, NEW c \in Clients, clients' = clients,
         Stuck => Stuck', NEW t \in Threads, Owner(t) = c, NodeStep(t),
         NEW d \in Clients
  PROVE  Fits(d)'
<1> USE ThreadFacts, TypeFacts
<1>0. /\ Fits(d) /\ Places(c) /\ Follows(c) /\ ClientStep(c)
      /\ t \in {MainOf(c), InputOf(c), SigOf(c)} /\ t # server
  BY Roles DEF TalkInv, FitsInv, PlaceInv, WaitInv, FollowInv, ClientStep
<1>1. CASE Ends(c)
  <2>1. CASE d = c
    <3>1. /\ pc'[MainOf(d)] = "off" /\ pc'[SigOf(d)] = "off" /\ up' = up
      BY <1>1, <2>1 DEF Ends, Exit, nodes
    <3> QED  BY <1>0, <3>1, FitsKept DEF Answered, RespondSteps
  <2>2. CASE d # c
    BY <1>0, <1>1, <2>2, FitsApart DEF Ends, nodes
  <2> QED  BY <2>1, <2>2
<1>2. CASE (SendCopy(t) \/ SendClaim(t) \/ SendPost(t)) /\ ~Ends(c)
  <2>1. Asking(t) /\ AskOK(t) /\ NoTail(d)
    BY <1>2, NoTails DEF SendCopy, SendClaim, SendPost, Own, At, Asking, TurnInv
  <2>2. /\ pc'[t] \in SendSteps /\ \A u \in Threads \ {t} : pc'[u] = pc[u]
        /\ kill' = kill /\ up' = up
    BY <1>2 DEF SendCopy, SendClaim, SendPost, Goto, Ends, nodes, SendSteps
  <2>3. status'[d] = status[d] \/ status'[d] # "AVAILABLE"
    BY <1>2 DEF SendCopy, SendClaim, SendPost
  <2>4. pc'[t] = "spin" => SendPost(t) /\ status[c] = "WAITING_FOR_RESPONSE"
    BY <1>2, <2>1 DEF SendCopy, SendClaim, SendPost, Goto, At, AskOK, Ends, nodes
  <2>5. pc'[t] = "spin" => status'[c] # "AVAILABLE"
    BY <2>4 DEF SendPost
  <2>6. ASSUME NEW u \in {MainOf(d), SigOf(d)}
        PROVE  ~Answered(d, u)' /\ pc'[u] \notin {"admit", "free"}
    <3>1. u \in Threads /\ Owner(u) = d /\ ~Answered(d, u) /\ pc[u] \notin {"admit", "free"}
      BY <2>1, <2>6 DEF NoTail, PlaceInv, Places, SendSteps, RespondSteps
    <3>2. CASE u = t
      BY <1>0, <2>2, <2>5, <3>1, <3>2 DEF Answered, SendSteps
    <3>3. CASE u # t
      BY <2>2, <2>3, <3>1, <3>3 DEF Answered
    <3> QED  BY <3>2, <3>3
  <2>7. pc'[MainOf(d)] \in {"poll"} \cup RespondSteps => pc'[MainOf(d)] = pc[MainOf(d)]
    BY <2>2 DEF SendSteps, RespondSteps
  <2> QED  BY <1>0, <2>2, <2>6, <2>7, FitsKept
<1>3. CASE SendSpin(t)
  <2>1. /\ pc[t] = "spin" /\ status[c] = "AVAILABLE"
        /\ pc'[t] = call[t].back /\ \A u \in Threads \ {t} : pc'[u] = pc[u]
        /\ up' = up /\ status' = status /\ buffer' = buffer /\ kill' = kill
    BY <1>3 DEF SendSpin, Own, At, Released, Goto, nodes
  <2>2. CASE d # c
    BY <1>0, <2>1, <2>2, FitsApart
  <2>3. CASE d = c
    <3>1. /\ t = MainOf(c) => call[t].back = "admit" /\ Answered(c, t)
          /\ t = SigOf(c) => call[t].back = "free" /\ Answered(c, t)
      BY <1>0, <2>1 DEF Places, Follows, SendSteps, Answered
    <3>2. /\ t # MainOf(c) => pc'[MainOf(c)] = pc[MainOf(c)]
          /\ t # SigOf(c) => pc'[SigOf(c)] = pc[SigOf(c)]
      BY <2>1
    <3>3. pc'[MainOf(c)] \in {"poll"} \cup RespondSteps => pc'[MainOf(c)] = pc[MainOf(c)]
      BY <1>0, <2>1, <3>1, <3>2 DEF RespondSteps
    <3> QED  BY <1>0, <2>1, <2>3, <3>1, <3>2, <3>3, FitsKept DEF Answered
  <2> QED  BY <2>2, <2>3
<1>4. CASE (RespondCheck(t) \/ RespondAttach(t) \/ RespondReply(t)) /\ ~Ends(c)
  <2>1. /\ pc[t] \in RespondSteps /\ t = MainOf(c) /\ Answering(c)
    BY <1>0, <1>4, Responder
    DEF RespondCheck, RespondAttach, RespondReply, Own, At, RespondSteps, Answering
  <2>2. NoTail(d)  BY <2>1, NoTails
  <2>3. /\ pc'[t] \in RespondSteps /\ \A u \in Threads \ {t} : pc'[u] = pc[u]
        /\ up' = up /\ status' = status /\ kill' = kill
    BY <1>4 DEF RespondCheck, RespondAttach, RespondReply, Goto, Ends, nodes, RespondSteps
  <2>4. /\ pc'[SigOf(d)] = pc[SigOf(d)]
        /\ \/ pc'[MainOf(d)] = pc[MainOf(d)]
           \/ pc[MainOf(d)] \in RespondSteps /\ pc'[MainOf(d)] \in RespondSteps
    BY <2>1, <2>3
  <2> QED  BY <1>0, <2>2, <2>3, <2>4, FitsKept DEF NoTail, Answered, RespondSteps
<1>5. CASE RespondRelease(t)
  <2>1. /\ pc[t] = "release" /\ t = MainOf(c) /\ Answering(c)
    BY <1>0, <1>5, Responder DEF RespondRelease, At, RespondSteps, Answering
  <2>2. NoTail(d) /\ AnswerOK(c) /\ PrivateWell(c)
    BY <2>1, NoTails DEF TurnInv, TalkInv, PrivateInv
  <2>3. /\ pc'[t] = "finish" /\ \A u \in Threads \ {t} : pc'[u] = pc[u]
        /\ up' = up /\ buffer' = buffer /\ kill' = kill
        /\ \A n \in Names : n # call[t].peer => status'[n] = status[n]
    BY <1>5 DEF RespondRelease, Goto
  <2>4. call[t].peer = Requester(c)
    BY <2>1, <2>2 DEF AnswerOK
  <2>5. d = Requester(c) => pc[MainOf(d)] # "spin" /\ pc[SigOf(d)] # "spin"
    <3> SUFFICES ASSUME d = Requester(c)
                 PROVE  pc[MainOf(d)] # "spin" /\ pc[SigOf(d)] # "spin"
      OBVIOUS
    <3>1. ~kill[d] /\ pc[InputOf(d)] = "spin"
      BY <2>2 DEF PrivateWell
    <3>2. Follows(d) /\ Handlers
      BY DEF PlaceInv, WaitInv, FollowInv, HoldInv
    <3> QED  BY <3>1, <3>2 DEF Follows, Handlers, RespondSteps
  <2>6. /\ pc'[SigOf(d)] = pc[SigOf(d)]
        /\ \/ pc'[MainOf(d)] = pc[MainOf(d)]
           \/ pc[MainOf(d)] = "release" /\ pc'[MainOf(d)] = "finish"
    BY <2>1, <2>3
  <2>7. ~Answered(d, MainOf(d))' /\ ~Answered(d, SigOf(d))'
    BY <2>2, <2>3, <2>4, <2>5, <2>6 DEF NoTail, Answered
  <2> QED  BY <1>0, <2>2, <2>3, <2>6, <2>7, FitsKept DEF NoTail, RespondSteps
<1>6. CASE RespondFinish(t)
  <2>1. /\ pc[t] = "finish" /\ t = MainOf(c) /\ call[t].back = "poll"
    BY <1>0, <1>6, Responder DEF RespondFinish, Own, At, RespondSteps, Follows
  <2>2. /\ pc'[t] = "poll" /\ \A u \in Threads \ {t} : pc'[u] = pc[u]
        /\ up' = up /\ buffer' = buffer /\ kill' = kill
        /\ \A n \in Names : n # c => status'[n] = status[n]
    BY <1>6, <2>1 DEF RespondFinish, Goto
  <2>3. CASE d # c
    BY <1>0, <2>2, <2>3, FitsApart
  <2>4. CASE d = c
    <3>1. pc[SigOf(c)] = "off" /\ pc'[SigOf(c)] = "off"
      BY <1>0, <2>1, <2>2 DEF Places
    <3> QED  BY <1>0, <2>1, <2>2, <2>4, <3>1, FitsKept DEF Answered, RespondSteps
  <2> QED  BY <2>3, <2>4
<1> QED
  BY <1>1, <1>2, <1>3, <1>4, <1>5, <1>6 DEF NodeStep, Fault, Ends

\* A client that is told to end by a private message leaves its sender stuck.
LEMMA ServeLeaves ==
  ASSUME PlaceInv, TurnInv, TalkInv, NEW c \in Clients, ClientServe(c),
         buffer[c].type = "LEAVE_GROUP"
  PROVE  Stuck'
<1> USE ThreadFacts, TypeFacts
<1>1. Answering(c) /\ AnswerOK(c) /\ PrivateWell(c) /\ Turn(MainOf(c))
      /\ pc[MainOf(c)] = "poll"
  BY DEF ClientServe, Own, At, Answering, TurnInv, TalkInv, PrivateInv, Turn
<1>2. Requester(c) # Server
  BY <1>1 DEF AnswerOK
<1>3. PICK r \in Clients : r = Requester(c)
  BY <1>1, <1>2 DEF AnswerOK, Names
<1>4. /\ r # c /\ r \in up /\ status[r] = "WAITING_FOR_RESPONSE"
      /\ ~kill[r] /\ pc[InputOf(r)] = "spin"
      /\ \A u \in Threads \ {MainOf(c)} : Rests(u) \/ Blocked(u, r)
  BY <1>1, <1>2, <1>3 DEF AnswerOK, PrivateWell
<1>5. /\ up' = up \ {c} /\ status' = status /\ pc' = pc
      /\ kill' = [kill EXCEPT ![c] = TRUE]
  BY DEF ClientServe, FreeNode, Killed
<1>6. pc[MainOf(r)] # "spin" /\ pc[SigOf(r)] # "spin"
  <2>1. Follows(r) /\ Handlers
    BY DEF PlaceInv, WaitInv, FollowInv, HoldInv
  <2> QED  BY <1>4, <2>1 DEF Follows, Handlers, RespondSteps
<1>7. \A u \in Threads \ {InputOf(r)} : Rests(u)
  <2>1. ASSUME NEW u \in Threads, u # InputOf(r), Blocked(u, r) PROVE FALSE
    <3>1. u \in {MainOf(r), SigOf(r)} /\ pc[u] = "spin"
      BY <2>1, Roles DEF Blocked
    <3> QED  BY <1>6, <3>1
  <2>2. Rests(MainOf(c))  BY <1>1 DEF Rests
  <2> QED  BY <1>4, <2>1, <2>2
<1>8. \A u \in Threads : ~Turn(u)'
  <2>1. /\ \A u \in Threads \ {MainOf(c)} : ~Asking(u)
        /\ \A n \in Names : n # c => ~Answering(n)
    BY <1>1, HolderAlone
  <2>2. /\ \A u \in Threads : ~Asking(u)'
        /\ \A n \in Names : ~Answering(n)'
    BY <1>1, <1>5, <2>1 DEF Asking, Answering
  <2>3. ~Proceeding'
    BY <1>5, <1>7, RestPlaces DEF Proceeding
  <2> QED  BY <2>2, <2>3 DEF Turn
<1>9. /\ pc'[InputOf(r)] = "spin" /\ status'[r] = "WAITING_FOR_RESPONSE"
      /\ ~kill'[r] /\ r \in up'
  BY <1>4, <1>5
<1>10. \A u \in Threads \ {InputOf(r)} : Rests(u)'
  BY <1>5, <1>7 DEF Rests
<1> QED  BY <1>8, <1>9, <1>10 DEF Stuck

LEMMA ClientMainFits ==
  ASSUME PlaceInv, TurnInv, TalkInv, NEW c \in Clients, clients' = clients,
         Stuck => Stuck', ClientMain(c) \/ InputLoop(c) \/ SigFree(c),
         NEW d \in Clients
  PROVE  Fits(d)'
<1> USE ThreadFacts, TypeFacts
<1>0. Fits(d) /\ Fits(c) /\ Places(c) /\ ClientStep(c)
  BY DEF TalkInv, FitsInv, PlaceInv, ClientStep
<1>1. ASSUME d # c, buffer' = buffer, status' = status, up' = up \/ up' = up \ {c}
      PROVE  Fits(d)'
  BY <1>0, <1>1, FitsApart
<1>2. CASE ClientAdmit(c)
  <2>1. /\ pc[MainOf(c)] = "admit" /\ buffer' = buffer /\ status' = status /\ kill' = kill
        /\ pc[SigOf(c)] = "off" /\ (up' = up \/ up' = up \ {c})
        /\ Joined(c, buffer[c].type)
    BY <1>0, <1>2 DEF ClientAdmit, Own, At, Fits, Places, RespondSteps
  <2>2. CASE d # c
    BY <1>1, <2>1, <2>2
  <2>3. CASE d = c /\ buffer[c].type = "LEAVE_GROUP"
    <3>1. pc'[MainOf(c)] = "off" /\ pc'[SigOf(c)] = "off"
      BY <1>2, <2>3 DEF ClientAdmit
    <3>2. clients'[c] = None
      BY <2>1, <2>3 DEF Joined
    <3> QED  BY <2>3, <3>1, <3>2 DEF Fits, Answered, RespondSteps
  <2>4. CASE d = c /\ buffer[c].type # "LEAVE_GROUP"
    <3>1. pc'[MainOf(c)] = "poll" /\ pc'[SigOf(c)] = "off" /\ up' = up
      BY <1>2, <2>1, <2>4 DEF ClientAdmit
    <3>2. clients'[c] # None
      BY <2>1, <2>4 DEF Joined
    <3> QED  BY <1>0, <2>4, <3>1, <3>2 DEF Fits, Answered, RespondSteps
  <2> QED  BY <2>2, <2>3, <2>4
<1>3. CASE ClientServe(c)
  <2>0. /\ pc[MainOf(c)] = "poll" /\ ~kill[c] /\ pc[SigOf(c)] = "off"
    BY <1>3, SuspendedFacts DEF ClientServe, Own, At
  <2>1. CASE buffer[c].type = "LEAVE_GROUP"
    <3>1. /\ up' = up \ {c} /\ status' = status /\ buffer' = buffer /\ pc' = pc
          /\ kill' = [kill EXCEPT ![c] = TRUE]
      BY <1>3, <2>1 DEF ClientServe, FreeNode, Killed
    <3>2. Stuck'  BY <1>3, <2>1, ServeLeaves
    <3>3. CASE d # c
      BY <1>1, <3>1, <3>3
    <3>4. CASE d = c
      BY <2>0, <3>1, <3>2, <3>4 DEF Fits, Answered
    <3> QED  BY <3>3, <3>4
  <2>2. CASE buffer[c].type # "LEAVE_GROUP"
    <3>1. /\ UNCHANGED nodes /\ kill' = kill
          /\ pc'[MainOf(c)] = "check" /\ pc'[SigOf(c)] = pc[SigOf(c)]
      BY <1>3, <2>2 DEF ClientServe, Respond, Goto
    <3>2. CASE d # c
      BY <1>1, <3>1, <3>2 DEF nodes
    <3>3. CASE d = c
      BY <1>0, <2>0, <3>1, <3>3, FitsKept DEF Answered, nodes
    <3> QED  BY <3>2, <3>3
  <2> QED  BY <2>1, <2>2
<1>4. CASE ClientQuit(c)
  <2>1. /\ UNCHANGED nodes /\ pc'[MainOf(c)] = "off" /\ pc'[SigOf(c)] = "off"
    BY <1>4 DEF ClientQuit, Exit
  <2>2. CASE d # c
    BY <1>1, <2>1, <2>2 DEF nodes
  <2>3. CASE d = c
    BY <1>0, <2>1, <2>3, FitsKept DEF Answered, nodes, RespondSteps
  <2> QED  BY <2>2, <2>3
<1>5. CASE InputLoop(c)
  <2>1. /\ UNCHANGED nodes /\ pc'[MainOf(d)] = pc[MainOf(d)] /\ pc'[SigOf(d)] = pc[SigOf(d)]
        /\ kill' = kill
    BY <1>5 DEF InputLoop, Goto
  <2> QED  BY <1>0, <2>1, FitsKept DEF Answered, nodes
<1>6. CASE SigFree(c)
  <2>1. /\ up' = up \ {c} /\ status' = status /\ buffer' = buffer /\ kill' = kill
        /\ pc[SigOf(c)] = "free" /\ pc'[SigOf(c)] = "off"
        /\ pc'[MainOf(c)] = pc[MainOf(c)]
    BY <1>6 DEF SigFree, Goto, Own, At
  <2>2. CASE d # c
    BY <1>1, <2>1, <2>2
  <2>3. CASE d = c
    <3>1. clients[c] = None  BY <1>0, <2>1 DEF Fits
    <3> QED  BY <1>0, <2>1, <2>3, <3>1 DEF Fits, Answered, Joined
  <2> QED  BY <2>2, <2>3
<1> QED  BY <1>2, <1>3, <1>4, <1>5, <1>6 DEF ClientMain

LEMMA ClientTalk ==
  ASSUME PlaceInv, TurnInv, TalkInv, SystemStep, NEW c \in Clients, ClientStep(c),
         UNCHANGED serverVars
  PROVE  TalkInv'
<1>1. Stuck => Stuck'  BY StuckStep
<1>2. clients' = clients  BY DEF serverVars, tables
<1>3. FitsInv'
  <2> SUFFICES ASSUME NEW d \in Clients PROVE Fits(d)'
    BY DEF FitsInv
  <2> QED  BY <1>1, <1>2, ClientNodeFits, ClientMainFits DEF ClientStep
<1>4. Present'
  <2>1. pc'[server] = pc[server] /\ Present
    BY ServerKept DEF TalkInv
  <2>2. up \ {c} \subseteq up'
    BY DEF ClientStep, NodeStep, SendCopy, SendClaim, SendPost, SendSpin, RespondCheck,
           RespondAttach, RespondReply, RespondRelease, RespondFinish, Fault, ClientMain,
           ClientAdmit, ClientServe, ClientQuit, InputLoop, SigFree, FreeNode, nodes
  <2> QED  BY <2>1, <2>2, ThreadFacts DEF Present
<1> QED
  BY <1>3, <1>4, ClientKeeps, ClientAsks, ClientServes, ClientPrivate DEF TalkInv

-----------------------------------------------------------------------------
(* Steps of the server *)

\* In the steps of the server, the threads of the clients stay where they are.
ServerMoves ==
  /\ up' = up /\ kill' = kill
  /\ \A u \in Threads \ {server} : pc'[u] = pc[u] /\ call'[u] = call[u]

LEMMA ServerQuiet ==
  ASSUME PlaceInv, TurnInv, TalkInv, Turn(server), ServerMoves,
         \A n \in Clients : status'[n] = status[n] \/ status'[n] = "AVAILABLE"
  PROVE  AsksInv' /\ PrivateInv' /\ Present'
<1> USE ThreadFacts
<1>1. \A t \in Threads \ {server} : ~Asking(t)'
  BY HolderAlone DEF ServerMoves, Asking
<1>2. \A n \in Clients : ~Answering(n)'
  <2> SUFFICES ASSUME NEW n \in Clients PROVE ~Answering(n)'
    OBVIOUS
  <2>1. ~Answering(n) /\ pc'[MainOf(n)] = pc[MainOf(n)]
    BY HolderAlone DEF ServerMoves, server
  <2> QED  BY <2>1 DEF ServerMoves, Answering
<1>3. Server \in up
  <2>1. pc[server] \notin {"off", "poll"} \/ Server \in up
    BY DEF Turn, Asking, Answering, Proceeding, server
  <2> QED  BY <2>1 DEF TalkInv, Present
<1> QED  BY <1>1, <1>2, <1>3 DEF AsksInv, PrivateInv, Present, ServerMoves

LEMMA ServerFits ==
  ASSUME PlaceInv, TalkInv, ServerMoves, NEW d \in Clients, clients' = clients,
         Stuck => Stuck',
         status'[d] = status[d] \/ status'[d] # "AVAILABLE",
         buffer'[d] = buffer[d] \/ NoTail(d)
  PROVE  Fits(d)'
<1> USE ThreadFacts
<1>1. Fits(d)  BY DEF TalkInv, FitsInv
<1>2. /\ pc'[MainOf(d)] = pc[MainOf(d)] /\ pc'[SigOf(d)] = pc[SigOf(d)]
      /\ kill'[d] = kill[d] /\ up' = up
  BY DEF ServerMoves, server
<1> QED  BY <1>1, <1>2, FitsKept DEF Answered, NoTail

\* The books depend on the request only between the two updates of a join.
LEMMA BooksKept ==
  ASSUME Books, UNCHANGED tables, pc[server] # "enroll", pc'[server] # "enroll"
  PROVE  Books'
<1>1. \A s, g : ~Joining(s, g) /\ ~Joining(s, g)'
  BY DEF Joining
<1>2. Registered' = Registered
  BY DEF tables, Registered
<1> QED  BY <1>1, <1>2 DEF Books, tables

\* The server's process ends.
LEMMA ServerEnds ==
  ASSUME PlaceInv, TurnInv, TalkInv, Ends(Server), UNCHANGED serverVars,
         pc[server] # "enroll", Stuck => Stuck'
  PROVE  TalkInv'
<1> USE ThreadFacts
<1>1. /\ up' = up /\ status' = status /\ buffer' = buffer
      /\ pc'[server] = "off"
      /\ \A u \in Threads \ {server} : pc'[u] = pc[u] /\ call'[u] = call[u]
      /\ kill' = kill
  <2>1. kill \in [Clients -> BOOLEAN]  BY TypeFacts
  <2>2. kill' = [c \in Clients |-> kill[c]]
    <3>1. \A c \in Clients : (kill[c] /\ c # Server) = kill[c]
      BY <2>1
    <3> QED  BY <3>1 DEF Ends, Exit
  <2>3. kill' = kill  BY <2>1, <2>2
  <2> QED  BY <2>3 DEF Ends, Exit, nodes
<1>2. ServerMoves  BY <1>1 DEF ServerMoves
<1>3. clients' = clients /\ UNCHANGED tables
  BY DEF serverVars, tables
<1>4. AsksInv'
  <2> SUFFICES ASSUME NEW t \in Threads \ {server}, Asking(t)' PROVE AsksWell(t)'
    BY DEF AsksInv
  <2>1. Asking(t) /\ AsksWell(t)
    BY <1>1 DEF Asking, TalkInv, AsksInv
  <2>2. Owner(t) \in Clients /\ pc'[MainOf(Owner(t))] = pc[MainOf(Owner(t))]
    BY <1>1, Roles DEF server
  <2> QED  BY <1>1, <1>3, <2>1, <2>2 DEF AsksWell, Wants
<1>5. PrivateInv'
  <2> SUFFICES ASSUME NEW n \in Clients, Answering(n)' PROVE PrivateWell(n)'
    BY DEF PrivateInv
  <2>1. Answering(n) /\ PrivateWell(n) /\ AnswerOK(n)
    BY <1>1 DEF Answering, TalkInv, PrivateInv, server, TurnInv
  <2>2. Requester(n)' = Requester(n)
    BY <1>1 DEF Requester
  <2>3. Requester(n) # Server => InputOf(Requester(n)) \in Threads \ {server}
    BY <2>1 DEF AnswerOK, Names, server, PlaceInv, HoldInv, TypeOK
  <2> QED  BY <1>1, <2>1, <2>2, <2>3 DEF PrivateWell
<1>6. FitsInv'
  BY <1>1, <1>2, <1>3, ServerFits DEF FitsInv
<1>7. ServesInv' /\ Remembers' /\ WalkInv' /\ Present'
  BY <1>1 DEF ServesInv, Answering, server, Remembers, Logging, Awaiting, RespondSteps,
     WalkInv, Walking, SendSteps, Present
<1>8. Books'
  BY <1>1, <1>3, BooksKept DEF TalkInv
<1> QED  BY <1>4, <1>5, <1>6, <1>7, <1>8 DEF TalkInv

\* A member of the group the server walks over runs, or its process has ended
\* with its node up: the node of a member is there.
LEMMA MemberUp ==
  ASSUME PlaceInv, TalkInv, Walking, Turn(server), NEW d \in ToSet(groups[list])
  PROVE  d \in Clients /\ d \in up
<1> USE ThreadFacts
<1>1. WalkOK /\ Books /\ pc[server] # "enroll"
  BY DEF TalkInv, WalkInv, Walking, SendSteps
<1>2. d \in Clients /\ clients[d] = list /\ list # None
  BY <1>1, Members DEF WalkOK
<1>3. ~Stuck  BY DEF Stuck
<1> QED  BY <1>2, <1>3 DEF TalkInv, FitsInv, Fits

\* A forward of a broadcast: the copy, the claim, the post and the wait.
LEMMA ServerSends ==
  ASSUME PlaceInv, TurnInv, TalkInv, UNCHANGED serverVars, Stuck => Stuck',
         SendCopy(server) \/ SendClaim(server) \/ SendPost(server) \/ SendSpin(server)
  PROVE  TalkInv'
<1> USE ThreadFacts, TypeFacts
<1>1. /\ pc[server] \in SendSteps /\ Turn(server) /\ Walking
      /\ call[server].back = "forward"
  BY DEF SendCopy, SendClaim, SendPost, SendSpin, Own, At, Turn, Asking, Proceeding,
         Released, Walking, SendSteps, PlaceInv, ServerInv, TypeInv, ServerCalls
<1>2. WalkOK /\ Books  BY <1>1 DEF TalkInv, WalkInv
<1>3. /\ clients' = clients /\ UNCHANGED tables
      /\ groups' = groups /\ list' = list /\ todo' = todo
  BY DEF serverVars, tables, cursor
<1>4. SendCopy(server) => CanAttach(call[server].peer) /\ ~Exit(Server)
  <2> SUFFICES ASSUME SendCopy(server) PROVE CanAttach(call[server].peer) /\ ~Exit(Server)
    OBVIOUS
  <2>1. pc[server] = "copy"  BY DEF SendCopy, At
  <2>2. call[server].peer \in up
    BY <1>1, <1>2, <2>1, MemberUp DEF WalkOK
  <2>3. pc'[server] = "claim"
    BY <2>2 DEF SendCopy, CanAttach, Goto
  <2> QED  BY <2>2, <2>3 DEF CanAttach, Exit
<1>5. /\ pc'[server] \in {"claim", "post", "spin", "forward"}
      /\ \A u \in Threads \ {server} : pc'[u] = pc[u] /\ call'[u] = call[u]
      /\ call'[server].msg = call[server].msg /\ call'[server].back = "forward"
      /\ up' = up /\ kill' = kill
  <2>1. call[server] \in Calls /\ call \in [Threads -> Calls] /\ pc \in [Threads -> Steps]
    OBVIOUS
  <2>2. CASE SendPost(server)
    <3>1. call' = [call EXCEPT ![server].peer = None] /\ pc' = [pc EXCEPT ![server] = "spin"]
          /\ up' = up /\ kill' = kill
      BY <2>2 DEF SendPost, Goto
    <3>2. /\ call'[server].msg = call[server].msg
          /\ call'[server].back = call[server].back
          /\ \A u \in Threads \ {server} : call'[u] = call[u]
      BY <2>1, <3>1 DEF Calls
    <3> QED  BY <1>1, <2>1, <3>1, <3>2
  <2>3. CASE ~SendPost(server)
    <3>1. call' = call /\ up' = up /\ kill' = kill
          /\ \E x \in {"claim", "post", "forward"} : Goto(server, x)
      BY <1>1, <1>4, <2>3 DEF SendCopy, SendClaim, SendSpin, nodes
    <3> QED  BY <1>1, <2>1, <3>1 DEF Goto
  <2> QED  BY <2>2, <2>3
<1>6. ServerMoves  BY <1>5 DEF ServerMoves
<1>7. \A n \in Clients : status'[n] # status[n] => /\ SendPost(server)
                                                   /\ n = call[server].peer
                                                   /\ status'[n] = "RECIEVED_MESSAGE"
  BY DEF SendCopy, SendClaim, SendPost, SendSpin, nodes
<1>8. \A n \in Clients : buffer'[n] # buffer[n] => SendCopy(server)
  BY DEF SendCopy, SendClaim, SendPost, SendSpin, nodes
<1>9. AsksInv' /\ PrivateInv' /\ Present'
  <2>1. CASE SendPost(server)
    <3>1. \A t \in Threads \ {server} : ~Asking(t)'
      BY <1>1, <1>5, HolderAlone DEF Asking
    <3>2. ASSUME NEW n \in Clients, Answering(n)' PROVE PrivateWell(n)'
      <4>1. ~Answering(n) /\ pc'[MainOf(n)] = pc[MainOf(n)]
        BY <1>1, <1>5, HolderAlone DEF server
      <4>2. n = call[server].peer
        BY <1>5, <1>7, <3>2, <4>1 DEF Answering
      <4>3. AskOK(server) /\ pc[server] = "post"
        BY <2>1 DEF SendPost, At, Asking, TurnInv
      <4>4. Requester(n)' = Server
        BY <2>1, <4>2, <4>3 DEF AskOK, Requester, SendPost
      <4> QED  BY <4>4 DEF PrivateWell
    <3>3. Server \in up'
      BY <1>1, <1>5 DEF TalkInv, Present, SendSteps
    <3> QED  BY <3>1, <3>2, <3>3 DEF AsksInv, PrivateInv, Present
  <2>2. CASE ~SendPost(server)
    BY <1>1, <1>6, <1>7, <2>2, ServerQuiet
  <2> QED  BY <2>1, <2>2
<1>10. FitsInv'
  <2> SUFFICES ASSUME NEW d \in Clients PROVE Fits(d)'
    BY DEF FitsInv
  <2>1. SendCopy(server) => NoTail(d)
    BY NoTails DEF SendCopy, At, Asking
  <2> QED  BY <1>3, <1>6, <1>7, <1>8, <2>1, ServerFits
<1>11. ServesInv' /\ Remembers'
  BY <1>5 DEF ServesInv, Answering, server, Remembers, Logging, Awaiting, RespondSteps
<1>12. Books'
  BY <1>1, <1>2, <1>3, <1>5, BooksKept DEF SendSteps
<1>13. WalkInv'
  <2>1. ASSUME NEW d \in ToSet(groups[list]) \ ToSet(todo) PROVE Reached(d)'
    <3>1. Reached(d) /\ d \in Clients /\ d \in Names
      BY <1>1, <1>2, <2>1, MemberUp DEF WalkOK
    <3>2. pc'[MainOf(d)] = pc[MainOf(d)]  BY <1>5, <3>1 DEF server
    <3>3. CASE SendCopy(server)
      <4>1. buffer' = [buffer EXCEPT ![call[server].peer] = call[server].msg]
        BY <1>4, <3>3 DEF SendCopy
      <4> QED  BY <1>5, <3>1, <3>2, <4>1 DEF Reached
    <3>4. CASE ~SendCopy(server)
      <4>1. pc[server] # "copy"
        BY <3>4 DEF SendClaim, SendPost, SendSpin, Own, At
      <4> QED  BY <1>5, <1>8, <3>1, <3>2, <3>4, <4>1 DEF Reached
    <3> QED  BY <3>3, <3>4
  <2>2. WalkOK'
    BY <1>2, <1>3, <1>5, <2>1 DEF WalkOK
  <2>3. Walking'  BY <1>5 DEF Walking, SendSteps
  <2> QED  BY <2>2, <2>3 DEF WalkInv
<1> QED  BY <1>9, <1>10, <1>11, <1>12, <1>13 DEF TalkInv

\* The facts about a request that the server answers.
LEMMA ServerAnswers ==
  ASSUME PlaceInv, TurnInv, TalkInv, Answering(Server)
  PROVE  /\ Turn(server) /\ AnswerOK(Server) /\ ServesWell
         /\ Request.sender \in Clients /\ Request.sender \in up
         /\ \A d \in Clients : NoTail(d)
         /\ ~Walking /\ (todo = <<>>)
<1> USE ThreadFacts
<1>1. /\ Turn(server) /\ AnswerOK(Server) /\ ServesWell
  BY DEF Turn, server, TurnInv, TalkInv, ServesInv
<1>2. Request.sender \in Clients /\ Request.sender \in up
  BY <1>1 DEF AnswerOK, Requester, Request, Names, PlaceInv, HoldInv, TypeOK
<1>3. pc[server] \notin {"off", "forward"} \cup SendSteps
  BY DEF Answering, server, SendSteps
<1>4. ~Walking /\ todo = <<>>
  BY <1>3 DEF Walking, TalkInv, WalkInv
<1>5. \A d \in Clients : NoTail(d)  BY NoTails
<1> QED  BY <1>1, <1>2, <1>4, <1>5

\* The server's answer, up to the copy into the node of the requester.
LEMMA ServerResponds ==
  ASSUME PlaceInv, TurnInv, TalkInv, UNCHANGED serverVars, Stuck => Stuck',
         RespondCheck(server) \/ RespondAttach(server) \/ RespondReply(server)
  PROVE  TalkInv'
<1> USE ThreadFacts, TypeFacts
<1>1. /\ Answering(Server) /\ pc[server] \in {"check", "attach", "reply"}
  BY DEF RespondCheck, RespondAttach, RespondReply, Own, At, Answering, server
<1>2. PICK r \in Clients : r = Request.sender
  BY <1>1, ServerAnswers
<1>3. /\ Turn(server) /\ AnswerOK(Server) /\ ServesWell
      /\ \A d \in Clients : NoTail(d)
      /\ ~Walking /\ (todo = <<>>)
  BY <1>1, ServerAnswers
<1>4. Requester(Server) = r /\ r # Server
  BY <1>2 DEF Requester, Request
<1>5. /\ clients' = clients /\ UNCHANGED tables
      /\ list' = list /\ todo' = todo /\ client_count' = client_count /\ created' = created
  BY DEF serverVars, tables, cursor
<1>6. /\ ~RespondReply(server) => buffer' = buffer
      /\ RespondReply(server) => buffer' = [n \in Names |-> IF n = r THEN call[server].msg
                                                                     ELSE buffer[n]]
      /\ up' = up /\ status' = status /\ kill' = kill
      /\ pc'[server] \in {"attach", "reply", "release"}
      /\ pc'[server] = "release" <=> RespondReply(server)
      /\ call'[server].msg = call[server].msg /\ call'[server].back = call[server].back
      /\ \A u \in Threads \ {server} : pc'[u] = pc[u] /\ call'[u] = call[u]
  <2>1. CASE RespondCheck(server)
    <3>1. status[Server] = "RECIEVED_MESSAGE"  BY <1>3 DEF AnswerOK
    <3>2. UNCHANGED nodes /\ Goto(server, "attach") /\ UNCHANGED <<call, kill>>
      BY <2>1, <3>1 DEF RespondCheck
    <3>3. ~RespondReply(server)  BY <2>1 DEF RespondCheck, RespondReply, Own, At
    <3> QED  BY <3>2, <3>3 DEF Goto, nodes
  <2>2. CASE RespondAttach(server)
    <3>1. Waits(r)  BY <1>3, <1>4 DEF AnswerOK, Waits, CanAttach
    <3>2. /\ UNCHANGED nodes /\ Goto(server, "reply") /\ UNCHANGED kill
          /\ call' = [call EXCEPT ![server].peer = r]
      BY <1>4, <2>2, <3>1 DEF RespondAttach
    <3>3. ~RespondReply(server)  BY <2>2 DEF RespondAttach, RespondReply, Own, At
    <3>4. /\ call'[server].msg = call[server].msg
          /\ call'[server].back = call[server].back
          /\ \A u \in Threads \ {server} : call'[u] = call[u]
      BY <3>2 DEF Calls
    <3> QED  BY <3>2, <3>3, <3>4 DEF Goto, nodes
  <2>3. CASE RespondReply(server)
    <3>1. call[server].peer = r
      BY <1>3, <1>4, <2>3 DEF AnswerOK, RespondReply, At, server
    <3> QED  BY <2>3, <3>1 DEF RespondReply, Goto
  <2> QED  BY <2>1, <2>2, <2>3
<1>7. ServerMoves /\ Request' = Request
  BY <1>4, <1>6 DEF ServerMoves, Request
<1>8. AsksInv' /\ PrivateInv' /\ Present'
  BY <1>3, <1>6, <1>7, ServerQuiet
<1>9. FitsInv'
  BY <1>3, <1>5, <1>6, <1>7, ServerFits DEF FitsInv
<1>10. ServesInv'
  <2>1. pc'[MainOf(r)] = pc[MainOf(r)] /\ kill'[r] = kill[r]
    BY <1>4, <1>6 DEF server
  <2>2. pc[server] \in RespondSteps /\ pc'[server] \in RespondSteps
    BY <1>1, <1>6 DEF RespondSteps
  <2>3. pc'[server] = "release" => buffer'[r] = call'[server].msg
    BY <1>6
  <2>4. ServesWell'
    BY <1>2, <1>3, <1>5, <1>6, <1>7, <2>1, <2>2, <2>3 DEF ServesWell, Joined
  <2> QED  BY <2>4 DEF ServesInv
<1>11. Remembers'
  <2>1. (Logging' => Logging) /\ (Awaiting' => Awaiting)
    BY <1>1, <1>6 DEF Logging, Awaiting, RespondSteps
  <2>2. Remembers  BY DEF TalkInv
  <2> QED  BY <1>5, <1>7, <2>1, <2>2 DEF Remembers
<1>12. Books'
  BY <1>1, <1>5, <1>6, BooksKept DEF TalkInv
<1>13. WalkInv'
  BY <1>3, <1>5, <1>6 DEF WalkInv, Walking, SendSteps
<1> QED  BY <1>8, <1>9, <1>10, <1>11, <1>12, <1>13 DEF TalkInv

\* The release: the requester finds an answer that fits the tables.
LEMMA ServerReleases ==
  ASSUME PlaceInv, TurnInv, TalkInv, UNCHANGED serverVars, Stuck => Stuck',
         RespondRelease(server)
  PROVE  TalkInv'
<1> USE ThreadFacts, TypeFacts
<1>1. Answering(Server) /\ pc[server] = "release"
  BY DEF RespondRelease, At, Answering, server
<1>2. PICK r \in Clients : r = Request.sender
  BY <1>1, ServerAnswers
<1>3. /\ Turn(server) /\ AnswerOK(Server) /\ ServesWell
      /\ \A d \in Clients : NoTail(d)
      /\ ~Walking /\ (todo = <<>>)
  BY <1>1, ServerAnswers
<1>4. Requester(Server) = r /\ r # Server /\ call[server].peer = r
  <2>1. Requester(Server) = r  BY <1>2 DEF Requester, Request
  <2> QED  BY <1>1, <1>3, <2>1 DEF AnswerOK, server
<1>5. /\ clients' = clients /\ UNCHANGED tables
      /\ list' = list /\ todo' = todo /\ client_count' = client_count /\ created' = created
  BY DEF serverVars, tables, cursor
<1>6. /\ buffer' = buffer /\ up' = up /\ kill' = kill /\ pc'[server] = "finish"
      /\ status' = [n \in Names |-> IF n = r THEN "AVAILABLE" ELSE status[n]]
      /\ call'[server].back = call[server].back
      /\ \A u \in Threads \ {server} : pc'[u] = pc[u] /\ call'[u] = call[u]
  <2>1. /\ call' = [call EXCEPT ![server].peer = None]
    BY DEF RespondRelease
  <2>2. /\ call'[server].back = call[server].back
        /\ \A u \in Threads \ {server} : call'[u] = call[u]
    BY <2>1 DEF Calls
  <2> QED  BY <1>4, <2>2 DEF RespondRelease, Goto
<1>7. ServerMoves /\ Request' = Request
  BY <1>6 DEF ServerMoves, Request
<1>8. AsksInv' /\ PrivateInv' /\ Present'
  BY <1>3, <1>6, <1>7, ServerQuiet
<1>9. FitsInv'
  <2> SUFFICES ASSUME NEW d \in Clients PROVE Fits(d)'
    BY DEF FitsInv
  <2>1. CASE d # r
    BY <1>5, <1>6, <1>7, <2>1, ServerFits
  <2>2. CASE d = r
    <3>1. Fits(r) /\ Places(r) /\ NoTail(r) /\ Handlers
      BY <1>3 DEF TalkInv, FitsInv, PlaceInv, HoldInv
    <3>2. /\ pc'[MainOf(r)] = pc[MainOf(r)] /\ pc'[SigOf(r)] = pc[SigOf(r)]
          /\ kill'[r] = kill[r]
      BY <1>4, <1>6 DEF server
    <3>3. CASE call[server].back = "log"
      <4>1. pc[MainOf(r)] \in SendSteps /\ Joined(r, buffer[r].type)
        BY <1>1, <1>2, <1>3, <3>3 DEF ServesWell, RespondSteps
      <4>2. pc[SigOf(r)] = "off"
        BY <3>1, <4>1 DEF Places, SendSteps
      <4>3. pc[MainOf(r)] \notin {"poll"} \cup RespondSteps
        BY <4>1 DEF SendSteps, RespondSteps
      <4>4. Joined(r, buffer[r].type)'
        BY <1>5, <1>6, <4>1 DEF Joined
      <4>5. clients'[r] # None => r \in up' \/ Stuck'
        BY <1>5, <1>6, <3>1 DEF Fits
      <4> QED
        BY <2>2, <3>2, <4>2, <4>3, <4>4, <4>5 DEF Fits, Answered
    <3>4. CASE call[server].back # "log"
      <4>1. pc[MainOf(r)] \notin SendSteps /\ (kill[r] => clients[r] = None)
        BY <1>1, <1>2, <1>3, <3>4 DEF ServesWell, RespondSteps
      <4>2. pc'[MainOf(r)] # "admit" /\ ~Answered(r, MainOf(r))'
        BY <3>1, <3>2, <4>1 DEF NoTail, Answered, SendSteps
      <4>3. pc'[SigOf(r)] = "free" \/ Answered(r, SigOf(r))' => clients'[r] = None
        BY <1>5, <3>1, <3>2, <4>1 DEF Handlers, Answered
      <4>4. /\ pc'[MainOf(r)] \in {"poll"} \cup RespondSteps /\ ~kill'[r] => clients'[r] # None
            /\ clients'[r] # None => r \in up' \/ Stuck'
        BY <1>5, <1>6, <3>1, <3>2 DEF Fits
      <4> QED
        BY <2>2, <4>2, <4>3, <4>4 DEF Fits
    <3> QED  BY <3>3, <3>4
  <2> QED  BY <2>1, <2>2
<1>10. ServesInv'
  BY <1>6 DEF ServesInv, Answering, server
<1>11. Remembers'
  <2>1. (Logging' => Logging) /\ (Awaiting' => Awaiting)
    BY <1>1, <1>6 DEF Logging, Awaiting, RespondSteps
  <2>2. Remembers  BY DEF TalkInv
  <2> QED  BY <1>5, <1>7, <2>1, <2>2 DEF Remembers
<1>12. Books'
  BY <1>1, <1>5, <1>6, BooksKept DEF TalkInv
<1>13. WalkInv'
  BY <1>3, <1>5, <1>6 DEF WalkInv, Walking, SendSteps
<1> QED  BY <1>8, <1>9, <1>10, <1>11, <1>12, <1>13 DEF TalkInv

\* The server goes on after its answer.
LEMMA ServerFinishes ==
  ASSUME PlaceInv, TurnInv, TalkInv, UNCHANGED serverVars, Stuck => Stuck',
         RespondFinish(server)
  PROVE  TalkInv'
<1> USE ThreadFacts, TypeFacts
<1>1. /\ pc[server] = "finish" /\ Turn(server)
      /\ call[server].back \in {"log", "await", "poll"}
  BY DEF RespondFinish, Own, At, Turn, Proceeding, PlaceInv, ServerInv, TypeInv,
         ServerCalls, RespondSteps
<1>2. /\ clients' = clients /\ UNCHANGED tables
      /\ list' = list /\ todo' = todo /\ client_count' = client_count /\ created' = created
  BY DEF serverVars, tables, cursor
<1>3. /\ buffer' = buffer /\ up' = up /\ kill' = kill /\ pc'[server] = call[server].back
      /\ status' = [status EXCEPT ![Server] = "AVAILABLE"]
      /\ \A u \in Threads \ {server} : pc'[u] = pc[u] /\ call'[u] = call[u]
  BY DEF RespondFinish, Goto
<1>4. ServerMoves /\ Request' = Request
  BY <1>3 DEF ServerMoves, Request
<1>5. AsksInv' /\ PrivateInv' /\ Present'
  BY <1>1, <1>3, <1>4, ServerQuiet
<1>6. FitsInv'
  BY <1>2, <1>3, <1>4, ServerFits DEF FitsInv
<1>7. ServesInv'
  BY <1>1, <1>3 DEF ServesInv, Answering, server
<1>8. Remembers'
  <2>1. (Logging' => Logging) /\ (Awaiting' => Awaiting)
    BY <1>1, <1>3 DEF Logging, Awaiting, RespondSteps
  <2>2. Remembers  BY DEF TalkInv
  <2> QED  BY <1>2, <1>4, <2>1, <2>2 DEF Remembers
<1>9. Books'
  BY <1>1, <1>2, <1>3, BooksKept DEF TalkInv
<1>10. WalkInv'
  <2>1. pc'[server] = "off" \/ (todo' = <<>> /\ ~Walking')
    BY <1>1, <1>2, <1>3 DEF TalkInv, WalkInv, Walking, SendSteps
  <2> QED  BY <1>1, <1>3, <2>1 DEF WalkInv, Walking
<1> QED  BY <1>5, <1>6, <1>7, <1>8, <1>9, <1>10 DEF TalkInv

LEMMA ServerNodeTalk ==
  ASSUME PlaceInv, TurnInv, TalkInv, SystemStep, NodeStep(server), UNCHANGED serverVars
  PROVE  TalkInv'
<1>1. Stuck => Stuck'  BY StuckStep
<1>2. CASE Fault(server)
  <2>1. Ends(Server) /\ Server \notin up /\ pc[server] # "off"
    BY <1>2, ThreadFacts DEF Fault, Ends, OwnSteps
  <2>2. pc[server] = "poll"  BY <2>1 DEF TalkInv, Present
  <2> QED  BY <1>1, <2>1, <2>2, ServerEnds
<1> QED
  BY <1>1, <1>2, ServerSends, ServerResponds, ServerReleases, ServerFinishes DEF NodeStep

\* The steps of the server's loop leave the nodes alone.
LEMMA LoopMoves ==
  ASSUME PlaceInv, UNCHANGED <<nodes, kill>>,
         \/ \E s : Goto(server, s) /\ \E k : call' = [call EXCEPT ![server] = k]
         \/ \E s : Goto(server, s) /\ UNCHANGED call
         \/ \E m, b : Respond(server, m, b)
         \/ \E to, m, b : Send(server, to, m, b)
  PROVE  ServerMoves
<1> USE ThreadFacts, TypeFacts
<1> QED  BY DEF ServerMoves, Goto, Respond, Send, nodes

LEMMA LoopKeeps ==
  ASSUME PlaceInv, TurnInv, TalkInv, Turn(server), ServerMoves, UNCHANGED nodes,
         Stuck => Stuck'
  PROVE  /\ AsksInv' /\ PrivateInv' /\ Present'
         /\ \A d \in Clients : clients' = clients => Fits(d)'
<1>1. /\ status' = status /\ buffer' = buffer
  BY DEF nodes
<1>2. AsksInv' /\ PrivateInv' /\ Present'
  BY <1>1, ServerQuiet
<1>3. \A d \in Clients : clients' = clients => Fits(d)'
  BY <1>1, ServerFits
<1> QED  BY <1>2, <1>3

\* The request in hand is one that a client may make.
LEMMA HandledFacts ==
  ASSUME PlaceInv, TurnInv, TalkInv, NEW ty, Handles(ty)
  PROVE  /\ Answering(Server) /\ pc[server] = "poll" /\ Request.type = ty
         /\ Wants(Request.sender, Request)
<1>1. Answering(Server) /\ pc[server] = "poll" /\ Request.type = ty
  BY ThreadFacts DEF Handles, Own, At, Answering, server
<1> QED  BY <1>1, ServerAnswers DEF ServesWell

\* What the server does first with a request that it answers at once.
LEMMA AnswersAtOnce ==
  ASSUME PlaceInv, TurnInv, TalkInv, Stuck => Stuck',
         NEW ty \in {"BROADCAST_MESSAGE", "DISPLAY_USERS"}, Handles(ty),
         NEW m, NEW b \in {"await", "poll"}, Respond(server, m, b),
         UNCHANGED <<nodes, kill, tables, todo>>,
         b = "await" => list' = clients[Request.sender]
  PROVE  TalkInv'
<1> USE ThreadFacts, TypeFacts
<1>1. PICK r \in Clients : r = Request.sender
  BY HandledFacts, ServerAnswers
<1>2. /\ Turn(server) /\ ~Walking /\ (todo = <<>>) /\ pc[server] = "poll"
      /\ Wants(r, Request) /\ Request.type = ty
  BY <1>1, HandledFacts, ServerAnswers
<1>3. /\ pc[MainOf(r)] \notin SendSteps /\ clients[r] # None /\ ~kill[r]
  BY <1>2 DEF Wants
<1>4. ServerMoves
  BY LoopMoves
<1>5. /\ clients' = clients /\ todo' = todo /\ Request' = Request /\ kill' = kill
      /\ pc'[server] = "check" /\ call'[server] = [peer |-> None, msg |-> m, back |-> b]
      /\ pc'[MainOf(r)] = pc[MainOf(r)]
  BY <1>4 DEF tables, nodes, Request, Respond, Goto, ServerMoves, server
<1>6. AsksInv' /\ PrivateInv' /\ Present' /\ FitsInv'
  BY <1>2, <1>4, <1>5, LoopKeeps DEF FitsInv
<1>7. ServesInv'
  <2>1. call'[server].back # "log"  BY <1>5
  <2>2. ServesWell'
    BY <1>1, <1>3, <1>5, <2>1 DEF ServesWell
  <2> QED  BY <2>2 DEF ServesInv
<1>8. Remembers'
  <2>1. ~Logging' /\ (Awaiting' => b = "await")
    BY <1>5 DEF Logging, Awaiting
  <2> QED  BY <1>1, <1>3, <1>5, <2>1 DEF Remembers
<1>9. Books'
  BY <1>2, <1>5, BooksKept DEF TalkInv
<1>10. WalkInv'
  BY <1>2, <1>5 DEF WalkInv, Walking, SendSteps
<1> QED  BY <1>6, <1>7, <1>8, <1>9, <1>10 DEF TalkInv

LEMMA FullTalk ==
  ASSUME PlaceInv, TurnInv, TalkInv, Stuck => Stuck', ServerFull
  PROVE  TalkInv'
<1> USE ThreadFacts, TypeFacts
<1>0. Handles("JOIN_CREATE_GROUP")  BY DEF ServerFull
<1>1. PICK r \in Clients : r = Request.sender
  BY <1>0, HandledFacts, ServerAnswers
<1>2. /\ Turn(server) /\ ~Walking /\ (todo = <<>>) /\ pc[server] = "poll"
      /\ Wants(r, Request) /\ Request.type = "JOIN_CREATE_GROUP"
  BY <1>0, <1>1, HandledFacts, ServerAnswers
<1>3. pc[MainOf(r)] \in SendSteps /\ clients[r] = None
  BY <1>2 DEF Wants
<1>4. ServerMoves
  BY LoopMoves DEF ServerFull
<1>5. /\ UNCHANGED tables /\ clients' = clients /\ todo' = todo /\ Request' = Request
      /\ client_count' = client_count /\ created' = created
      /\ pc'[server] = "check" /\ call'[server].back = "log"
      /\ call'[server].msg.type = "LEAVE_GROUP"
      /\ pc'[MainOf(r)] = pc[MainOf(r)]
  BY <1>4 DEF ServerFull, tables, nodes, Request, Respond, Goto, ServerMoves, server, ServerSays
<1>6. AsksInv' /\ PrivateInv' /\ Present' /\ FitsInv'
  BY <1>2, <1>4, <1>5, LoopKeeps DEF FitsInv, ServerFull
<1>7. ServesInv'
  <2>1. ServesWell'
    BY <1>1, <1>3, <1>5 DEF ServesWell, Joined
  <2> QED  BY <2>1 DEF ServesInv
<1>8. Remembers'
  <2>1. ~Awaiting'
    BY <1>5 DEF Awaiting
  <2>2. list' = None => Request.content \notin created
    BY MessageFacts DEF ServerFull, Lookup, PlaceInv, HoldInv
  <2>3. client_count \in Int /\ MaxClients \in Nat /\ ~(client_count < MaxClients)
    BY ChatAssumption DEF PlaceInv, HoldInv, TypeOK, ServerFull, HasRoom
  <2>4. client_count >= MaxClients  BY <2>3
  <2> QED  BY <1>2, <1>5, <2>1, <2>2, <2>4 DEF Remembers
<1>9. Books'
  BY <1>2, <1>5, BooksKept DEF TalkInv
<1>10. WalkInv'
  BY <1>2, <1>5 DEF WalkInv, Walking, SendSteps
<1> QED  BY <1>6, <1>7, <1>8, <1>9, <1>10 DEF TalkInv

LEMMA JoinTalk ==
  ASSUME PlaceInv, TurnInv, TalkInv, Stuck => Stuck', ServerJoin
  PROVE  TalkInv'
<1> USE ThreadFacts, TypeFacts
<1>0. Handles("JOIN_CREATE_GROUP")  BY DEF ServerJoin
<1>1. PICK r \in Clients : r = Request.sender
  BY <1>0, HandledFacts, ServerAnswers
<1>2. /\ Turn(server) /\ ~Walking /\ (todo = <<>>) /\ pc[server] = "poll"
      /\ Wants(r, Request) /\ Request.type = "JOIN_CREATE_GROUP"
  BY <1>0, <1>1, HandledFacts, ServerAnswers
<1>3. PICK g \in Groups : g = Request.content
  BY <1>2 DEF Wants
<1>4. pc[MainOf(r)] \in SendSteps /\ clients[r] = None /\ g \in Contents /\ r \in Senders
  BY <1>2 DEF Wants, Contents, Senders
<1>5. ServerMoves
  BY LoopMoves DEF ServerJoin
<1>6. /\ clients' = clients /\ todo' = todo /\ Request' = Request
      /\ client_count' = client_count
      /\ groups' = [groups EXCEPT ![g] = Cons(r, @)] /\ created' = created \cup {g}
      /\ list' = g /\ pc'[server] = "enroll" /\ pc'[MainOf(r)] = pc[MainOf(r)]
  BY <1>1, <1>3, <1>5 DEF ServerJoin, LlPrepend, nodes, Request, Goto, ServerMoves, server
<1>7. AsksInv' /\ PrivateInv' /\ Present' /\ FitsInv'
  BY <1>2, <1>5, <1>6, LoopKeeps DEF FitsInv, ServerJoin
<1>8. ServesInv'
  <2>1. ServesWell'
    BY <1>1, <1>3, <1>4, <1>6 DEF ServesWell, RespondSteps
  <2> QED  BY <2>1 DEF ServesInv
<1>9. Remembers'
  BY <1>6 DEF Remembers, Logging, Awaiting, RespondSteps
<1>10. Books'
  <2>1. Books /\ groups \in [Contents -> Seq(Senders)]
    BY DEF TalkInv, PlaceInv, HoldInv, TypeOK
  <2>2. \A s \in Senders, h \in Contents : s \in ToSet(groups[h]) <=> clients[s] = h
    BY <1>2, <2>1 DEF Books, Joining
  <2>3. r \notin ToSet(groups[g])  BY <1>4, <2>2
  <2>4. /\ IsInjective(Cons(r, groups[g]))
        /\ ToSet(Cons(r, groups[g])) = ToSet(groups[g]) \cup {r}
    <3>1. groups[g] \in Seq(Senders) /\ IsInjective(groups[g])
      BY <1>4, <2>1 DEF Books
    <3> QED  BY <1>4, <2>3, <3>1, ConsFacts
  <2>5. \A h \in Contents : groups'[h] = IF h = g THEN Cons(r, groups[g]) ELSE groups[h]
    BY <1>6, <2>1
  <2>6. \A h \in Contents : IsInjective(groups'[h])
    BY <2>1, <2>4, <2>5 DEF Books
  <2>7. \A s, h : Joining(s, h)' <=> s = r /\ h = g
    BY <1>1, <1>6 DEF Joining
  <2>8. \A s \in Senders, h \in Contents :
          s \in ToSet(groups'[h]) <=> clients[s] = h \/ (s = r /\ h = g)
    BY <2>2, <2>4, <2>5
  <2>9. Registered' = Registered  BY <1>6 DEF Registered
  <2>10. \A s \in Senders, h \in Contents :
           s \in ToSet(groups'[h]) <=> clients'[s] = h \/ Joining(s, h)'
    BY <1>6, <2>7, <2>8
  <2>11. /\ \A s \in Senders : clients'[s] # None => s \in Clients /\ clients'[s] \in created'
         /\ created' \subseteq Groups
         /\ IsFiniteSet(Registered) /\ client_count = Cardinality(Registered)
    BY <1>6, <2>1 DEF Books
  <2> QED  BY <1>6, <2>6, <2>9, <2>10, <2>11 DEF Books
<1>11. WalkInv'
  BY <1>2, <1>6 DEF WalkInv, Walking, SendSteps
<1> QED  BY <1>7, <1>8, <1>9, <1>10, <1>11 DEF TalkInv

LEMMA EnrollTalk ==
  ASSUME PlaceInv, TurnInv, TalkInv, Stuck => Stuck', ServerEnroll
  PROVE  TalkInv'
<1> USE ThreadFacts, TypeFacts
<1>0. pc[server] = "enroll" /\ Answering(Server)
  BY DEF ServerEnroll, Own, At, Answering, server
<1>1. PICK r \in Clients : r = Request.sender
  BY <1>0, ServerAnswers
<1>2. /\ Turn(server) /\ ~Walking /\ (todo = <<>>) /\ ServesWell /\ r \in up
      /\ \A d \in Clients : NoTail(d)
  BY <1>0, <1>1, ServerAnswers
<1>3. PICK g \in Contents : g = Request.content
  BY MessageFacts DEF PlaceInv, HoldInv
<1>4. /\ pc[MainOf(r)] \in SendSteps /\ clients[r] = None
      /\ g = list /\ list \in created /\ g # None /\ r \in Senders
  BY <1>0, <1>1, <1>2, <1>3 DEF ServesWell, Senders
<1>5. ServerMoves
  BY LoopMoves DEF ServerEnroll
<1>6. /\ clients' = [clients EXCEPT ![r] = g] /\ client_count' = client_count + 1
      /\ groups' = groups /\ created' = created /\ list' = list /\ todo' = todo
      /\ Request' = Request /\ buffer' = buffer /\ status' = status /\ up' = up
      /\ pc'[server] = "check" /\ call'[server].back = "log"
      /\ call'[server].msg.type = "JOIN_CREATE_GROUP"
      /\ \A u \in Threads \ {server} : pc'[u] = pc[u]
  BY <1>1, <1>3, <1>5 DEF ServerEnroll, HtSet, Respond, Goto, nodes, cursor, Request,
     ServerSays, ServerMoves
<1>7. clients \in [Senders -> Contents \cup {None}]
  BY DEF PlaceInv, HoldInv, TypeOK
<1>8. clients'[r] = g /\ \A s \in Senders : s # r => clients'[s] = clients[s]
  BY <1>4, <1>6, <1>7
<1>9. AsksInv' /\ PrivateInv' /\ Present'
  BY <1>2, <1>5, LoopKeeps DEF ServerEnroll
<1>10. FitsInv'
  <2> SUFFICES ASSUME NEW d \in Clients PROVE Fits(d)'
    BY DEF FitsInv
  <2>1. /\ pc'[MainOf(d)] = pc[MainOf(d)] /\ pc'[SigOf(d)] = pc[SigOf(d)]
        /\ kill'[d] = kill[d] /\ d \in Senders
    BY <1>5, <1>6 DEF server, ServerMoves, Senders
  <2>2. NoTail(d) /\ Fits(d)  BY <1>2 DEF TalkInv, FitsInv
  <2>3. CASE d = r
    <3>1. pc'[MainOf(d)] \notin {"poll"} \cup RespondSteps
      BY <1>4, <2>1, <2>3 DEF SendSteps, RespondSteps
    <3> QED  BY <1>2, <1>6, <2>1, <2>2, <2>3, <3>1 DEF Fits, NoTail, Answered
  <2>4. CASE d # r
    BY <1>6, <1>8, <2>1, <2>2, <2>4 DEF Fits, NoTail, Answered
  <2> QED  BY <2>3, <2>4
<1>11. ServesInv'
  <2>1. pc'[MainOf(r)] \in SendSteps  BY <1>4, <1>6 DEF server
  <2>2. ServesWell'
    BY <1>1, <1>4, <1>6, <1>8, <2>1 DEF ServesWell, Joined
  <2> QED  BY <2>2 DEF ServesInv
<1>12. Remembers'
  BY <1>4, <1>6 DEF Remembers, Awaiting
<1>13. Books'
  <2>1. Books  BY DEF TalkInv
  <2>2. \A s, h : Joining(s, h) <=> s = r /\ h = g
    BY <1>0, <1>1, <1>4 DEF Joining
  <2>3. \A s, h : ~Joining(s, h)'  BY <1>6 DEF Joining
  <2>4. \A s \in Senders, h \in Contents : s \in ToSet(groups[h]) <=> clients'[s] = h
    <3> SUFFICES ASSUME NEW s \in Senders, NEW h \in Contents
                 PROVE  s \in ToSet(groups[h]) <=> clients'[s] = h
      OBVIOUS
    <3>1. s \in ToSet(groups[h]) <=> clients[s] = h \/ (s = r /\ h = g)
      BY <2>1, <2>2 DEF Books
    <3> QED  BY <1>4, <1>8, <3>1
  <2>5. Registered' = Registered \cup {r} /\ r \notin Registered
    BY <1>4, <1>8 DEF Registered
  <2>6. /\ IsFiniteSet(Registered') /\ client_count' = Cardinality(Registered')
    BY <1>6, <2>1, <2>5, FS_AddElement DEF Books
  <2>7. \A s \in Senders : clients'[s] # None => s \in Clients /\ clients'[s] \in created
    BY <1>4, <1>8, <2>1 DEF Books
  <2> QED  BY <1>6, <2>1, <2>3, <2>4, <2>6, <2>7 DEF Books
<1>14. WalkInv'
  BY <1>2, <1>6 DEF WalkInv, Walking, SendSteps
<1> QED  BY <1>9, <1>10, <1>11, <1>12, <1>13, <1>14 DEF TalkInv

LEMMA LogTalk ==
  ASSUME PlaceInv, TurnInv, TalkInv, Stuck => Stuck', ServerLog
  PROVE  TalkInv'
<1> USE ThreadFacts, TypeFacts
<1>0. pc[server] = "log" /\ Turn(server) /\ status[Server] = "AVAILABLE"
  BY DEF ServerLog, Own, At, Turn, Proceeding, TurnInv, Settled
<1>1. CASE list = None
  <2>1. Ends(Server) /\ UNCHANGED serverVars
    BY <1>1 DEF ServerLog, Ends, serverVars
  <2> QED  BY <1>0, <2>1, ServerEnds
<1>2. CASE list # None
  <2>1. /\ Goto(server, "poll") /\ UNCHANGED call /\ UNCHANGED <<nodes, kill, serverVars>>
    BY <1>2 DEF ServerLog, serverVars
  <2>2. ServerMoves  BY <2>1, LoopMoves
  <2>3. /\ clients' = clients /\ UNCHANGED tables /\ todo' = todo
        /\ pc'[server] = "poll" /\ status' = status
    BY <2>1 DEF serverVars, tables, cursor, Goto, nodes
  <2>4. AsksInv' /\ PrivateInv' /\ Present' /\ FitsInv'
    BY <1>0, <2>1, <2>2, <2>3, LoopKeeps DEF FitsInv
  <2>5. ServesInv'
    BY <1>0, <2>3 DEF ServesInv, Answering, server
  <2>6. Remembers'
    BY <2>3 DEF Remembers, Logging, Awaiting, RespondSteps
  <2>7. Books'
    BY <1>0, <2>3, BooksKept DEF TalkInv
  <2>8. WalkInv'
    BY <1>0, <2>3 DEF TalkInv, WalkInv, Walking, SendSteps
  <2> QED  BY <2>4, <2>5, <2>6, <2>7, <2>8 DEF TalkInv
<1> QED  BY <1>1, <1>2

\* The lookups of a request that a client may make do not fail.
LEMMA NeverNull ==
  ASSUME PlaceInv, TurnInv, TalkInv
  PROVE  ~ServerNull /\ ~ServerRefuse /\ ~ServerRevive
<1> USE ThreadFacts
<1>1. ASSUME NEW ty \in {"BROADCAST_MESSAGE", "DISPLAY_USERS", "LEAVE_GROUP"}, Handles(ty)
      PROVE  Known
  <2>1. /\ clients[Request.sender] # None /\ Request.sender \in Clients
    BY <1>1, HandledFacts, ServerAnswers DEF Wants
  <2> QED  BY <2>1 DEF Known, HtGet, TalkInv, Books, Senders
<1>2. ASSUME NEW ty \in {"PRIVATE_MESSAGE", "UNKNOWN"}, Handles(ty)
      PROVE  FALSE
  BY <1>2, HandledFacts DEF Wants
<1>3. ~ServerRevive
  BY DEF ServerRevive, At, TalkInv, Present
<1> QED  BY <1>1, <1>2, <1>3 DEF ServerNull, ServerRefuse

LEMMA AwaitTalk ==
  ASSUME PlaceInv, TurnInv, TalkInv, Stuck => Stuck', ServerAwait
  PROVE  TalkInv'
<1> USE ThreadFacts, TypeFacts
<1>0. pc[server] = "await" /\ Turn(server)
  BY DEF ServerAwait, Own, At, Turn, Proceeding
<1>1. list \in Contents
  BY <1>0 DEF PlaceInv, ServerInv, TypeInv, ServerLists
<1>2. ServerMoves
  BY LoopMoves DEF ServerAwait
<1>3. /\ clients' = clients /\ UNCHANGED tables /\ groups' = groups /\ list' = list
      /\ todo' = groups[list] /\ pc'[server] = "forward"
  BY DEF ServerAwait, tables, Goto, Walk
<1>4. AsksInv' /\ PrivateInv' /\ Present' /\ FitsInv'
  BY <1>0, <1>2, <1>3, LoopKeeps DEF FitsInv, ServerAwait
<1>5. ServesInv' /\ Remembers'
  BY <1>3 DEF ServesInv, Answering, server, Remembers, Logging, Awaiting, RespondSteps
<1>6. Books'
  BY <1>0, <1>3, BooksKept DEF TalkInv
<1>7. WalkInv'
  <2>1. WalkOK'
    BY <1>1, <1>3 DEF WalkOK, TalkInv, Books
  <2> QED  BY <1>3, <2>1 DEF WalkInv, Walking
<1> QED  BY <1>4, <1>5, <1>6, <1>7 DEF TalkInv

LEMMA ForwardTalk ==
  ASSUME PlaceInv, TurnInv, TalkInv, Stuck => Stuck', ServerForward
  PROVE  TalkInv'
<1> USE ThreadFacts, TypeFacts
<1>0. pc[server] = "forward" /\ Turn(server) /\ Walking /\ status[Server] = "AVAILABLE"
  BY DEF ServerForward, At, Turn, Proceeding, Walking, TurnInv, Settled
<1>1. WalkOK /\ todo \in Seq(Senders)
  BY <1>0 DEF TalkInv, WalkInv, PlaceInv, HoldInv, TypeOK
<1>2. /\ clients' = clients /\ UNCHANGED tables /\ groups' = groups /\ list' = list
      /\ UNCHANGED <<nodes, kill>> /\ status' = status /\ buffer' = buffer
  BY DEF ServerForward, tables, nodes
<1>3. ServerMoves
  <2>1. \/ \E to, m, b : Send(server, to, m, b)
        \/ Goto(server, "poll") /\ call' = [call EXCEPT ![server] = Idle]
    BY DEF ServerForward
  <2> QED  BY <1>2, <2>1, LoopMoves
<1>4. AsksInv' /\ PrivateInv' /\ Present' /\ FitsInv'
  BY <1>0, <1>2, <1>3, LoopKeeps DEF FitsInv
<1>5. pc'[server] \in {"copy", "poll"}
  BY DEF ServerForward, Send, Goto
<1>6. ServesInv' /\ Remembers'
  BY <1>0, <1>2, <1>5
  DEF ServesInv, Answering, server, Remembers, Logging, Awaiting, RespondSteps
<1>7. Books'
  BY <1>0, <1>2, <1>5, BooksKept DEF TalkInv
<1>8. WalkInv'
  <2>1. CASE todo = <<>>
    <3>1. pc'[server] = "poll" /\ todo' = <<>>
      BY <2>1 DEF ServerForward, Goto
    <3> QED  BY <3>1 DEF WalkInv, Walking, SendSteps
  <2>2. CASE todo # <<>>
    <3>1. /\ todo' = Tail(todo) /\ pc'[server] = "copy"
          /\ call'[server].peer = Head(todo) /\ call'[server].msg = call[server].msg
      BY <2>2 DEF ServerForward, Send, Goto, Addressee
    <3>2. /\ IsInjective(todo') /\ ToSet(todo') = ToSet(todo) \ {Head(todo)}
          /\ Head(todo) \in ToSet(todo)
      BY <1>1, <2>2, <3>1, TailFacts DEF WalkOK
    <3>3. ASSUME NEW d \in ToSet(groups[list]) \ ToSet(todo') PROVE Reached(d)'
      <4>1. d = Head(todo) \/ Reached(d)
        BY <1>1, <3>2, <3>3 DEF WalkOK
      <4>2. d \in Clients  BY <1>0, MemberUp
      <4>3. pc'[MainOf(d)] = pc[MainOf(d)]
        BY <1>3, <4>2 DEF ServerMoves, server
      <4> QED  BY <1>0, <1>2, <3>1, <4>1, <4>3 DEF Reached
    <3>4. WalkOK'
      BY <1>1, <1>2, <3>1, <3>2, <3>3 DEF WalkOK
    <3> QED  BY <3>1, <3>4 DEF WalkInv, Walking, SendSteps
  <2> QED  BY <2>1, <2>2
<1> QED  BY <1>4, <1>6, <1>7, <1>8 DEF TalkInv

LEMMA LeaveTalk ==
  ASSUME PlaceInv, TurnInv, TalkInv, Stuck => Stuck', ServerLeave
  PROVE  TalkInv'
<1> USE ThreadFacts, TypeFacts
<1>0. Handles("LEAVE_GROUP")  BY DEF ServerLeave
<1>1. PICK r \in Clients : r = Request.sender
  BY <1>0, HandledFacts, ServerAnswers
<1>2. /\ Turn(server) /\ ~Walking /\ (todo = <<>>) /\ pc[server] = "poll"
      /\ Wants(r, Request) /\ Request.type = "LEAVE_GROUP"
  BY <1>0, <1>1, HandledFacts, ServerAnswers
<1>3. /\ pc[MainOf(r)] \notin SendSteps /\ clients[r] # None
      /\ kill[r] \/ pc[MainOf(r)] = "off"
  BY <1>2 DEF Wants
<1>4. ServerMoves
  BY LoopMoves DEF ServerLeave
<1>5. /\ UNCHANGED tables /\ clients' = clients /\ todo' = todo /\ Request' = Request
      /\ kill' = kill /\ list' = clients[r]
      /\ pc'[server] = "remove" /\ pc'[MainOf(r)] = pc[MainOf(r)]
  BY <1>1, <1>4 DEF ServerLeave, HtGet, tables, nodes, Request, Goto, ServerMoves, server
<1>6. AsksInv' /\ PrivateInv' /\ Present' /\ FitsInv'
  BY <1>2, <1>4, <1>5, LoopKeeps DEF FitsInv, ServerLeave
<1>7. ServesInv'
  <2>1. ServesWell'
    BY <1>1, <1>3, <1>5 DEF ServesWell, RespondSteps
  <2> QED  BY <2>1 DEF ServesInv
<1>8. Remembers'
  BY <1>5 DEF Remembers, Logging, Awaiting, RespondSteps
<1>9. Books'
  BY <1>2, <1>5, BooksKept DEF TalkInv
<1>10. WalkInv'
  BY <1>2, <1>5 DEF WalkInv, Walking, SendSteps
<1> QED  BY <1>6, <1>7, <1>8, <1>9, <1>10 DEF TalkInv

LEMMA RemoveTalk ==
  ASSUME PlaceInv, TurnInv, TalkInv, Stuck => Stuck', ServerRemove
  PROVE  TalkInv'
<1> USE ThreadFacts, TypeFacts
<1>0. pc[server] = "remove" /\ Answering(Server)
  BY DEF ServerRemove, Own, At, Answering, server
<1>1. PICK r \in Clients : r = Request.sender
  BY <1>0, ServerAnswers
<1>2. /\ Turn(server) /\ ~Walking /\ (todo = <<>>) /\ ServesWell /\ r \in up
      /\ \A d \in Clients : NoTail(d)
  BY <1>0, <1>1, ServerAnswers
<1>3. PICK g \in Contents : g = list
  BY <1>0 DEF PlaceInv, ServerInv, TypeInv, ServerLists
<1>4. /\ pc[MainOf(r)] \notin SendSteps /\ clients[r] = g /\ g # None
      /\ kill[r] \/ pc[MainOf(r)] = "off"
      /\ r \in Senders
  BY <1>0, <1>1, <1>2, <1>3 DEF ServesWell, Senders
<1>5. ServerMoves
  BY LoopMoves DEF ServerRemove
<1>6. /\ clients' = [clients EXCEPT ![r] = None] /\ client_count' = client_count - 1
      /\ groups' = [groups EXCEPT ![g] = RemoveFirst(groups[g], r)]
      /\ created' = created /\ list' = list /\ todo' = todo
      /\ Request' = Request /\ buffer' = buffer /\ status' = status /\ up' = up
      /\ pc'[server] = "check" /\ call'[server].back = "poll"
      /\ \A u \in Threads \ {server} : pc'[u] = pc[u]
  BY <1>1, <1>3, <1>5 DEF ServerRemove, HtRemove, Without, Respond, Goto, nodes, cursor, Request,
     ServerMoves
<1>7. /\ clients \in [Senders -> Contents \cup {None}]
      /\ groups \in [Contents -> Seq(Senders)] /\ client_count \in Int
  BY DEF PlaceInv, HoldInv, TypeOK
<1>8. clients'[r] = None /\ \A s \in Senders : s # r => clients'[s] = clients[s]
  BY <1>4, <1>6, <1>7
<1>9. AsksInv' /\ PrivateInv' /\ Present'
  BY <1>2, <1>5, LoopKeeps DEF ServerRemove
<1>10. FitsInv'
  <2> SUFFICES ASSUME NEW d \in Clients PROVE Fits(d)'
    BY DEF FitsInv
  <2>1. /\ pc'[MainOf(d)] = pc[MainOf(d)] /\ pc'[SigOf(d)] = pc[SigOf(d)]
        /\ kill'[d] = kill[d] /\ d \in Senders
    BY <1>5, <1>6 DEF server, ServerMoves, Senders
  <2>2. NoTail(d) /\ Fits(d)  BY <1>2 DEF TalkInv, FitsInv
  <2>3. CASE d = r
    <3>1. pc'[MainOf(d)] \notin {"poll"} \cup RespondSteps \/ kill'[d]
      BY <1>4, <2>1, <2>3 DEF RespondSteps
    <3> QED  BY <1>6, <1>8, <2>1, <2>2, <2>3, <3>1 DEF Fits, NoTail, Answered
  <2>4. CASE d # r
    BY <1>6, <1>8, <2>1, <2>2, <2>4 DEF Fits, NoTail, Answered
  <2> QED  BY <2>3, <2>4
<1>11. ServesInv'
  <2>1. pc'[MainOf(r)] \notin SendSteps  BY <1>4, <1>6 DEF server
  <2>2. ServesWell'
    BY <1>1, <1>6, <1>8, <2>1 DEF ServesWell
  <2> QED  BY <2>2 DEF ServesInv
<1>12. Remembers'
  BY <1>6 DEF Remembers, Logging, Awaiting
<1>13. Books'
  <2>1. Books  BY DEF TalkInv
  <2>2. \A s \in Senders, h \in Contents : s \in ToSet(groups[h]) <=> clients[s] = h
    BY <1>0, <2>1 DEF Books, Joining
  <2>3. \A s, h : ~Joining(s, h)'  BY <1>6 DEF Joining
  <2>4. /\ IsInjective(RemoveFirst(groups[g], r))
        /\ ToSet(RemoveFirst(groups[g], r)) = ToSet(groups[g]) \ {r}
    <3>1. groups[g] \in Seq(Senders) /\ IsInjective(groups[g])
      BY <1>7, <2>1 DEF Books
    <3> QED  BY <3>1, RemoveFirstFacts
  <2>5. \A h \in Contents :
          groups'[h] = IF h = g THEN RemoveFirst(groups[g], r) ELSE groups[h]
    BY <1>6, <1>7
  <2>6. \A h \in Contents : IsInjective(groups'[h])
    BY <2>1, <2>4, <2>5 DEF Books
  <2>7. \A s \in Senders, h \in Contents : s \in ToSet(groups'[h]) <=> clients'[s] = h
    <3> SUFFICES ASSUME NEW s \in Senders, NEW h \in Contents
                 PROVE  s \in ToSet(groups'[h]) <=> clients'[s] = h
      OBVIOUS
    <3>1. s \in ToSet(groups[h]) <=> clients[s] = h  BY <2>2
    <3>2. CASE h = g
      BY <1>4, <1>8, <2>4, <2>5, <3>1, <3>2
    <3>3. CASE h # g
      BY <1>4, <1>8, <2>5, <3>1, <3>3
    <3> QED  BY <3>2, <3>3
  <2>8. Registered' = Registered \ {r} /\ r \in Registered
    BY <1>4, <1>8 DEF Registered
  <2>9. /\ IsFiniteSet(Registered') /\ client_count' = Cardinality(Registered')
    BY <1>6, <2>1, <2>8, FS_RemoveElement DEF Books
  <2>10. \A s \in Senders : clients'[s] # None => s \in Clients /\ clients'[s] \in created
    BY <1>8, <2>1 DEF Books
  <2> QED  BY <1>6, <2>1, <2>3, <2>6, <2>7, <2>9, <2>10 DEF Books
<1>14. WalkInv'
  BY <1>2, <1>6 DEF WalkInv, Walking, SendSteps
<1> QED  BY <1>9, <1>10, <1>11, <1>12, <1>13, <1>14 DEF TalkInv

LEMMA ServerTalk ==
  ASSUME PlaceInv, TurnInv, TalkInv, SystemStep, ServerStep
  PROVE  TalkInv'
<1>1. Stuck => Stuck'  BY StuckStep
<1>2. CASE ServerBroadcast
  BY <1>1, <1>2, AnswersAtOnce DEF ServerBroadcast, HtGet
<1>3. CASE ServerDisplay
  BY <1>1, <1>3, AnswersAtOnce DEF ServerDisplay, serverVars, cursor
<1> QED
  BY <1>1, <1>2, <1>3, JoinTalk, EnrollTalk, FullTalk, LogTalk, NeverNull, AwaitTalk,
     ForwardTalk, LeaveTalk, RemoveTalk DEF ServerStep

-----------------------------------------------------------------------------
(* Steps of users *)

\* What a step of a user at rest must respect: nobody answers after it, whoever
\* asks does so well, and no node is lost but the server's.
LEMMA UserTalk ==
  ASSUME PlaceInv, TalkInv, AtRest, UNCHANGED serverVars,
         pc'[server] = pc[server],
         \A n \in Names : ~Answering(n)',
         \A t \in Threads \ {server} : Asking(t)' => AsksWell(t)',
         \A d \in Clients :
           /\ pc'[MainOf(d)] \in {pc[MainOf(d)], "copy"}
           /\ pc'[SigOf(d)] \in {pc[SigOf(d)], "copy"}
           /\ kill[d] => kill'[d]
           /\ d \in up => d \in up'
  PROVE  TalkInv'
<1> USE ThreadFacts
<1>1. /\ \A u \in Threads : Rests(u)
      /\ \A n \in Names : pc[MainOf(n)] \in {"poll", "off"}
      /\ pc[server] \in {"poll", "off"}
  BY RestFacts DEF server
<1>2. ~Stuck
  BY <1>1 DEF Stuck, Rests
<1>3. /\ clients' = clients /\ UNCHANGED tables /\ todo' = todo
  BY DEF serverVars, tables, cursor
<1>4. FitsInv'
  <2> SUFFICES ASSUME NEW d \in Clients PROVE Fits(d)'
    BY DEF FitsInv
  <2>1. Fits(d)  BY DEF TalkInv, FitsInv
  <2>2. pc[SigOf(d)] = "off"  BY DEF AtRest
  <2>3. pc'[MainOf(d)] \in {"poll", "off", "copy"} /\ pc'[SigOf(d)] \in {"off", "copy"}
    BY <1>1, <2>2
  <2>4. pc'[MainOf(d)] \in {"poll"} \cup RespondSteps => pc'[MainOf(d)] = pc[MainOf(d)]
    BY <2>3 DEF RespondSteps
  <2> QED  BY <1>2, <1>3, <2>1, <2>3, <2>4 DEF Fits, Answered
<1>5. AsksInv' /\ PrivateInv' /\ ServesInv'
  BY DEF AsksInv, PrivateInv, ServesInv
<1>6. Remembers' /\ Present'
  BY <1>1 DEF Remembers, Logging, Awaiting, RespondSteps, Present
<1>7. Books'
  BY <1>1, <1>3, BooksKept DEF TalkInv
<1>8. WalkInv'
  BY <1>1, <1>3 DEF TalkInv, WalkInv, Walking, SendSteps
<1> QED  BY <1>4, <1>5, <1>6, <1>7, <1>8 DEF TalkInv

LEMMA SendTalk ==
  ASSUME PlaceInv, TalkInv, AtRest, UNCHANGED serverVars,
         NEW c \in Clients, NEW t \in {MainOf(c), InputOf(c), SigOf(c)},
         NEW to, NEW m, NEW b, Send(t, to, m, b), AsksWell(t)',
         \A n \in Names : status'[n] = status[n] \/ status'[n] = "AVAILABLE",
         \A n \in Names : n \in up' /\ n \notin up => status'[n] = "AVAILABLE",
         up \subseteq up',
         \A d \in Clients : kill[d] => kill'[d]
  PROVE  TalkInv'
<1> USE ThreadFacts, TypeFacts
<1>1. /\ \A u \in Threads : ~Asking(u)
      /\ \A n \in Names : ~Answering(n)
  BY RestFacts
<1>2. /\ t \in Threads \ {server}
      /\ pc'[t] = "copy" /\ \A u \in Threads \ {t} : pc'[u] = pc[u]
  BY DEF Send, Goto, server
<1>3. \A n \in Names : ~Answering(n)'
  BY <1>1, <1>2 DEF Answering
<1>4. \A u \in Threads \ {server} : Asking(u)' => AsksWell(u)'
  BY <1>1, <1>2 DEF Asking
<1>5. \A d \in Clients : /\ pc'[MainOf(d)] \in {pc[MainOf(d)], "copy"}
                         /\ pc'[SigOf(d)] \in {pc[SigOf(d)], "copy"}
  BY <1>2
<1> QED  BY <1>2, <1>3, <1>4, <1>5, UserTalk

\* A client at its prompt, or one that can be sent ctrl-c, is registered.
LEMMA Running ==
  ASSUME PlaceInv, TalkInv, AtRest, NEW c \in Clients,
         pc[MainOf(c)] # "off" \/ pc[InputOf(c)] # "off"
  PROVE  pc[MainOf(c)] = "poll" /\ ~kill[c] /\ clients[c] # None
<1>1. pc[MainOf(c)] \in {"poll", "off"}  BY DEF AtRest
<1>2. pc[MainOf(c)] = "poll"
  BY <1>1 DEF PlaceInv, WaitInv, FollowInv, Follows, RespondSteps
<1> QED  BY <1>2 DEF AtRest, TalkInv, FitsInv, Fits

LEMMA TypedTalk ==
  ASSUME PlaceInv, TalkInv, AtRest, UNCHANGED serverVars,
         NEW c \in Clients, NEW to, NEW m, Types(c, to, m),
         kill' = kill \/ kill' = Killed(c),
         to = Server =>
           /\ m.type \in {"BROADCAST_MESSAGE", "DISPLAY_USERS", "LEAVE_GROUP"}
           /\ m.type = "LEAVE_GROUP" <=> kill' = Killed(c),
         to # Server => kill' = kill
  PROVE  TalkInv'
<1> USE ThreadFacts, TypeFacts
<1>1. /\ pc[InputOf(c)] = "prompt" /\ Send(InputOf(c), to, m, "loop")
      /\ up' = up /\ status' = status
  BY DEF Types, At, nodes
<1>2. pc[MainOf(c)] = "poll" /\ ~kill[c] /\ clients[c] # None
  BY <1>1, Running
<1>3. kill' = Killed(c) => kill'[c]
  BY DEF Killed
<1>4. /\ pc'[MainOf(c)] = "poll" /\ clients' = clients
      /\ call'[InputOf(c)] = [peer |-> to, msg |-> m, back |-> "loop"]
  BY <1>1, <1>2 DEF Send, Goto, serverVars, tables
<1>5. AsksWell(InputOf(c))'
  <2>1. CASE to = Server
    <3>1. m.type = "LEAVE_GROUP" <=> kill'[c]
      BY <1>2, <1>3, <2>1
    <3>2. pc'[MainOf(c)] \notin SendSteps  BY <1>4 DEF SendSteps
    <3>3. Wants(c, m)'
      BY <1>2, <1>4, <2>1, <3>1, <3>2 DEF Wants
    <3> QED  BY <1>4, <2>1, <3>3 DEF AsksWell
  <2>2. CASE to # Server
    BY <1>2, <1>4, <2>2 DEF AsksWell
  <2> QED  BY <2>1, <2>2
<1>6. \A d \in Clients : kill[d] => kill'[d]
  BY DEF Killed
<1> QED  BY <1>1, <1>5, <1>6, SendTalk

LEMMA UserStepTalk ==
  ASSUME ToClientsOnly, PlaceInv, TurnInv, TalkInv, AtRest, UserStep
  PROVE  TalkInv'
<1> USE ThreadFacts, TypeFacts
<1>0. UserAct /\ UNCHANGED serverVars
  BY DEF UserStep, Restart, Does, ToClientsOnly
<1>1. ASSUME NEW c \in Clients, NEW g \in Groups, Start(c, g)
      PROVE  TalkInv'
  <2>1. /\ Send(MainOf(c), Server, ClientSays(c, "JOIN_CREATE_GROUP", g), "admit")
        /\ status' = [status EXCEPT ![c] = "AVAILABLE"] /\ up' = up \cup {c}
        /\ kill' = kill /\ pc[MainOf(c)] = "off" /\ c \notin up
    BY <1>1 DEF Start, NodeIsUp
  <2>2. ~kill[c]
    BY <2>1 DEF PlaceInv, Places, RespondSteps
  <2>3. clients[c] = None
    <3>1. ~Stuck  BY RestFacts DEF Stuck, Rests
    <3> QED  BY <2>1, <3>1 DEF TalkInv, FitsInv, Fits
  <2>4. /\ pc'[MainOf(c)] = "copy" /\ clients' = clients
        /\ call'[MainOf(c)].peer = Server
        /\ call'[MainOf(c)].msg = ClientSays(c, "JOIN_CREATE_GROUP", g)
    BY <1>0, <2>1 DEF Send, Goto, serverVars, tables
  <2>5. Wants(c, ClientSays(c, "JOIN_CREATE_GROUP", g))'
    BY <2>1, <2>2, <2>3, <2>4 DEF Wants, ClientSays, SendSteps
  <2>6. AsksWell(MainOf(c))'
    BY <2>4, <2>5 DEF AsksWell
  <2> QED  BY <1>0, <2>1, <2>6, SendTalk
<1>2. ASSUME NEW c \in Clients, NEW x \in Texts, TypeLine(c, x)
      PROVE  TalkInv'
  <2>1. kill' # Killed(c)
    <3>1. ~kill[c]
      BY <1>2, Running DEF TypeLine, Types, At
    <3> QED  BY <1>2, <3>1 DEF TypeLine, Killed
  <2> QED  BY <1>0, <1>2, <2>1, TypedTalk DEF TypeLine, ClientSays
<1>3. ASSUME NEW c \in Clients, TypeDisplay(c)
      PROVE  TalkInv'
  <2>1. kill' # Killed(c)
    <3>1. ~kill[c]
      BY <1>3, Running DEF TypeDisplay, Types, At
    <3> QED  BY <1>3, <3>1 DEF TypeDisplay, Killed
  <2> QED  BY <1>0, <1>3, <2>1, TypedTalk DEF TypeDisplay, ClientSays
<1>4. ASSUME NEW c \in Clients, TypeExit(c)
      PROVE  TalkInv'
  BY <1>0, <1>4, TypedTalk DEF TypeExit, ClientSays
<1>5. ASSUME NEW c \in Clients, NEW u \in Names, NEW x \in Texts, TypePrivate(c, u, x)
      PROVE  TalkInv'
  <2>1. u # Server  BY <1>5 DEF TypePrivate, Does, ToClientsOnly
  <2> QED  BY <1>0, <1>5, <2>1, TypedTalk DEF TypePrivate
<1>6. ASSUME NEW c \in Clients, CtrlC(c)
      PROVE  TalkInv'
  <2>1. /\ Send(SigOf(c), Server, ClientSays(c, "LEAVE_GROUP", Empty), "free")
        /\ status' = status /\ up' = up /\ kill' = [kill EXCEPT ![c] = TRUE]
        /\ pc[MainOf(c)] # "off"
    BY <1>6 DEF CtrlC, nodes, Killed
  <2>2. pc[MainOf(c)] = "poll" /\ clients[c] # None
    BY <2>1, Running
  <2>3. /\ pc'[MainOf(c)] = "poll" /\ clients' = clients /\ kill'[c]
        /\ call'[SigOf(c)].peer = Server
        /\ call'[SigOf(c)].msg = ClientSays(c, "LEAVE_GROUP", Empty)
        /\ \A d \in Clients : kill[d] => kill'[d]
    BY <1>0, <2>1, <2>2 DEF Send, Goto, serverVars, tables
  <2>4. Wants(c, ClientSays(c, "LEAVE_GROUP", Empty))'
    BY <2>2, <2>3 DEF Wants, ClientSays, SendSteps
  <2>5. AsksWell(SigOf(c))'
    BY <2>3, <2>4 DEF AsksWell
  <2> QED  BY <1>0, <2>1, <2>3, <2>5, SendTalk
<1>7. CASE Stop
  <2>1. up' = up \ {Server} /\ status' = status /\ pc' = pc /\ kill' = kill
    BY <1>7 DEF Stop, FreeNode
  <2>2. /\ \A u \in Threads : ~Asking(u)
        /\ \A n \in Names : ~Answering(n)
    BY RestFacts
  <2>3. \A n \in Names : ~Answering(n)'
    BY <2>1, <2>2 DEF Answering
  <2>4. \A t \in Threads \ {server} : ~Asking(t)'
    BY <2>1, <2>2 DEF Asking
  <2> QED  BY <1>0, <2>1, <2>3, <2>4, UserTalk
<1> QED
  BY <1>0, <1>1, <1>2, <1>3, <1>4, <1>5, <1>6, <1>7 DEF UserAct

LEMMA TalkInvInit == Init => TalkInv
<1> SUFFICES ASSUME Init PROVE TalkInv
  OBVIOUS
<1> USE ThreadFacts
<1>1. /\ pc[server] = "poll" /\ Server \in up
      /\ \A c \in Clients : pc[MainOf(c)] = "off" /\ pc[SigOf(c)] = "off" /\ pc[InputOf(c)] = "off"
      /\ \A n \in Names : status[n] = "AVAILABLE"
      /\ \A s \in Senders : clients[s] = None
      /\ \A g \in Contents : groups[g] = <<>>
      /\ created = {} /\ client_count = 0 /\ list = None /\ todo = <<>>
  BY DEF Init, NoClients, NoGroups, server
<1>2. \A t \in Threads \ {server} : ~Asking(t)
  BY <1>1, Roles DEF Asking
<1>3. \A n \in Names : ~Answering(n)
  <2>1. \A n \in Names : pc[MainOf(n)] \in {"poll", "off"}
    BY <1>1 DEF Names, server
  <2> QED  BY <1>1, <2>1 DEF Answering
<1>4. AsksInv /\ ServesInv /\ PrivateInv
  BY <1>2, <1>3 DEF AsksInv, ServesInv, PrivateInv
<1>5. Remembers /\ WalkInv /\ Present
  BY <1>1 DEF Remembers, Logging, Awaiting, RespondSteps, WalkInv, Walking, SendSteps, Present
<1>6. FitsInv
  <2>1. \A c \in Clients : c \in Senders  BY DEF Senders
  <2> QED  BY <1>1, <2>1 DEF FitsInv, Fits, Answered, RespondSteps
<1>7. Books
  <2>1. Registered = {}  BY <1>1 DEF Registered
  <2>2. \A s, g : ~Joining(s, g)  BY <1>1 DEF Joining
  <2>3. IsFiniteSet(Registered) /\ client_count = Cardinality(Registered)
    BY <1>1, <2>1, FS_EmptySet
  <2>4. \A g \in Contents : IsInjective(groups[g]) /\ ToSet(groups[g]) = {}
    BY <1>1, EmptyList
  <2> QED  BY <1>1, <2>2, <2>3, <2>4 DEF Books
<1> QED  BY <1>4, <1>5, <1>6, <1>7 DEF TalkInv

LEMMA TalkInvStep ==
  ToClientsOnly /\ PlaceInv /\ TurnInv /\ TalkInv /\ [SerialNext]_vars => TalkInv'
<1> SUFFICES ASSUME ToClientsOnly, PlaceInv, TurnInv, TalkInv, [SerialNext]_vars
             PROVE  TalkInv'
  OBVIOUS
<1>1. CASE SystemStep
  <2>1. ASSUME NEW t \in Threads, ThreadStep(t) PROVE TalkInv'
    <3>1. CASE t = server
      BY <1>1, <2>1, <3>1, ServerNodeTalk DEF ThreadStep
    <3>2. CASE t # server
      <4>1. Owner(t) \in Clients  BY <3>2, Roles
      <4> QED  BY <1>1, <2>1, <4>1, ClientTalk DEF ThreadStep, ClientStep
    <3> QED  BY <3>1, <3>2
  <2>2. ASSUME NEW c \in Clients, MainStep(c) \/ InputStep(c) \/ SigStep(c) PROVE TalkInv'
    BY <1>1, <2>2, ClientTalk DEF MainStep, InputStep, SigStep, ClientStep
  <2>3. CASE Serve
    BY <1>1, <2>3, ServerTalk DEF Serve
  <2> QED  BY <1>1, <2>1, <2>2, <2>3 DEF SystemStep
<1>2. CASE AtRest /\ UserStep
  BY <1>2, UserStepTalk
<1>3. CASE UNCHANGED vars
  <2> USE <1>3 DEF vars, nodeVars, nodes, frames, serverVars, tables, cursor
  <2>1. /\ pc' = pc /\ call' = call /\ up' = up /\ status' = status /\ buffer' = buffer
        /\ kill' = kill /\ clients' = clients /\ groups' = groups /\ created' = created
        /\ client_count' = client_count /\ list' = list /\ todo' = todo
    OBVIOUS
  <2> QED
    BY <2>1 DEF TalkInv, AsksInv, ServesInv, PrivateInv, Remembers, FitsInv, Books, WalkInv,
       Present, Asking, Answering, AsksWell, Wants, ServesWell, Request, PrivateWell,
       Requester, Logging, Awaiting, Fits, Answered, Joined, Stuck, Rests, Turn, Proceeding,
       Joining, Registered, Walking, WalkOK, Reached
<1> QED  BY <1>1, <1>2, <1>3 DEF SerialNext

-----------------------------------------------------------------------------
(* The theorems *)

\* The inductive invariant of serial executions.
SerialInv == PlaceInv /\ TurnInv /\ TalkInv

LEMMA SerialInvInit == Init => SerialInv
  BY PlaceInvInit, TurnInvInit, TalkInvInit DEF SerialInv

LEMMA SerialInvStep == ToClientsOnly /\ SerialInv /\ [SerialNext]_vars => SerialInv'
  BY PlaceInvStep, TurnInvStep, TalkInvStep DEF SerialInv

\* The server's client table, its member lists and its count of clients agree
\* whenever it is not between the two updates of a join (server.c), provided
\* that users wait for the system to be at rest, write to clients only and do
\* not start the server anew: a client is in the list of its group exactly once,
\* in no other list, and client_count is the number of clients in the table.
THEOREM Registry ==
  ASSUME ToClientsOnly
  PROVE  SerialSpec => []RegistryConsistent
<1>1. SerialInv => RegistryConsistent
  <2> SUFFICES ASSUME SerialInv, pc[server] # "enroll",
                      NEW s \in Senders, NEW g \in Contents
               PROVE  Cardinality(Occurrences(s, g)) = IF clients[s] = g THEN 1 ELSE 0
    BY DEF RegistryConsistent, SerialInv, TalkInv, Books
  <2>1. /\ groups[g] \in Seq(Senders) /\ IsInjective(groups[g])
        /\ s \in ToSet(groups[g]) <=> clients[s] = g
    BY DEF SerialInv, TalkInv, Books, Joining, PlaceInv, HoldInv, TypeOK
  <2>2. CASE clients[s] = g
    <3>1. PICK i \in DOMAIN groups[g] : groups[g][i] = s
      BY <2>1, <2>2, SetOfList
    <3>2. Occurrences(s, g) = {i}
      BY <2>1, <3>1 DEF Occurrences, IsInjective
    <3> QED  BY <2>2, <3>2, FS_Singleton
  <2>3. CASE clients[s] # g
    <3>1. Occurrences(s, g) = {}
      BY <2>1, <2>3, SetOfList DEF Occurrences
    <3> QED  BY <2>3, <3>1, FS_EmptySet
  <2> QED  BY <2>2, <2>3
<1> QED
  BY <1>1, SerialInvInit, SerialInvStep, PTL DEF SerialSpec

\* A broadcast leaves nobody out: when the server has come to the end of the
\* member list (server.c, BROADCAST_MESSAGE), the node of every member that still
\* runs holds the text, under the same discipline of the users.
THEOREM BroadcastReaches ==
  ASSUME ToClientsOnly
  PROVE  SerialSpec => []BroadcastDelivered
<1>1. SerialInv => BroadcastDelivered
  <2> SUFFICES ASSUME SerialInv, pc[server] = "forward", todo = <<>>,
                      NEW c \in ToSet(groups[list]) \ {None}, pc[MainOf(c)] # "off"
               PROVE  buffer[c] = call[server].msg
    BY DEF BroadcastDelivered
  <2>1. WalkOK  BY DEF SerialInv, TalkInv, WalkInv, Walking
  <2>2. ToSet(todo) = {}  BY EmptyList
  <2> QED  BY <2>1, <2>2 DEF WalkOK, Reached
<1> QED
  BY <1>1, SerialInvInit, SerialInvStep, PTL DEF SerialSpec

-----------------------------------------------------------------------------
(* How the server ends *)

\* No step of the node layer ends the server while it has its node: the members
\* it forwards to are there, and so is the process it answers.
LEMMA ServerStays ==
  ASSUME SerialInv, Server \in up, NodeStep(server)
  PROVE  pc'[server] # "off"
<1> USE ThreadFacts, TypeFacts DEF SerialInv
<1>1. /\ pc[server] \in SendSteps => call[server].back = "forward"
      /\ pc[server] \in RespondSteps => call[server].back \in {"log", "await", "poll"}
  BY DEF PlaceInv, ServerInv, TypeInv, ServerCalls
<1>2. CASE SendCopy(server)
  <2>1. /\ pc[server] = "copy" /\ Turn(server) /\ Walking
    BY <1>2 DEF SendCopy, At, Turn, Asking, Walking, SendSteps
  <2>2. call[server].peer \in up
    BY <2>1, MemberUp DEF TalkInv, WalkInv, WalkOK
  <2> QED  BY <1>2, <2>2 DEF SendCopy, CanAttach, Goto
<1>3. CASE RespondCheck(server) \/ RespondAttach(server)
  <2>1. AnswerOK(Server)
    BY <1>3, ServerAnswers DEF RespondCheck, RespondAttach, Own, At, Answering, server
  <2>2. status[Server] = "RECIEVED_MESSAGE" /\ Waits(Requester(Server))
    BY <2>1 DEF AnswerOK, Waits, CanAttach
  <2> QED  BY <1>3, <2>2 DEF RespondCheck, RespondAttach, Goto
<1>4. CASE SendClaim(server) \/ SendPost(server) \/ RespondReply(server) \/ RespondRelease(server)
  BY <1>4 DEF SendClaim, SendPost, RespondReply, RespondRelease, Goto
<1>5. CASE SendSpin(server) \/ RespondFinish(server)
  BY <1>1, <1>5 DEF SendSpin, RespondFinish, Own, At, Goto, SendSteps, RespondSteps
<1>6. ~Fault(server)
  BY DEF Fault
<1> QED
  BY <1>2, <1>3, <1>4, <1>5, <1>6 DEF NodeStep

\* Short of ctrl-c, the server ends only where it prints the member list of a
\* group that it has never seen, for a client it has no room for (server.c,
\* JOIN_CREATE_GROUP): no assertion and no other lookup of it fails, under the
\* same discipline of the users.
THEOREM ServerFalls ==
  ASSUME ToClientsOnly
  PROVE  SerialSpec => ServerFallsOnlyWhenFull
<1> DEFINE Falls == pc[server] # "off" /\ pc'[server] = "off" /\ Server \in up
           Full  == /\ client_count >= MaxClients
                    /\ Request.type = "JOIN_CREATE_GROUP"
                    /\ Request.content \notin created
<1>1. ASSUME SerialInv, SerialNext, Falls PROVE Full
  <2> USE ThreadFacts, TypeFacts
  <2>0. PlaceInv /\ TurnInv /\ TalkInv  BY <1>1 DEF SerialInv
  <2>1. ASSUME NEW c \in Clients, ClientStep(c) PROVE FALSE
    <3>1. pc'[server] = pc[server]  BY <2>0, <2>1, ServerKept
    <3> QED  BY <1>1, <3>1
  <2>2. ~NodeStep(server)  BY <1>1, ServerStays
  <2>3. ASSUME ServerStep PROVE Full
    <3>1. ServerLog
      <4>1. ~ServerNull /\ ~ServerRevive /\ ~ServerRefuse  BY <2>0, NeverNull
      <4> QED
        BY <1>1, <2>0, <2>3, <4>1
        DEF ServerStep, ServerJoin, ServerEnroll, ServerFull, ServerBroadcast, ServerAwait,
            ServerForward, ServerDisplay, ServerLeave, ServerRemove, Goto, Respond, Send
    <3>2. pc[server] = "log" /\ list = None
      BY <1>1, <2>0, <3>1 DEF ServerLog, Own, At, Goto
    <3> QED  BY <2>0, <3>2 DEF TalkInv, Remembers, Logging
  <2>4. ~UserStep
    <3> SUFFICES ASSUME UserStep PROVE FALSE
      OBVIOUS
    <3>1. pc'[server] = pc[server] \/ pc'[server] = "poll"
      <4>1. CASE Restart
        BY <4>1 DEF Restart
      <4>2. CASE UserAct
        BY <2>0, <4>2, UsersApart DEF ServerUndisturbed, PlaceInv, HoldInv
      <4> QED  BY <4>1, <4>2 DEF UserStep
    <3> QED  BY <1>1, <3>1
  <2> QED
    BY <1>1, <2>1, <2>2, <2>3, <2>4, Roles
    DEF SerialNext, SystemStep, ThreadStep, MainStep, InputStep, SigStep, Serve, ClientStep
<1>2. SerialInv /\ [SerialNext]_vars => [Falls => Full]_vars
  BY <1>1
<1> QED
  BY <1>2, SerialInvInit, SerialInvStep, PTL DEF SerialSpec, ServerFallsOnlyWhenFull

-----------------------------------------------------------------------------
(* The service the users are promised *)

Member  == [c \in Clients |-> clients[c]]
Pending == ToSet(todo)

LEMMA PromisedInit == Init => Promise!Init
<1> SUFFICES ASSUME Init PROVE Promise!Init
  OBVIOUS
<1>1. \A c \in Clients : clients[c] = None
  BY DEF Init, NoClients, Senders, Names
<1>2. ToSet(todo) = {}  BY EmptyList DEF Init
<1> QED  BY <1>1, <1>2 DEF Promise!Init

LEMMA PromisedMembers ==
  ASSUME SerialInv
  PROVE  Promise!Members = Registered
<1>1. \A s \in Senders : clients[s] # None => s \in Clients
  BY DEF SerialInv, TalkInv, Books
<1>2. \A c \in Clients : c \in Senders  BY DEF Senders, Names
<1> QED  BY <1>1, <1>2 DEF Promise!Members, Registered

\* What clients and users do is not seen in the tables.
LEMMA PromisedStutter ==
  ASSUME clients' = clients, todo' = todo
  PROVE  UNCHANGED <<Member, Pending>>
  BY DEF Member, Pending

LEMMA PromisedServer ==
  ASSUME SerialInv, ServerStep
  PROVE  Promise!Next \/ UNCHANGED <<Member, Pending>>
<1> USE ThreadFacts, TypeFacts
<1>0. PlaceInv /\ TurnInv /\ TalkInv /\ Books
  BY DEF SerialInv, TalkInv
<1>1. /\ clients \in [Senders -> Contents \cup {None}] /\ client_count \in Int
      /\ todo \in Seq(Senders)
      /\ \A c \in Clients : c \in Senders
  BY <1>0 DEF PlaceInv, HoldInv, TypeOK, Senders
<1>2. CASE ServerEnroll
  <2>0. pc[server] = "enroll" /\ Answering(Server)
    BY <1>2 DEF ServerEnroll, Own, At, Answering, server
  <2>1. PICK r \in Clients : r = Request.sender
    BY <1>0, <2>0, ServerAnswers
  <2>2. /\ clients[r] = None /\ Request.content \in Groups /\ todo = <<>>
    BY <1>0, <2>0, <2>1, ServerAnswers DEF ServesWell, Books
  <2>3. PICK g \in Groups : g = Request.content  BY <2>2
  <2>4. clients' = [clients EXCEPT ![r] = g] /\ todo' = todo
    BY <1>2, <2>1, <2>3 DEF ServerEnroll, HtSet, cursor
  <2>5. Promise!Cardinality(Promise!Members) < MaxClients
    <3>1. client_count < MaxClients
      BY <1>0, <2>0 DEF PlaceInv, ServerInv, Room
    <3>2. Cardinality(Promise!Members) < MaxClients
      BY <1>0, <3>1, PromisedMembers DEF Books
    <3>3. Promise!Cardinality(Promise!Members) = Cardinality(Promise!Members)
      BY DEF Promise!Cardinality, Cardinality
    <3> QED  BY <3>2, <3>3
  <2>6. ToSet(todo) = {} /\ ToSet(todo)' = ToSet(todo)
    BY <2>2, <2>4, EmptyList
  <2>7. Member' = [Member EXCEPT ![r] = g]
    BY <1>1, <2>4 DEF Member
  <2>8. Promise!Join(r, g)
    BY <2>2, <2>5, <2>6, <2>7 DEF Promise!Join, Member
  <2> QED  BY <2>8 DEF Promise!Next
<1>3. CASE ServerRemove
  <2>0. pc[server] = "remove" /\ Answering(Server)
    BY <1>3 DEF ServerRemove, Own, At, Answering, server
  <2>1. PICK r \in Clients : r = Request.sender
    BY <1>0, <2>0, ServerAnswers
  <2>2. clients[r] # None /\ todo = <<>>
    BY <1>0, <2>0, <2>1, ServerAnswers DEF ServesWell
  <2>3. clients' = [clients EXCEPT ![r] = None] /\ todo' = todo
    BY <1>3, <2>1 DEF ServerRemove, HtRemove, cursor
  <2>4. ToSet(todo) = {} /\ ToSet(todo)' = ToSet(todo)
    BY <2>2, <2>3, EmptyList
  <2>5. Member' = [Member EXCEPT ![r] = None]
    BY <1>1, <2>3 DEF Member
  <2>6. Promise!Leave(r)
    BY <2>2, <2>4, <2>5 DEF Promise!Leave, Member
  <2> QED  BY <2>6 DEF Promise!Next
<1>4. CASE ServerAwait
  <2>1. /\ pc[server] = "await" /\ clients' = clients /\ todo' = groups[list]
    BY <1>4 DEF ServerAwait, Own, At, tables, Walk
  <2>2. PICK r \in Clients : r = Request.sender
    BY <1>0, <2>1 DEF TalkInv, Remembers, Awaiting
  <2>3. clients[r] = list /\ list # None
    BY <1>0, <2>1, <2>2 DEF TalkInv, Remembers, Awaiting
  <2>4. ToSet(todo) = {}
    <3>1. todo = <<>>
      BY <1>0, <2>1 DEF TalkInv, WalkInv, Walking, SendSteps
    <3> QED  BY <3>1, EmptyList
  <2>5. ToSet(todo)' = {c \in Clients : clients[c] = list}
    <3>1. list \in Contents
      BY <1>0, <2>1 DEF PlaceInv, ServerInv, TypeInv, ServerLists
    <3>2. \A d : d \in ToSet(groups[list]) <=> d \in Clients /\ clients[d] = list
      BY <1>0, <2>1, <3>1, Members
    <3> QED  BY <2>1, <3>2
  <2>6. Promise!Broadcast(r)
    BY <2>1, <2>3, <2>4, <2>5 DEF Promise!Broadcast, Promise!In
  <2> QED  BY <2>6 DEF Promise!Next
<1>5. CASE ServerForward /\ todo # <<>>
  <2>1. /\ pc[server] = "forward" /\ clients' = clients /\ todo' = Tail(todo)
    BY <1>5 DEF ServerForward, At, tables
  <2>2. WalkOK /\ Turn(server) /\ Walking
    BY <1>0, <2>1 DEF TalkInv, WalkInv, Walking, Turn, Proceeding
  <2>3. /\ Head(todo) \in ToSet(todo) /\ ToSet(todo') = ToSet(todo) \ {Head(todo)}
    BY <1>1, <1>5, <2>1, <2>2, TailFacts DEF WalkOK
  <2>4. PICK c \in Clients : c = Head(todo)
    BY <1>0, <2>2, <2>3, MemberUp DEF WalkOK
  <2>5. Promise!Deliver(c)
    BY <2>1, <2>3, <2>4 DEF Promise!Deliver
  <2> QED  BY <2>5 DEF Promise!Next
<1>6. CASE ServerForward /\ todo = <<>>
  BY <1>6, PromisedStutter DEF ServerForward, tables
<1>7. CASE ~ServerEnroll /\ ~ServerRemove /\ ~ServerAwait /\ ~ServerForward
  <2>1. clients' = clients /\ todo' = todo
    BY <1>7 DEF ServerStep, ServerJoin, ServerFull, ServerLog, ServerNull, ServerBroadcast,
           ServerRevive, ServerDisplay, ServerLeave, ServerRefuse, serverVars, tables, cursor
  <2> QED  BY <2>1, PromisedStutter
<1> QED  BY <1>2, <1>3, <1>4, <1>5, <1>6, <1>7

\* The server (server.c) implements the service its users are promised
\* (ChatGroups), under the same discipline of the users: a client is in one group
\* from its enrolment to its removal, never more than max_size at a time, and a
\* broadcast goes once to each client that is in the group when it starts, while
\* nobody joins or leaves.
THEOREM GroupsImplemented ==
  ASSUME ToClientsOnly
  PROVE  SerialSpec => ImplementsGroups
<1>1. Init => Promise!Init
  BY PromisedInit
<1>2. SerialInv /\ [SerialNext]_vars => [Promise!Next]_<<Member, Pending>>
  <2> SUFFICES ASSUME SerialInv, [SerialNext]_vars
               PROVE  Promise!Next \/ UNCHANGED <<Member, Pending>>
    OBVIOUS
  <2>1. CASE Serve
    BY <2>1, PromisedServer DEF Serve
  <2>2. CASE ~Serve
    <3>1. UNCHANGED serverVars
      <4>1. ~Restart  BY DEF Restart, Does, ToClientsOnly
      <4> QED
        BY <2>2, <4>1 DEF SerialNext, SystemStep, UserStep, ThreadStep, MainStep, InputStep,
           SigStep, vars
    <3> QED  BY <3>1, PromisedStutter DEF serverVars, tables, cursor
  <2> QED  BY <2>1, <2>2
<1>3. SerialInv /\ [SerialNext]_vars => [Promise!Next]_Promise!groupVars
  BY <1>2 DEF Promise!groupVars, Member, Pending
<1> QED
  BY <1>1, <1>3, SerialInvInit, SerialInvStep, PTL DEF SerialSpec, ImplementsGroups, Promise!Spec

=============================================================================
