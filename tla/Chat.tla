-------------------------------- MODULE Chat --------------------------------
(***************************************************************************)
(* The hw3 chat service: one server and a set of clients, which interact   *)
(* only through each other's shared-memory nodes.                          *)
(*                                                                         *)
(* Spec lets users act whenever they can.  SerialSpec is the same program  *)
(* under users who wait for the system to be at rest before they act       *)
(* again, the discipline under which the program was exercised by hand: it *)
(* separates what the protocol achieves from what it loses to overlapping  *)
(* requests.                                                               *)
(***************************************************************************)
EXTENDS FiniteSets, ChatServer, ChatClient

vars == <<nodeVars, serverVars, acts>>

TypeOK ==
  /\ up \subseteq Names
  /\ status \in [Names -> NodeStatus]
  /\ buffer \in [Names -> Message]
  /\ pc \in [Threads -> Steps]
  /\ call \in [Threads -> Calls]
  /\ kill \in [Clients -> BOOLEAN]
  /\ clients \in [Senders -> Contents \cup {None}]
  /\ groups \in [Contents -> Seq(Senders)]
  /\ created \subseteq Contents
  /\ client_count \in Int
  /\ list \in Contents \cup {None}
  /\ todo \in Seq(Senders)
  /\ acts \in 0..MaxActs

\* The tables of a server process that has just been started.
NoClients == [s \in Senders |-> None]
NoGroups  == [g \in Contents |-> <<>>]

\* The server is running, and no client has been started.
Init ==
  /\ up = {Server}
  /\ status = [n \in Names |-> "AVAILABLE"]
  /\ buffer = [n \in Names |-> Blank]
  /\ pc = [t \in Threads |-> IF t = server THEN "poll" ELSE "off"]
  /\ call = [t \in Threads |-> Idle]
  /\ kill = [c \in Clients |-> FALSE]
  /\ clients = NoClients
  /\ groups = NoGroups
  /\ created = {}
  /\ client_count = 0
  /\ list = None
  /\ todo = <<>>
  /\ acts = 0

\* A new server process, after ctrl-c ended the old one and removed its node.
Restart ==
  /\ Does("restart")
  /\ pc[server] = "off"
  /\ ~NodeIsUp(Server)
  /\ up'     = up \cup {Server}
  /\ status' = [status EXCEPT ![Server] = "AVAILABLE"]
  /\ buffer' = [buffer EXCEPT ![Server] = Blank]
  /\ pc'     = [pc EXCEPT ![server] = "poll"]
  /\ clients' = NoClients
  /\ groups'  = NoGroups
  /\ created' = {}
  /\ client_count' = 0
  /\ list' = None
  /\ todo' = <<>>
  /\ UNCHANGED <<call, kill>>

\* What the threads of the program do; each of these is one thread's.
ThreadStep(t) == NodeStep(t)   /\ UNCHANGED <<serverVars, acts>>
MainStep(c)   == ClientMain(c) /\ UNCHANGED <<serverVars, acts>>
InputStep(c)  == InputLoop(c)  /\ UNCHANGED <<serverVars, acts>>
SigStep(c)    == SigFree(c)    /\ UNCHANGED <<serverVars, acts>>
Serve         == ServerStep    /\ UNCHANGED acts

SystemStep ==
  \/ \E t \in Threads : ThreadStep(t)
  \/ \E c \in Clients : MainStep(c) \/ InputStep(c) \/ SigStep(c)
  \/ Serve

UserStep == (UserAct /\ UNCHANGED serverVars) \/ Restart

Next == SystemStep \/ UserStep
Spec == Init /\ [][Next]_vars

-----------------------------------------------------------------------------
(* One user action at a time *)

\* Every thread waits for a message or for a user.
AtRest ==
  /\ pc[server] \in {"poll", "off"}
  /\ status[Server] = "AVAILABLE"
  /\ \A c \in Clients :
       /\ pc[MainOf(c)] \in {"poll", "off"}
       /\ pc[InputOf(c)] \in {"prompt", "off"}
       /\ pc[SigOf(c)] = "off"
       /\ pc[MainOf(c)] = "poll" => status[c] = "AVAILABLE" /\ ~kill[c]

SerialNext == SystemStep \/ (AtRest /\ UserStep)
SerialSpec == Init /\ [][SerialNext]_vars

\* The operating system runs every thread again and again; users owe nothing.
Fairness ==
  /\ \A t \in Threads : WF_vars(ThreadStep(t))
  /\ WF_vars(Serve)
  /\ \A c \in Clients : /\ WF_vars(MainStep(c))
                        /\ WF_vars(InputStep(c))
                        /\ WF_vars(SigStep(c))

FairSpec       == Spec /\ Fairness
FairSerialSpec == SerialSpec /\ Fairness

-----------------------------------------------------------------------------
(* Properties of every execution *)

\* The node of a process that runs is WAITING only while one of its threads is
\* inside a send (posting or polling).  So whom respond_to_message finds WAITING
\* (chat.c:140) has not left its send at that moment.  What it writes two steps
\* later (143, 149) may still come too late: of two responders who have both looked,
\* the second writes to a process that the first has already released.
WaitingMeansBlocked ==
  \A n \in Names :
    status[n] = "WAITING_FOR_RESPONSE" /\ pc[MainOf(n)] # "off" =>
      \E t \in Threads : Owner(t) = n /\ pc[t] \in {"post", "spin"}

\* A client keeps its node as long as it has not been told to end: no thread of
\* it can fault on a freed node before [exit], ctrl-c or a LEAVE_GROUP message,
\* although three threads, two of which free the node, share it.
NodeHeldUntilKilled ==
  \A c \in Clients : pc[MainOf(c)] # "off" /\ ~kill[c] => c \in up

\* The server never counts more clients than max_size (server.c), whatever
\* requests overwrite each other between the test and the increment.
CapacityRespected == client_count <= MaxClients

-----------------------------------------------------------------------------
(* Properties of serial executions *)

Registered == {s \in Senders : clients[s] # None}

Occurrences(s, g) == {i \in DOMAIN groups[g] : groups[g][i] = s}

\* Except between its two updates of a join, the server's three records agree:
\* a client is in the member list of the group the client table gives it, once,
\* and in no other; client_count is the number of clients in the table.
RegistryConsistent ==
  pc[server] # "enroll" =>
    /\ \A s \in Senders, g \in Contents :
         Cardinality(Occurrences(s, g)) = IF clients[s] = g THEN 1 ELSE 0
    /\ client_count = Cardinality(Registered)

\* The assertions of respond_to_message hold: a responder is RECIEVED, and the
\* process its buffer names is blocked in the send it is about to answer.
RendezvousPaired ==
  \A t \in Threads :
    Own(t, "check") \/ Own(t, "attach") =>
      /\ status[Owner(t)] = "RECIEVED_MESSAGE"
      /\ Waits(Requester(Owner(t)))

\* Short of ctrl-c, the server ends in one way only: answering a join it has no
\* room for, to a group it has never seen.
ServerFallsOnlyWhenFull ==
  [][ pc[server] # "off" /\ pc'[server] = "off" /\ Server \in up =>
        /\ client_count >= MaxClients
        /\ Request.type = "JOIN_CREATE_GROUP"
        /\ Request.content \notin created ]_vars

\* When a broadcast ends, the node of every member that still runs holds the
\* text of the broadcast.
BroadcastDelivered ==
  pc[server] = "forward" /\ todo = <<>> =>
    \A c \in ToSet(groups[list]) \ {None} :
      pc[MainOf(c)] # "off" => buffer[c] = call[server].msg

\* Nobody is left who would answer: the server has ended, or a client has ended
\* and its node is still up, as [exit] leaves it (send_leave_message, client.c).
Stranded ==
  \/ pc[server] = "off"
  \/ \E c \in Clients : pc[MainOf(c)] = "off" /\ c \in up

\* Thread t has told a client to end: message.type is never assigned for a private
\* message, and LEAVE_GROUP is what it was left with.
Dismisses(t) ==
  /\ call[t].msg.type = "LEAVE_GROUP"
  /\ \E c \in Clients : buffer[c] = call[t].msg

\* Every send is answered: short of such an end nobody polls its node forever, but
\* for whoever sends a private message with the left-over type LEAVE_GROUP, to
\* which the recipient frees its node without an answer.
SendReturns ==
  \A t \in Threads : pc[t] = "spin" ~> pc[t] # "spin" \/ Stranded \/ Dismisses(t)

\* A client that gets ctrl-c while the server runs is removed from the tables,
\* and its name can be used again.
LogoutCompletes ==
  \A c \in Clients :
    pc[SigOf(c)] # "off" ~> (clients[c] = None /\ c \notin up) \/ pc[server] = "off"

\* The tables and the broadcast in progress, as their users see them.
Promise ==
  INSTANCE ChatGroups WITH
    member <- [c \in Clients |-> clients[c]],
    pending <- ToSet(todo)

\* The server implements the service its users are promised.
ImplementsGroups == Promise!Spec

=============================================================================
