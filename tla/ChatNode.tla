------------------------------ MODULE ChatNode ------------------------------
(***************************************************************************)
(* The shared-memory nodes of the hw3 chat service and the exchange of     *)
(* messages through them (chat.c), which server and clients share.         *)
(*                                                                         *)
(* Every process owns one shared-memory node: a status word and a buffer   *)
(* that holds one message.  A send (send_message) copies the message into  *)
(* the recipient's node, marks the sender's own node WAITING and the       *)
(* recipient's node RECIEVED, and polls its own node until it is           *)
(* AVAILABLE.  A respond (respond_to_message) copies the answer into the   *)
(* node named by the sender field of its own buffer, releases that node,   *)
(* then releases its own.  Nothing is locked, and the name of the sender   *)
(* is read from the shared buffer each time it is used.                    *)
(*                                                                         *)
(* Each access of these two functions to a shared node is a step of its    *)
(* own; three reads are merged with the next: attaching to a node, copying *)
(* a message, and the second assertion with the attach before it.  A       *)
(* client has three threads of control: main, the input thread and the     *)
(* SIGINT handler, which suspends main while it runs.  Names map to keys   *)
(* without collisions.                                                     *)
(***************************************************************************)
EXTENDS Integers, Sequences, SequencesExt

CONSTANTS
  Clients,      \* client names; a client process is known by its name
  Server,       \* SERVER_NAME
  Groups,       \* group ids a client may be started with
  Texts,        \* lines a user may type
  Empty,        \* the empty string, as the content of a message
  None,         \* no name, no group, no node
  MaxClients,   \* max_size of server.c
  Stale,        \* message types an uninitialised Message may carry
  Commands,     \* what users do in this instance, a subset of AllCommands
  MaxActs       \* bound on the number of user actions

Names    == Clients \cup {Server}
Senders  == Names \cup {None}
Contents == Groups \cup Texts \cup {Empty}

MessageType == {"JOIN_CREATE_GROUP", "BROADCAST_MESSAGE", "PRIVATE_MESSAGE",
                "LEAVE_GROUP", "DISPLAY_USERS", "UNKNOWN"}
NodeStatus  == {"AVAILABLE", "RECIEVED_MESSAGE", "WAITING_FOR_RESPONSE",
                "HANDLING_RESPONSE"}
Message     == [sender: Senders, type: MessageType, content: Contents]

AllCommands == {"start", "broadcast", "display", "private", "private server",
                "exit", "ctrl-c", "stop", "restart"}

ASSUME ChatAssumption ==
  /\ Server \notin Clients
  /\ None \notin Names \cup Contents
  /\ MaxClients \in Nat \ {0}
  /\ Stale \subseteq MessageType
  /\ Commands \subseteq AllCommands
  /\ MaxActs \in Nat

-----------------------------------------------------------------------------
(* Threads.  A thread is a pair: the process it belongs to and its role.   *)

Threads == (Names \X {"main"}) \cup (Clients \X {"input", "sig"})

MainOf(n)  == <<n, "main">>
InputOf(c) == <<c, "input">>
SigOf(c)   == <<c, "sig">>
Owner(t)   == t[1]

SendSteps    == {"copy", "claim", "post", "spin"}
RespondSteps == {"check", "attach", "reply", "release", "finish"}
ServerSteps  == {"enroll", "log", "await", "forward", "remove"}
ClientSteps  == {"admit", "loop", "prompt", "free"}
Steps        == {"off", "poll"} \cup SendSteps \cup RespondSteps
                  \cup ServerSteps \cup ClientSteps

\* The steps that dereference the node of the thread's own process.
OwnSteps == {"claim", "spin", "check", "attach", "finish", "poll", "enroll",
             "log", "remove", "admit"}

\* A call in progress: the node it is attached to (the name to attach to while
\* at "copy"), the message it carries and where its caller continues.
Blank == [sender |-> None, type |-> "JOIN_CREATE_GROUP", content |-> Empty]
Idle  == [peer |-> None, msg |-> Blank, back |-> "off"]
Calls == [peer: Senders, msg: Message, back: Steps]

VARIABLES
  up,            \* names whose key has a shared-memory segment
  status,        \* node->status
  buffer,        \* node->buffer
  pc,            \* where each thread is
  call,          \* the send or respond each thread is in
  kill           \* kill_client of each client process

nodes    == <<up, status, buffer>>
frames   == <<pc, call>>
nodeVars == <<nodes, frames, kill>>

-----------------------------------------------------------------------------
(* The SIGINT handler runs on the main thread of a client and suspends it. *)
Suspended(t) == /\ t \in Clients \X {"main"}
                /\ pc[SigOf(Owner(t))] # "off"

At(t, step)  == pc[t] = step /\ ~Suspended(t)
Own(t, step) == At(t, step) /\ Owner(t) \in up

Goto(t, step) == pc' = [pc EXCEPT ![t] = step]

\* The process of n ends: its threads stop, its segment stays.
Exit(n) ==
  /\ pc'   = [t \in Threads |-> IF Owner(t) = n THEN "off" ELSE pc[t]]
  /\ call' = [t \in Threads |-> IF Owner(t) = n THEN Idle ELSE call[t]]
  /\ kill' = [c \in Clients |-> kill[c] /\ c # n]

\* create_node without IPC_CREAT finds a segment under the key of that name.
CanAttach(n) == n \in up

\* node_is_up: the same question, asked before a name is used.
NodeIsUp(n) == n \in up

\* What a call becomes when n frees its node: an attached pointer now leads to
\* a segment nobody else can reach.
Orphaned(k, t, n) ==
  IF k.peer = n /\ pc[t] # "copy" THEN [k EXCEPT !.peer = None] ELSE k

\* free_node: the owner detaches and removes the segment.
FreeNode(n) ==
  /\ up'   = up \ {n}
  /\ call' = [t \in Threads |-> Orphaned(call[t], t, n)]

-----------------------------------------------------------------------------
(* send_message *)

Send(t, to, m, back) ==
  /\ Goto(t, "copy")
  /\ call' = [call EXCEPT ![t] = [peer |-> to, msg |-> m, back |-> back]]

\* create_node fails and ends the process when the recipient has no segment.
SendCopy(t) ==
  /\ At(t, "copy")
  /\ \/ /\ CanAttach(call[t].peer)
        /\ buffer' = [buffer EXCEPT ![call[t].peer] = call[t].msg]
        /\ Goto(t, "claim")
        /\ UNCHANGED <<call, kill>>
     \/ /\ ~CanAttach(call[t].peer)
        /\ Exit(Owner(t))
        /\ UNCHANGED buffer
  /\ UNCHANGED <<up, status>>

\* Mutant: the sender forgets to mark itself WAITING.
SendClaimSilent(t) ==
  /\ Own(t, "claim")
  /\ Goto(t, "post")
  /\ UNCHANGED <<nodes, call, kill>>

SendClaim(t) ==
  /\ Own(t, "claim")
  /\ status' = [status EXCEPT ![Owner(t)] = "WAITING_FOR_RESPONSE"]
  /\ Goto(t, "post")
  /\ UNCHANGED <<up, buffer, call, kill>>

SendPost(t) ==
  /\ At(t, "post")
  /\ status' = [n \in Names |-> IF n = call[t].peer THEN "RECIEVED_MESSAGE"
                                                    ELSE status[n]]
  /\ call' = [call EXCEPT ![t].peer = None]
  /\ Goto(t, "spin")
  /\ UNCHANGED <<up, buffer, kill>>

\* Mutant: the sender does not wait to be released.
ReleasedAtOnce(t) == TRUE

Released(t) == status[Owner(t)] = "AVAILABLE"

SendSpin(t) ==
  /\ Own(t, "spin")
  /\ Released(t)
  /\ Goto(t, call[t].back)
  /\ UNCHANGED <<nodes, call, kill>>

-----------------------------------------------------------------------------
(* respond_to_message *)

Respond(t, m, back) ==
  /\ Goto(t, "check")
  /\ call' = [call EXCEPT ![t] = [peer |-> None, msg |-> m, back |-> back]]

\* An assertion that fails, and a create_node that does, end the process.
RespondCheck(t) ==
  /\ Own(t, "check")
  /\ \/ /\ status[Owner(t)] = "RECIEVED_MESSAGE"
        /\ Goto(t, "attach")
        /\ UNCHANGED <<call, kill>>
     \/ /\ status[Owner(t)] # "RECIEVED_MESSAGE"
        /\ Exit(Owner(t))
  /\ UNCHANGED nodes

\* The process to answer: the sender named in the node's buffer by now.
Requester(n) == buffer[n].sender

Waits(r) == CanAttach(r) /\ status[r] = "WAITING_FOR_RESPONSE"

RespondAttach(t) ==
  /\ Own(t, "attach")
  /\ LET r == Requester(Owner(t)) IN
       \/ /\ Waits(r)
          /\ call' = [call EXCEPT ![t].peer = r]
          /\ Goto(t, "reply")
          /\ UNCHANGED kill
       \/ /\ ~Waits(r)
          /\ Exit(Owner(t))
  /\ UNCHANGED nodes

RespondReply(t) ==
  /\ At(t, "reply")
  /\ buffer' = [n \in Names |-> IF n = call[t].peer THEN call[t].msg
                                                    ELSE buffer[n]]
  /\ Goto(t, "release")
  /\ UNCHANGED <<up, status, call, kill>>

\* Mutant: the responder forgets to release the sender.
RespondReleaseNobody(t) ==
  /\ At(t, "release")
  /\ call' = [call EXCEPT ![t].peer = None]
  /\ Goto(t, "finish")
  /\ UNCHANGED <<nodes, kill>>

RespondRelease(t) ==
  /\ At(t, "release")
  /\ status' = [n \in Names |-> IF n = call[t].peer THEN "AVAILABLE"
                                                    ELSE status[n]]
  /\ call' = [call EXCEPT ![t].peer = None]
  /\ Goto(t, "finish")
  /\ UNCHANGED <<up, buffer, kill>>

RespondFinish(t) ==
  /\ Own(t, "finish")
  /\ status' = [status EXCEPT ![Owner(t)] = "AVAILABLE"]
  /\ Goto(t, call[t].back)
  /\ call' = [call EXCEPT ![t] = Idle]
  /\ UNCHANGED <<up, buffer, kill>>

\* A thread touches the node its own process has already freed.
Fault(t) ==
  /\ pc[t] \in OwnSteps
  /\ ~Suspended(t)
  /\ Owner(t) \notin up
  /\ Exit(Owner(t))
  /\ UNCHANGED nodes

\* A step of the node layer.
NodeStep(t) ==
  \/ SendCopy(t)  \/ SendClaim(t) \/ SendPost(t)  \/ SendSpin(t)
  \/ RespondCheck(t) \/ RespondAttach(t) \/ RespondReply(t)
  \/ RespondRelease(t) \/ RespondFinish(t) \/ Fault(t)

=============================================================================
