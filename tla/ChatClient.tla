----------------------------- MODULE ChatClient -----------------------------
(***************************************************************************)
(* A chat client (client.c).  main joins a group and then serves the       *)
(* messages that reach its node; the input thread turns typed lines into   *)
(* requests; the SIGINT handler, on the main thread, leaves and frees the  *)
(* node.  The actions of users are kept apart from the steps of the        *)
(* program: acts counts them, and MaxActs bounds them.                     *)
(***************************************************************************)
EXTENDS ChatNode

VARIABLE acts    \* user actions so far

\* Mutant: kill_client stays 0.
KilledNot(c) == kill

\* kill_client = 1
Killed(c) == [kill EXCEPT ![c] = TRUE]

ClientSays(c, type, content) ==
  [sender |-> c, type |-> type, content |-> content]

-----------------------------------------------------------------------------
(* Steps of the program *)

\* The answer to the join: refused clients free their node and return.
ClientAdmit(c) ==
  /\ Own(MainOf(c), "admit")
  /\ \/ /\ buffer[c].type = "LEAVE_GROUP"
        /\ up' = up \ {c}
        /\ pc' = [t \in Threads |-> IF Owner(t) = c THEN "off" ELSE pc[t]]
        /\ call' = [t \in Threads |-> IF Owner(t) = c THEN Idle
                                      ELSE Orphaned(call[t], t, c)]
     \/ /\ buffer[c].type # "LEAVE_GROUP"
        /\ pc' = [pc EXCEPT ![MainOf(c)] = "poll", ![InputOf(c)] = "loop"]
        /\ call' = [call EXCEPT ![MainOf(c)] = Idle]
        /\ UNCHANGED up
  /\ UNCHANGED <<status, buffer, kill>>

\* A message for the client: LEAVE_GROUP ends it, anything else is answered.
ClientServe(c) ==
  /\ Own(MainOf(c), "poll")
  /\ ~kill[c]
  /\ status[c] = "RECIEVED_MESSAGE"
  /\ \/ /\ buffer[c].type = "LEAVE_GROUP"
        /\ kill' = Killed(c)
        /\ FreeNode(c)
        /\ UNCHANGED <<status, buffer, pc>>
     \/ /\ buffer[c].type # "LEAVE_GROUP"
        /\ \E ty \in Stale : Respond(MainOf(c), ClientSays(c, ty, Empty), "poll")
        /\ UNCHANGED <<nodes, kill>>

\* main returns once kill_client is set, and the process ends with it.
ClientQuit(c) ==
  /\ At(MainOf(c), "poll")
  /\ kill[c]
  /\ Exit(c)
  /\ UNCHANGED nodes

\* while (!kill_client) of the input thread.
InputLoop(c) ==
  /\ At(InputOf(c), "loop")
  /\ Goto(InputOf(c), IF kill[c] THEN "off" ELSE "prompt")
  /\ call' = [call EXCEPT ![InputOf(c)] = Idle]
  /\ UNCHANGED <<nodes, kill>>

\* Mutant: the handler leaves but keeps the node.
SigFreeNothing(c) ==
  /\ Own(SigOf(c), "free")
  /\ Goto(SigOf(c), "off")
  /\ call' = [call EXCEPT ![SigOf(c)] = Idle]
  /\ UNCHANGED <<nodes, kill>>

\* The end of sigterm_handler: free_node(client), then main resumes.
SigFree(c) ==
  /\ Own(SigOf(c), "free")
  /\ Goto(SigOf(c), "off")
  /\ up' = up \ {c}
  /\ call' = [t \in Threads |-> IF t = SigOf(c) THEN Idle
                                ELSE Orphaned(call[t], t, c)]
  /\ UNCHANGED <<status, buffer, kill>>

ClientMain(c) == ClientAdmit(c) \/ ClientServe(c) \/ ClientQuit(c)

-----------------------------------------------------------------------------
(* Actions of users *)

Does(command) ==
  /\ command \in Commands
  /\ acts < MaxActs
  /\ acts' = acts + 1

\* client <group> <name>: the checks of main, create_node, the join request.
Start(c, g) ==
  /\ Does("start")
  /\ pc[MainOf(c)] = "off"
  /\ NodeIsUp(Server)
  /\ ~NodeIsUp(c)
  /\ up'     = up \cup {c}
  /\ status' = [status EXCEPT ![c] = "AVAILABLE"]
  /\ buffer' = [buffer EXCEPT ![c] = Blank]
  /\ Send(MainOf(c), Server, ClientSays(c, "JOIN_CREATE_GROUP", g), "admit")
  /\ UNCHANGED kill

\* A line typed at the prompt of c becomes a message to one process.
Types(c, to, m) ==
  /\ At(InputOf(c), "prompt")
  /\ Send(InputOf(c), to, m, "loop")
  /\ UNCHANGED nodes

TypeLine(c, x) ==
  /\ Does("broadcast")
  /\ Types(c, Server, ClientSays(c, "BROADCAST_MESSAGE", x))
  /\ UNCHANGED kill

TypeDisplay(c) ==
  /\ Does("display")
  /\ Types(c, Server, ClientSays(c, "DISPLAY_USERS", Empty))
  /\ UNCHANGED kill

\* [exit]: kill_client is set before the leave request is sent.
TypeExit(c) ==
  /\ Does("exit")
  /\ Types(c, Server, ClientSays(c, "LEAVE_GROUP", Empty))
  /\ kill' = Killed(c)

\* [private u] x: u must be up and not c itself; message.type is never assigned.
TypePrivate(c, u, x) ==
  /\ Does(IF u = Server THEN "private server" ELSE "private")
  /\ NodeIsUp(u) /\ u # c
  /\ \E ty \in Stale : Types(c, u, ClientSays(c, ty, x))
  /\ UNCHANGED kill

\* ctrl-c at a client, not while its handler runs: sigterm_handler up to its
\* send.
CtrlC(c) ==
  /\ Does("ctrl-c")
  /\ pc[MainOf(c)] # "off"
  /\ pc[SigOf(c)] = "off"
  /\ kill' = Killed(c)
  /\ Send(SigOf(c), Server, ClientSays(c, "LEAVE_GROUP", Empty), "free")
  /\ UNCHANGED nodes

\* ctrl-c at the server: its handler frees the node; the loop then ends, or
\* the interrupted step faults (Fault stands for both: the process is over).
Stop ==
  /\ Does("stop")
  /\ pc[MainOf(Server)] # "off"
  /\ Server \in up
  /\ FreeNode(Server)
  /\ UNCHANGED <<status, buffer, pc, kill>>

UserAct ==
  \/ \E c \in Clients :
       \/ \E g \in Groups : Start(c, g)
       \/ \E x \in Texts : TypeLine(c, x)
       \/ TypeDisplay(c)
       \/ TypeExit(c)
       \/ \E u \in Names, x \in Texts : TypePrivate(c, u, x)
       \/ CtrlC(c)
  \/ Stop

=============================================================================
