----------------------------- MODULE ChatStartup -----------------------------
(***************************************************************************)
(* How the processes of the hw3 chat service get and give back their nodes *)
(* (main of server.c and client.c, and create_node, free_node and          *)
(* node_is_up of chat.c).  Chat takes the test of a name and the creation  *)
(* of its node as one step and names as keys; here each system call is a   *)
(* step, and names may share a key.                                        *)
(*                                                                         *)
(* While a process runs it does what Chat describes; here it has its node, *)
(* may end abruptly, and a server may make a node a second time.  Its      *)
(* passing attachments to nodes of others are left out: they can only      *)
(* delay the end of a node that is marked.  Nodes that are found are as    *)
(* large as those asked for.                                               *)
(***************************************************************************)
EXTENDS SharedMemory

CONSTANTS
  Servers,       \* the processes that are servers; the others are clients
  Names,         \* names of nodes
  SERVER_NAME,   \* the name every server uses
  Name,          \* the name each process is started with
  name_to_key,   \* the key of each name: any function
  MaxKills       \* bound on the processes killed at a step of their own

ASSUME ChatStartupAssumption ==
  /\ Servers \subseteq Procs
  /\ SERVER_NAME \in Names
  /\ Name \in [Procs -> Names]
  /\ \A p \in Servers : Name[p] = SERVER_NAME
  /\ name_to_key \in [Names -> Keys]
  /\ MaxKills \in Nat

VARIABLES
  pc,       \* where each process is in its startup or end, and how it ended
  found,    \* the segment node_is_up has found
  node,     \* the segment of the process's own node: shmid, then node->id
  kills,    \* processes killed
  revived,  \* history: nodes that a server has made while it ran (server.c:135)
  met       \* history: pairs of processes that were both between the test of
            \* their name and the creation of their node

vars == <<kernel, pc, found, node, kills, revived, met>>

Testing == {"server_is_up", "attach server", "detach server",
            "node_is_up", "attach name", "detach name"}
Window  == {"shmget"}
Making  == {"shmat", "signal"}
Freeing == {"shmdt", "shmctl"}

\* "exited" is main's return after [exit], "aborted" an end in the middle of what
\* Chat describes, "crashed" one for a node that another process has freed.
Ends    == {"refused", "closed", "exited", "aborted", "failed", "crashed", "killed"}

Key(p) == name_to_key[Name[p]]
Goto(p, step) == pc' = [pc EXCEPT ![p] = step]

TypeOK ==
  /\ KernelOK
  /\ pc \in [Procs -> {"off", "run", "resume"} \cup Testing \cup Window \cup Making
                    \cup Freeing \cup Ends]
  /\ found \in [Procs -> Segments \cup {NoSegment}]
  /\ node \in [Procs -> Segments \cup {NoSegment}]
  /\ \A p \in Procs :
       /\ pc[p] \in Testing \ {"server_is_up", "node_is_up"} => found[p] \in Segments
       /\ pc[p] \in Making \cup {"run"} \cup Freeing => node[p] \in Segments
  /\ kills \in 0..MaxKills
  /\ revived \subseteq Segments
  /\ met \subseteq SUBSET Procs

Init ==
  /\ NoSegments
  /\ pc = [p \in Procs |-> "off"]
  /\ found = [p \in Procs |-> NoSegment]
  /\ node = [p \in Procs |-> NoSegment]
  /\ kills = 0
  /\ revived = {}
  /\ met = {}

\* The process ends; the kernel detaches it.
End(p, how) ==
  /\ Goto(p, how)
  /\ Detach(p)
  /\ UNCHANGED node

-----------------------------------------------------------------------------
(* node_is_up: shmget, shmat, shmdt                                        *)

InWindow == {p \in Procs : pc[p] \in Window}

\* A client tests the server's name, then its own; a server its own, which is
\* the server's.
Start(p) ==
  /\ pc[p] = "off"
  /\ Goto(p, IF p \in Servers THEN "node_is_up" ELSE "server_is_up")
  /\ UNCHANGED <<kernel, found, node, kills, revived, met>>

ServerIsUp(p) ==
  /\ pc[p] = "server_is_up"
  /\ LET s == keyed[name_to_key[SERVER_NAME]] IN
       /\ found' = [found EXCEPT ![p] = s]
       /\ Goto(p, IF s = NoSegment THEN "refused" ELSE "attach server")
  /\ UNCHANGED <<kernel, node, kills, revived, met>>

\* Mutant: the name is taken to be free.
NodeIsUpNever(p) ==
  /\ pc[p] = "node_is_up"
  /\ Goto(p, "shmget")
  /\ met' = met \cup {{p, q} : q \in InWindow}
  /\ UNCHANGED <<kernel, found, node, kills, revived>>

NodeIsUp(p) ==
  /\ pc[p] = "node_is_up"
  /\ found' = [found EXCEPT ![p] = keyed[Key(p)]]
  /\ \/ /\ keyed[Key(p)] = NoSegment
        /\ Goto(p, "shmget")
        /\ met' = met \cup {{p, q} : q \in InWindow}
     \/ /\ keyed[Key(p)] # NoSegment
        /\ Goto(p, "attach name")
        /\ UNCHANGED met
  /\ UNCHANGED <<kernel, node, kills, revived>>

\* shmat returns -1, not NULL, for a segment that has been destroyed: shmdt then
\* fails, and the process exits.
AttachFound(p) ==
  /\ pc[p] \in {"attach server", "attach name"}
  /\ \/ /\ found[p] \in live
        /\ Attach(p, found[p])
        /\ \/ pc[p] = "attach server" /\ Goto(p, "detach server")
           \/ pc[p] = "attach name"   /\ Goto(p, "detach name")
        /\ UNCHANGED node
     \/ /\ found[p] \notin live
        /\ End(p, "failed")
  /\ UNCHANGED <<found, kills, revived, met>>

\* Mutant: the segment is freed, not detached from.
DetachFoundFrees(p) ==
  /\ pc[p] \in {"detach server", "detach name"}
  /\ Remove(found[p])
  /\ \/ pc[p] = "detach server" /\ Goto(p, "node_is_up")
     \/ pc[p] = "detach name"   /\ Goto(p, "refused")
  /\ found' = [found EXCEPT ![p] = NoSegment]
  /\ UNCHANGED <<node, kills, revived, met>>

DetachFound(p) ==
  /\ pc[p] \in {"detach server", "detach name"}
  /\ Detach(p)
  /\ \/ pc[p] = "detach server" /\ Goto(p, "node_is_up")
     \/ pc[p] = "detach name"   /\ Goto(p, "refused")
  /\ found' = [found EXCEPT ![p] = NoSegment]
  /\ UNCHANGED <<node, kills, revived, met>>

-----------------------------------------------------------------------------
(* create_node, with IPC_CREAT                                             *)

Shmget(p) ==
  /\ pc[p] = "shmget"
  /\ \/ /\ keyed[Key(p)] = NoSegment
        /\ \E s \in Segments : Create(Key(p), s) /\ node' = [node EXCEPT ![p] = s]
     \/ /\ keyed[Key(p)] # NoSegment
        /\ node' = [node EXCEPT ![p] = keyed[Key(p)]]
        /\ UNCHANGED kernel
  /\ Goto(p, "shmat")
  /\ UNCHANGED <<found, kills, revived, met>>

\* -1 is not noticed here either, and the next access faults.  A server installs
\* its signal handler after this, a client has done so before.
Shmat(p) ==
  /\ pc[p] = "shmat"
  /\ \/ /\ node[p] \in live
        /\ Attach(p, node[p])
        /\ Goto(p, IF p \in Servers THEN "signal" ELSE "run")
        /\ UNCHANGED node
     \/ /\ node[p] \notin live
        /\ End(p, "crashed")
  /\ UNCHANGED <<found, kills, revived, met>>

Signal(p) ==
  /\ pc[p] = "signal"
  /\ Goto(p, "run")
  /\ UNCHANGED <<kernel, found, node, kills, revived, met>>

-----------------------------------------------------------------------------
(* Ends *)

\* free_node: on ctrl-c, and in a client that is refused or told to leave.
Leave(p) ==
  /\ pc[p] = "run"
  /\ Goto(p, "shmdt")
  /\ UNCHANGED <<kernel, found, node, kills, revived, met>>

Shmdt(p) ==
  /\ pc[p] = "shmdt"
  /\ Detach(p)
  /\ Goto(p, "shmctl")
  /\ UNCHANGED <<found, node, kills, revived, met>>

\* Mutant: the node is only detached.
ShmctlNot(p) ==
  /\ pc[p] = "shmctl"
  /\ Goto(p, "closed")
  /\ UNCHANGED <<kernel, found, node, kills, revived, met>>

\* IPC_RMID fails, and the process exits, when its node is no more.  Otherwise the
\* process is over, but for a server that ctrl-c has stopped before server.c:135.
Shmctl(p) ==
  /\ pc[p] = "shmctl"
  /\ \/ /\ node[p] \in live
        /\ Remove(node[p])
        /\ \/ Goto(p, "closed")
           \/ p \in Servers /\ Goto(p, "resume")
     \/ /\ node[p] \notin live
        /\ Goto(p, "crashed")
        /\ UNCHANGED kernel
  /\ UNCHANGED <<found, node, kills, revived, met>>

\* create_node in a broadcast carries IPC_CREAT: where the node of the server's
\* name has gone, by ctrl-c or because a server that shared it has freed it, this
\* makes another, and detaches from it.
Revive(p) ==
  /\ p \in Servers /\ pc[p] \in {"run", "resume"}
  /\ keyed[Key(p)] = NoSegment
  /\ \E s \in Segments : Create(Key(p), s) /\ revived' = revived \cup {s}
  /\ Goto(p, IF pc[p] = "run" THEN "run" ELSE "aborted")
  /\ UNCHANGED <<found, node, kills, met>>

\* Behind it the request is read from the node that ctrl-c has detached: a fault.
Resume(p) ==
  /\ pc[p] = "resume" /\ keyed[Key(p)] # NoSegment
  /\ Goto(p, "aborted")
  /\ UNCHANGED <<kernel, found, node, kills, revived, met>>

\* [exit] in a client: main returns.
Exit(p) ==
  /\ pc[p] = "run" /\ p \notin Servers
  /\ End(p, "exited")
  /\ UNCHANGED <<found, kills, revived, met>>

\* An assertion of respond_to_message that fails, a create_node that finds no
\* recipient, a lookup that gives the server NULL.
Abort(p) ==
  /\ pc[p] = "run"
  /\ End(p, "aborted")
  /\ UNCHANGED <<found, kills, revived, met>>

\* SIGKILL at any step; or ctrl-c at a step other than "run", where a server has
\* no handler yet, and the handler of a client finds no node and faults.
Kill(p) ==
  /\ pc[p] \notin Ends \cup {"off"} /\ kills < MaxKills
  /\ kills' = kills + 1
  /\ End(p, "killed")
  /\ UNCHANGED <<found, revived, met>>

Next ==
  \E p \in Procs :
    \/ Start(p) \/ ServerIsUp(p) \/ NodeIsUp(p) \/ AttachFound(p) \/ DetachFound(p)
    \/ Shmget(p) \/ Shmat(p) \/ Signal(p)
    \/ Leave(p) \/ Shmdt(p) \/ Shmctl(p) \/ Revive(p) \/ Resume(p)
    \/ Exit(p) \/ Abort(p) \/ Kill(p)

Spec == Init /\ [][Next]_vars

-----------------------------------------------------------------------------
(* Properties *)

Running == {p \in Procs : pc[p] = "run"}

\* Two processes have one node, by one name or by two of the same key, only if
\* both tested their names before either made its node (client.c:112, server.c:44).
SharedByRaceOnly ==
  \A p, q \in Running : p # q /\ node[p] = node[q] => {p, q} \in met

\* "Only 1 server should be up" (server.c), and one client of a name: two
\* processes of one key run only if one of them started in a race, with the other
\* or with a third, which has taken the node out of the way since.
UniqueUnlessRaced ==
  \A p, q \in Running :
    p # q /\ Key(p) = Key(q) => \E e \in met : p \in e \/ q \in e

\* The node of a process can be found by its name as long as it runs, and a
\* process does not fault on a node that another has freed, unless it started in
\* a race: free_node of one process never takes the node of another.
LosesNodeByRaceOnly ==
  \A p \in Procs :
    \/ pc[p] = "run" /\ keyed[Key(p)] # node[p]
    \/ pc[p] = "crashed"
      => \E q \in Procs : {p, q} \in met

\* free_node leaves no node behind, however processes that share one, or test its
\* name meanwhile, overlap.  One that nobody is attached to belongs to a process
\* between two calls, or was left by [exit], by a fault, a failed assertion or a
\* kill, or was made by a server anew.
LeftWithoutFree ==
  \A s \in live : attached[s] = {} =>
    \/ s \in revived
    \/ \E p \in Procs :
         node[p] = s /\ pc[p] \in {"shmat", "shmctl", "exited", "aborted", "killed"}

=============================================================================
