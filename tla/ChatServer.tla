----------------------------- MODULE ChatServer -----------------------------
(***************************************************************************)
(* The chat server (server.c): one thread that polls its own node, serves  *)
(* the request it finds there and keeps two tables, client |-> group and   *)
(* group |-> list of members, with a count of the clients it admitted.     *)
(*                                                                         *)
(* The request is never copied out of the shared buffer: message,          *)
(* sender_name and group_id are pointers into it, so every use below reads *)
(* buffer[Server] again.  The uses that lie between two updates of a table *)
(* are one step, as in ServerJoin and ServerRemove.                        *)
(***************************************************************************)
EXTENDS ChatNode

VARIABLES
  clients,       \* table clients: client |-> group id, None when absent
  groups,        \* table group_to_clients: group id |-> list of members
  created,       \* the group ids that table has an entry for
  client_count,  \* client_count
  list,          \* the list pointer held by the handler, None for NULL
  todo           \* members the broadcast in progress has still to reach

tables     == <<clients, groups, created, client_count>>
cursor     == <<list, todo>>
serverVars == <<tables, cursor>>

server  == MainOf(Server)
Request == buffer[Server]

\* The hash table (hashtable.c), for what its chains amount to: a function from
\* keys to values, None for a key that has no entry.  The table keeps copies of
\* what it is given, so a later write to the request does not reach them.
HtGet(ht, key)        == ht[key]
HtSet(ht, key, value) == [ht EXCEPT ![key] = value]
HtRemove(ht, key)     == [ht EXCEPT ![key] = None]

\* The linked list (linked_list.c), newest element first.
LlPrepend(ll, elem) == Cons(elem, ll)

ServerSays(type) == [sender |-> Server, type |-> type, content |-> Empty]

\* The server finds a request of the given type in its node.
Handles(type) ==
  /\ Own(server, "poll")
  /\ status[Server] = "RECIEVED_MESSAGE"
  /\ Request.type = type

\* Mutant: admits one client too many.
HasRoomForOneMore == client_count <= MaxClients

HasRoom == client_count < MaxClients

\* JOIN_CREATE_GROUP below capacity: first the member list of the group ...
\* (The sender and the group are read several times on the way, here once.)
ServerJoin ==
  /\ Handles("JOIN_CREATE_GROUP")
  /\ HasRoom
  /\ LET g == Request.content IN
       /\ groups'  = [groups EXCEPT ![g] = LlPrepend(@, Request.sender)]
       /\ created' = created \cup {g}
       /\ list'    = g
  /\ Goto(server, "enroll")
  /\ UNCHANGED <<nodes, call, kill, clients, client_count, todo>>

\* ... then the table of clients and the count, then the answer.
ServerEnroll ==
  /\ Own(server, "enroll")
  /\ clients' = HtSet(clients, Request.sender, Request.content)
  /\ client_count' = client_count + 1
  /\ Respond(server, ServerSays("JOIN_CREATE_GROUP"), "log")
  /\ UNCHANGED <<nodes, kill, groups, created, cursor>>

\* Mutant: the list of an existing group is not found.
LookupFails(g) == None

\* ht_get on group_to_clients: a list is known by its group, None is NULL.
Lookup(g) == IF g \in created THEN g ELSE None

\* JOIN_CREATE_GROUP at capacity: the answer tells the client to leave.
ServerFull ==
  /\ Handles("JOIN_CREATE_GROUP")
  /\ ~HasRoom
  /\ list' = Lookup(Request.content)
  /\ Respond(server, ServerSays("LEAVE_GROUP"), "log")
  /\ UNCHANGED <<nodes, kill, tables, todo>>

\* Both cases end by printing the member list; ll_str(NULL) is fatal.
ServerLog ==
  /\ Own(server, "log")
  /\ \/ /\ list # None
        /\ Goto(server, "poll")
        /\ UNCHANGED <<call, kill>>
     \/ /\ list = None
        /\ Exit(Server)
  /\ UNCHANGED <<nodes, tables, cursor>>

\* The two lookups a broadcast, a display and a leave begin with.
Known == HtGet(clients, Request.sender) \in created

\* A failed lookup is dereferenced: ht_get(..., NULL) or ll_str(NULL).
ServerNull ==
  /\ \E ty \in {"BROADCAST_MESSAGE", "DISPLAY_USERS", "LEAVE_GROUP"} : Handles(ty)
  /\ ~Known
  /\ Exit(Server)
  /\ UNCHANGED <<nodes, serverVars>>

\* BROADCAST_MESSAGE: acknowledge, wait, then send to each member in turn.
ServerBroadcast ==
  /\ Handles("BROADCAST_MESSAGE")
  /\ Known
  /\ list' = HtGet(clients, Request.sender)
  /\ Respond(server, ServerSays("BROADCAST_MESSAGE"), "await")
  /\ UNCHANGED <<nodes, kill, tables, todo>>

\* Mutant: the walk over the members starts behind the head of the list.
WalkSkipsHead == Tail(groups[list])

\* Mutant: the walk is over the group id instead of the members of the group.
WalkGroupId == <<list>>

\* current_client, from list->head on.
Walk == groups[list]

\* The node waited for is create_node(SERVER_NAME, ...), the server's own, and
\* the text is read from the shared buffer after the wait.  Attaching to it and
\* the poll that ends the wait are one step: should ctrl-c free the node between
\* them, the server would poll a segment nobody else reaches; here it faults.
ServerAwait ==
  /\ Own(server, "await")
  /\ status[Server] = "AVAILABLE"
  /\ call' = [call EXCEPT ![server].msg =
                [ServerSays("BROADCAST_MESSAGE") EXCEPT !.content = Request.content]]
  /\ todo' = Walk
  /\ Goto(server, "forward")
  /\ UNCHANGED <<nodes, kill, tables, list>>

\* create_node carries IPC_CREAT: when ctrl-c has removed the server's node it
\* makes a new one, AVAILABLE, that nobody will ever serve or free; the next
\* access to the old buffer faults.
ServerRevive ==
  /\ At(server, "await")
  /\ Server \notin up
  /\ up'     = up \cup {Server}
  /\ status' = [status EXCEPT ![Server] = "AVAILABLE"]
  /\ buffer' = [buffer EXCEPT ![Server] = Blank]
  /\ Exit(Server)
  /\ UNCHANGED serverVars

\* Mutant: current_client is not advanced.
AddresseeHead == Head(groups[list])

Addressee == Head(todo)

ServerForward ==
  /\ At(server, "forward")
  /\ \/ /\ todo # <<>>
        /\ todo' = Tail(todo)
        /\ Send(server, Addressee, call[server].msg, "forward")
     \/ /\ todo = <<>>
        /\ Goto(server, "poll")
        /\ call' = [call EXCEPT ![server] = Idle]
        /\ UNCHANGED todo
  /\ UNCHANGED <<nodes, kill, tables, list>>

\* DISPLAY_USERS: response.type is never assigned.
ServerDisplay ==
  /\ Handles("DISPLAY_USERS")
  /\ Known
  /\ \E ty \in Stale : Respond(server, ServerSays(ty), "poll")
  /\ UNCHANGED <<nodes, kill, serverVars>>

\* LEAVE_GROUP: the lookups, then the removal from both tables.
ServerLeave ==
  /\ Handles("LEAVE_GROUP")
  /\ Known
  /\ list' = HtGet(clients, Request.sender)
  /\ Goto(server, "remove")
  /\ UNCHANGED <<nodes, call, kill, tables, todo>>

\* Mutant: removes the head of the list whatever its value.
WithoutHead(s) == Tail(groups[list])

\* ll_remove_value: the first node with that value.
Without(s) == RemoveFirst(groups[list], s)

\* Both removals, each of which reads the sender, and the count in one step.
ServerRemove ==
  /\ Own(server, "remove")
  /\ clients' = HtRemove(clients, Request.sender)
  /\ groups'  = [groups EXCEPT ![list] = Without(Request.sender)]
  /\ client_count' = client_count - 1
  /\ \E ty \in Stale : Respond(server, ServerSays(ty), "poll")
  /\ UNCHANGED <<nodes, kill, created, cursor>>

\* PRIVATE_MESSAGE and unknown types are answered and change nothing.
ServerRefuse ==
  /\ \E ty \in {"PRIVATE_MESSAGE", "UNKNOWN"} : Handles(ty)
  /\ \E ty \in Stale : Respond(server, ServerSays(ty), "poll")
  /\ UNCHANGED <<nodes, kill, serverVars>>

ServerStep ==
  \/ ServerJoin \/ ServerEnroll \/ ServerFull \/ ServerLog
  \/ ServerNull
  \/ ServerBroadcast \/ ServerAwait \/ ServerRevive \/ ServerForward
  \/ ServerDisplay
  \/ ServerLeave \/ ServerRemove
  \/ ServerRefuse

=============================================================================
