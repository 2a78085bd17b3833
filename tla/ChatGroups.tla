----------------------------- MODULE ChatGroups -----------------------------
(***************************************************************************)
(* What the chat service promises its users: clients join one group each,  *)
(* never more than MaxClients at a time, and leave; a broadcast goes to    *)
(* the clients that are in the group when it starts, once to each, and     *)
(* nobody joins or leaves while it is under way.                           *)
(***************************************************************************)
EXTENDS Integers, FiniteSets

CONSTANTS Clients, Groups, None, MaxClients

VARIABLES
  member,     \* the group each client is in, None when it is in none
  pending     \* the clients a broadcast has still to reach

groupVars == <<member, pending>>

In(g)   == {c \in Clients : member[c] = g}
Members == {c \in Clients : member[c] # None}

Init ==
  /\ member = [c \in Clients |-> None]
  /\ pending = {}

Join(c, g) ==
  /\ pending = {}
  /\ member[c] = None
  /\ Cardinality(Members) < MaxClients
  /\ member' = [member EXCEPT ![c] = g]
  /\ UNCHANGED pending

Leave(c) ==
  /\ pending = {}
  /\ member[c] # None
  /\ member' = [member EXCEPT ![c] = None]
  /\ UNCHANGED pending

Broadcast(c) ==
  /\ pending = {}
  /\ member[c] # None
  /\ pending' = In(member[c])
  /\ UNCHANGED member

Deliver(c) ==
  /\ c \in pending
  /\ pending' = pending \ {c}
  /\ UNCHANGED member

Next ==
  \E c \in Clients :
    \/ \E g \in Groups : Join(c, g)
    \/ Leave(c) \/ Broadcast(c) \/ Deliver(c)

Spec == Init /\ [][Next]_groupVars

=============================================================================
