---------------------------- MODULE StartupProofs ----------------------------
(***************************************************************************)
(* Proofs about ChatStartup, for any servers, clients, names, any function *)
(* from names to keys, and any number of processes killed.                 *)
(***************************************************************************)
EXTENDS ChatStartup, TLAPS

USE ChatStartupAssumption, SharedMemoryAssumption

-----------------------------------------------------------------------------
(* The calls of SharedMemory *)

\* Before any call.
LEMMA NoSegmentsInv == NoSegments => KernelInv
  BY DEF NoSegments, KernelInv, KernelOK, KeyedLives, MarkedInUse

\* Each call keeps the types of the tables, what keys find, and what is attached
\* to marked segments.
LEMMA CreateInv ==
  ASSUME NEW k \in Keys, NEW s \in Segments, Create(k, s)
  PROVE  (KernelOK => KernelOK') /\ (KernelInv => KernelInv')
  BY DEF KernelInv, KernelOK, KeyedLives, MarkedInUse, Create

LEMMA AttachInv ==
  ASSUME NEW p \in Procs, NEW s \in Segments, Attach(p, s)
  PROVE  (KernelOK => KernelOK') /\ (KernelInv => KernelInv')
  BY DEF KernelInv, KernelOK, KeyedLives, MarkedInUse, Attach

LEMMA DetachInv ==
  ASSUME NEW p \in Procs, Detach(p)
  PROVE  (KernelOK => KernelOK') /\ (KernelInv => KernelInv')
  BY DEF KernelInv, KernelOK, KeyedLives, MarkedInUse, Detach

LEMMA RemoveInv ==
  ASSUME NEW s \in Segments, Remove(s)
  PROVE  (KernelOK => KernelOK') /\ (KernelInv => KernelInv')
  BY DEF KernelInv, KernelOK, KeyedLives, MarkedInUse, Remove

LEMMA UnchangedInv ==
  ASSUME UNCHANGED kernel
  PROVE  (KernelOK => KernelOK') /\ (KernelInv => KernelInv')
  BY DEF KernelInv, KernelOK, KeyedLives, MarkedInUse, kernel

-----------------------------------------------------------------------------
(* Steps *)

Steps == {"off", "run", "resume"} \cup Testing \cup Window \cup Making \cup Freeing \cup Ends

-----------------------------------------------------------------------------
(* Types *)

LEMMA KeyType == \A p \in Procs : Key(p) \in Keys /\ name_to_key[SERVER_NAME] \in Keys
  BY DEF Key

LEMMA InitType == Init => TypeOK
  BY DEF Init, NoSegments, TypeOK, KernelOK, Testing, Window, Making, Freeing, Ends

\* A step of p changes no other process's place, findings and node, and p's
\* are of their types.
Local(p) ==
  /\ pc' \in [Procs -> Steps]
  /\ found' \in [Procs -> Segments \cup {NoSegment}]
  /\ node' \in [Procs -> Segments \cup {NoSegment}]
  /\ \A q \in Procs \ {p} : pc'[q] = pc[q] /\ found'[q] = found[q] /\ node'[q] = node[q]
  /\ pc'[p] \in Testing \ {"server_is_up", "node_is_up"} => found'[p] \in Segments
  /\ pc'[p] \in Making \cup {"run"} \cup Freeing => node'[p] \in Segments

LEMMA LocalType ==
  ASSUME TypeOK, KernelOK', NEW p \in Procs, Local(p),
         kills' \in 0..MaxKills, met' \subseteq SUBSET Procs, revived' \subseteq Segments
  PROVE  TypeOK'
<1>1. ASSUME NEW q \in Procs
      PROVE  /\ pc'[q] \in Testing \ {"server_is_up", "node_is_up"} => found'[q] \in Segments
             /\ pc'[q] \in Making \cup {"run"} \cup Freeing => node'[q] \in Segments
  <2>1. CASE q = p
    BY <2>1 DEF Local
  <2>2. CASE q # p
    BY <2>2 DEF TypeOK, Local
  <2> QED  BY <2>1, <2>2
<1> QED  BY <1>1 DEF TypeOK, Local, Steps

LEMMA StepType ==
  ASSUME TypeOK, [Next]_vars
  PROVE  TypeOK'
<1>0. /\ kills \in 0..MaxKills /\ met \subseteq SUBSET Procs /\ KernelOK
      /\ revived \subseteq Segments
  BY DEF TypeOK
<1>1. CASE UNCHANGED vars
  BY <1>1 DEF vars, kernel, KernelOK, TypeOK
<1>2. ASSUME NEW p \in Procs, Start(p) PROVE TypeOK'
  <2>1. KernelOK'
    BY <1>0, <1>2 DEF Start, kernel, KernelOK
  <2>2. Local(p)
    BY <1>2 DEF Start, Local, TypeOK, Goto, Steps, Testing, Window, Making, Freeing, Ends
  <2>3. kills' \in 0..MaxKills /\ met' \subseteq SUBSET Procs /\ revived' \subseteq Segments
    BY <1>0, <1>2 DEF Start
  <2> QED  BY <2>1, <2>2, <2>3, LocalType
<1>3. ASSUME NEW p \in Procs, ServerIsUp(p) PROVE TypeOK'
  <2>1. keyed[name_to_key[SERVER_NAME]] \in Segments \cup {NoSegment}
    BY <1>0, KeyType DEF KernelOK
  <2>2. KernelOK'
    BY <1>0, <1>3 DEF ServerIsUp, kernel, KernelOK
  <2>3. Local(p)
    BY <1>3, <2>1 DEF ServerIsUp, Local, TypeOK, Goto, Steps, Testing, Window, Making, Freeing, Ends
  <2>4. kills' \in 0..MaxKills /\ met' \subseteq SUBSET Procs /\ revived' \subseteq Segments
    BY <1>0, <1>3 DEF ServerIsUp
  <2> QED  BY <2>2, <2>3, <2>4, LocalType
<1>4. ASSUME NEW p \in Procs, NodeIsUp(p) PROVE TypeOK'
  <2>1. keyed[Key(p)] \in Segments \cup {NoSegment}
    BY <1>0, KeyType DEF KernelOK
  <2>2. {{p, q} : q \in InWindow} \subseteq SUBSET Procs
    BY DEF InWindow
  <2>3. KernelOK'
    BY <1>0, <1>4 DEF NodeIsUp, kernel, KernelOK
  <2>4. Local(p)
    BY <1>4, <2>1 DEF NodeIsUp, Local, TypeOK, Goto, Steps, Testing, Window, Making, Freeing, Ends
  <2>5. kills' \in 0..MaxKills /\ met' \subseteq SUBSET Procs /\ revived' \subseteq Segments
    BY <1>0, <1>4, <2>2 DEF NodeIsUp
  <2> QED  BY <2>3, <2>4, <2>5, LocalType
<1>5. ASSUME NEW p \in Procs, AttachFound(p) PROVE TypeOK'
  <2>1. found[p] \in Segments
    BY <1>5 DEF AttachFound, TypeOK, Testing
  <2>2. KernelOK'
    BY <1>0, <1>5, <2>1, AttachInv, DetachInv DEF AttachFound, End
  <2>3. PICK x \in {"detach server", "detach name", "failed"} : pc' = [pc EXCEPT ![p] = x]
    BY <1>5 DEF AttachFound, End, Goto
  <2>4. found' = found /\ node' = node
    BY <1>5 DEF AttachFound, End
  <2>5. Local(p)
    BY <2>1, <2>3, <2>4 DEF Local, TypeOK, Steps, Testing, Window, Making, Freeing, Ends
  <2>6. kills' \in 0..MaxKills /\ met' \subseteq SUBSET Procs /\ revived' \subseteq Segments
    BY <1>0, <1>5 DEF AttachFound, End
  <2> QED  BY <2>2, <2>5, <2>6, LocalType
<1>6. ASSUME NEW p \in Procs, DetachFound(p) PROVE TypeOK'
  <2>1. KernelOK'
    BY <1>0, <1>6, DetachInv DEF DetachFound
  <2>2. PICK x \in {"node_is_up", "refused"} : pc' = [pc EXCEPT ![p] = x]
    BY <1>6 DEF DetachFound, Goto
  <2>3. found' = [found EXCEPT ![p] = NoSegment] /\ node' = node
    BY <1>6 DEF DetachFound
  <2>4. Local(p)
    BY <2>2, <2>3 DEF Local, TypeOK, Steps, Testing, Window, Making, Freeing, Ends
  <2>5. kills' \in 0..MaxKills /\ met' \subseteq SUBSET Procs /\ revived' \subseteq Segments
    BY <1>0, <1>6 DEF DetachFound
  <2> QED  BY <2>1, <2>4, <2>5, LocalType
<1>7. ASSUME NEW p \in Procs, Shmget(p) PROVE TypeOK'
  <2>1. PICK s \in Segments : node' = [node EXCEPT ![p] = s] /\ KernelOK'
    <3>1. CASE keyed[Key(p)] = NoSegment
      BY <1>0, <1>7, <3>1, CreateInv, KeyType DEF Shmget
    <3>2. CASE keyed[Key(p)] # NoSegment
      BY <1>0, <1>7, <3>2, KeyType DEF Shmget, KernelOK, kernel
    <3> QED  BY <3>1, <3>2
  <2>2. Local(p)
    BY <1>7, <2>1 DEF Shmget, Local, TypeOK, Goto, Steps, Testing, Window, Making, Freeing, Ends
  <2>3. kills' \in 0..MaxKills /\ met' \subseteq SUBSET Procs /\ revived' \subseteq Segments
    BY <1>0, <1>7 DEF Shmget
  <2> QED  BY <2>1, <2>2, <2>3, LocalType
<1>8. ASSUME NEW p \in Procs, Shmat(p) PROVE TypeOK'
  <2>1. node[p] \in Segments
    BY <1>8 DEF Shmat, TypeOK, Making, Freeing
  <2>2. KernelOK'
    BY <1>0, <1>8, <2>1, AttachInv, DetachInv DEF Shmat, End
  <2>3. PICK x \in {"signal", "run", "crashed"} : pc' = [pc EXCEPT ![p] = x]
    BY <1>8 DEF Shmat, End, Goto
  <2>4. found' = found /\ node' = node
    BY <1>8 DEF Shmat, End
  <2>5. Local(p)
    BY <2>1, <2>3, <2>4 DEF Local, TypeOK, Steps, Testing, Window, Making, Freeing, Ends
  <2>6. kills' \in 0..MaxKills /\ met' \subseteq SUBSET Procs /\ revived' \subseteq Segments
    BY <1>0, <1>8 DEF Shmat, End
  <2> QED  BY <2>2, <2>5, <2>6, LocalType
<1>9. ASSUME NEW p \in Procs, Signal(p) \/ Leave(p) PROVE TypeOK'
  <2>1. node[p] \in Segments
    BY <1>9 DEF Signal, Leave, TypeOK, Making, Freeing
  <2>2. KernelOK'
    BY <1>0, <1>9 DEF Signal, Leave, kernel, KernelOK
  <2>3. Local(p)
    BY <1>9, <2>1 DEF Signal, Leave, Local, TypeOK, Goto, Steps, Testing, Window, Making, Freeing, Ends
  <2>4. kills' \in 0..MaxKills /\ met' \subseteq SUBSET Procs /\ revived' \subseteq Segments
    BY <1>0, <1>9 DEF Signal, Leave
  <2> QED  BY <2>2, <2>3, <2>4, LocalType
<1>10. ASSUME NEW p \in Procs, Shmdt(p) PROVE TypeOK'
  <2>1. node[p] \in Segments
    BY <1>10 DEF Shmdt, TypeOK, Making, Freeing
  <2>2. KernelOK'
    BY <1>0, <1>10, DetachInv DEF Shmdt
  <2>3. Local(p)
    BY <1>10, <2>1 DEF Shmdt, Local, TypeOK, Goto, Steps, Testing, Window, Making, Freeing, Ends
  <2>4. kills' \in 0..MaxKills /\ met' \subseteq SUBSET Procs /\ revived' \subseteq Segments
    BY <1>0, <1>10 DEF Shmdt
  <2> QED  BY <2>2, <2>3, <2>4, LocalType
<1>11. ASSUME NEW p \in Procs, Shmctl(p) PROVE TypeOK'
  <2>1. node[p] \in Segments
    BY <1>11 DEF Shmctl, TypeOK, Making, Freeing
  <2>2. KernelOK'
    BY <1>0, <1>11, <2>1, RemoveInv DEF Shmctl, kernel, KernelOK
  <2>3. PICK x \in {"closed", "resume", "crashed"} : pc' = [pc EXCEPT ![p] = x]
    BY <1>11 DEF Shmctl, Goto
  <2>4. found' = found /\ node' = node
    BY <1>11 DEF Shmctl
  <2>5. Local(p)
    BY <2>1, <2>3, <2>4 DEF Local, TypeOK, Steps, Testing, Window, Making, Freeing, Ends
  <2>6. kills' \in 0..MaxKills /\ met' \subseteq SUBSET Procs /\ revived' \subseteq Segments
    BY <1>0, <1>11 DEF Shmctl
  <2> QED  BY <2>2, <2>5, <2>6, LocalType
<1>12. ASSUME NEW p \in Procs, Exit(p) \/ Abort(p) PROVE TypeOK'
  <2>1. KernelOK'
    BY <1>0, <1>12, DetachInv DEF Exit, Abort, End
  <2>2. Local(p)
    BY <1>12 DEF Exit, Abort, End, Local, TypeOK, Goto, Steps, Testing, Window, Making, Freeing, Ends
  <2>3. kills' \in 0..MaxKills /\ met' \subseteq SUBSET Procs /\ revived' \subseteq Segments
    BY <1>0, <1>12 DEF Exit, Abort, End
  <2> QED  BY <2>1, <2>2, <2>3, LocalType
<1>13. ASSUME NEW p \in Procs, Kill(p) PROVE TypeOK'
  <2>1. KernelOK'
    BY <1>0, <1>13, DetachInv DEF Kill, End
  <2>2. Local(p)
    BY <1>13 DEF Kill, End, Local, TypeOK, Goto, Steps, Testing, Window, Making, Freeing, Ends
  <2>3. kills' \in 0..MaxKills /\ met' \subseteq SUBSET Procs /\ revived' \subseteq Segments
    BY <1>0, <1>13 DEF Kill, End
  <2> QED  BY <2>1, <2>2, <2>3, LocalType
<1>14. ASSUME NEW p \in Procs, Revive(p) PROVE TypeOK'
  <2>1. PICK s \in Segments : Create(Key(p), s) /\ revived' = revived \cup {s}
    BY <1>14 DEF Revive
  <2>2. KernelOK'
    BY <1>0, <2>1, CreateInv, KeyType
  <2>3. PICK x \in {"run", "aborted"} :
          pc' = [pc EXCEPT ![p] = x] /\ (x = "run" => pc[p] = "run")
    BY <1>14 DEF Revive, Goto
  <2>4. found' = found /\ node' = node
    BY <1>14 DEF Revive
  <2>5. Local(p)
    BY <2>3, <2>4 DEF Local, TypeOK, Steps, Testing, Window, Making, Freeing, Ends
  <2>6. kills' \in 0..MaxKills /\ met' \subseteq SUBSET Procs /\ revived' \subseteq Segments
    BY <1>0, <1>14, <2>1 DEF Revive
  <2> QED  BY <2>2, <2>5, <2>6, LocalType
<1>15. ASSUME NEW p \in Procs, Resume(p) PROVE TypeOK'
  <2>1. KernelOK'
    BY <1>0, <1>15 DEF Resume, kernel, KernelOK
  <2>2. Local(p)
    BY <1>15 DEF Resume, Local, TypeOK, Goto, Steps, Testing, Window, Making, Freeing, Ends
  <2>3. kills' \in 0..MaxKills /\ met' \subseteq SUBSET Procs /\ revived' \subseteq Segments
    BY <1>0, <1>15 DEF Resume
  <2> QED  BY <2>1, <2>2, <2>3, LocalType
<1> QED
  BY <1>1, <1>2, <1>3, <1>4, <1>5, <1>6, <1>7, <1>8, <1>9, <1>10, <1>11, <1>12, <1>13,
     <1>14, <1>15
  DEF Next

\* Every variable keeps its type; in particular no call of the kernel is given a
\* segment that is none.
THEOREM StartupTypeCorrect == Spec => []TypeOK
  BY InitType, StepType, PTL DEF Spec

-----------------------------------------------------------------------------
(* Races *)

Has(p)    == pc[p] \in Making \cup {"run"} \cup Freeing
Met(p, q) == {p, q} \in met

\* A node has been made.
NodeMade ==
  \A p \in Procs : Has(p) => node[p] \in live \cup marked

\* Two processes that have tested their names but not made their nodes have met;
\* so have one of these and the one that has made the node meanwhile; and so have
\* two that have one node.
MetInWindow ==
  \A p, q \in Procs : p # q /\ pc[p] = "shmget" /\ pc[q] = "shmget" => Met(p, q)
MetMaker ==
  \A p, q \in Procs :
    Has(p) /\ pc[q] = "shmget" /\ node[p] = keyed[Key(q)] => Met(p, q)
MetSharer ==
  \A p, q \in Procs : p # q /\ Has(p) /\ Has(q) /\ node[p] = node[q] => Met(p, q)

\* A process that has met no other has its node until it frees it itself, and
\* does not fault.
KeepsNode ==
  \A p \in Procs :
    Has(p) => keyed[Key(p)] = node[p] \/ \E q \in Procs : Met(p, q)
FaultsMet ==
  \A p \in Procs : pc[p] = "crashed" => \E q \in Procs : Met(p, q)

RaceInv ==
  /\ KeyedLives /\ NodeMade
  /\ MetInWindow /\ MetMaker /\ MetSharer
  /\ KeepsNode /\ FaultsMet

\* What p's step does to the tables of the kernel and to p, as far as RaceInv
\* depends on it.  Calm: nothing is found or made, and only segments that are
\* marked may go.
Alone(p) ==
  \A q \in Procs \ {p} : pc'[q] = pc[q] /\ node'[q] = node[q]

Calm(p) ==
  /\ Alone(p)
  /\ UNCHANGED <<keyed, marked, met>> /\ live \ marked \subseteq live'
  /\ pc'[p] # "shmget"
  /\ Has(p)' => Has(p) /\ node'[p] = node[p]
  /\ pc'[p] = "crashed" => Has(p) /\ node[p] \notin live

Enters(p) ==
  /\ Alone(p)
  /\ keyed[Key(p)] = NoSegment /\ pc'[p] = "shmget"
  /\ UNCHANGED kernel /\ met' = met \cup {{p, q} : q \in InWindow}

Finds(p) ==
  /\ Alone(p)
  /\ keyed[Key(p)] # NoSegment /\ node'[p] = keyed[Key(p)]
  /\ pc[p] = "shmget" /\ pc'[p] = "shmat"
  /\ UNCHANGED <<kernel, met>>

Makes(p) ==
  /\ Alone(p)
  /\ keyed[Key(p)] = NoSegment /\ node'[p] \in Segments /\ Create(Key(p), node'[p])
  /\ pc[p] = "shmget" /\ pc'[p] = "shmat"
  /\ met' = met

Frees(p) ==
  /\ Alone(p)
  /\ Has(p) /\ Remove(node[p])
  /\ pc'[p] \in {"closed", "resume"} /\ met' = met

Revives(p) ==
  /\ Alone(p) /\ node'[p] = node[p]
  /\ keyed[Key(p)] = NoSegment
  /\ \E s \in Segments : Create(Key(p), s) /\ revived' = revived \cup {s}
  /\ pc'[p] = pc[p] \/ (pc[p] = "resume" /\ pc'[p] = "aborted")
  /\ pc[p] # "shmget" /\ pc[p] # "shmat"
  /\ met' = met

LEMMA StepKinds ==
  ASSUME TypeOK, Next
  PROVE  \E p \in Procs : \/ Calm(p) \/ Enters(p) \/ Finds(p) \/ Makes(p) \/ Frees(p)
                          \/ Revives(p)
<1> USE DEF Goto, Has, Testing, Window, Making, Freeing, Ends
<1>0. pc \in [Procs -> Steps] /\ node \in [Procs -> Segments \cup {NoSegment}]
  BY DEF TypeOK, Steps
<1>1. ASSUME NEW p \in Procs, Start(p) \/ ServerIsUp(p) \/ Signal(p) \/ Leave(p) \/ Resume(p)
      PROVE  Calm(p)
  BY <1>0, <1>1 DEF Start, ServerIsUp, Signal, Leave, Resume, kernel, Calm, Alone
<1>2. ASSUME NEW p \in Procs, NodeIsUp(p) PROVE Calm(p) \/ Enters(p)
  BY <1>0, <1>2 DEF NodeIsUp, kernel, Calm, Alone, Enters
<1>3. ASSUME NEW p \in Procs, AttachFound(p) PROVE Calm(p)
  <2>1. CASE found[p] \in live
    BY <1>0, <1>3, <2>1 DEF AttachFound, Attach, Calm, Alone
  <2>2. CASE found[p] \notin live
    BY <1>0, <1>3, <2>2 DEF AttachFound, End, Detach, Calm, Alone
  <2> QED  BY <2>1, <2>2
<1>4. ASSUME NEW p \in Procs, DetachFound(p) PROVE Calm(p)
  BY <1>0, <1>4 DEF DetachFound, Detach, Calm, Alone
<1>5. ASSUME NEW p \in Procs, Shmget(p) PROVE Finds(p) \/ Makes(p)
  <2>1. CASE keyed[Key(p)] = NoSegment
    <3>1. PICK s \in Segments : Create(Key(p), s) /\ node' = [node EXCEPT ![p] = s]
      BY <1>5, <2>1 DEF Shmget
    <3>2. node'[p] = s  BY <1>0, <3>1
    <3> QED  BY <1>0, <1>5, <2>1, <3>1, <3>2 DEF Shmget, Makes, Alone
  <2>2. CASE keyed[Key(p)] # NoSegment
    BY <1>0, <1>5, <2>2 DEF Shmget, Finds, Alone
  <2> QED  BY <2>1, <2>2
<1>6. ASSUME NEW p \in Procs, Shmat(p) PROVE Calm(p)
  <2>1. CASE node[p] \in live
    BY <1>0, <1>6, <2>1 DEF Shmat, Attach, Calm, Alone
  <2>2. CASE node[p] \notin live
    BY <1>0, <1>6, <2>2 DEF Shmat, End, Detach, Calm, Alone
  <2> QED  BY <2>1, <2>2
<1>7. ASSUME NEW p \in Procs, Shmdt(p) PROVE Calm(p)
  BY <1>0, <1>7 DEF Shmdt, Detach, Calm, Alone
<1>8. ASSUME NEW p \in Procs, Shmctl(p) PROVE Calm(p) \/ Frees(p)
  <2>1. CASE node[p] \in live
    BY <1>0, <1>8, <2>1 DEF Shmctl, Frees, Alone
  <2>2. CASE node[p] \notin live
    BY <1>0, <1>8, <2>2 DEF Shmctl, kernel, Calm, Alone
  <2> QED  BY <2>1, <2>2
<1>9. ASSUME NEW p \in Procs, Exit(p) \/ Abort(p) \/ Kill(p) PROVE Calm(p)
  BY <1>0, <1>9 DEF Exit, Abort, Kill, End, Detach, Calm, Alone
<1>10. ASSUME NEW p \in Procs, Revive(p) PROVE Revives(p)
  BY <1>0, <1>10 DEF Revive, Revives, Alone
<1> QED
  BY <1>1, <1>2, <1>3, <1>4, <1>5, <1>6, <1>7, <1>8, <1>9, <1>10 DEF Next

LEMMA RaceInit == Init => RaceInv
  BY DEF Init, NoSegments, RaceInv, KeyedLives, NodeMade, MetInWindow, MetMaker,
     MetSharer, KeepsNode, FaultsMet, Has, Making, Freeing

LEMMA CalmKeepsRaceInv ==
  ASSUME TypeOK, RaceInv, NEW p \in Procs, Calm(p)
  PROVE  RaceInv'
<1>0. met' = met /\ keyed' = keyed /\ marked' = marked
  BY DEF Calm
<1>1. \A q \in Procs : Has(q)' => Has(q) /\ node'[q] = node[q]
  BY DEF Calm, Alone, Has
<1>2. \A q \in Procs : pc'[q] = "shmget" => pc[q] = "shmget"
  BY DEF Calm, Alone
<1>3. KeyedLives' /\ NodeMade'
  BY <1>0, <1>1 DEF RaceInv, KeyedLives, NodeMade, Calm
<1>4. MetInWindow' /\ MetMaker' /\ MetSharer'
  BY <1>0, <1>1, <1>2 DEF RaceInv, MetInWindow, MetMaker, MetSharer, Met, Key
<1>5. KeepsNode'
  BY <1>0, <1>1 DEF RaceInv, KeepsNode, Met, Key
<1>6. FaultsMet'
  <2>1. ASSUME pc'[p] = "crashed" PROVE \E q \in Procs : Met(p, q)
    <3>1. Has(p) /\ node[p] \notin live  BY <2>1 DEF Calm
    <3>2. node[p] \in Segments           BY <3>1 DEF TypeOK, Has
    <3>3. CASE keyed[Key(p)] = node[p]
      BY <3>1, <3>2, <3>3, KeyType, SharedMemoryAssumption DEF RaceInv, KeyedLives
    <3> QED  BY <3>1, <3>3 DEF RaceInv, KeepsNode
  <2> QED  BY <1>0, <2>1 DEF RaceInv, FaultsMet, Met, Calm, Alone
<1> QED  BY <1>3, <1>4, <1>5, <1>6 DEF RaceInv

LEMMA EntersKeepsRaceInv ==
  ASSUME TypeOK, RaceInv, NEW p \in Procs, Enters(p)
  PROVE  RaceInv'
<1>0. UNCHANGED kernel /\ met \subseteq met'
  BY DEF Enters
<1>1. ~Has(p)' /\ \A q \in Procs : Has(q)' => Has(q) /\ node'[q] = node[q] /\ q # p
  BY DEF Enters, Alone, Has, Making, Freeing
<1>2. \A q \in Procs : q # p /\ pc[q] = "shmget" => Met(p, q)' /\ Met(q, p)'
  <2>1. \A q \in Procs : {q, p} = {p, q}  OBVIOUS
  <2> QED  BY <2>1 DEF Enters, InWindow, Window, Met
<1>3. KeyedLives' /\ NodeMade'
  BY <1>0, <1>1 DEF RaceInv, KeyedLives, NodeMade, kernel
<1>4. MetInWindow'
  BY <1>0, <1>2 DEF RaceInv, MetInWindow, Enters, Alone, Met
<1>5. MetMaker'
  <2>1. ASSUME NEW q \in Procs, Has(q)', node'[q] = keyed'[Key(p)'] PROVE FALSE
    <3>1. node[q] \in Segments  BY <1>1, <2>1 DEF TypeOK, Has
    <3> QED  BY <1>0, <1>1, <2>1, <3>1, SharedMemoryAssumption DEF Enters, kernel, Key
  <2> QED  BY <1>0, <1>1, <2>1 DEF RaceInv, MetMaker, Enters, Alone, Met, Key, kernel
<1>6. MetSharer' /\ KeepsNode'
  BY <1>0, <1>1 DEF RaceInv, MetSharer, KeepsNode, Met, Key, kernel
<1>7. FaultsMet'
  BY <1>0 DEF RaceInv, FaultsMet, Met, Enters, Alone
<1> QED  BY <1>3, <1>4, <1>5, <1>6, <1>7 DEF RaceInv

LEMMA FindsKeepsRaceInv ==
  ASSUME TypeOK, RaceInv, NEW p \in Procs, Finds(p)
  PROVE  RaceInv'
<1>0. UNCHANGED kernel /\ met' = met
  BY DEF Finds
<1>1. \A q \in Procs : q # p => (Has(q)' <=> Has(q)) /\ node'[q] = node[q] /\ pc'[q] = pc[q]
  BY DEF Finds, Alone, Has
<1>2. \A q \in Procs : {q, p} = {p, q}
  OBVIOUS
<1>3. KeyedLives' /\ NodeMade'
  BY <1>0, <1>1, KeyType DEF RaceInv, KeyedLives, NodeMade, Finds, kernel
<1>4. MetInWindow' /\ FaultsMet'
  BY <1>0, <1>1 DEF RaceInv, MetInWindow, FaultsMet, Finds, Met
<1>5. MetMaker'
  <2>1. ASSUME NEW q \in Procs, pc'[q] = "shmget", node'[p] = keyed'[Key(q)'] PROVE Met(p, q)'
    BY <1>0, <1>1, <2>1 DEF RaceInv, MetInWindow, Finds, Met
  <2> QED  BY <1>0, <1>1, <2>1 DEF RaceInv, MetMaker, Met, Key, kernel, Finds
<1>6. MetSharer'
  <2>1. ASSUME NEW q \in Procs, q # p, Has(q)', node'[q] = node'[p]
        PROVE  Met(p, q)' /\ Met(q, p)'
    BY <1>0, <1>1, <1>2, <2>1 DEF RaceInv, MetMaker, Finds, Met
  <2> QED  BY <1>0, <1>1, <2>1 DEF RaceInv, MetSharer, Met
<1>7. KeepsNode'
  BY <1>0, <1>1 DEF RaceInv, KeepsNode, Finds, Met, Key, kernel
<1> QED  BY <1>3, <1>4, <1>5, <1>6, <1>7 DEF RaceInv

LEMMA MakesKeepsRaceInv ==
  ASSUME TypeOK, RaceInv, NEW p \in Procs, Makes(p)
  PROVE  RaceInv'
<1> DEFINE s == node'[p]
<1>0. /\ s \in Segments \ (live \cup marked) /\ s # NoSegment
      /\ keyed' = [keyed EXCEPT ![Key(p)] = s] /\ keyed[Key(p)] = NoSegment
      /\ live' = live \cup {s} /\ marked' = marked /\ met' = met
  BY SharedMemoryAssumption DEF Makes, Create
<1>1. \A q \in Procs : q # p => (Has(q)' <=> Has(q)) /\ node'[q] = node[q] /\ pc'[q] = pc[q]
  BY DEF Makes, Alone, Has
<1>2. \A q \in Procs : {q, p} = {p, q} /\ Key(q)' = Key(q)
  BY DEF Key
<1>3. \A k \in Keys : keyed'[k] = IF k = Key(p) THEN s ELSE keyed[k]
  BY <1>0, KeyType DEF TypeOK, KernelOK
<1>4. \A q \in Procs : Has(q) => node[q] # s
  BY <1>0 DEF RaceInv, NodeMade
<1>5. KeyedLives' /\ NodeMade'
  <2>1. KeyedLives'
    BY <1>0, <1>3 DEF RaceInv, KeyedLives
  <2>2. NodeMade'
    BY <1>0, <1>1 DEF RaceInv, NodeMade
  <2> QED  BY <2>1, <2>2
<1>6. MetInWindow' /\ FaultsMet'
  BY <1>0, <1>1 DEF RaceInv, MetInWindow, FaultsMet, Makes, Met
<1>7. MetMaker'
  <2>1. ASSUME NEW q \in Procs, pc'[q] = "shmget" PROVE q # p /\ Met(p, q)'
    BY <1>0, <1>1, <2>1 DEF RaceInv, MetInWindow, Makes, Met
  <2>2. ASSUME NEW q \in Procs, NEW r \in Procs, r # p, pc'[q] = "shmget", Has(r)',
               node'[r] = keyed'[Key(q)']
        PROVE  Met(r, q)'
    <3>1. Has(r) /\ node[r] = keyed[Key(q)] /\ pc[q] = "shmget"
      BY <1>1, <1>2, <1>3, <1>4, <2>1, <2>2, KeyType
    <3> QED  BY <1>0, <3>1 DEF RaceInv, MetMaker, Met
  <2> QED  BY <2>1, <2>2 DEF MetMaker
<1>8. MetSharer'
  BY <1>0, <1>1, <1>4 DEF RaceInv, MetSharer, Met
<1>9. KeepsNode'
  <2>1. ASSUME NEW q \in Procs, q # p, Has(q) PROVE keyed'[Key(q)] = keyed[Key(q)] \/ keyed[Key(q)] # node[q]
    <3>1. node[q] # NoSegment  BY <2>1, SharedMemoryAssumption DEF TypeOK, Has
    <3> QED  BY <1>0, <1>3, <2>1, <3>1, KeyType
  <2> QED  BY <1>0, <1>1, <1>2, <1>3, <2>1, KeyType DEF RaceInv, KeepsNode, Met
<1> QED  BY <1>5, <1>6, <1>7, <1>8, <1>9 DEF RaceInv

LEMMA FreesKeepsRaceInv ==
  ASSUME TypeOK, RaceInv, NEW p \in Procs, Frees(p)
  PROVE  RaceInv'
<1> DEFINE s == node[p]
<1>0. /\ keyed' = [k \in Keys |-> IF keyed[k] = s THEN NoSegment ELSE keyed[k]]
      /\ marked' = marked \cup {s} /\ live \ {s} \subseteq live' /\ met' = met
      /\ s \in Segments /\ s # NoSegment
  BY SharedMemoryAssumption DEF Frees, Remove, Has, TypeOK
<1>1. /\ ~Has(p)' /\ pc'[p] \in {"closed", "resume"}
      /\ \A q \in Procs : q # p => (Has(q)' <=> Has(q)) /\ node'[q] = node[q] /\ pc'[q] = pc[q]
  BY DEF Frees, Alone, Has, Making, Freeing
<1>2. \A q \in Procs : {q, p} = {p, q} /\ Key(q)' = Key(q)
  BY DEF Key
<1>3. \A k \in Keys : keyed'[k] = NoSegment \/ keyed'[k] = keyed[k]
  BY <1>0
<1>4. KeyedLives'
  BY <1>0 DEF RaceInv, KeyedLives
<1>5. NodeMade'
  BY <1>0, <1>1 DEF RaceInv, NodeMade
<1>6. MetInWindow' /\ FaultsMet' /\ MetSharer'
  BY <1>0, <1>1 DEF RaceInv, MetInWindow, FaultsMet, MetSharer, Met
<1>7. MetMaker'
  <2>1. ASSUME NEW q \in Procs, Has(q) PROVE node[q] # NoSegment
    BY <2>1, SharedMemoryAssumption DEF TypeOK, Has
  <2> QED  BY <1>0, <1>1, <1>2, <1>3, <2>1, KeyType DEF RaceInv, MetMaker, Met
<1>8. KeepsNode'
  <2>1. ASSUME NEW q \in Procs, q # p, Has(q) PROVE node[q] # s \/ \E r \in Procs : Met(q, r)
    BY <2>1 DEF RaceInv, MetSharer, Frees
  <2> QED  BY <1>0, <1>1, <1>2, <2>1, KeyType DEF RaceInv, KeepsNode, Met
<1> QED  BY <1>4, <1>5, <1>6, <1>7, <1>8 DEF RaceInv

LEMMA RevivesKeepsRaceInv ==
  ASSUME TypeOK, RaceInv, NEW p \in Procs, Revives(p)
  PROVE  RaceInv'
<1>1. PICK s \in Segments : Create(Key(p), s)
  BY DEF Revives
<1>2. /\ s \notin live \cup marked /\ s # NoSegment
      /\ live' = live \cup {s} /\ marked' = marked /\ met' = met
      /\ keyed[Key(p)] = NoSegment
      /\ \A k \in Keys : keyed'[k] = IF k = Key(p) THEN s ELSE keyed[k]
  BY <1>1, SharedMemoryAssumption, KeyType DEF Create, Revives, TypeOK, KernelOK
<1>3. \A q \in Procs : (Has(q)' <=> Has(q)) /\ node'[q] = node[q] /\ Key(q)' = Key(q)
  BY DEF Revives, Alone, Has, Key, Making, Freeing
<1>4. \A q \in Procs :
        /\ pc'[q] = "shmget" <=> pc[q] = "shmget"
        /\ pc'[q] = "crashed" <=> pc[q] = "crashed"
  BY DEF Revives, Alone
<1>5. \A q \in Procs : Has(q) => node[q] # s /\ node[q] # NoSegment
  BY <1>2, SharedMemoryAssumption DEF RaceInv, NodeMade, TypeOK, Has
<1>6. KeyedLives' /\ NodeMade'
  BY <1>2, <1>3 DEF RaceInv, KeyedLives, NodeMade
<1>7. MetInWindow' /\ FaultsMet' /\ MetSharer'
  BY <1>2, <1>3, <1>4 DEF RaceInv, MetInWindow, FaultsMet, MetSharer, Met
<1>8. MetMaker'
  BY <1>2, <1>3, <1>4, <1>5, KeyType DEF RaceInv, MetMaker, Met
<1>9. KeepsNode'
  BY <1>2, <1>3, <1>5, KeyType DEF RaceInv, KeepsNode, Met
<1> QED  BY <1>6, <1>7, <1>8, <1>9 DEF RaceInv

LEMMA RaceStep ==
  ASSUME TypeOK, RaceInv, [Next]_vars
  PROVE  RaceInv'
<1>1. CASE UNCHANGED vars
  BY <1>1 DEF vars, kernel, RaceInv, KeyedLives, NodeMade, MetInWindow, MetMaker,
     MetSharer, KeepsNode, FaultsMet, Has, Met, Key
<1>2. CASE Next
  BY <1>2, StepKinds, CalmKeepsRaceInv, EntersKeepsRaceInv, FindsKeepsRaceInv,
     MakesKeepsRaceInv, FreesKeepsRaceInv, RevivesKeepsRaceInv
<1> QED  BY <1>1, <1>2

LEMMA RaceHolds == Spec => [](TypeOK /\ RaceInv)
<1>1. Init => TypeOK /\ RaceInv                             BY InitType, RaceInit
<1>2. TypeOK /\ RaceInv /\ [Next]_vars => (TypeOK /\ RaceInv)'  BY StepType, RaceStep
<1> QED  BY <1>1, <1>2, PTL DEF Spec

\* Two processes run with one node, by one name or by two of the same key, only
\* if both tested their names before either made its node.
THEOREM SharedOnlyByRace == Spec => []SharedByRaceOnly
<1>1. RaceInv => SharedByRaceOnly
  BY DEF RaceInv, MetSharer, SharedByRaceOnly, Running, Has, Met
<1> QED  BY <1>1, RaceHolds, PTL

\* A process that runs is found by its name, and one that still has its node does
\* not fault on it, unless it started in a race.
THEOREM NodeLostOnlyByRace == Spec => []LosesNodeByRaceOnly
<1>1. RaceInv => LosesNodeByRaceOnly
  BY DEF RaceInv, KeepsNode, FaultsMet, LosesNodeByRaceOnly, Has, Met
<1> QED  BY <1>1, RaceHolds, PTL

\* "Only 1 server should be up", and one client of a name, unless one of the two
\* started in a race.
THEOREM UniqueButForRaces == Spec => []UniqueUnlessRaced
<1>1. RaceInv => UniqueUnlessRaced
  <2> SUFFICES ASSUME RaceInv, NEW p \in Running, NEW q \in Running,
                      p # q, Key(p) = Key(q)
               PROVE  \E e \in met : p \in e \/ q \in e
    BY DEF UniqueUnlessRaced
  <2>1. p \in Procs /\ q \in Procs /\ Has(p) /\ Has(q)
    BY DEF Running, Has
  <2>2. (\E r \in Procs : Met(p, r) \/ Met(q, r)) \/ node[p] = node[q]
    BY <2>1 DEF RaceInv, KeepsNode
  <2>3. \E r \in Procs : Met(p, r) \/ Met(q, r)
    BY <2>1, <2>2 DEF RaceInv, MetSharer
  <2> QED  BY <2>3 DEF Met
<1> QED  BY <1>1, RaceHolds, PTL

-----------------------------------------------------------------------------
(* Nodes left *)

Attached == {"signal", "run", "shmdt"}
Owners   == {"shmat", "signal", "run", "shmdt", "shmctl", "exited",
             "aborted", "killed"}

\* A process is attached to its node while it uses it, and a segment that is not
\* marked has an owner or was made by a server anew.
AttachedToNode ==
  \A p \in Procs : pc[p] \in Attached => p \in attached[node[p]]
HasOwner ==
  \A s \in (live \ marked) \ revived : \E p \in Procs : node[p] = s /\ pc[p] \in Owners

LeftInv == AttachedToNode /\ MarkedInUse /\ HasOwner

\* What p's step does, by the call it makes, as far as LeftInv depends on it.
\* Rests(p): p attaches to nothing, and its node keeps its owner unless it is gone.
Rests(p) ==
  /\ Alone(p) /\ revived' = revived
  /\ pc'[p] \in Attached => pc[p] \in Attached
  /\ pc[p] \in Owners => pc'[p] \in Owners \/ node[p] \notin live

Idles(p) ==
  /\ Rests(p) /\ UNCHANGED kernel
  /\ node'[p] = node[p] \/ (pc[p] \notin Owners /\ pc'[p] \notin Attached)

Attaches(p) ==
  /\ Rests(p) /\ node'[p] = node[p]
  /\ \E s \in Segments : Attach(p, s)

AttachesNode(p) ==
  /\ Alone(p) /\ revived' = revived /\ node'[p] = node[p]
  /\ node[p] \in Segments /\ Attach(p, node[p]) /\ pc'[p] \in Owners

Detaches(p) ==
  /\ Rests(p) /\ node'[p] = node[p]
  /\ pc'[p] \notin Attached /\ Detach(p)

Removes(p) ==
  /\ Alone(p) /\ node'[p] = node[p] /\ revived' = revived
  /\ Remove(node[p]) /\ pc'[p] \in {"closed", "resume"}

MakesOwn(p) == Makes(p) /\ revived' = revived

LEMMA CallKinds ==
  ASSUME TypeOK, Next
  PROVE  \E p \in Procs : \/ Idles(p) \/ Attaches(p) \/ AttachesNode(p) \/ Detaches(p)
                          \/ MakesOwn(p) \/ Removes(p) \/ Revives(p)
<1> USE DEF Goto, Testing, Window, Making, Freeing, Ends, Alone
<1>0. pc \in [Procs -> Steps] /\ node \in [Procs -> Segments \cup {NoSegment}]
  BY DEF TypeOK, Steps
<1>1. ASSUME NEW p \in Procs,
             \/ Start(p) \/ ServerIsUp(p) \/ NodeIsUp(p) \/ Signal(p) \/ Leave(p)
             \/ Resume(p)
      PROVE  Idles(p)
  <2>1. CASE Start(p) \/ ServerIsUp(p)
    BY <1>0, <2>1 DEF Start, ServerIsUp, Idles, Rests, Attached, Owners
  <2>2. CASE NodeIsUp(p)
    BY <1>0, <2>2 DEF NodeIsUp, Idles, Rests, Attached, Owners
  <2>3. CASE Signal(p)
    BY <1>0, <2>3 DEF Signal, Idles, Rests, Attached, Owners
  <2>4. CASE Leave(p)
    BY <1>0, <2>4 DEF Leave, Idles, Rests, Attached, Owners
  <2>5. CASE Resume(p)
    BY <1>0, <2>5 DEF Resume, Idles, Rests, Attached, Owners
  <2> QED  BY <1>1, <2>1, <2>2, <2>3, <2>4, <2>5
<1>2. ASSUME NEW p \in Procs, AttachFound(p) PROVE Attaches(p) \/ Detaches(p)
  <2>1. CASE found[p] \in live
    <3>1. found[p] \in Segments  BY <1>2 DEF AttachFound, TypeOK
    <3> QED
      BY <1>0, <1>2, <2>1, <3>1 DEF AttachFound, Attaches, Rests, Attached, Owners
  <2>2. CASE found[p] \notin live
    BY <1>0, <1>2, <2>2 DEF AttachFound, End, Detaches, Rests, Attached, Owners
  <2> QED  BY <2>1, <2>2
<1>3. ASSUME NEW p \in Procs, DetachFound(p) PROVE Detaches(p)
  BY <1>0, <1>3 DEF DetachFound, Detaches, Rests, Attached, Owners
<1>4. ASSUME NEW p \in Procs, Shmget(p) PROVE Idles(p) \/ MakesOwn(p)
  <2>1. CASE keyed[Key(p)] = NoSegment
    <3>1. PICK s \in Segments : Create(Key(p), s) /\ node' = [node EXCEPT ![p] = s]
      BY <1>4, <2>1 DEF Shmget
    <3>2. node'[p] = s  BY <1>0, <3>1
    <3> QED  BY <1>0, <1>4, <2>1, <3>1, <3>2 DEF Shmget, MakesOwn, Makes
  <2>2. CASE keyed[Key(p)] # NoSegment
    BY <1>0, <1>4, <2>2 DEF Shmget, Idles, Rests, Attached, Owners
  <2> QED  BY <2>1, <2>2
<1>5. ASSUME NEW p \in Procs, Shmat(p) PROVE AttachesNode(p) \/ Detaches(p)
  <2>1. CASE node[p] \in live
    <3>1. node[p] \in Segments  BY <1>5 DEF Shmat, TypeOK
    <3> QED  BY <1>0, <1>5, <2>1, <3>1 DEF Shmat, AttachesNode, Owners
  <2>2. CASE node[p] \notin live
    BY <1>0, <1>5, <2>2 DEF Shmat, End, Detaches, Rests, Attached, Owners
  <2> QED  BY <2>1, <2>2
<1>6. ASSUME NEW p \in Procs, Shmdt(p) \/ Exit(p) \/ Abort(p) \/ Kill(p)
      PROVE  Detaches(p)
  BY <1>0, <1>6 DEF Shmdt, Exit, Abort, Kill, End, Detaches, Rests, Attached, Owners
<1>7. ASSUME NEW p \in Procs, Shmctl(p) PROVE Idles(p) \/ Removes(p)
  <2>1. CASE node[p] \in live
    BY <1>0, <1>7, <2>1 DEF Shmctl, Removes
  <2>2. CASE node[p] \notin live
    BY <1>0, <1>7, <2>2 DEF Shmctl, Idles, Rests, Attached, Owners
  <2> QED  BY <2>1, <2>2
<1>8. ASSUME NEW p \in Procs, Revive(p) PROVE Revives(p)
  BY <1>0, <1>8 DEF Revive, Revives
<1> QED
  BY <1>1, <1>2, <1>3, <1>4, <1>5, <1>6, <1>7, <1>8 DEF Next

\* A step that leaves the tables of segments alone, or makes them smaller, and
\* keeps the owners, keeps HasOwner.
LEMMA OwnerKept ==
  ASSUME HasOwner, live' \subseteq live, marked \subseteq marked', revived' = revived,
         \A s \in live' : \A p \in Procs :
            node[p] = s /\ pc[p] \in Owners => node'[p] = s /\ pc'[p] \in Owners
  PROVE  HasOwner'
  BY DEF HasOwner

LEMMA LeftInit == Init => LeftInv
  BY DEF Init, NoSegments, LeftInv, AttachedToNode, MarkedInUse, HasOwner, Attached

LEMMA LeftStep ==
  ASSUME TypeOK, LeftInv, [Next]_vars
  PROVE  LeftInv'
<1> USE DEF LeftInv
<1>0. attached \in [Segments -> SUBSET Procs] /\ live \subseteq Segments
  BY DEF TypeOK, KernelOK
<1>a. \A p \in Procs : pc[p] \in Attached => node[p] \in Segments
  BY DEF TypeOK, Attached, Making, Freeing
<1>1. CASE UNCHANGED vars
  BY <1>1 DEF vars, kernel, AttachedToNode, MarkedInUse, HasOwner
<1>2. ASSUME NEW p \in Procs, Idles(p) PROVE LeftInv'
  <2>1. AttachedToNode' /\ MarkedInUse'
    BY <1>2 DEF Idles, Rests, Alone, AttachedToNode, MarkedInUse, kernel
  <2>2. HasOwner'
    BY <1>2, OwnerKept DEF Idles, Rests, Alone, kernel
  <2> QED  BY <2>1, <2>2
<1>3. ASSUME NEW p \in Procs, Attaches(p) PROVE LeftInv'
  <2>1. PICK s \in Segments : Attach(p, s)
    BY <1>3 DEF Attaches
  <2>2. /\ keyed' = keyed /\ live' = live /\ marked' = marked
        /\ \A r \in Segments : attached[r] \subseteq attached'[r]
    BY <1>0, <2>1 DEF Attach
  <2>3. AttachedToNode' /\ MarkedInUse'
    BY <1>0, <1>3, <1>a, <2>2 DEF Attaches, Rests, Alone, AttachedToNode, MarkedInUse
  <2>4. HasOwner'
    BY <1>3, <2>2, OwnerKept DEF Attaches, Rests, Alone
  <2> QED  BY <2>3, <2>4
<1>4. ASSUME NEW p \in Procs, AttachesNode(p) PROVE LeftInv'
  <2>1. /\ keyed' = keyed /\ live' = live /\ marked' = marked
        /\ \A r \in Segments : attached[r] \subseteq attached'[r]
        /\ p \in attached'[node[p]]
    BY <1>0, <1>4 DEF AttachesNode, Attach
  <2>2. AttachedToNode' /\ MarkedInUse'
    BY <1>0, <1>4, <1>a, <2>1 DEF AttachesNode, Alone, AttachedToNode, MarkedInUse
  <2>3. HasOwner'
    BY <1>4, <2>1, OwnerKept DEF AttachesNode, Alone
  <2> QED  BY <2>2, <2>3
<1>5. ASSUME NEW p \in Procs, Detaches(p) PROVE LeftInv'
  <2>1. /\ marked' = marked /\ live' = live \ {s \in marked : attached[s] \subseteq {p}}
        /\ \A s \in Segments : attached'[s] = attached[s] \ {p}
    BY <1>5 DEF Detaches, Detach
  <2>2. AttachedToNode'
    BY <1>5, <1>a, <2>1 DEF Detaches, Rests, Alone, AttachedToNode
  <2>3. MarkedInUse'
    BY <1>0, <2>1 DEF MarkedInUse
  <2>4. HasOwner'
    BY <1>5, <2>1, OwnerKept DEF Detaches, Rests, Alone
  <2> QED  BY <2>2, <2>3, <2>4
<1>6. ASSUME NEW p \in Procs, MakesOwn(p) PROVE LeftInv'
  <2>1. /\ marked' = marked /\ live' = live \cup {node'[p]} /\ attached' = attached
        /\ node'[p] \notin live \cup marked
    BY <1>6 DEF MakesOwn, Makes, Create
  <2>2. pc[p] \notin Owners /\ pc'[p] \in Owners \ Attached
    BY <1>6 DEF MakesOwn, Makes, Owners, Attached
  <2>3. AttachedToNode' /\ MarkedInUse'
    BY <1>6, <2>1, <2>2 DEF MakesOwn, Makes, Alone, AttachedToNode, MarkedInUse
  <2>4. HasOwner'
    BY <1>6, <2>1, <2>2 DEF MakesOwn, Makes, Alone, HasOwner
  <2> QED  BY <2>3, <2>4
<1>7. ASSUME NEW p \in Procs, Removes(p) PROVE LeftInv'
  <2>1. /\ marked' = marked \cup {node[p]} /\ attached' = attached
        /\ live' = IF attached[node[p]] = {} THEN live \ {node[p]} ELSE live
    BY <1>7 DEF Removes, Remove
  <2>2. AttachedToNode' /\ MarkedInUse'
    BY <1>7, <2>1 DEF Removes, Alone, AttachedToNode, MarkedInUse, Attached
  <2>3. HasOwner'
    BY <1>7, <2>1 DEF Removes, Alone, HasOwner
  <2> QED  BY <2>2, <2>3
<1>8. ASSUME NEW p \in Procs, Revives(p) PROVE LeftInv'
  <2>1. PICK s \in Segments : Create(Key(p), s) /\ revived' = revived \cup {s}
    BY <1>8 DEF Revives
  <2>2. /\ marked' = marked /\ live' = live \cup {s} /\ attached' = attached
        /\ s \notin live \cup marked
    BY <2>1 DEF Create
  <2>3. AttachedToNode' /\ MarkedInUse'
    BY <1>8, <2>2 DEF Revives, Alone, AttachedToNode, MarkedInUse, Attached
  <2>4. HasOwner'
    BY <1>8, <2>1, <2>2 DEF Revives, Alone, HasOwner, Owners
  <2> QED  BY <2>3, <2>4
<1> QED
  BY <1>1, <1>2, <1>3, <1>4, <1>5, <1>6, <1>7, <1>8, CallKinds

\* A node that nobody is attached to belongs to a process between two calls, was
\* left by [exit], by a fault, a failed assertion or a kill, or was made by a server
\* anew: free_node leaves none behind.
THEOREM FreeNodeLeavesNone == Spec => []LeftWithoutFree
<1>1. Init => TypeOK /\ LeftInv                            BY InitType, LeftInit
<1>2. TypeOK /\ LeftInv /\ [Next]_vars => (TypeOK /\ LeftInv)'  BY StepType, LeftStep
<1>3. LeftInv => LeftWithoutFree
  BY DEF LeftInv, AttachedToNode, MarkedInUse, HasOwner, LeftWithoutFree, Attached, Owners
<1> QED  BY <1>1, <1>2, <1>3, PTL DEF Spec

=============================================================================
