---------------------------- MODULE SharedMemory ----------------------------
(***************************************************************************)
(* System V shared memory as chat.c and atomic_file.c rely on it.  A key   *)
(* finds at most one segment.  A segment that is marked (IPC_RMID) is      *)
(* found by no key any more and is destroyed when nobody is attached to    *)
(* it; shmat and IPC_RMID fail for a segment that has been destroyed.      *)
(***************************************************************************)
EXTENDS Integers, FiniteSets

CONSTANTS
  Procs,       \* processes; each is attached to one segment at a time
  Keys,        \* keys
  Segments,    \* identifiers of segments
  NoSegment    \* what a key that finds nothing finds

ASSUME SharedMemoryAssumption ==
  /\ IsFiniteSet(Procs)
  /\ NoSegment \notin Segments

VARIABLES
  keyed,       \* the segment each key finds
  live,        \* segments that exist
  marked,      \* segments marked by IPC_RMID
  attached     \* the processes attached to each segment

kernel == <<keyed, live, marked, attached>>

KernelOK ==
  /\ keyed \in [Keys -> Segments \cup {NoSegment}]
  /\ live \subseteq Segments
  /\ marked \subseteq Segments
  /\ attached \in [Segments -> SUBSET Procs]

NoSegments ==
  /\ keyed = [k \in Keys |-> NoSegment]
  /\ live = {} /\ marked = {}
  /\ attached = [s \in Segments |-> {}]

\* shmget with IPC_CREAT makes segment s for a key that finds none.
Create(k, s) ==
  /\ s \in Segments \ (live \cup marked)
  /\ keyed' = [keyed EXCEPT ![k] = s]
  /\ live' = live \cup {s}
  /\ UNCHANGED <<marked, attached>>

\* shmat
Attach(p, s) ==
  /\ attached' = [attached EXCEPT ![s] = @ \cup {p}]
  /\ UNCHANGED <<keyed, live, marked>>

\* shmdt, by the process or by the kernel when it ends.
Detach(p) ==
  /\ attached' = [s \in Segments |-> attached[s] \ {p}]
  /\ live' = live \ {s \in marked : attached[s] \subseteq {p}}
  /\ UNCHANGED <<keyed, marked>>

\* shmctl(s, IPC_RMID)
Remove(s) ==
  /\ marked' = marked \cup {s}
  /\ keyed' = [k \in Keys |-> IF keyed[k] = s THEN NoSegment ELSE keyed[k]]
  /\ live' = IF attached[s] = {} THEN live \ {s} ELSE live
  /\ UNCHANGED attached

-----------------------------------------------------------------------------
(* What the calls keep *)

\* A segment that a key finds exists and is not marked.
KeyedLives ==
  \A k \in Keys : keyed[k] # NoSegment => keyed[k] \in live \ marked

\* A marked segment lives only as long as a process is attached to it.
MarkedInUse ==
  \A s \in live \cap marked : attached[s] # {}

\* Both, of tables of the right types.
KernelInv == KernelOK /\ KeyedLives /\ MarkedInUse

=============================================================================
