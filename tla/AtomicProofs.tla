---------------------------- MODULE AtomicProofs ----------------------------
(***************************************************************************)
(* Proofs about AtomicFile, for any processes, threads, and numbers of     *)
(* writes, of processes killed and of calls refused.                       *)
(***************************************************************************)
EXTENDS AtomicFile, FiniteSetTheorems, TLAPS

USE AtomicFileAssumption, SharedMemoryAssumption

-----------------------------------------------------------------------------
(* The calls of SharedMemory *)

\* Before any call.
LEMMA NoSegmentsInv == NoSegments => KernelInv
  BY DEF NoSegments, KernelInv, KernelOK, KeyedLives, MarkedInUse

\* Each call keeps the types of the tables, what keys find, and what is attached
\* to marked segments.
LEMMA CreateInv ==
  ASSUME NEW k \in Keys, NEW s \in Segments, Create(k, s)
  PROVE  (KernelOK => KernelOK') /\ (KernelInv => KernelInv')
  BY DEF KernelInv, KernelOK, KeyedLives, MarkedInUse, Create

LEMMA AttachInv ==
  ASSUME NEW p \in Procs, NEW s \in Segments, Attach(p, s)
  PROVE  (KernelOK => KernelOK') /\ (KernelInv => KernelInv')
  BY DEF KernelInv, KernelOK, KeyedLives, MarkedInUse, Attach

LEMMA DetachInv ==
  ASSUME NEW p \in Procs, Detach(p)
  PROVE  (KernelOK => KernelOK') /\ (KernelInv => KernelInv')
  BY DEF KernelInv, KernelOK, KeyedLives, MarkedInUse, Detach

LEMMA RemoveInv ==
  ASSUME NEW s \in Segments, Remove(s)
  PROVE  (KernelOK => KernelOK') /\ (KernelInv => KernelInv')
  BY DEF KernelInv, KernelOK, KeyedLives, MarkedInUse, Remove

LEMMA UnchangedInv ==
  ASSUME UNCHANGED kernel
  PROVE  (KernelOK => KernelOK') /\ (KernelInv => KernelInv')
  BY DEF KernelInv, KernelOK, KeyedLives, MarkedInUse, kernel

-----------------------------------------------------------------------------
(* Steps *)

Steps   == OpenSteps \cup Opened \cup Ends \cup {"off"}
Holding == {"attach", "initialise", "mark"}
Probing == {"probe", "detach"}

Met(p, q) == {p, q} \in met
Raced(p)  == \E q \in Procs : Met(p, q)

\* What may make p fail.
Excused(p) == WasRefused(p, Refusable) \/ Raced(p)

-----------------------------------------------------------------------------
(* The inductive invariant *)

\* A process that has found a segment, or made it, has one.
HasFound(p) == pc[p] \in Probing \cup Holding \/ (pc[p] = "get" /\ shm_exists[p])
SegmentFound ==
  \A p \in Procs : HasFound(p) => segment[p] \in Segments
ProbesFound ==
  \A p \in Procs : pc[p] \in Probing => shm_exists[p]

\* Processes that are opening have met.
MetOpening ==
  \A p, q \in Procs : p # q /\ pc[p] \in OpenSteps /\ pc[q] \in OpenSteps => Met(p, q)

\* The segment of an opener that has met no other is the one the key finds.  A
\* process without a segment, or without a file, has met another or was refused
\* a call.
KeepsSegment ==
  \A p \in Procs : HasFound(p) => keyed[File] = segment[p] \/ Raced(p)
Lacks(p) ==
  \/ pc[p] \in Opened /\ segment[p] = NoSegment
  \/ pc[p] = "open" /\ ~file[p]
NullExcused ==
  \A p \in Procs : pc[p] = "failed" \/ Lacks(p) => Excused(p)

RaceInv == SegmentFound /\ ProbesFound /\ MetOpening /\ KeepsSegment /\ NullExcused

\* Threads write only in open files.  Where no race has happened, a status of
\* AVAILABLE means that nobody prints, and one thread at most is past the test.
Past == {"claim", "print", "release"}
WritersOpen ==
  \A w \in Procs \X Threads :
    /\ at[w] # "idle" => pc[w[1]] = "open"
    /\ at[w] \in Past => segment[w[1]] \in Segments
AvailableFree ==
  \A w \in Procs \X Threads :
    at[w] \in {"print", "release"} /\ segment[w[1]] \notin raced
      => status[segment[w[1]]] = "WRITING"
OnePast ==
  \A v, w \in Procs \X Threads :
    at[v] \in Past /\ at[w] \in Past /\ segment[v[1]] = segment[w[1]]
      /\ segment[w[1]] \notin raced => v = w

WriteInv == WritersOpen /\ AvailableFree /\ OnePast

\* Only processes that run are attached; a segment that is not marked has an
\* opener, which will mark it, unless one was killed or refused its call.
AttachedRun ==
  \A s \in Segments : \A p \in attached[s] : pc[p] \in OpenSteps \cup Opened
NoLeak == kills = 0 /\ \A p \in Procs : ~WasRefused(p, {"attach", "mark"})
HasOpener ==
  NoLeak =>
    \A s \in live \ marked : \E p \in Procs : segment[p] = s /\ pc[p] \in Holding

LeftInv == AttachedRun /\ HasOpener

Inv == TypeOK /\ KernelInv /\ RaceInv /\ WriteInv /\ LeftInv

-----------------------------------------------------------------------------
(* Types *)

LEMMA TypeInit == Init => TypeOK
  BY DEF Init, NoSegments, TypeOK, KernelOK

\* The place, local variable and segment of a process keep their types when a
\* step sets them for one process.
LocalOK ==
  /\ pc' \in [Procs -> OpenSteps \cup Opened \cup Ends \cup {"off"}]
  /\ shm_exists' \in [Procs -> BOOLEAN] /\ file' \in [Procs -> BOOLEAN]
  /\ segment' \in [Procs -> Segments \cup {NoSegment}]

WriteOK ==
  /\ status' \in [Segments -> {"AVAILABLE", "WRITING"}]
  /\ at' \in [Procs \X Threads -> WriteSteps \cup {"idle"}]
  /\ writes' \in [Procs \X Threads -> 0..MaxWrites]

HistoryOK ==
  /\ kills' \in 0..MaxKills /\ refused' \subseteq Procs \X Refusable /\ met' \subseteq SUBSET Procs /\ raced' \subseteq Segments

LEMMA TypeParts == KernelOK' /\ LocalOK /\ WriteOK /\ HistoryOK => TypeOK'
  BY DEF TypeOK, LocalOK, WriteOK, HistoryOK

LEMMA EndType ==
  ASSUME TypeOK, NEW p \in Procs, NEW how \in Ends, End(p, how)
  PROVE  KernelOK' /\ LocalOK /\ WriteOK
<1>1. KernelOK'  BY DetachInv DEF TypeOK, End
<1>2. LocalOK    BY DEF TypeOK, End, Goto, LocalOK
<1>3. WriteOK    BY DEF TypeOK, End, WriteOK
<1> QED  BY <1>1, <1>2, <1>3

\* A process that has found a segment has one: what the calls are given.
LEMMA GivenSegment ==
  ASSUME RaceInv, NEW p \in Procs, HasFound(p)
  PROVE  segment[p] \in Segments
  BY DEF RaceInv, SegmentFound

LEMMA KeyType == TypeOK => File \in Keys /\ keyed[File] \in Segments \cup {NoSegment}
  BY DEF TypeOK, KernelOK

LEMMA OpenType ==
  ASSUME TypeOK, RaceInv, NEW p \in Procs, OpenStep(p) \/ Refuse(p)
  PROVE  TypeOK'
<1> USE DEF OpenSteps, Opened, Ends
<1>1. CASE Exists(p)
  <2>1. KernelOK'  BY <1>1, UnchangedInv DEF Exists, TypeOK
  <2>2. LocalOK    BY <1>1, KeyType DEF Exists, TypeOK, Goto, LocalOK
  <2>3. WriteOK /\ HistoryOK
    BY <1>1 DEF Exists, TypeOK, writing, history, WriteOK, HistoryOK
  <2> QED  BY <2>1, <2>2, <2>3, TypeParts
<1>2. CASE Probe(p)
  <2>1. CASE segment[p] \in live
    <3>1. KernelOK'
      BY <1>2, <2>1, GivenSegment, AttachInv DEF Probe, TypeOK, HasFound, Probing
    <3>2. LocalOK    BY <1>2, <2>1 DEF Probe, TypeOK, Goto, LocalOK
    <3>3. WriteOK    BY <1>2, <2>1 DEF Probe, TypeOK, writing, WriteOK
    <3>4. HistoryOK  BY <1>2 DEF Probe, TypeOK, history, HistoryOK
    <3> QED  BY <3>1, <3>2, <3>3, <3>4, TypeParts
  <2>2. CASE segment[p] \notin live
    BY <1>2, <2>2, EndType, TypeParts DEF Probe, TypeOK, history, HistoryOK
  <2> QED  BY <2>1, <2>2
<1>3. CASE Unprobe(p)
  <2>1. KernelOK'  BY <1>3, DetachInv DEF Unprobe, TypeOK
  <2>2. LocalOK    BY <1>3 DEF Unprobe, TypeOK, Goto, LocalOK
  <2>3. WriteOK /\ HistoryOK
    BY <1>3 DEF Unprobe, TypeOK, writing, history, WriteOK, HistoryOK
  <2> QED  BY <2>1, <2>2, <2>3, TypeParts
<1>4. CASE Get(p)
  <2>1. WriteOK /\ HistoryOK
    BY <1>4 DEF Get, TypeOK, writing, history, WriteOK, HistoryOK
  <2>2. CASE keyed[File] = NoSegment /\ ~shm_exists[p]
    <3>1. PICK s \in Segments : Create(File, s) /\ segment' = [segment EXCEPT ![p] = s]
      BY <1>4, <2>2 DEF Get
    <3>2. KernelOK'  BY <3>1, KeyType, CreateInv DEF TypeOK
    <3>3. LocalOK    BY <1>4, <2>2, <3>1 DEF Get, TypeOK, Goto, LocalOK
    <3> QED  BY <2>1, <3>2, <3>3, TypeParts
  <2>3. CASE keyed[File] # NoSegment \/ shm_exists[p]
    <3>1. KernelOK'  BY <1>4, <2>3, UnchangedInv DEF Get, TypeOK
    <3>2. LocalOK    BY <1>4, <2>3, KeyType DEF Get, TypeOK, Goto, LocalOK
    <3> QED  BY <2>1, <3>1, <3>2, TypeParts
  <2> QED  BY <2>2, <2>3
<1>5. CASE AttachSegment(p)
  <2>1. CASE segment[p] \in live
    <3>1. KernelOK'
      BY <1>5, <2>1, GivenSegment, AttachInv DEF AttachSegment, TypeOK, HasFound, Holding
    <3>2. LocalOK    BY <1>5, <2>1 DEF AttachSegment, TypeOK, Goto, LocalOK
    <3>3. WriteOK    BY <1>5, <2>1 DEF AttachSegment, TypeOK, writing, WriteOK
    <3>4. HistoryOK  BY <1>5 DEF AttachSegment, TypeOK, history, HistoryOK
    <3> QED  BY <3>1, <3>2, <3>3, <3>4, TypeParts
  <2>2. CASE segment[p] \notin live
    BY <1>5, <2>2, EndType, TypeParts DEF AttachSegment, TypeOK, history, HistoryOK
  <2> QED  BY <2>1, <2>2
<1>6. CASE Initialise(p)
  <2>1. segment[p] \in Segments
    BY <1>6, GivenSegment DEF Initialise, HasFound, Holding
  <2>2. KernelOK'  BY <1>6, UnchangedInv DEF Initialise, TypeOK
  <2>3. LocalOK    BY <1>6 DEF Initialise, TypeOK, Goto, LocalOK
  <2>4. WriteOK    BY <1>6, <2>1 DEF Initialise, TypeOK, writing, WriteOK
  <2>5. HistoryOK  BY <1>6, <2>1 DEF Initialise, TypeOK, HistoryOK
  <2> QED  BY <2>2, <2>3, <2>4, <2>5, TypeParts
<1>7. CASE Mark(p)
  <2>1. segment[p] \in Segments
    BY <1>7, GivenSegment DEF Mark, HasFound, Holding
  <2>2. KernelOK'  BY <1>7, <2>1, RemoveInv DEF Mark, TypeOK
  <2>3. LocalOK    BY <1>7 DEF Mark, TypeOK, Goto, LocalOK
  <2>4. WriteOK /\ HistoryOK
    BY <1>7 DEF Mark, TypeOK, writing, history, WriteOK, HistoryOK
  <2> QED  BY <2>2, <2>3, <2>4, TypeParts
<1>8. CASE Fopen(p)
  <2>1. KernelOK'  BY <1>8, UnchangedInv DEF Fopen, TypeOK
  <2>2. LocalOK    BY <1>8 DEF Fopen, TypeOK, Goto, LocalOK
  <2>3. WriteOK /\ HistoryOK
    BY <1>8 DEF Fopen, TypeOK, writing, history, WriteOK, HistoryOK
  <2> QED  BY <2>1, <2>2, <2>3, TypeParts
<1>9. CASE Refuse(p)
  <2>1. HistoryOK  BY <1>9 DEF Refuse, TypeOK, HistoryOK
  <2>2. CASE pc[p] \in {"exists", "get", "fopen"}
    <3>1. UNCHANGED <<kernel, status, writing>>
      BY <1>9, <2>2 DEF Refuse
    <3>2. KernelOK'  BY <3>1, UnchangedInv DEF TypeOK
    <3>3. LocalOK    BY <1>9, <2>2 DEF Refuse, TypeOK, Goto, LocalOK
    <3>4. WriteOK    BY <3>1 DEF TypeOK, writing, WriteOK
    <3> QED  BY <2>1, <3>2, <3>3, <3>4, TypeParts
  <2>3. CASE pc[p] \in {"probe", "attach", "mark"}
    <3>1. End(p, "failed")  BY <1>9, <2>3 DEF Refuse
    <3> QED  BY <2>1, <3>1, EndType, TypeParts
  <2> QED  BY <1>9, <2>2, <2>3 DEF Refuse, Refusable
<1> QED  BY <1>1, <1>2, <1>3, <1>4, <1>5, <1>6, <1>7, <1>8, <1>9 DEF OpenStep

LEMMA ProcessType ==
  ASSUME TypeOK, NEW p \in Procs, Start(p) \/ Close(p) \/ Kill(p)
  PROVE  TypeOK'
<1>1. CASE Start(p)
  <2>1. {{p, q} : q \in Opening} \subseteq SUBSET Procs  BY DEF Opening
  <2>2. KernelOK'  BY <1>1, UnchangedInv DEF Start, TypeOK
  <2>3. LocalOK    BY <1>1 DEF Start, TypeOK, Goto, LocalOK, OpenSteps
  <2>4. WriteOK /\ HistoryOK
    BY <1>1, <2>1 DEF Start, TypeOK, writing, WriteOK, HistoryOK
  <2> QED  BY <2>2, <2>3, <2>4, TypeParts
<1>2. CASE Close(p)
  <2>1. PICK how \in Ends : End(p, how)  BY <1>2 DEF Close, Ends
  <2> QED  BY <1>2, <2>1, EndType, TypeParts DEF Close, TypeOK, history, HistoryOK
<1>3. CASE Kill(p)
  <2>1. End(p, "killed") /\ "killed" \in Ends  BY <1>3 DEF Kill, Ends
  <2>2. HistoryOK  BY <1>3 DEF Kill, TypeOK, HistoryOK
  <2> QED  BY <2>1, <2>2, EndType, TypeParts
<1> QED  BY <1>1, <1>2, <1>3

LEMMA WriteType ==
  ASSUME TypeOK, WriteInv, NEW w \in Procs \X Threads, Begin(w) \/ WriteStep(w)
  PROVE  TypeOK'
<1> USE DEF WriteSteps, Step, Owner
<1>0. w[1] \in Procs /\ MaxWrites \in Nat
  OBVIOUS
<1>1. CASE Begin(w)
  <2>1. KernelOK'  BY <1>1, UnchangedInv DEF Begin, TypeOK
  <2>2. LocalOK /\ HistoryOK
    BY <1>1 DEF Begin, TypeOK, opening, history, LocalOK, HistoryOK
  <2>3. WriteOK    BY <1>0, <1>1 DEF Begin, TypeOK, WriteOK
  <2> QED  BY <2>1, <2>2, <2>3, TypeParts
<1>2. CASE Test(w)
  <2>1. CASE segment[w[1]] # NoSegment
    <3>1. segment[w[1]] \in Segments  BY <1>0, <2>1 DEF TypeOK
    <3>2. KernelOK'  BY <1>2, <2>1, UnchangedInv DEF Test, TypeOK
    <3>3. LocalOK    BY <1>2, <2>1 DEF Test, TypeOK, opening, LocalOK
    <3>4. WriteOK    BY <1>2, <2>1 DEF Test, TypeOK, WriteOK
    <3>5. HistoryOK  BY <1>2, <2>1, <3>1 DEF Test, TypeOK, HistoryOK
    <3> QED  BY <3>2, <3>3, <3>4, <3>5, TypeParts
  <2>2. CASE segment[w[1]] = NoSegment
    <3>1. End(w[1], "failed") /\ "failed" \in Ends  BY <1>2, <2>2 DEF Test, Ends
    <3>2. HistoryOK  BY <1>2, <2>2 DEF Test, TypeOK, HistoryOK
    <3> QED  BY <1>0, <3>1, <3>2, EndType, TypeParts
  <2> QED  BY <2>1, <2>2
<1>3. CASE Claim(w) \/ Release(w)
  <2>1. KernelOK'  BY <1>3, UnchangedInv DEF Claim, Release, TypeOK
  <2>2. LocalOK /\ HistoryOK
    BY <1>3 DEF Claim, Release, TypeOK, opening, history, LocalOK, HistoryOK
  <2>3. WriteOK
    <3>1. segment[w[1]] \in Segments
      BY <1>0, <1>3 DEF Claim, Release, WriteInv, WritersOpen, Past
    <3> QED  BY <1>3, <3>1 DEF Claim, Release, TypeOK, WriteOK
  <2> QED  BY <2>1, <2>2, <2>3, TypeParts
<1>4. CASE Vfprintf(w)
  <2>1. HistoryOK  BY <1>4 DEF Vfprintf, TypeOK, history, HistoryOK
  <2>2. CASE file[w[1]]
    <3>1. KernelOK'  BY <1>4, <2>2, UnchangedInv DEF Vfprintf, TypeOK
    <3>2. LocalOK    BY <1>4, <2>2 DEF Vfprintf, TypeOK, opening, LocalOK
    <3>3. WriteOK    BY <1>4, <2>2 DEF Vfprintf, TypeOK, WriteOK
    <3> QED  BY <2>1, <3>1, <3>2, <3>3, TypeParts
  <2>3. CASE ~file[w[1]]
    <3>1. End(w[1], "failed") /\ "failed" \in Ends  BY <1>4, <2>3 DEF Vfprintf, Ends
    <3> QED  BY <1>0, <2>1, <3>1, EndType, TypeParts
  <2> QED  BY <2>2, <2>3
<1> QED  BY <1>1, <1>2, <1>3, <1>4 DEF WriteStep

LEMMA StepType ==
  ASSUME TypeOK, RaceInv, WriteInv, [Next]_vars
  PROVE  TypeOK'
<1>1. CASE UNCHANGED vars
  BY <1>1 DEF vars, kernel, opening, writing, history, TypeOK, KernelOK
<1>2. CASE Next
  BY <1>2, OpenType, ProcessType, WriteType DEF Next
<1> QED  BY <1>1, <1>2

-----------------------------------------------------------------------------
(* Races between openers *)

Alone(p) ==
  \A q \in Procs \ {p} :
    /\ pc'[q] = pc[q] /\ segment'[q] = segment[q]
    /\ shm_exists'[q] = shm_exists[q] /\ file'[q] = file[q]

\* What p's step does, as far as RaceInv depends on it.  Calm: what the key finds
\* stays; p goes no nearer to having a segment, and fails, or does without one or
\* without a file, only for a reason it had before or a call it was refused.
Calm(p) ==
  /\ Alone(p) /\ UNCHANGED <<keyed, met>> /\ refused \subseteq refused'
  /\ pc'[p] \in OpenSteps => pc[p] \in OpenSteps
  /\ HasFound(p)' => HasFound(p) /\ segment'[p] = segment[p]
  /\ pc'[p] \in Probing => pc[p] \in Probing /\ shm_exists'[p] = shm_exists[p]
  /\ pc'[p] = "failed" \/ Lacks(p)' =>
       \/ pc[p] = "failed" \/ Lacks(p)
       \/ HasFound(p) /\ keyed[File] # segment[p]
       \/ WasRefused(p, Refusable)'

Begins(p) ==
  /\ Alone(p) /\ UNCHANGED <<kernel, refused>>
  /\ pc'[p] = "exists" /\ met' = met \cup {{p, q} : q \in Opening}

Looks(p) ==
  /\ Alone(p) /\ UNCHANGED <<kernel, refused, met>>
  /\ segment'[p] = keyed[File] /\ shm_exists'[p] = (keyed[File] # NoSegment)
  /\ pc[p] = "exists" /\ pc'[p] = IF keyed[File] = NoSegment THEN "get" ELSE "probe"

Finds(p) ==
  /\ Alone(p) /\ UNCHANGED <<kernel, refused, met>>
  /\ pc[p] = "get" /\ pc'[p] = "attach"
  /\ segment'[p] = keyed[File] /\ keyed[File] # NoSegment

Makes(p) ==
  /\ Alone(p) /\ UNCHANGED <<refused, met>>
  /\ pc[p] = "get" /\ pc'[p] = "attach"
  /\ keyed[File] = NoSegment
  /\ segment'[p] \in Segments /\ Create(File, segment'[p])

Marks(p) ==
  /\ Alone(p) /\ UNCHANGED <<refused, met>>
  /\ pc[p] = "mark" /\ pc'[p] = "fopen"
  /\ segment'[p] = segment[p] /\ Remove(segment[p])

LEMMA StepKinds ==
  ASSUME TypeOK, KernelInv, RaceInv, WriteInv, Next
  PROVE  \E p \in Procs : \/ Calm(p) \/ Begins(p) \/ Looks(p)
                          \/ Finds(p) \/ Makes(p) \/ Marks(p)
<1> USE DEF Goto, Alone, HasFound, Lacks, OpenSteps, Opened, Ends, Probing, Holding
<1>0. /\ pc \in [Procs -> Steps] /\ shm_exists \in [Procs -> BOOLEAN]
      /\ segment \in [Procs -> Segments \cup {NoSegment}] /\ file \in [Procs -> BOOLEAN]
  BY DEF TypeOK, Steps
<1>a. \A p \in Procs : pc[p] \in {"probe", "detach"} => shm_exists[p]
  BY DEF RaceInv, ProbesFound
<1>b. \A p \in Procs : HasFound(p) /\ segment[p] \notin live => keyed[File] # segment[p]
  BY KeyType, SharedMemoryAssumption DEF RaceInv, SegmentFound, KernelInv, KeyedLives
<1>1. ASSUME NEW p \in Procs, Start(p) PROVE Begins(p)
  BY <1>0, <1>1 DEF Start, Begins, kernel
<1>2. ASSUME NEW p \in Procs, Exists(p) PROVE Looks(p)
  <2>1. CASE keyed[File] = NoSegment
    BY <1>0, <1>2, <2>1 DEF Exists, Looks, kernel, history
  <2>2. CASE keyed[File] # NoSegment
    BY <1>0, <1>2, <2>2 DEF Exists, Looks, kernel, history
  <2> QED  BY <2>1, <2>2
<1>3. ASSUME NEW p \in Procs, Probe(p) PROVE Calm(p)
  <2>1. CASE segment[p] \in live
    BY <1>0, <1>3, <2>1 DEF Probe, Calm, Attach, history
  <2>2. CASE segment[p] \notin live
    BY <1>0, <1>b, <1>3, <2>2 DEF Probe, Calm, End, Detach, history
  <2> QED  BY <2>1, <2>2
<1>4. ASSUME NEW p \in Procs, Unprobe(p) PROVE Calm(p)
  BY <1>0, <1>a, <1>4 DEF Unprobe, Calm, Detach, history
<1>5. ASSUME NEW p \in Procs, Get(p) PROVE Finds(p) \/ Makes(p) \/ Calm(p)
  <2>1. CASE keyed[File] # NoSegment
    BY <1>0, <1>5, <2>1 DEF Get, Finds, kernel, history
  <2>2. CASE keyed[File] = NoSegment /\ ~shm_exists[p]
    <3>1. PICK s \in Segments : Create(File, s) /\ segment' = [segment EXCEPT ![p] = s]
      BY <1>5, <2>2 DEF Get
    <3>2. segment'[p] = s  BY <1>0, <3>1
    <3> QED  BY <1>0, <1>5, <2>2, <3>1, <3>2 DEF Get, Makes, history
  <2>3. CASE keyed[File] = NoSegment /\ shm_exists[p]
    <3>1. HasFound(p) /\ keyed[File] # segment[p]
      BY <1>5, <2>3, SharedMemoryAssumption DEF Get, RaceInv, SegmentFound
    <3> QED  BY <1>0, <1>5, <2>3, <3>1 DEF Get, Calm, kernel, history
  <2> QED  BY <1>0, <2>1, <2>2, <2>3
<1>6. ASSUME NEW p \in Procs, AttachSegment(p) PROVE Calm(p)
  <2>1. CASE segment[p] \in live
    BY <1>0, <1>6, <2>1 DEF AttachSegment, Calm, Attach, history
  <2>2. CASE segment[p] \notin live
    BY <1>0, <1>b, <1>6, <2>2 DEF AttachSegment, Calm, End, Detach, history
  <2> QED  BY <2>1, <2>2
<1>7. ASSUME NEW p \in Procs, Initialise(p) PROVE Calm(p)
  BY <1>0, <1>7 DEF Initialise, Calm, kernel
<1>8. ASSUME NEW p \in Procs, Mark(p) PROVE Marks(p)
  BY <1>0, <1>8 DEF Mark, Marks, history
<1>9. ASSUME NEW p \in Procs, Fopen(p) PROVE Calm(p)
  BY <1>0, <1>9 DEF Fopen, Calm, kernel, history
<1>10. ASSUME NEW p \in Procs, Refuse(p) PROVE Calm(p)
  <2>1. WasRefused(p, Refusable)' /\ refused \subseteq refused'
    BY <1>10 DEF Refuse, WasRefused
  <2>2. CASE pc[p] \in {"exists", "get", "fopen"}
    BY <1>0, <1>10, <2>1, <2>2 DEF Refuse, Calm, kernel
  <2>3. CASE pc[p] \in {"probe", "attach", "mark"}
    BY <1>0, <1>10, <2>1, <2>3 DEF Refuse, Calm, End, Detach
  <2> QED  BY <1>10, <2>2, <2>3 DEF Refuse, Refusable
<1>11. ASSUME NEW p \in Procs, Close(p) PROVE Calm(p)
  BY <1>0, <1>11 DEF Close, Calm, End, Detach, history
<1>12. ASSUME NEW p \in Procs, Kill(p) PROVE Calm(p)
  BY <1>0, <1>12 DEF Kill, Calm, End, Detach
<1>13. ASSUME NEW w \in Procs \X Threads, Test(w) \/ Vfprintf(w) PROVE Calm(w[1])
  <2>1. pc[w[1]] = "open" /\ UNCHANGED <<refused, met>>
    BY <1>13 DEF Test, Vfprintf, Step, Owner, WriteInv, WritersOpen, history
  <2>2. CASE UNCHANGED <<kernel, opening>>
    BY <1>0, <2>1, <2>2 DEF Calm, kernel, opening
  <2>3. CASE ~UNCHANGED <<kernel, opening>>
    <3>1. End(w[1], "failed") /\ Lacks(w[1])
      BY <1>13, <2>1, <2>3 DEF Test, Vfprintf, Owner
    <3> QED  BY <1>0, <2>1, <3>1 DEF Calm, End, Detach
  <2> QED  BY <2>2, <2>3
<1>14. ASSUME NEW w \in Procs \X Threads, Begin(w) \/ Claim(w) \/ Release(w)
       PROVE  Calm(w[1])
  BY <1>0, <1>14 DEF Begin, Claim, Release, Calm, kernel, opening, history
<1>15. \A w \in Procs \X Threads : w[1] \in Procs
  OBVIOUS
<1> QED
  BY <1>1, <1>2, <1>3, <1>4, <1>5, <1>6, <1>7, <1>8, <1>9, <1>10, <1>11, <1>12, <1>13,
     <1>14, <1>15
  DEF Next, OpenStep, WriteStep

LEMMA RaceInit == Init => RaceInv
  BY DEF Init, RaceInv, SegmentFound, ProbesFound, MetOpening, KeepsSegment, NullExcused,
     Lacks, HasFound, Probing, Holding, OpenSteps, Opened

\* Each kind of step keeps the invariant.
LEMMA CalmKeepsRaceInv ==
  ASSUME TypeOK, RaceInv, NEW p \in Procs, Calm(p)
  PROVE  RaceInv'
<1>0. keyed' = keyed /\ met' = met /\ refused \subseteq refused'
  BY DEF Calm
<1>1. \A q \in Procs :
        /\ pc'[q] \in OpenSteps => pc[q] \in OpenSteps
        /\ HasFound(q)' => HasFound(q) /\ segment'[q] = segment[q]
        /\ pc'[q] \in Probing => pc[q] \in Probing /\ shm_exists'[q] = shm_exists[q]
  BY DEF Calm, Alone, HasFound
<1>2. SegmentFound' /\ ProbesFound'
  BY <1>1 DEF RaceInv, SegmentFound, ProbesFound
<1>3. MetOpening'
  BY <1>0, <1>1 DEF RaceInv, MetOpening, Met
<1>4. KeepsSegment'
  BY <1>0, <1>1 DEF RaceInv, KeepsSegment, Raced, Met
<1>5. NullExcused'
  <2>1. \A q \in Procs : Excused(q) => Excused(q)'
    BY <1>0 DEF Excused, WasRefused, Raced, Met
  <2>2. \A q \in Procs : q # p => (pc'[q] = "failed" \/ Lacks(q)' => pc[q] = "failed" \/ Lacks(q))
    BY DEF Calm, Alone, Lacks
  <2>3. HasFound(p) /\ keyed[File] # segment[p] => Excused(p)
    BY DEF RaceInv, KeepsSegment, Excused
  <2>4. WasRefused(p, Refusable)' => Excused(p)'
    BY DEF Excused
  <2>5. ASSUME pc'[p] = "failed" \/ Lacks(p)' PROVE Excused(p)'
    BY <2>1, <2>3, <2>4, <2>5 DEF Calm, RaceInv, NullExcused
  <2> QED  BY <2>1, <2>2, <2>5 DEF RaceInv, NullExcused
<1> QED  BY <1>2, <1>3, <1>4, <1>5 DEF RaceInv

\* In the other kinds, p neither fails nor does without what it lacks.
LEMMA NullExcusedStep ==
  ASSUME RaceInv, NEW p \in Procs, Alone(p), met \subseteq met', refused' = refused,
         pc'[p] # "failed", ~Lacks(p)'
  PROVE  NullExcused'
<1>1. ASSUME NEW q \in Procs, pc'[q] = "failed" \/ Lacks(q)' PROVE Excused(q)'
  <2>1. q # p  BY <1>1
  <2>2. Excused(q)
    BY <1>1, <2>1 DEF Alone, Lacks, RaceInv, NullExcused
  <2> QED  BY <2>2 DEF Excused, WasRefused, Raced, Met
<1> QED  BY <1>1 DEF NullExcused

LEMMA BeginsKeepsRaceInv ==
  ASSUME TypeOK, RaceInv, NEW p \in Procs, Begins(p)
  PROVE  RaceInv'
<1>0. UNCHANGED kernel /\ met \subseteq met' /\ refused' = refused
  BY DEF Begins
<1>1. \A q \in Procs : q # p =>
        /\ pc'[q] = pc[q] /\ segment'[q] = segment[q] /\ shm_exists'[q] = shm_exists[q]
        /\ HasFound(q)' <=> HasFound(q)
  BY DEF Begins, Alone, HasFound
<1>2. ~HasFound(p)' /\ pc'[p] = "exists"
  BY DEF Begins, HasFound, Probing, Holding
<1>3. SegmentFound' /\ ProbesFound'
  BY <1>1, <1>2 DEF RaceInv, SegmentFound, ProbesFound, Probing
<1>4. MetOpening'
  <2>1. \A q \in Procs : {q, p} = {p, q}
    OBVIOUS
  <2>2. \A q \in Procs : pc[q] \in OpenSteps => Met(p, q)' /\ Met(q, p)'
    BY <2>1 DEF Begins, Opening, Met
  <2> QED  BY <1>0, <1>1, <2>2 DEF RaceInv, MetOpening, Met
<1>5. KeepsSegment'
  BY <1>0, <1>1, <1>2 DEF RaceInv, KeepsSegment, Raced, Met, kernel
<1>6. NullExcused'
  BY <1>0, <1>2, NullExcusedStep DEF Begins, Lacks, Opened
<1> QED  BY <1>3, <1>4, <1>5, <1>6 DEF RaceInv

LEMMA LooksKeepsRaceInv ==
  ASSUME TypeOK, RaceInv, NEW p \in Procs, Looks(p)
  PROVE  RaceInv'
<1>0. /\ UNCHANGED kernel /\ met' = met /\ refused' = refused
      /\ keyed[File] \in Segments \cup {NoSegment}
  BY KeyType DEF Looks
<1>1. \A q \in Procs : q # p =>
        /\ pc'[q] = pc[q] /\ segment'[q] = segment[q] /\ shm_exists'[q] = shm_exists[q]
        /\ HasFound(q)' <=> HasFound(q)
  BY DEF Looks, Alone, HasFound
<1>2. /\ pc[p] \in OpenSteps /\ pc'[p] \in OpenSteps
      /\ pc'[p] \notin Opened /\ pc'[p] # "failed"
      /\ HasFound(p)' => segment'[p] = keyed[File] /\ keyed[File] # NoSegment
      /\ pc'[p] \in Probing => shm_exists'[p]
  BY DEF Looks, HasFound, OpenSteps, Opened, Probing, Holding
<1>3. SegmentFound' /\ ProbesFound'
  BY <1>0, <1>1, <1>2 DEF RaceInv, SegmentFound, ProbesFound
<1>4. MetOpening'
  BY <1>0, <1>1, <1>2 DEF RaceInv, MetOpening, Met
<1>5. KeepsSegment'
  BY <1>0, <1>1, <1>2 DEF RaceInv, KeepsSegment, Raced, Met, kernel
<1>6. NullExcused'
  BY <1>0, <1>2, NullExcusedStep DEF Looks, Lacks, Opened
<1> QED  BY <1>3, <1>4, <1>5, <1>6 DEF RaceInv

LEMMA FindsKeepsRaceInv ==
  ASSUME TypeOK, RaceInv, NEW p \in Procs, Finds(p)
  PROVE  RaceInv'
<1>0. UNCHANGED kernel /\ met' = met /\ refused' = refused /\ keyed[File] \in Segments
  BY KeyType DEF Finds
<1>1. \A q \in Procs : q # p =>
        /\ pc'[q] = pc[q] /\ segment'[q] = segment[q] /\ shm_exists'[q] = shm_exists[q]
        /\ HasFound(q)' <=> HasFound(q)
  BY DEF Finds, Alone, HasFound
<1>2. pc[p] \in OpenSteps /\ pc'[p] = "attach" /\ segment'[p] = keyed[File]
  BY DEF Finds, OpenSteps
<1>3. SegmentFound' /\ ProbesFound'
  BY <1>0, <1>1, <1>2 DEF RaceInv, SegmentFound, ProbesFound, Probing
<1>4. MetOpening'
  BY <1>0, <1>1, <1>2 DEF RaceInv, MetOpening, Met, OpenSteps
<1>5. KeepsSegment'
  BY <1>0, <1>1, <1>2 DEF RaceInv, KeepsSegment, Raced, Met, kernel
<1>6. NullExcused'
  BY <1>0, <1>2, NullExcusedStep DEF Finds, Lacks, Opened
<1> QED  BY <1>3, <1>4, <1>5, <1>6 DEF RaceInv

LEMMA MakesKeepsRaceInv ==
  ASSUME TypeOK, RaceInv, NEW p \in Procs, Makes(p)
  PROVE  RaceInv'
<1> DEFINE s == segment'[p]
<1>0. /\ s \in Segments /\ met' = met /\ refused' = refused
      /\ keyed[File] = NoSegment /\ keyed'[File] = s
  BY KeyType DEF Makes, Create, TypeOK, KernelOK
<1>1. \A q \in Procs : q # p =>
        /\ pc'[q] = pc[q] /\ segment'[q] = segment[q] /\ shm_exists'[q] = shm_exists[q]
        /\ HasFound(q)' <=> HasFound(q)
  BY DEF Makes, Alone, HasFound
<1>2. pc[p] \in OpenSteps /\ pc'[p] = "attach"
  BY DEF Makes, OpenSteps
<1>3. SegmentFound' /\ ProbesFound'
  BY <1>0, <1>1, <1>2 DEF RaceInv, SegmentFound, ProbesFound, Probing
<1>4. MetOpening'
  BY <1>0, <1>1, <1>2 DEF RaceInv, MetOpening, Met, OpenSteps
<1>5. KeepsSegment'
  <2>1. ASSUME NEW q \in Procs, q # p, HasFound(q) PROVE Raced(q)
    BY <1>0, <2>1, SharedMemoryAssumption DEF RaceInv, KeepsSegment, SegmentFound
  <2> QED  BY <1>0, <1>1, <2>1 DEF KeepsSegment, Raced, Met
<1>6. NullExcused'
  BY <1>0, <1>2, NullExcusedStep DEF Makes, Lacks, Opened
<1> QED  BY <1>3, <1>4, <1>5, <1>6 DEF RaceInv

LEMMA MarksKeepsRaceInv ==
  ASSUME TypeOK, RaceInv, NEW p \in Procs, Marks(p)
  PROVE  RaceInv'
<1> DEFINE s == segment[p]
<1>0. /\ s # NoSegment /\ segment'[p] = s /\ met' = met /\ refused' = refused
      /\ pc[p] = "mark" /\ pc'[p] = "fopen"
  BY GivenSegment, SharedMemoryAssumption DEF Marks, HasFound, Holding
<1>1. \A q \in Procs : q # p =>
        /\ pc'[q] = pc[q] /\ segment'[q] = segment[q] /\ shm_exists'[q] = shm_exists[q]
        /\ HasFound(q)' <=> HasFound(q)
  BY DEF Marks, Alone, HasFound
<1>2. pc[p] \in OpenSteps /\ pc'[p] \notin OpenSteps /\ ~HasFound(p)'
  BY <1>0 DEF HasFound, OpenSteps, Probing, Holding
<1>3. SegmentFound' /\ ProbesFound'
  BY <1>0, <1>1, <1>2 DEF RaceInv, SegmentFound, ProbesFound, HasFound
<1>4. MetOpening'
  BY <1>0, <1>1, <1>2 DEF RaceInv, MetOpening, Met
<1>5. KeepsSegment'
  <2>1. ASSUME NEW q \in Procs, q # p, HasFound(q) PROVE Raced(q)
    BY <1>2, <2>1 DEF RaceInv, MetOpening, HasFound, Holding, Probing, OpenSteps, Raced
  <2> QED  BY <1>0, <1>1, <1>2, <2>1 DEF KeepsSegment, Raced, Met
<1>6. NullExcused'
  BY <1>0, NullExcusedStep DEF Marks, Lacks
<1> QED  BY <1>3, <1>4, <1>5, <1>6 DEF RaceInv

LEMMA RaceStep ==
  ASSUME TypeOK, KernelInv, RaceInv, WriteInv, [Next]_vars
  PROVE  RaceInv'
<1>1. CASE UNCHANGED vars
  BY <1>1 DEF vars, kernel, opening, history, RaceInv, SegmentFound, ProbesFound,
     MetOpening, KeepsSegment, NullExcused, Lacks, Excused, WasRefused, HasFound, Raced, Met
<1>2. CASE Next
  BY <1>2, StepKinds, CalmKeepsRaceInv, BeginsKeepsRaceInv, LooksKeepsRaceInv,
     FindsKeepsRaceInv, MakesKeepsRaceInv, MarksKeepsRaceInv
<1> QED  BY <1>1, <1>2

-----------------------------------------------------------------------------
(* Writing *)

LEMMA WriteInit == Init => WriteInv
  BY DEF Init, WriteInv, WritersOpen, AvailableFree, OnePast, Past

\* No thread gets past the test or sets a status, and those past it keep their
\* segment.
Passive ==
  /\ status' = status /\ raced \subseteq raced'
  /\ \A w \in Procs \X Threads :
       /\ at'[w] = at[w] \/ at'[w] \in {"idle", "test"}
       /\ at'[w] # "idle" => pc'[w[1]] = "open" /\ segment'[w[1]] = segment[w[1]]

LEMMA PassiveKeepsWriteInv ==
  ASSUME TypeOK, WriteInv, Passive
  PROVE  WriteInv'
<1>0. \A w \in Procs \X Threads :
        at'[w] \in Past => at'[w] = at[w] /\ segment'[w[1]] = segment[w[1]]
  BY DEF Passive, Past
<1>1. WritersOpen'
  BY <1>0 DEF Passive, WriteInv, WritersOpen, Past
<1>2. AvailableFree'
  BY <1>0 DEF Passive, WriteInv, AvailableFree, Past
<1>3. OnePast'
  BY <1>0 DEF Passive, WriteInv, OnePast
<1> QED  BY <1>1, <1>2, <1>3 DEF WriteInv

\* A process that ends is passive, and so is one that opens.
LEMMA EndIsPassive ==
  ASSUME TypeOK, WriteInv, NEW p \in Procs, NEW how, End(p, how), raced' = raced
  PROVE  Passive
<1>1. ASSUME NEW w \in Procs \X Threads
      PROVE  /\ at'[w] = at[w] \/ at'[w] \in {"idle", "test"}
             /\ at'[w] # "idle" => pc'[w[1]] = "open" /\ segment'[w[1]] = segment[w[1]]
  <2>1. w[1] \in Procs /\ at'[w] = IF w[1] = p THEN "idle" ELSE at[w]
    BY DEF End
  <2>2. CASE w[1] = p
    BY <2>1, <2>2
  <2>3. CASE w[1] # p
    BY <2>1, <2>3 DEF End, Goto, TypeOK, WriteInv, WritersOpen
  <2> QED  BY <2>2, <2>3
<1> QED  BY <1>1 DEF Passive, End

LEMMA OpenerIsPassive ==
  ASSUME TypeOK, WriteInv, NEW p \in Procs, pc[p] # "open",
         \A q \in Procs \ {p} : pc'[q] = pc[q] /\ segment'[q] = segment[q],
         UNCHANGED <<status, at, raced>>
  PROVE  Passive
<1>1. \A w \in Procs \X Threads : w[1] \in Procs /\ (at[w] # "idle" => w[1] # p)
  BY DEF WriteInv, WritersOpen
<1> QED  BY <1>1 DEF Passive, WriteInv, WritersOpen

LEMMA WriteStepInv ==
  ASSUME TypeOK, RaceInv, WriteInv, [Next]_vars
  PROVE  WriteInv'
<1> USE DEF Owner, Step
<1>0. /\ pc \in [Procs -> OpenSteps \cup Opened \cup Ends \cup {"off"}]
      /\ segment \in [Procs -> Segments \cup {NoSegment}]
      /\ status \in [Segments -> {"AVAILABLE", "WRITING"}]
      /\ at \in [Procs \X Threads -> WriteSteps \cup {"idle"}]
      /\ \A w \in Procs \X Threads : w[1] \in Procs
  BY DEF TypeOK
<1>1. CASE UNCHANGED vars
  BY <1>1 DEF vars, opening, writing, history, WriteInv, WritersOpen, AvailableFree, OnePast
<1>2. ASSUME NEW p \in Procs,
             Start(p) \/ Exists(p) \/ Unprobe(p) \/ Get(p) \/ Mark(p) \/ Fopen(p)
      PROVE  WriteInv'
  <2>1. pc[p] # "open" /\ UNCHANGED <<status, at, raced>>
    BY <1>2 DEF Start, Exists, Unprobe, Get, Mark, Fopen, writing, history
  <2>2. \A q \in Procs \ {p} : pc'[q] = pc[q]
    BY <1>0, <1>2 DEF Start, Exists, Unprobe, Get, Mark, Fopen, Goto
  <2>3. \A q \in Procs \ {p} : segment'[q] = segment[q]
    BY <1>0, <1>2 DEF Start, Exists, Unprobe, Get, Mark, Fopen
  <2> QED  BY <2>1, <2>2, <2>3, OpenerIsPassive, PassiveKeepsWriteInv
<1>3. ASSUME NEW p \in Procs, Probe(p) \/ AttachSegment(p) PROVE WriteInv'
  <2>1. CASE segment[p] \in live
    <3>1. pc[p] # "open" /\ UNCHANGED <<status, at, raced, segment>>
      BY <1>3, <2>1 DEF Probe, AttachSegment, writing, history
    <3>2. \A q \in Procs \ {p} : pc'[q] = pc[q]
      BY <1>0, <1>3, <2>1 DEF Probe, AttachSegment, Goto
    <3> QED  BY <3>1, <3>2, OpenerIsPassive, PassiveKeepsWriteInv
  <2>2. CASE segment[p] \notin live
    <3>1. End(p, "failed") /\ raced' = raced
      BY <1>3, <2>2 DEF Probe, AttachSegment, history
    <3> QED  BY <3>1, EndIsPassive, PassiveKeepsWriteInv
  <2> QED  BY <2>1, <2>2
<1>4. ASSUME NEW p \in Procs, Close(p) \/ Kill(p) PROVE WriteInv'
  <2>1. PICK how \in Ends : End(p, how) /\ raced' = raced
    BY <1>4 DEF Close, Kill, Ends, history
  <2> QED  BY <2>1, EndIsPassive, PassiveKeepsWriteInv
<1>5. ASSUME NEW p \in Procs, Initialise(p) PROVE WriteInv'
  <2>1. /\ UNCHANGED <<segment, at>> /\ pc[p] = "initialise" /\ raced \subseteq raced'
        /\ \A q \in Procs \ {p} : pc'[q] = pc[q]
    BY <1>0, <1>5 DEF Initialise, Goto, writing
  <2>2. WritersOpen' /\ OnePast'
    BY <1>0, <2>1 DEF WriteInv, WritersOpen, OnePast
  <2>3. AvailableFree'
    <3>1. CASE shm_exists[p]
      BY <1>5, <2>1, <3>1 DEF Initialise, WriteInv, AvailableFree
    <3>2. CASE ~shm_exists[p]
      <4>1. /\ status' = [status EXCEPT ![segment[p]] = "AVAILABLE"]
            /\ ThreadsAt(segment[p], {"print", "release"}) # {} => segment[p] \in raced'
        BY <1>5, <3>2 DEF Initialise
      <4>2. ASSUME NEW w \in Procs \X Threads, at[w] \in {"print", "release"},
                   segment[w[1]] \notin raced'
            PROVE  segment[w[1]] # segment[p]
        BY <4>1, <4>2 DEF ThreadsAt
      <4>3. \A w \in Procs \X Threads : at[w] \in {"print", "release"} => segment[w[1]] \in Segments
        BY DEF WriteInv, WritersOpen, Past
      <4> QED  BY <1>0, <2>1, <4>1, <4>2, <4>3 DEF WriteInv, AvailableFree
    <3> QED  BY <3>1, <3>2
  <2> QED  BY <2>2, <2>3 DEF WriteInv
<1>6. ASSUME NEW w \in Procs \X Threads, Begin(w) PROVE WriteInv'
  <2>1. UNCHANGED <<status, pc, segment, raced>>
    BY <1>6 DEF Begin, opening, history
  <2>2. \A v \in Procs \X Threads : at'[v] = at[v] \/ (v = w /\ at'[v] = "test")
    BY <1>0, <1>6 DEF Begin
  <2>3. pc[w[1]] = "open"
    BY <1>6 DEF Begin
  <2>4. Passive
    BY <1>0, <2>1, <2>2, <2>3 DEF Passive, WriteInv, WritersOpen
  <2> QED  BY <2>4, PassiveKeepsWriteInv
<1>7. ASSUME NEW w \in Procs \X Threads, Test(w) PROVE WriteInv'
  <2>1. CASE segment[w[1]] = NoSegment
    <3>1. End(w[1], "failed") /\ raced' = raced
      BY <1>7, <2>1 DEF Test
    <3> QED  BY <1>0, <3>1, EndIsPassive, PassiveKeepsWriteInv
  <2>2. CASE segment[w[1]] # NoSegment
    <3> DEFINE s == segment[w[1]]
    <3>1. /\ UNCHANGED <<status, pc, segment>> /\ raced \subseteq raced'
          /\ s \in Segments /\ status[s] = "AVAILABLE" /\ at[w] = "test"
          /\ at' = [at EXCEPT ![w] = "claim"]
          /\ ThreadsAt(s, {"claim"}) # {} => s \in raced'
      BY <1>0, <1>7, <2>2 DEF Test, opening
    <3>2. at'[w] = "claim" /\ \A v \in Procs \X Threads : v # w => at'[v] = at[v]
      BY <1>0, <3>1
    <3>3. WritersOpen'
      BY <1>0, <3>1, <3>2 DEF WriteInv, WritersOpen
    <3>4. AvailableFree'
      BY <3>1, <3>2 DEF WriteInv, AvailableFree
    <3>5. ASSUME NEW v \in Procs \X Threads, v # w, at[v] \in Past, segment[v[1]] = s,
                 s \notin raced'
          PROVE  FALSE
      <4>1. at[v] = "claim"
        BY <3>1, <3>5 DEF WriteInv, AvailableFree, Past
      <4> QED  BY <3>1, <3>5, <4>1 DEF ThreadsAt
    <3>6. OnePast'
      BY <3>1, <3>2, <3>5 DEF WriteInv, OnePast
    <3> QED  BY <3>3, <3>4, <3>6 DEF WriteInv
  <2> QED  BY <2>1, <2>2
<1>8. ASSUME NEW w \in Procs \X Threads, Vfprintf(w) PROVE WriteInv'
  <2>1. CASE ~file[w[1]]
    <3>1. End(w[1], "failed") /\ raced' = raced
      BY <1>8, <2>1 DEF Vfprintf, history
    <3> QED  BY <1>0, <3>1, EndIsPassive, PassiveKeepsWriteInv
  <2>2. CASE file[w[1]]
    <3>1. /\ UNCHANGED <<status, pc, segment, raced>> /\ at[w] = "print"
          /\ at' = [at EXCEPT ![w] = "release"]
      BY <1>8, <2>2 DEF Vfprintf, opening, history
    <3>2. at'[w] = "release" /\ \A v \in Procs \X Threads : v # w => at'[v] = at[v]
      BY <1>0, <3>1
    <3>3. WritersOpen'
      BY <3>1, <3>2 DEF WriteInv, WritersOpen, Past
    <3>4. AvailableFree'
      BY <3>1, <3>2 DEF WriteInv, AvailableFree
    <3>5. OnePast'
      BY <3>1, <3>2 DEF WriteInv, OnePast, Past
    <3> QED  BY <3>3, <3>4, <3>5 DEF WriteInv
  <2> QED  BY <2>1, <2>2
<1>9. ASSUME NEW w \in Procs \X Threads, Claim(w) \/ Release(w)
      PROVE  WriteInv'
  <2> DEFINE s == segment[w[1]]
  <2>1. UNCHANGED <<pc, segment, raced>>
    BY <1>9 DEF Claim, Release, opening, history
  <2>2. at[w] \in Past /\ s \in Segments /\ pc[w[1]] = "open"
    BY <1>9 DEF Claim, Release, WriteInv, WritersOpen, Past
  <2>3. \A v \in Procs \X Threads : v # w => at'[v] = at[v]
    BY <1>0, <1>9 DEF Claim, Release
  <2>4. WritersOpen'
    BY <2>1, <2>2, <2>3 DEF WriteInv, WritersOpen
  <2>5. OnePast'
    BY <2>1, <2>2, <2>3 DEF WriteInv, OnePast
  <2>6. AvailableFree'
    <3>1. CASE Claim(w)
      <4>1. status' = [status EXCEPT ![s] = "WRITING"]
        BY <3>1 DEF Claim
      <4> QED  BY <1>0, <2>1, <2>2, <2>3, <4>1 DEF WriteInv, AvailableFree
    <3>2. CASE Release(w)
      <4>1. status' = [status EXCEPT ![s] = "AVAILABLE"] /\ at'[w] = "idle"
        BY <1>0, <3>2 DEF Release
      <4>2. ASSUME NEW v \in Procs \X Threads, v # w, at[v] \in {"print", "release"},
                   segment[v[1]] \notin raced
            PROVE  segment[v[1]] # s /\ segment[v[1]] \in Segments
        BY <2>2, <4>2 DEF WriteInv, OnePast, WritersOpen, Past
      <4> QED  BY <1>0, <2>1, <2>3, <4>1, <4>2 DEF WriteInv, AvailableFree
    <3> QED  BY <1>9, <3>1, <3>2
  <2> QED  BY <2>4, <2>5, <2>6 DEF WriteInv
<1>10. ASSUME NEW p \in Procs, Refuse(p) PROVE WriteInv'
  <2>1. CASE pc[p] \in {"exists", "get", "fopen"}
    <3>1. pc[p] # "open" /\ UNCHANGED <<status, at, raced>>
      BY <1>10, <2>1 DEF Refuse, writing
    <3>2. \A q \in Procs \ {p} : pc'[q] = pc[q] /\ segment'[q] = segment[q]
      BY <1>0, <1>10, <2>1 DEF Refuse, Goto
    <3> QED  BY <3>1, <3>2, OpenerIsPassive, PassiveKeepsWriteInv
  <2>2. CASE pc[p] \in {"probe", "attach", "mark"}
    <3>1. End(p, "failed") /\ raced' = raced
      BY <1>10, <2>2 DEF Refuse
    <3> QED  BY <3>1, EndIsPassive, PassiveKeepsWriteInv
  <2> QED  BY <1>10, <2>1, <2>2 DEF Refuse, Refusable
<1> QED
  BY <1>1, <1>2, <1>3, <1>4, <1>5, <1>6, <1>7, <1>8, <1>9, <1>10
  DEF Next, OpenStep, WriteStep

-----------------------------------------------------------------------------
(* The kernel, and what is left in it *)

\* What p's step does, by the call it makes, as far as LeftInv depends on it: an
\* opener stays one, until it marks its segment, fails for want of it or a call,
\* or is killed.
Rests(p) ==
  /\ UNCHANGED kernel
  /\ pc'[p] \in OpenSteps \cup Opened
  /\ pc[p] \in Holding => pc'[p] \in Holding /\ segment'[p] = segment[p]

Attaches(p) ==
  /\ \E s \in Segments : Attach(p, s)
  /\ segment'[p] = segment[p]
  /\ pc'[p] \in OpenSteps /\ (pc[p] \in Holding => pc'[p] \in Holding)

Detaches(p) ==
  /\ Detach(p)
  /\ NoLeak' => pc[p] \notin Holding \/ segment[p] \notin live

Creates(p) ==
  /\ segment'[p] \in Segments /\ Create(File, segment'[p])
  /\ pc[p] \notin Holding /\ pc'[p] \in OpenSteps \cap Holding

Removes(p) ==
  /\ segment[p] \in Segments /\ Remove(segment[p])
  /\ pc'[p] \in Opened

Calls(p) ==
  /\ Alone(p) /\ (NoLeak' => NoLeak)
  /\ Rests(p) \/ Attaches(p) \/ Detaches(p) \/ Creates(p) \/ Removes(p)

\* What would excuse a segment left behind stays.
LEMMA LeakStep ==
  ASSUME TypeOK, Next
  PROVE  NoLeak' => NoLeak
<1>1. kills \in Nat
  BY DEF TypeOK
<1>2. refused \subseteq refused' /\ kills' \in {kills, kills + 1}
  BY DEF Next, OpenStep, WriteStep, Start, Exists, Probe, Unprobe, Get, AttachSegment,
     Initialise, Mark, Fopen, Refuse, Close, Kill, Begin, Test, Claim, Vfprintf, Release,
     history
<1> QED  BY <1>1, <1>2 DEF NoLeak, WasRefused

LEMMA CallKinds ==
  ASSUME TypeOK, RaceInv, WriteInv, Next
  PROVE  \E p \in Procs : Calls(p)
<1> USE DEF Goto, Alone, OpenSteps, Opened, Holding, Owner, Step
<1> USE DEF Calls, Rests, Attaches, Detaches, Creates, Removes
<1>0. /\ pc \in [Procs -> Steps] /\ shm_exists \in [Procs -> BOOLEAN]
      /\ segment \in [Procs -> Segments \cup {NoSegment}] /\ file \in [Procs -> BOOLEAN]
      /\ \A w \in Procs \X Threads : w[1] \in Procs
      /\ NoLeak' => NoLeak
  BY LeakStep DEF TypeOK, Steps
<1>1. ASSUME NEW p \in Procs, Start(p) \/ Exists(p) \/ Initialise(p) \/ Fopen(p)
      PROVE  Calls(p)
  <2>1. CASE Start(p)
    BY <1>0, <2>1 DEF Start
  <2>2. CASE Exists(p)
    BY <1>0, <2>2 DEF Exists
  <2>3. CASE Initialise(p)
    BY <1>0, <2>3 DEF Initialise
  <2>4. CASE Fopen(p)
    BY <1>0, <2>4 DEF Fopen
  <2> QED  BY <1>1, <2>1, <2>2, <2>3, <2>4
<1>2. ASSUME NEW p \in Procs, Probe(p) \/ AttachSegment(p)
      PROVE  Calls(p)
  <2>1. segment[p] \in Segments
    BY <1>2, GivenSegment DEF Probe, AttachSegment, HasFound, Probing
  <2>2. CASE segment[p] \in live
    <3>1. Attach(p, segment[p]) /\ UNCHANGED <<segment, shm_exists, file>>
      BY <1>2, <2>2 DEF Probe, AttachSegment
    <3>2. CASE Probe(p)
      BY <1>0, <2>1, <2>2, <3>1, <3>2 DEF Probe
    <3>3. CASE AttachSegment(p)
      BY <1>0, <2>1, <2>2, <3>1, <3>3 DEF AttachSegment
    <3> QED  BY <1>2, <3>2, <3>3
  <2>3. CASE segment[p] \notin live
    <3>1. End(p, "failed")
      BY <1>2, <2>3 DEF Probe, AttachSegment
    <3> QED  BY <1>0, <2>3, <3>1 DEF End
  <2> QED  BY <2>2, <2>3
<1>3. ASSUME NEW p \in Procs, Unprobe(p) PROVE Calls(p)
  BY <1>0, <1>3 DEF Unprobe
<1>4. ASSUME NEW p \in Procs, Get(p) PROVE Calls(p)
  <2>1. CASE keyed[File] = NoSegment /\ ~shm_exists[p]
    <3>1. PICK s \in Segments : Create(File, s) /\ segment' = [segment EXCEPT ![p] = s]
      BY <1>4, <2>1 DEF Get
    <3>2. segment'[p] = s  BY <1>0, <3>1
    <3> QED  BY <1>0, <1>4, <2>1, <3>1, <3>2 DEF Get
  <2>2. CASE keyed[File] # NoSegment \/ shm_exists[p]
    BY <1>0, <1>4, <2>2 DEF Get
  <2> QED  BY <1>0, <2>1, <2>2
<1>5. ASSUME NEW p \in Procs, Mark(p) PROVE Calls(p)
  <2>1. segment[p] \in Segments
    BY <1>5, GivenSegment DEF Mark, HasFound
  <2> QED  BY <1>0, <1>5, <2>1 DEF Mark
<1>6. ASSUME NEW p \in Procs, Refuse(p) PROVE Calls(p)
  <2>1. CASE pc[p] \in {"exists", "get", "fopen"}
    BY <1>0, <1>6, <2>1 DEF Refuse
  <2>2. CASE pc[p] \in {"probe", "attach", "mark"}
    <3>1. End(p, "failed")
      BY <1>6, <2>2 DEF Refuse
    <3>2. NoLeak' => pc[p] = "probe"
      BY <1>6, <2>2 DEF Refuse, NoLeak, WasRefused
    <3> QED  BY <1>0, <3>1, <3>2 DEF End
  <2> QED  BY <1>6, <2>1, <2>2 DEF Refuse, Refusable
<1>7. ASSUME NEW p \in Procs, Close(p) \/ Kill(p) PROVE Calls(p)
  <2>1. CASE Close(p)
    BY <1>0, <2>1 DEF Close, End
  <2>2. CASE Kill(p)
    <3>1. ~NoLeak'
      BY <2>2 DEF Kill, TypeOK, NoLeak
    <3> QED  BY <1>0, <2>2, <3>1 DEF Kill, End
  <2> QED  BY <1>7, <2>1, <2>2
<1>8. ASSUME NEW w \in Procs \X Threads, Begin(w) \/ WriteStep(w)
      PROVE  Calls(w[1])
  <2>1. pc[w[1]] = "open"
    BY <1>8 DEF Begin, WriteStep, Test, Claim, Vfprintf, Release, WriteInv, WritersOpen
  <2>2. CASE UNCHANGED <<kernel, opening>>
    BY <1>0, <2>1, <2>2 DEF opening
  <2>3. CASE ~UNCHANGED <<kernel, opening>>
    <3>1. End(w[1], "failed")
      BY <1>8, <2>3 DEF Begin, WriteStep, Test, Claim, Vfprintf, Release
    <3> QED  BY <1>0, <2>1, <3>1 DEF End
  <2> QED  BY <2>2, <2>3
<1> QED
  BY <1>0, <1>1, <1>2, <1>3, <1>4, <1>5, <1>6, <1>7, <1>8 DEF Next, OpenStep

LEMMA KernelStep ==
  ASSUME TypeOK, KernelInv, RaceInv, WriteInv, [Next]_vars
  PROVE  KernelInv'
<1>1. CASE UNCHANGED vars
  BY <1>1, UnchangedInv DEF vars
<1>2. CASE Next
  <2>1. PICK p \in Procs : Calls(p)
    BY <1>2, CallKinds
  <2> QED
    BY <2>1, KeyType, UnchangedInv, AttachInv, DetachInv, CreateInv, RemoveInv
    DEF Calls, Rests, Attaches, Detaches, Creates, Removes
<1> QED  BY <1>1, <1>2

LEMMA LeftInit == Init => LeftInv
  BY DEF Init, NoSegments, LeftInv, AttachedRun, HasOpener

LEMMA LeftStep ==
  ASSUME TypeOK, RaceInv, WriteInv, LeftInv, [Next]_vars
  PROVE  LeftInv'
<1>0. attached \in [Segments -> SUBSET Procs] /\ live \subseteq Segments
  BY DEF TypeOK, KernelOK
<1>1. CASE UNCHANGED vars
  BY <1>1 DEF vars, kernel, opening, history, LeftInv, AttachedRun, HasOpener, NoLeak,
     WasRefused
<1>2. ASSUME NEW p \in Procs, Alone(p), NoLeak' => NoLeak, Rests(p) PROVE LeftInv'
  <2>1. AttachedRun'
    BY <1>0, <1>2 DEF Rests, Alone, LeftInv, AttachedRun, kernel
  <2>2. HasOpener'
    BY <1>2 DEF Rests, Alone, LeftInv, HasOpener, kernel
  <2> QED  BY <2>1, <2>2 DEF LeftInv
<1>3. ASSUME NEW p \in Procs, Alone(p), NoLeak' => NoLeak, Attaches(p) PROVE LeftInv'
  <2>1. PICK s \in Segments : Attach(p, s)
    BY <1>3 DEF Attaches
  <2>2. AttachedRun'
    BY <1>0, <1>3, <2>1 DEF Attaches, Attach, Alone, LeftInv, AttachedRun
  <2>3. HasOpener'
    BY <1>3, <2>1 DEF Attaches, Attach, Alone, LeftInv, HasOpener
  <2> QED  BY <2>2, <2>3 DEF LeftInv
<1>4. ASSUME NEW p \in Procs, Alone(p), NoLeak' => NoLeak, Detaches(p) PROVE LeftInv'
  <2>1. AttachedRun'
    BY <1>0, <1>4 DEF Detaches, Detach, Alone, LeftInv, AttachedRun
  <2>2. HasOpener'
    BY <1>4 DEF Detaches, Detach, Alone, LeftInv, HasOpener
  <2> QED  BY <2>1, <2>2 DEF LeftInv
<1>5. ASSUME NEW p \in Procs, Alone(p), NoLeak' => NoLeak, Creates(p) PROVE LeftInv'
  <2>1. AttachedRun'
    BY <1>0, <1>5 DEF Creates, Create, Alone, LeftInv, AttachedRun
  <2>2. HasOpener'
    BY <1>5 DEF Creates, Create, Alone, LeftInv, HasOpener
  <2> QED  BY <2>1, <2>2 DEF LeftInv
<1>6. ASSUME NEW p \in Procs, Alone(p), NoLeak' => NoLeak, Removes(p) PROVE LeftInv'
  <2>1. AttachedRun'
    BY <1>0, <1>6 DEF Removes, Remove, Alone, LeftInv, AttachedRun
  <2>2. HasOpener'
    BY <1>6 DEF Removes, Remove, Alone, LeftInv, HasOpener
  <2> QED  BY <2>1, <2>2 DEF LeftInv
<1> QED
  BY <1>1, <1>2, <1>3, <1>4, <1>5, <1>6, CallKinds DEF Calls

-----------------------------------------------------------------------------
(* Theorems *)

LEMMA InvHolds == Spec => []Inv
<1>1. Init => Inv
  BY TypeInit, NoSegmentsInv, RaceInit, WriteInit, LeftInit DEF Inv, Init
<1>2. Inv /\ [Next]_vars => Inv'
  BY StepType, KernelStep, RaceStep, WriteStepInv, LeftStep DEF Inv
<1> QED  BY <1>1, <1>2, PTL DEF Spec

\* Every variable keeps its type: no call of the kernel, and no access to a
\* status, is given a segment that is none.
THEOREM AtomicTypeCorrect == Spec => []TypeOK
<1>1. Inv => TypeOK  BY DEF Inv
<1> QED  BY <1>1, InvHolds, PTL

\* "1 write at a time" (atomic_file.h), in every segment in which no two threads
\* passed the test at once and no opener set the status under a writer.
THEOREM OneWriter == Spec => []OneWriteAtATime
<1>1. Inv => OneWriteAtATime
  <2> SUFFICES ASSUME Inv, NEW s \in Segments \ raced
               PROVE  Cardinality(ThreadsAt(s, WriteSteps \ {"test"})) <= 1
    BY DEF OneWriteAtATime
  <2> DEFINE T == ThreadsAt(s, WriteSteps \ {"test"})
  <2>1. \A v, w \in T : v = w
    BY DEF Inv, WriteInv, OnePast, Past, WriteSteps, ThreadsAt
  <2>2. CASE T = {}
    <3>1. Cardinality(T) = 0   BY <2>2, FS_EmptySet
    <3> QED  BY <3>1
  <2>3. CASE T # {}
    <3>1. PICK w \in T : TRUE  BY <2>3
    <3>2. T = {w}              BY <2>1, <3>1
    <3>3. Cardinality(T) = 1   BY <3>2, FS_Singleton
    <3> QED  BY <3>3
  <2> QED  BY <2>2, <2>3
<1> QED  BY <1>1, InvHolds, PTL

\* A process fails, while it opens, writes or closes, only if the kernel refused it
\* a call or it opened at the same time as another process.
THEOREM FailsForAReason == Spec => []FailsByRaceOrRefusal
<1>1. Inv => FailsByRaceOrRefusal
  BY DEF Inv, RaceInv, NullExcused, FailsByRaceOrRefusal, Excused, Raced, Met
<1> QED  BY <1>1, InvHolds, PTL

\* Without kills and refusals of shmat and shmctl in shmalloc, no segment is left
\* when all processes have ended, however their opens, failures and closes
\* overlapped.
THEOREM LeavesNoSegment == Spec => []NothingLeftBehind
<1>1. Inv => NothingLeftBehind
  <2> SUFFICES ASSUME Inv, NoLeak, \A p \in Procs : pc[p] \in Ends \cup {"off"}
               PROVE  live = {}
    BY DEF NothingLeftBehind, NoLeak
  <2>1. live \subseteq Segments /\ attached \in [Segments -> SUBSET Procs]
    BY DEF Inv, TypeOK, KernelOK
  <2>2. \A s \in live : s \in marked
    BY DEF Inv, LeftInv, HasOpener, Holding, Ends
  <2>3. \A s \in live : attached[s] # {}
    BY <2>2 DEF Inv, KernelInv, MarkedInUse
  <2>4. \A s \in Segments : attached[s] = {}
    BY <2>1 DEF Inv, LeftInv, AttachedRun, OpenSteps, Opened, Ends
  <2> QED  BY <2>1, <2>3, <2>4
<1> QED  BY <1>1, InvHolds, PTL

=============================================================================
