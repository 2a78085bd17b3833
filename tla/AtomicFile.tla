----------------------------- MODULE AtomicFile -----------------------------
(***************************************************************************)
(* hw4 atomic_file.c: processes that open one file by atomic_file, and     *)
(* their threads, which write to it by atomic_file_write (log_msg in       *)
(* log.c).  A shared-memory segment, found by a key made of the file name, *)
(* holds the status that is meant to let one thread write at a time.       *)
(*                                                                         *)
(* Each process opens the file once.  Any call of the kernel that the code  *)
(* makes while opening may be refused for a reason of the kernel's own     *)
(* (rights, limits, memory); what the code then does is what it does here. *)
(***************************************************************************)
EXTENDS SharedMemory

CONSTANTS
  Threads,     \* the threads of a process that write
  File,        \* the key made of the file name
  MaxWrites,   \* bound on the writes of a thread
  MaxKills,    \* bound on the processes killed from outside
  MaxRefusals  \* bound on the calls refused

ASSUME AtomicFileAssumption ==
  /\ Keys = {File}
  /\ MaxWrites \in Nat /\ MaxKills \in Nat /\ MaxRefusals \in Nat

VARIABLES
  status,      \* seg->status
  pc,          \* where each process is in atomic_file, and how it ended
  shm_exists,  \* the local variable of atomic_file
  segment,     \* shmid and node->segment
  file,        \* whether node->file_pointer is an open file, not NULL
  at,          \* where each thread is in atomic_file_write
  writes,      \* writes each thread has begun
  kills,       \* processes killed from outside
  refused,     \* history: the steps of each process at which a call was refused
  met,         \* history: pairs of processes that were opening at the same time
  raced        \* history: segments whose status two threads, or a thread and an
               \* opener, have used at once

opening == <<pc, shm_exists, segment, file>>
writing == <<at, writes>>
history == <<kills, refused, met, raced>>
vars    == <<kernel, status, opening, writing, history>>

OpenSteps  == {"exists", "probe", "detach", "get", "attach", "initialise", "mark"}
Opened     == {"fopen", "open"}
WriteSteps == {"test", "claim", "print", "release"}
Ends       == {"closed", "failed", "killed"}
Refusable  == {"exists", "probe", "get", "attach", "mark", "fopen"}

TypeOK ==
  /\ KernelOK
  /\ status \in [Segments -> {"AVAILABLE", "WRITING"}]
  /\ pc \in [Procs -> OpenSteps \cup Opened \cup Ends \cup {"off"}]
  /\ shm_exists \in [Procs -> BOOLEAN]
  /\ segment \in [Procs -> Segments \cup {NoSegment}]
  /\ file \in [Procs -> BOOLEAN]
  /\ at \in [Procs \X Threads -> WriteSteps \cup {"idle"}]
  /\ writes \in [Procs \X Threads -> 0..MaxWrites]
  /\ kills \in 0..MaxKills
  /\ refused \subseteq Procs \X Refusable
  /\ met \subseteq SUBSET Procs
  /\ raced \subseteq Segments

\* No process has opened the file.
Init ==
  /\ NoSegments
  /\ status = [s \in Segments |-> "AVAILABLE"]
  /\ pc = [p \in Procs |-> "off"]
  /\ shm_exists = [p \in Procs |-> FALSE]
  /\ segment = [p \in Procs |-> NoSegment]
  /\ file = [p \in Procs |-> FALSE]
  /\ at = [w \in Procs \X Threads |-> "idle"]
  /\ writes = [w \in Procs \X Threads |-> 0]
  /\ kills = 0 /\ refused = {} /\ met = {} /\ raced = {}

Goto(p, step) == pc' = [pc EXCEPT ![p] = step]

\* The process ends; its threads end with it.
End(p, how) ==
  /\ Goto(p, how)
  /\ Detach(p)
  /\ at' = [w \in Procs \X Threads |-> IF w[1] = p THEN "idle" ELSE at[w]]
  /\ UNCHANGED <<status, shm_exists, segment, file, writes>>

-----------------------------------------------------------------------------
(* atomic_file                                                             *)

Opening == {p \in Procs : pc[p] \in OpenSteps}

Start(p) ==
  /\ pc[p] = "off"
  /\ Goto(p, "exists")
  /\ met' = met \cup {{p, q} : q \in Opening}
  /\ UNCHANGED <<kernel, status, shm_exists, segment, file, writing, kills, refused, raced>>

\* Mutant: a segment is always taken to exist.
ExistsAlways(p) ==
  /\ pc[p] = "exists"
  /\ segment' = [segment EXCEPT ![p] = keyed[File]]
  /\ shm_exists' = [shm_exists EXCEPT ![p] = TRUE]
  /\ Goto(p, IF keyed[File] = NoSegment THEN "get" ELSE "probe")
  /\ UNCHANGED <<kernel, status, file, writing, history>>

\* shm_seg_is_up: shmget
Exists(p) ==
  /\ pc[p] = "exists"
  /\ segment' = [segment EXCEPT ![p] = keyed[File]]
  /\ shm_exists' = [shm_exists EXCEPT ![p] = keyed[File] # NoSegment]
  /\ Goto(p, IF keyed[File] = NoSegment THEN "get" ELSE "probe")
  /\ UNCHANGED <<kernel, status, file, writing, history>>

\* shm_seg_is_up: shmat.  It returns -1, not NULL, for a segment that has been
\* destroyed; shmdt then fails and the process exits.
Probe(p) ==
  /\ pc[p] = "probe"
  /\ \/ /\ segment[p] \in live
        /\ Attach(p, segment[p])
        /\ Goto(p, "detach")
        /\ UNCHANGED <<status, shm_exists, segment, file, writing>>
     \/ /\ segment[p] \notin live
        /\ End(p, "failed")
  /\ UNCHANGED history

\* shm_seg_is_up: shmdt
Unprobe(p) ==
  /\ pc[p] = "detach"
  /\ Detach(p)
  /\ Goto(p, "get")
  /\ UNCHANGED <<status, shm_exists, segment, file, writing, history>>

\* shmalloc: shmget, with IPC_CREAT unless the segment exists.  If there is
\* none any more, shmalloc returns NULL and atomic_file goes on.
Get(p) ==
  /\ pc[p] = "get"
  /\ \/ /\ keyed[File] # NoSegment
        /\ segment' = [segment EXCEPT ![p] = keyed[File]]
        /\ Goto(p, "attach")
        /\ UNCHANGED kernel
     \/ /\ keyed[File] = NoSegment /\ ~shm_exists[p]
        /\ \E s \in Segments : Create(File, s) /\ segment' = [segment EXCEPT ![p] = s]
        /\ Goto(p, "attach")
     \/ /\ keyed[File] = NoSegment /\ shm_exists[p]
        /\ segment' = [segment EXCEPT ![p] = NoSegment]
        /\ Goto(p, "fopen")
        /\ UNCHANGED kernel
  /\ UNCHANGED <<status, shm_exists, file, writing, history>>

\* shmalloc: shmat.  -1 is not noticed here either, and the next access faults.
AttachSegment(p) ==
  /\ pc[p] = "attach"
  /\ \/ /\ segment[p] \in live
        /\ Attach(p, segment[p])
        /\ Goto(p, "initialise")
        /\ UNCHANGED <<status, shm_exists, segment, file, writing>>
     \/ /\ segment[p] \notin live
        /\ End(p, "failed")
  /\ UNCHANGED history

\* The threads that use a segment and are at one of some steps.
ThreadsAt(s, steps) ==
  {w \in Procs \X Threads : segment[w[1]] = s /\ at[w] \in steps}

\* shmalloc: seg->status = AVAILABLE, by whoever gave IPC_CREAT.
Initialise(p) ==
  /\ pc[p] = "initialise"
  /\ \/ /\ ~shm_exists[p]
        /\ status' = [status EXCEPT ![segment[p]] = "AVAILABLE"]
        /\ raced' = IF ThreadsAt(segment[p], {"print", "release"}) # {}
                    THEN raced \cup {segment[p]} ELSE raced
     \/ /\ shm_exists[p]
        /\ UNCHANGED <<status, raced>>
  /\ Goto(p, "mark")
  /\ UNCHANGED <<kernel, shm_exists, segment, file, writing, kills, refused, met>>

\* Mutant: the segment is not marked.
MarkNot(p) ==
  /\ pc[p] = "mark"
  /\ Goto(p, "fopen")
  /\ UNCHANGED <<kernel, status, shm_exists, segment, file, writing, history>>

\* shmalloc: shmctl(shmid, IPC_RMID), by everyone.
Mark(p) ==
  /\ pc[p] = "mark"
  /\ Remove(segment[p])
  /\ Goto(p, "fopen")
  /\ UNCHANGED <<status, shm_exists, segment, file, writing, history>>

\* fopen
Fopen(p) ==
  /\ pc[p] = "fopen"
  /\ file' = [file EXCEPT ![p] = TRUE]
  /\ Goto(p, "open")
  /\ UNCHANGED <<kernel, status, shm_exists, segment, writing, history>>

\* The kernel refuses the call p makes next.  After shmget in shm_seg_is_up the
\* segment counts as missing; after shmget in shmalloc, and after fopen, the code
\* goes on with NULL; after shmat the next access faults (shmdt fails, in
\* shm_seg_is_up, and the process exits), and after shmctl it exits.
Refuse(p) ==
  /\ pc[p] \in Refusable /\ Cardinality(refused) < MaxRefusals
  /\ refused' = refused \cup {<<p, pc[p]>>}
  /\ \/ /\ pc[p] = "exists"
        /\ shm_exists' = [shm_exists EXCEPT ![p] = FALSE]
        /\ Goto(p, "get")
        /\ UNCHANGED <<kernel, status, segment, file, writing>>
     \/ /\ pc[p] = "get"
        /\ segment' = [segment EXCEPT ![p] = NoSegment]
        /\ Goto(p, "fopen")
        /\ UNCHANGED <<kernel, status, shm_exists, file, writing>>
     \/ /\ pc[p] \in {"probe", "attach", "mark"}
        /\ End(p, "failed")
     \/ /\ pc[p] = "fopen"
        /\ Goto(p, "open")
        /\ UNCHANGED <<kernel, status, shm_exists, segment, file, writing>>
  /\ UNCHANGED <<kills, met, raced>>

-----------------------------------------------------------------------------
(* atomic_file_write, in thread w[2] of process w[1]                       *)

Owner(w) == w[1]
Step(w, from, to) ==
  /\ at[w] = from
  /\ at' = [at EXCEPT ![w] = to]

Begin(w) ==
  /\ pc[Owner(w)] = "open" /\ writes[w] < MaxWrites
  /\ Step(w, "idle", "test")
  /\ writes' = [writes EXCEPT ![w] = @ + 1]
  /\ UNCHANGED <<kernel, status, opening, history>>

\* while (seg->status != AVAILABLE): a NULL segment faults.
Test(w) ==
  /\ \/ /\ segment[Owner(w)] # NoSegment
        /\ status[segment[Owner(w)]] = "AVAILABLE"
        /\ Step(w, "test", "claim")
        /\ raced' = IF ThreadsAt(segment[Owner(w)], {"claim"}) # {}
                    THEN raced \cup {segment[Owner(w)]} ELSE raced
        /\ UNCHANGED <<kernel, status, opening, writes>>
     \/ /\ segment[Owner(w)] = NoSegment
        /\ at[w] = "test"
        /\ End(Owner(w), "failed")
        /\ UNCHANGED raced
  /\ UNCHANGED <<kills, refused, met>>

\* seg->status = WRITING
Claim(w) ==
  /\ Step(w, "claim", "print")
  /\ status' = [status EXCEPT ![segment[Owner(w)]] = "WRITING"]
  /\ UNCHANGED <<kernel, opening, writes, history>>

\* Mutant: the status is set back before the line is printed.
VfprintfLate(w) ==
  /\ Step(w, "print", "release")
  /\ status' = [status EXCEPT ![segment[Owner(w)]] = "AVAILABLE"]
  /\ UNCHANGED <<kernel, opening, writes, history>>

\* vfprintf and fflush.  A NULL file faults, and the status stays as it is.
Vfprintf(w) ==
  /\ \/ /\ file[Owner(w)]
        /\ Step(w, "print", "release")
        /\ UNCHANGED <<kernel, status, opening, writes>>
     \/ /\ ~file[Owner(w)]
        /\ at[w] = "print"
        /\ End(Owner(w), "failed")
  /\ UNCHANGED history

\* Mutant: the status is not set back.
ReleaseNot(w) ==
  /\ Step(w, "release", "idle")
  /\ UNCHANGED <<kernel, status, opening, writes, history>>

\* seg->status = AVAILABLE
Release(w) ==
  /\ Step(w, "release", "idle")
  /\ status' = [status EXCEPT ![segment[Owner(w)]] = "AVAILABLE"]
  /\ UNCHANGED <<kernel, opening, writes, history>>

-----------------------------------------------------------------------------
(* How a process ends                                                      *)

\* atomic_file_close, when no thread writes any more.  shmdt(NULL) fails, and
\* the process exits; fclose(NULL) faults.
Close(p) ==
  /\ pc[p] = "open"
  /\ \A t \in Threads : at[<<p, t>>] = "idle"
  /\ End(p, IF segment[p] # NoSegment /\ file[p] THEN "closed" ELSE "failed")
  /\ UNCHANGED history

Kill(p) ==
  /\ pc[p] \in OpenSteps \cup Opened /\ kills < MaxKills
  /\ kills' = kills + 1
  /\ End(p, "killed")
  /\ UNCHANGED <<refused, met, raced>>

OpenStep(p) ==
  \/ Exists(p) \/ Probe(p) \/ Unprobe(p) \/ Get(p) \/ AttachSegment(p)
  \/ Initialise(p) \/ Mark(p) \/ Fopen(p)
WriteStep(w) == Test(w) \/ Claim(w) \/ Vfprintf(w) \/ Release(w)

Next ==
  \/ \E p \in Procs : Start(p) \/ OpenStep(p) \/ Refuse(p) \/ Close(p) \/ Kill(p)
  \/ \E w \in Procs \X Threads : Begin(w) \/ WriteStep(w)

Spec == Init /\ [][Next]_vars

\* The operating system runs every thread again and again; users need not do
\* anything.
FairSpec ==
  /\ Spec
  /\ \A p \in Procs : WF_vars(OpenStep(p))
  /\ \A w \in Procs \X Threads : WF_vars(WriteStep(w))

-----------------------------------------------------------------------------
(* Properties                                                              *)

\* "1 write at a time" (atomic_file.h) holds in a segment but for two races: two
\* threads that pass the test before either sets WRITING, and an opener that
\* sets AVAILABLE while a thread writes.
OneWriteAtATime ==
  \A s \in Segments \ raced :
    Cardinality(ThreadsAt(s, WriteSteps \ {"test"})) <= 1

WasRefused(p, steps) == \E step \in steps : <<p, step>> \in refused

\* Opening, writing and closing fail only in a process that was refused a call
\* or opened at the same time as another one: nothing that a process does later,
\* a close, a fault or being killed, makes one fail that it has not met.
FailsByRaceOrRefusal ==
  \A p \in Procs :
    pc[p] = "failed" => WasRefused(p, Refusable) \/ \E q \in Procs : {p, q} \in met

\* "Process that creates the shared mem must also close it": unless a process was
\* killed, or was refused shmat or shmctl in shmalloc, no segment is left when
\* all processes have ended, however their opens, failures and closes overlapped.
NothingLeftBehind ==
  /\ kills = 0 /\ \A p \in Procs : ~WasRefused(p, {"attach", "mark"})
  /\ \A p \in Procs : pc[p] \in Ends \cup {"off"}
  => live = {}

\* A thread that waits gets to write once the others stop writing: no race of
\* openers and writers, and no failure to open the segment, leaves the status at
\* WRITING.  Only a process that is killed, or that faults in vfprintf because
\* its fopen failed, may.
WriteReturns ==
  \A w \in Procs \X Threads :
    at[w] = "test" ~> \/ at[w] # "test"
                      \/ kills > 0
                      \/ \E p \in Procs : WasRefused(p, {"fopen"})

=============================================================================
