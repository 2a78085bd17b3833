----------------------------- MODULE BBFSProofs -----------------------------
(***************************************************************************)
(* Proofs about BBFS, for any names, objects, handles, threads, size of    *)
(* the descriptor table and number of calls.                               *)
(***************************************************************************)
EXTENDS BBFS, FiniteSetTheorems, WellFoundedInduction, TLAPS

USE BBFSAssumption, HostFSAssumption DEF StreamOf

-----------------------------------------------------------------------------
(* Requests and results *)

\* Systems that need a handle of their own.
Sole == {"open", "opendir", "close"}

\* What the systems and handles of a request are, in a callback of each kind.
LEMMA PathAsks ==
  ASSUME NEW p \in Paths, NEW q \in Names, NEW n \in Lengths, NEW r \in OnPath(p, q, n)
  PROVE  /\ r \in Requests /\ r.h = None /\ r.sys \notin Sole \cup {"readdir"}
         /\ r.sys = "make" => r.by = "log_syscall"
         /\ r.by # "nobody"
<1> USE DEF Sole, Request, Requests, Kinds, Lengths, Systems, ByPath
<1>1. CASE r \in {bb_getattr(p), bb_readlink(p), bb_access(p), bb_statfs(p),
                  bb_getxattr(p), bb_listxattr(p)}
  BY <1>1
  DEF bb_getattr, bb_readlink, bb_access, bb_statfs, bb_getxattr, bb_listxattr
<1>2. CASE r \in {bb_mknod(p, "file"), bb_mknod(p, "node"), bb_mkdir(p), bb_symlink(p)}
  BY <1>2 DEF bb_mknod, bb_mkdir, bb_symlink
<1>3. CASE r \in {bb_unlink(p), bb_rmdir(p), bb_rename(p, q), bb_link(p, q)}
  BY <1>3 DEF bb_unlink, bb_rmdir, bb_rename, bb_link
<1>4. CASE r \in {bb_truncate(p, n), bb_chmod(p), bb_chown(p), bb_utime(p),
                  bb_setxattr(p), bb_removexattr(p)}
  BY <1>4
  DEF bb_truncate, bb_chmod, bb_chown, bb_utime, bb_setxattr, bb_removexattr
<1> QED  BY <1>1, <1>2, <1>3, <1>4 DEF OnPath

LEMMA FileAsks ==
  ASSUME NEW p \in Paths, NEW h \in Handles, NEW n \in Lengths, NEW r \in OnFile(p, h, n)
  PROVE  /\ r \in Requests /\ r.h \in {None, h}
         /\ r.sys \notin Sole \cup {"readdir", "make"}
         /\ r.by = "nobody" => r.sys = "none"
<1> USE DEF Sole, Request, Requests, Kinds, Lengths, Systems, ByPath, ByHandle
<1>1. CASE r \in {bb_read(h), bb_write(h, n), bb_ftruncate(h, n)}
  BY <1>1 DEF bb_read, bb_write, bb_ftruncate
<1>2. CASE r \in {bb_fgetattr(p, h), bb_flush(h), bb_fsync(h)}
  BY <1>2 DEF bb_fgetattr, bb_getattr, bb_flush, bb_fsync
<1> QED  BY <1>1, <1>2 DEF OnFile

LEMMA OpeningAsks ==
  ASSUME NEW p \in Paths, NEW h \in Handles, NEW r \in Opening(p, h)
  PROVE  /\ r \in Requests /\ r.h = h /\ r.sys \in {"open", "opendir"}
         /\ r.sys = "open" => r.by = "log_syscall"
         /\ r.by # "nobody"
  BY DEF Opening, bb_open, bb_opendir, Request, Requests, Systems, Kinds, Lengths

LEMMA StreamAsks ==
  ASSUME NEW h \in Handles, NEW r \in OnStream(h) \cup {bb_release(h)}
  PROVE  /\ r \in Requests /\ r.h = h
         /\ r.sys \in {"readdir", "close", "none"}
         /\ r.by = "nobody" => r.sys # "readdir"
         /\ r = bb_release(h) => r.sys = "close"
  BY DEF OnStream, bb_release, bb_readdir, bb_releasedir, bb_fsyncdir,
     ByHandle, Request, Requests, Systems, Kinds, Lengths

\* What a request may be that is made now.
Asked(r) ==
  /\ r \in Requests
  /\ r.by = "nobody" => r.sys \in {"close", "none"}
  /\ r.sys = "make" => r.by = "log_syscall" /\ r.h = None
  /\ r.sys \in Sole \cup {"readdir"} => r.h \in Handles
  /\ r.sys \in Sole => r.h \in Unused
  /\ r.sys \in {"open", "opendir"} => fh[r.h] = Null
  /\ r.sys = "open" => r.by = "log_syscall"
  /\ r.h # None /\ r.sys \notin {"open", "opendir"} =>
       /\ fh[r.h] \in Open /\ \A t \in Users(r.h) : request[t].sys \notin Sole
       /\ r.h \in Unused \/ fds[fh[r.h]].stream = FALSE
  /\ r.sys = "readdir" => fds[fh[r.h]].stream = TRUE

LEMMA CallsAsked ==
  ASSUME NEW r \in Calls
  PROVE  Asked(r)
<1> USE DEF Asked, Sole
<1>1. ASSUME NEW p \in Paths, NEW q \in Names, NEW n \in Lengths, r \in OnPath(p, q, n)
      PROVE  Asked(r)
  BY <1>1, PathAsks
<1>2. ASSUME NEW p \in Paths, NEW h \in Unused, fh[h] = Null, r \in Opening(p, h)
      PROVE  Asked(r)
  BY <1>2, OpeningAsks DEF Unused
<1>3. ASSUME NEW p \in Paths, NEW h \in UsableFiles, NEW n \in Lengths,
             r \in OnFile(p, h, n)
      PROVE  Asked(r)
  <2>1. /\ h \in Handles /\ fh[h] \in Open /\ \A t \in Users(h) : request[t].sys \notin Sole
        /\ fds[fh[h]].stream = FALSE
    BY DEF UsableFiles, UsableStreams, Usable
  <2>2. /\ r \in Requests /\ r.h \in {None, h} /\ r.sys \notin Sole \cup {"readdir", "make"}
        /\ r.by = "nobody" => r.sys = "none"
    BY <1>3, <2>1, FileAsks
  <2> QED  BY <2>1, <2>2
<1>4. ASSUME NEW h \in UsableFiles \cap Unused, r = bb_release(h)
      PROVE  Asked(r)
  BY <1>4, StreamAsks DEF UsableFiles, UsableStreams, Usable
<1>5. ASSUME NEW h \in UsableStreams \cap Unused, r \in OnStream(h)
      PROVE  Asked(r)
  BY <1>5, StreamAsks DEF UsableFiles, UsableStreams, Usable
<1> HIDE DEF Asked
<1>6. CASE r \in CallsOnPaths
  BY <1>1, <1>6, SMT DEF CallsOnPaths
<1>7. CASE r \in CallsToOpen
  BY <1>2, <1>7, SMT DEF CallsToOpen
<1>8. CASE r \in CallsOnFiles
  BY <1>3, <1>8, SMT DEF CallsOnFiles
<1>9. CASE r \in CallsToRelease
  BY <1>4, <1>9, Zenon DEF CallsToRelease
<1>10. CASE r \in CallsOnStreams
  BY <1>5, <1>10, Zenon DEF CallsOnStreams
<1> QED  BY <1>6, <1>7, <1>8, <1>9, <1>10 DEF Calls

-----------------------------------------------------------------------------
(* What is reported *)

LEMMA Reported ==
  ASSUME NEW by \in {"log_syscall", "log_error", "nobody"}, NEW ret \in Int, NEW e \in Nat,
         NEW x \in Report(by, ret, e)
  PROVE  /\ x.errno \in {e, ENOSPC}
         /\ by = "nobody" => x.ret = 0
         /\ by # "nobody" /\ ret >= 0 => x.ret = ret
         /\ by = "log_error" /\ ret < 0 => x.ret = -e
         /\ by = "log_syscall" /\ ret < 0 => x.ret = -x.errno
<1> USE DEF Report, log_syscall, log_error, log_retstat, log_msg
<1>1. CASE by = "nobody"
  BY <1>1
<1>2. CASE by = "log_error"
  BY <1>2
<1>3. CASE by = "log_syscall" /\ ret >= 0
  BY <1>3
<1>4. CASE by = "log_syscall" /\ ret < 0
  BY <1>4
<1> QED  BY <1>1, <1>2, <1>3, <1>4

LEMMA OpenReported ==
  ASSUME NEW ret \in Int, NEW e \in Nat, NEW x \in ReportOpen(ret, e)
  PROVE  /\ x.errno \in {e, ENOSPC}
         /\ ret >= 0 => x.ret = 0
         /\ ret < 0 => x.ret \in {-e, -ENOSPC}
<1>1. CASE ret >= 0
  <2>1. PICK y \in log_syscall(ret, e) : x = [ret |-> 0, errno |-> y.errno]
    BY <1>1 DEF ReportOpen
  <2>2. y \in Report("log_syscall", ret, e)
    BY DEF Report
  <2> QED  BY <1>1, <2>1, <2>2, Reported
<1>2. CASE ret < 0
  <2>1. PICK y \in log_syscall(ret, e) : x \in log_error(y.errno)
    BY <1>2 DEF ReportOpen
  <2>2. y \in Report("log_syscall", ret, e)
    BY DEF Report
  <2>3. y.errno \in {e, ENOSPC}
    BY <2>2, Reported
  <2> QED  BY <1>2, <2>1, <2>3 DEF log_error, log_msg, ENOSPC
<1> QED  BY <1>1, <1>2

LEMMA PointerReported ==
  ASSUME NEW ret \in Int, NEW e \in Nat, NEW x \in ReportPointer(ret, e)
  PROVE  /\ x.errno \in {e, ENOSPC}
         /\ ret >= 0 => x.ret = ret
         /\ ret < 0 => x.ret \in {-e, -ENOSPC}
<1>1. PICK y \in log_msg(e) : x \in Report("log_error", ret, y)
  BY DEF ReportPointer
<1>2. y \in {e, ENOSPC} /\ y \in Nat
  BY DEF log_msg, ENOSPC
<1> QED  BY <1>1, <1>2, Reported

\* The lowest of some descriptors is one of them.
LEMMA LowestIn ==
  ASSUME NEW S \in SUBSET Nat, S # {}
  PROVE  Lowest(S) \in S
<1>1. \E i \in S : \A j \in S : ~(<<j, i>> \in OpToRel(<, Nat))
  BY NatLessThanWellFounded, WFMin
<1>2. \A i, j \in Nat : i < j => <<i, j>> \in OpToRel(<, Nat)
  BY DEF OpToRel
<1>3. \E i \in S : \A j \in S : i <= j
  <2>1. PICK i \in S : \A j \in S : ~(<<j, i>> \in OpToRel(<, Nat))
    BY <1>1
  <2>2. ASSUME NEW j \in S PROVE i <= j
    <3>1. i \in Nat /\ j \in Nat  OBVIOUS
    <3>2. ~(j < i)               BY <1>2, <2>1, <3>1, Zenon
    <3> QED  BY <3>1, <3>2
  <2> QED  BY <2>2
<1> QED  BY <1>3 DEF Lowest

-----------------------------------------------------------------------------
(* The invariants *)

\* What a thread is asked for, as far as the place in its callback tells.
Asking(t) ==
  /\ pc[t] = "idle" <=> request[t] = None
  /\ pc[t] = "fill" => request[t].sys = "readdir" /\ de[t] \in Entries
  /\ pc[t] = "close" => MakesFile(request[t])
  /\ request[t] # None =>
       /\ request[t].by = "nobody" => request[t].sys \in {"close", "none"}
       /\ request[t].sys = "make" => request[t].by = "log_syscall" /\ request[t].h = None
       /\ request[t].sys = "open" => request[t].by = "log_syscall"
       /\ request[t].sys \in Sole \cup {"readdir"} => request[t].h \in Handles

TypeInv == TypeOK /\ \A t \in Threads : Asking(t)

\* An error is noted only when the callback returns.
ErrorOK(t) ==
  /\ pc[t] # "done" => failed[t] = 0
  /\ pc[t] = "done" /\ request[t].sys # "readdir" /\ request[t].by # "nobody" =>
       /\ retstat[t] < 0 <=> failed[t] # 0
       /\ retstat[t] < 0 => \/ retstat[t] = -failed[t]
                            \/ /\ request[t].by = "log_syscall" \/ request[t].sys = "opendir"
                               /\ retstat[t] = -ENOSPC
ErrorInv == \A t \in Threads : ErrorOK(t)

\* A handle is opened once, and open while it is used; who opens or releases it
\* is its only user.
OpenedOnce ==
  \A t \in Threads :
    pc[t] = "call" /\ request[t].sys \in {"open", "opendir"} => fh[request[t].h] = Null
UsedOpen ==
  \A t \in Threads :
    /\ pc[t] \in {"call", "fill"} /\ request[t].h # None
    /\ request[t].sys \notin {"open", "opendir"}
    => fh[request[t].h] \in Open
SoleUser ==
  \A t, u \in Threads :
    /\ request[t] # None /\ request[u] # None /\ request[t].h = request[u].h
    /\ request[t].sys \in Sole
    => t = u

\* Who holds a descriptor holds an open one, and holds it alone; and every open
\* one is held.
Holds(t)   == pc[t] = "close"
HeldOpen   ==
  /\ \A h \in Handles : fh[h] \in Descriptors => fh[h] \in Open
  /\ \A t \in Threads : Holds(t) => retstat[t] \in Open
HeldAlone  ==
  /\ \A g, h \in Handles : fh[g] \in Descriptors /\ fh[g] = fh[h] => g = h
  /\ \A t, u \in Threads : Holds(t) /\ Holds(u) /\ retstat[t] = retstat[u] => t = u
  /\ \A h \in Handles, t \in Threads : Holds(t) => fh[h] # retstat[t]
AllHeld    ==
  \A d \in Open : (\E h \in Handles : fh[h] = d) \/ (\E t \in Threads : Holds(t) /\ retstat[t] = d)

HandleInv == OpenedOnce /\ UsedOpen /\ SoleUser /\ HeldOpen /\ HeldAlone /\ AllHeld

\* The stream a listing reads.
Stream(t) == fds[StreamOf(t)]

\* Only one call at a time uses a stream, which stays open until the listing is
\* answered.
OnStreamAlone ==
  \A t, u \in Threads :
    /\ request[t] # None /\ request[u] # None /\ request[t].h = request[u].h
    /\ request[t].h # None /\ fh[request[t].h] \in Open /\ fds[fh[request[t].h]].stream
    => t = u
Lists(t) == request[t] # None /\ request[t].sys = "readdir"
ListsStream ==
  \A t \in Threads : Lists(t) => fh[request[t].h] \in Open /\ Stream(t).stream

\* What a listing has passed on, the entry it holds and what is unread make up what
\* there was when it began, but for entries added or removed since opendir.
Covers(t) ==
  LET seen == listed[t] \cup {de[t]} \cup unread[StreamOf(t)]
  IN /\ content[t] \ changed[StreamOf(t)] \subseteq seen
     /\ seen \subseteq content[t] \cup changed[StreamOf(t)]
Covered(t) ==
  /\ content[t] \ changed[StreamOf(t)] \subseteq listed[t]
  /\ listed[t] \subseteq content[t] \cup changed[StreamOf(t)]
ListingOK(t) ==
  /\ pc[t] \notin {"fill", "done"} => listed[t] = {} /\ content[t] = None
  /\ pc[t] = "fill" => Covers(t)
  /\ content[t] # None => Lists(t)
  /\ pc[t] = "done" /\ content[t] # None /\ retstat[t] = 0 /\ failed[t] = 0 => Covered(t)
Listing == \A t \in Threads : ListingOK(t)

ListInv == OnStreamAlone /\ ListsStream /\ Listing

-----------------------------------------------------------------------------
(* Type correctness *)

LEMMA PathCallTyped ==
  ASSUME TreeOK, NEW r \in Requests, NEW U, PathCall(r, U)
  PROVE  TreeOK'
<1> USE DEF TreeOK, Requests, Is, Free, Exists, Kinds, Lengths
<1>1. CASE Look(r)
  BY <1>1 DEF Look, tree
<1>2. CASE Make(r, U)
  BY <1>2 DEF Make
<1>3. CASE Unlink(r) \/ Rmdir(r)
  BY <1>3 DEF Unlink, Rmdir
<1>4. CASE Rename(r)
  BY <1>4 DEF Rename
<1>5. CASE Link(r)
  BY <1>5 DEF Link
<1>6. CASE SetAttr(r)
  <2> DEFINE o    == entry[r.path]
             attr == ~object[o].attr
  <2>1. o \in Objects
    BY <1>6, HostFSAssumption DEF SetAttr
  <2>2. attr \in BOOLEAN
    OBVIOUS
  <2>3. entry' = entry /\ object' = [object EXCEPT ![o].attr = attr]
    BY <1>6 DEF SetAttr
  <2> HIDE DEF o, attr
  <2> QED  BY <2>1, <2>2, <2>3
<1>7. CASE Truncate(r)
  BY <1>7 DEF Truncate
<1> QED  BY <1>1, <1>2, <1>3, <1>4, <1>5, <1>6, <1>7 DEF PathCall

LEMMA FileCallTyped ==
  ASSUME TreeOK, NEW r \in Requests, NEW o, NEW ret, FileCall(r, o, ret)
  PROVE  TreeOK'
<1> USE DEF TreeOK, Requests, Kinds, Lengths
<1>1. CASE Pread(r, o, ret) \/ Fstat(r, ret)
  BY <1>1 DEF Pread, Fstat, tree
<1>2. CASE Pwrite(r, o, ret)
  BY <1>2 DEF Pwrite
<1>3. CASE Ftruncate(r, o, ret)
  BY <1>3 DEF Ftruncate
<1> QED  BY <1>1, <1>2, <1>3 DEF FileCall

LEMMA OpenedTyped ==
  ASSUME TreeOK, NEW r \in Requests
  PROVE  Opened(r) \in Objects \cup {RootDir, None}
  BY DEF TreeOK, Opened, Is

LEMMA NamesInTyped ==
  ASSUME NEW o
  PROVE  NamesIn(o) \subseteq Entries
  BY DEF NamesIn, Entries

\* A callback returns something, somewhere.
LEMMA ReturnTyped ==
  ASSUME TypeOK, NEW t \in Threads, NEW results, Return(t, results),
         \A x \in results : x.ret \in Results /\ x.errno \in Errnos
  PROVE  /\ retstat' \in [Threads -> Results]
         /\ errno' \in [Threads -> Errnos]
         /\ pc' \in [Threads -> {"idle", "call", "close", "fill", "done"}]
         /\ pc' = [pc EXCEPT ![t] = "done"]
         /\ \E x \in results : /\ retstat' = [retstat EXCEPT ![t] = x.ret]
                               /\ errno' = [errno EXCEPT ![t] = x.errno]
  BY DEF TypeOK, Return, Goto

LEMMA ErrnosAreNat == Errnos \subseteq Nat /\ ENOSPC \in Errnos /\ EIO \in Errnos
  BY DEF Errnos, EIO, EMFILE, ENOSPC

LEMMA ErrnoIsNat ==
  ASSUME TypeOK, NEW t \in Threads
  PROVE  errno[t] \in Nat /\ EIO \in Nat /\ EIO > 0
  BY ErrnosAreNat DEF TypeOK, EIO

LEMMA ReportTyped ==
  ASSUME NEW by \in {"log_syscall", "log_error", "nobody"}, NEW ret \in Lengths \cup {-1},
         NEW e \in Errnos, NEW x \in Report(by, ret, e)
  PROVE  x.ret \in Results /\ x.errno \in Errnos
<1>1. ret \in Int /\ e \in Nat /\ 0 \in Lengths
  BY ErrnosAreNat DEF Lengths
<1>2. x.errno \in {e, ENOSPC}
  BY <1>1, Reported
<1>3. x.ret \in Lengths \cup {-e, -ENOSPC}
  BY <1>1, Reported DEF Lengths
<1>4. -e \in Results /\ -ENOSPC \in Results
  BY ErrnosAreNat DEF Results
<1> QED  BY <1>2, <1>3, <1>4, ErrnosAreNat DEF Results

LEMMA OpenTyped ==
  ASSUME NEW ret \in Descriptors \cup {-1}, NEW e \in Errnos, NEW x \in ReportOpen(ret, e)
  PROVE  x.ret \in Results /\ x.errno \in Errnos
<1>1. ret \in Int /\ e \in Nat /\ 0 \in Lengths
  BY ErrnosAreNat DEF Descriptors, Lengths
<1>2. x.errno \in {e, ENOSPC} /\ x.ret \in {0, -e, -ENOSPC}
  BY <1>1, OpenReported
<1>3. -e \in Results /\ -ENOSPC \in Results
  BY ErrnosAreNat DEF Results
<1> QED  BY <1>1, <1>2, <1>3, ErrnosAreNat DEF Results

LEMMA PointerTyped ==
  ASSUME NEW ret \in {0, -1}, NEW e \in Errnos, NEW x \in ReportPointer(ret, e)
  PROVE  x.ret \in Results /\ x.errno \in Errnos
<1>1. ret \in Int /\ e \in Nat /\ 0 \in Lengths
  BY ErrnosAreNat DEF Lengths
<1>2. x.errno \in {e, ENOSPC} /\ x.ret \in {0, -e, -ENOSPC}
  BY <1>1, PointerReported
<1>3. -e \in Results /\ -ENOSPC \in Results
  BY ErrnosAreNat DEF Results
<1> QED  BY <1>1, <1>2, <1>3, ErrnosAreNat DEF Results

\* A logged line leaves an error number.
LEMMA LogTyped ==
  ASSUME NEW e \in Errnos, NEW x \in log_msg(e)
  PROVE  x \in Errnos
  BY ErrnosAreNat DEF log_msg

\* A thread goes on in the callback it is in.
LEMMA AskingKept ==
  ASSUME TypeInv, NEW t \in Threads, NEW s, pc[t] # "idle", UNCHANGED request,
         pc' = [pc EXCEPT ![t] = s], s # "idle",
         s = "fill" => request[t].sys = "readdir" /\ de'[t] \in Entries,
         s = "close" => MakesFile(request[t]), \A u \in Threads : u # t => de'[u] = de[u]
  PROVE  (\A u \in Threads : Asking(u))'
  BY DEF TypeInv, TypeOK, Asking

LEMMA BeginTyped ==
  ASSUME TypeInv, NEW t \in Threads, Begin(t), StreamsOK'
  PROVE  TypeInv'
<1> USE DEF TypeInv
<1>1. PICK r \in Calls : request' = [request EXCEPT ![t] = r]
  BY DEF Begin
<1>2. Asked(r)
  BY CallsAsked
<1>3. r \in Requests /\ r # None
  BY <1>2 DEF Asked
<1>4. PICK e \in log_msg(errno[t]) : errno' = [errno EXCEPT ![t] = e]
  BY DEF Begin
<1>5. e \in Errnos
  BY LogTyped DEF TypeOK
<1>6. calls' \in 0..MaxCalls
  BY DEF Begin, TypeOK
<1>7. TypeOK'
  BY <1>1, <1>3, <1>4, <1>5, <1>6 DEF TypeOK, Begin, Goto, TreeOK, tree, dirVars
<1>8. (\A u \in Threads : Asking(u))'
  BY <1>1, <1>2, <1>3 DEF TypeOK, Begin, Goto, Asking, Asked, dirVars
<1> QED  BY <1>7, <1>8

LEMMA OnPathDoneTyped ==
  ASSUME TypeInv, NEW t \in Threads, OnPathDone(t), StreamsOK'
  PROVE  TypeInv'
<1> USE DEF TypeInv
<1>1. request[t] \in Requests /\ errno[t] \in Errnos /\ pc[t] # "idle"
  BY DEF OnPathDone, Asking, TypeOK
<1>2. TreeOK'
  BY <1>1, PathCallTyped DEF OnPathDone, TypeOK
<1>3. \A x \in Report(request[t].by, 0, errno[t]) : x.ret \in Results /\ x.errno \in Errnos
  BY <1>1, ReportTyped DEF Requests, Lengths
<1>4. TypeOK'
  BY <1>2, <1>3, ReturnTyped DEF OnPathDone, TypeOK, dirVars
<1> QED  BY <1>1, <1>4, AskingKept DEF OnPathDone, Return, Goto, dirVars

LEMMA OnFileDoneTyped ==
  ASSUME TypeInv, NEW t \in Threads, OnFileDone(t), StreamsOK'
  PROVE  TypeInv'
<1> USE DEF TypeInv
<1>1. request[t] \in Requests /\ errno[t] \in Errnos /\ pc[t] # "idle"
  BY DEF OnFileDone, Asking, TypeOK
<1>2. PICK ret \in Lengths :
        /\ FileCall(request[t], fds[fh[request[t].h]].obj, ret)
        /\ Return(t, Report(request[t].by, ret, errno[t]))
  BY DEF OnFileDone
<1>3. TreeOK'
  BY <1>1, <1>2, FileCallTyped DEF TypeOK
<1>4. \A x \in Report(request[t].by, ret, errno[t]) : x.ret \in Results /\ x.errno \in Errnos
  BY <1>1, ReportTyped DEF Requests
<1>5. TypeOK'
  BY <1>2, <1>3, <1>4, ReturnTyped DEF OnFileDone, TypeOK, dirVars
<1> QED  BY <1>1, <1>2, <1>5, AskingKept DEF OnFileDone, Return, Goto, dirVars

LEMMA NothingDoneTyped ==
  ASSUME TypeInv, NEW t \in Threads, NothingDone(t), StreamsOK'
  PROVE  TypeInv'
<1> USE DEF TypeInv
<1>1. errno[t] \in Errnos /\ pc[t] # "idle"
  BY DEF NothingDone, Call, TypeOK
<1>2. \A x \in Report("nobody", 0, errno[t]) : x.ret \in Results /\ x.errno \in Errnos
  BY <1>1, ReportTyped DEF Lengths
<1>3. TypeOK'
  BY <1>2, ReturnTyped DEF NothingDone, TypeOK, TreeOK, tree, dirVars
<1> QED  BY <1>1, <1>3, AskingKept DEF NothingDone, Return, Goto, dirVars

LEMMA CallFailsTyped ==
  ASSUME TypeInv, NEW t \in Threads, CallFails(t), StreamsOK'
  PROVE  TypeInv'
<1> USE DEF TypeInv
<1>1. request[t] \in Requests /\ pc[t] # "idle"
  BY DEF CallFails, Asking, TypeOK
<1>2. PICK e \in OwnErrors(request[t]) :
        Fails(t, e) /\ Return(t, Report(request[t].by, -1, e))
  BY DEF CallFails
<1>3. e \in Errnos
  BY DEF OwnErrors, Errnos
<1>4. \A x \in Report(request[t].by, -1, e) : x.ret \in Results /\ x.errno \in Errnos
  BY <1>1, <1>3, ReportTyped DEF Requests
<1>5. TypeOK'
  BY <1>2, <1>3, <1>4, ReturnTyped DEF CallFails, Fails, TypeOK, TreeOK, tree, dirVars
<1> QED  BY <1>1, <1>2, <1>5, AskingKept DEF CallFails, Return, Goto, dirVars

\* A new descriptor is one that was free, and is open for something.
LEMMA NewDescriptor ==
  ASSUME TypeOK, NewDescriptors # {}
  PROVE  /\ Lowest(NewDescriptors) \in Descriptors
         /\ fds[Lowest(NewDescriptors)] = None
<1>1. NewDescriptors \in SUBSET Nat
  BY DEF NewDescriptors, Descriptors
<1> QED  BY <1>1, LowestIn DEF NewDescriptors, Open

LEMMA DescriptorTyped ==
  ASSUME NEW o \in Objects \cup {RootDir}, NEW stream \in BOOLEAN
  PROVE  Descriptor(o, stream) \in OpenFiles
  BY DEF Descriptor, OpenFiles

LEMMA MknodTyped ==
  ASSUME TypeInv, NEW t \in Threads, Mknod(t), StreamsOK'
  PROVE  TypeInv'
<1> USE DEF TypeInv
<1> DEFINE fd == Lowest(NewDescriptors)
<1>1. request[t] \in Requests /\ pc[t] # "idle" /\ request[t].sys = "make"
  BY DEF Mknod, MakesFile, Asking, TypeOK
<1>2. TreeOK'
  BY <1>1, PathCallTyped DEF PathCall, Mknod, TypeOK
<1>3. entry'[request[t].path] \in Objects
  BY DEF Mknod, Make, Free, TypeOK, TreeOK
<1>4. Descriptor(entry'[request[t].path], FALSE) \in OpenFiles
  BY <1>3, DescriptorTyped
<1>5. fd \in Descriptors
  BY NewDescriptor DEF Mknod
<1>6. fds' \in [Descriptors -> OpenFiles \cup {None}]
  BY <1>4, <1>5 DEF Mknod, TypeOK
<1>7. TypeOK'
  BY <1>2, <1>5, <1>6 DEF Mknod, Goto, Results, TypeOK, dirVars
<1> QED  BY <1>1, <1>7, AskingKept DEF Mknod, Goto, dirVars

LEMMA MknodCloseTyped ==
  ASSUME TypeInv, NEW t \in Threads, MknodClose(t), StreamsOK'
  PROVE  TypeInv'
<1> USE DEF TypeInv
<1>1. errno[t] \in Errnos /\ pc[t] # "idle" /\ EIO \in Errnos
  BY ErrnosAreNat DEF MknodClose, TypeOK
<1>2. \A x \in log_syscall(0, errno[t]) \cup log_syscall(-1, EIO) :
        x.ret \in Results /\ x.errno \in Errnos
  BY <1>1, ReportTyped DEF Report, Lengths
<1>3. fds' \in [Descriptors -> OpenFiles \cup {None}]
  BY DEF MknodClose, TypeOK
<1>4. failed' \in [Threads -> Errnos]
  BY <1>1 DEF MknodClose, Fails, TypeOK
<1>5. /\ retstat' \in [Threads -> Results] /\ errno' \in [Threads -> Errnos]
      /\ pc' \in [Threads -> {"idle", "call", "close", "fill", "done"}]
  BY <1>2, ReturnTyped DEF MknodClose
<1>6. TypeOK'
  BY <1>3, <1>4, <1>5 DEF MknodClose, TypeOK, TreeOK, tree, dirVars
<1> QED  BY <1>1, <1>6, AskingKept DEF MknodClose, Return, Goto, dirVars

LEMMA OpenDoneTyped ==
  ASSUME TypeInv, NEW t \in Threads, OpenDone(t), StreamsOK'
  PROVE  TypeInv'
<1> USE DEF TypeInv
<1> DEFINE r  == request[t]
           fd == Lowest(NewDescriptors)
           results == IF r.sys = "open" THEN ReportOpen(fd, errno[t])
                      ELSE ReportPointer(0, errno[t])
<1>1. r \in Requests /\ errno[t] \in Errnos /\ pc[t] # "idle" /\ r.h \in Handles
  BY DEF OpenDone, Call, Asking, Sole, TypeOK
<1>2. fd \in Descriptors
  BY NewDescriptor DEF OpenDone
<1>3. Opened(r) \in Objects \cup {RootDir}
  BY <1>1, OpenedTyped DEF OpenDone, TypeOK
<1>4. Descriptor(Opened(r), r.sys = "opendir") \in OpenFiles
  BY <1>3, DescriptorTyped
<1>5. /\ fds' = [fds EXCEPT ![fd] = Descriptor(Opened(r), r.sys = "opendir")]
      /\ fh' = [fh EXCEPT ![r.h] = fd]
      /\ Return(t, results)
  BY DEF OpenDone
<1>6. \A x \in results : x.ret \in Results /\ x.errno \in Errnos
  BY <1>1, <1>2, OpenTyped, PointerTyped
<1>7. /\ retstat' \in [Threads -> Results] /\ errno' \in [Threads -> Errnos]
      /\ pc' \in [Threads -> {"idle", "call", "close", "fill", "done"}]
  <2> HIDE DEF results
  <2> QED  BY <1>5, <1>6, ReturnTyped
<1>8. fds' \in [Descriptors -> OpenFiles \cup {None}]
  BY <1>2, <1>4, <1>5 DEF TypeOK
<1>9. fh' \in [Handles -> Descriptors \cup {Null} \cup {-e : e \in Errnos}]
  BY <1>1, <1>2, <1>5 DEF TypeOK
<1>10. TypeOK'
  BY <1>7, <1>8, <1>9 DEF OpenDone, TypeOK, TreeOK, tree, dirVars
<1> QED  BY <1>1, <1>10, AskingKept DEF OpenDone, Return, Goto, dirVars

\* How opening may fail: with an error of its own, reported as such or as one of
\* logging; bb_open leaves it in fi->fh.
LEMMA OpenFailsWith ==
  ASSUME TypeInv, NEW t \in Threads, OpenFails(t)
  PROVE  \E e \in {EIO, EMFILE} :
           /\ Fails(t, e)
           /\ retstat'[t] \in {-e, -ENOSPC}
           /\ \/ request[t].sys = "open" /\ fh' = [fh EXCEPT ![request[t].h] = retstat'[t]]
              \/ request[t].sys = "opendir" /\ fh' = fh
           /\ \E results : /\ Return(t, results)
                           /\ \A x \in results : x.ret \in Results /\ x.errno \in Errnos
<1>1. PICK e \in {EIO, EMFILE} :
        /\ Fails(t, e)
        /\ \/ /\ request[t].sys = "open"
              /\ Return(t, ReportOpen(-1, e))
              /\ fh' = [fh EXCEPT ![request[t].h] = retstat'[t]]
           \/ /\ request[t].sys = "opendir"
              /\ Return(t, ReportPointer(-1, e))
              /\ fh' = fh
  BY DEF OpenFails
<1>2. e \in Errnos /\ e \in Nat /\ -1 \in Int /\ ~(-1 >= 0) /\ -1 < 0
  BY DEF Errnos, EIO, EMFILE
<1>3. \A x \in ReportOpen(-1, e) : x.ret \in {-e, -ENOSPC} /\ x.ret \in Results /\ x.errno \in Errnos
  BY <1>2, OpenReported, OpenTyped
<1>4. \A x \in ReportPointer(-1, e) :
        x.ret \in {-e, -ENOSPC} /\ x.ret \in Results /\ x.errno \in Errnos
  BY <1>2, PointerReported, PointerTyped
<1>5. retstat \in [Threads -> Results]
  BY DEF TypeInv, TypeOK
<1>6. CASE request[t].sys = "open" /\ Return(t, ReportOpen(-1, e))
           /\ fh' = [fh EXCEPT ![request[t].h] = retstat'[t]]
  <2>1. retstat'[t] \in {-e, -ENOSPC}
    BY <1>3, <1>5, <1>6 DEF Return
  <2> QED  BY <1>1, <1>3, <1>6, <2>1
<1>7. CASE request[t].sys = "opendir" /\ Return(t, ReportPointer(-1, e)) /\ fh' = fh
  <2>1. retstat'[t] \in {-e, -ENOSPC}
    BY <1>4, <1>5, <1>7 DEF Return
  <2> QED  BY <1>1, <1>4, <1>7, <2>1
<1> QED  BY <1>1, <1>6, <1>7

LEMMA OpenFailsTyped ==
  ASSUME TypeInv, NEW t \in Threads, OpenFails(t), StreamsOK'
  PROVE  TypeInv'
<1> USE DEF TypeInv
<1>1. request[t].h \in Handles /\ pc[t] # "idle"
  BY DEF OpenFails, Call, Asking, Sole, TypeOK
<1>2. PICK e, results :
        /\ e \in {EIO, EMFILE}
        /\ Fails(t, e)
        /\ retstat'[t] \in {-e, -ENOSPC}
        /\ \/ request[t].sys = "open" /\ fh' = [fh EXCEPT ![request[t].h] = retstat'[t]]
           \/ request[t].sys = "opendir" /\ fh' = fh
        /\ Return(t, results)
        /\ \A x \in results : x.ret \in Results /\ x.errno \in Errnos
  BY OpenFailsWith
<1>3. e \in Errnos /\ ENOSPC \in Errnos
  BY <1>2 DEF Errnos
<1>4. fh' \in [Handles -> Descriptors \cup {Null} \cup {-x : x \in Errnos}]
  BY <1>1, <1>2, <1>3 DEF TypeOK
<1>5. failed' \in [Threads -> Errnos]
  BY <1>2, <1>3 DEF Fails, TypeOK
<1>6. /\ retstat' \in [Threads -> Results] /\ errno' \in [Threads -> Errnos]
      /\ pc' \in [Threads -> {"idle", "call", "close", "fill", "done"}]
  BY <1>2, ReturnTyped
<1>7. TypeOK'
  BY <1>4, <1>5, <1>6 DEF OpenFails, TypeOK, TreeOK, tree, dirVars
<1> QED  BY <1>1, <1>2, <1>7, AskingKept DEF OpenFails, Return, Goto, dirVars

LEMMA ReleaseDoneTyped ==
  ASSUME TypeInv, NEW t \in Threads, ReleaseDone(t), StreamsOK'
  PROVE  TypeInv'
<1> USE DEF TypeInv
<1>1. /\ request[t] \in Requests /\ request[t].h \in Handles
      /\ errno[t] \in Errnos /\ EIO \in Errnos /\ pc[t] # "idle"
  BY ErrnosAreNat DEF ReleaseDone, Call, Asking, Sole, TypeOK
<1>2. \A x \in Report(request[t].by, 0, errno[t]) \cup Report(request[t].by, -1, EIO) :
        x.ret \in Results /\ x.errno \in Errnos
  BY <1>1, ReportTyped DEF Requests, Lengths
<1>3. fds' \in [Descriptors -> OpenFiles \cup {None}]
  BY DEF ReleaseDone, TypeOK
<1>4. fh' \in [Handles -> Descriptors \cup {Null} \cup {-e : e \in Errnos}]
  BY DEF ReleaseDone, TypeOK
<1>5. failed' \in [Threads -> Errnos]
  BY <1>1 DEF ReleaseDone, Fails, TypeOK
<1>6. /\ retstat' \in [Threads -> Results] /\ errno' \in [Threads -> Errnos]
      /\ pc' \in [Threads -> {"idle", "call", "close", "fill", "done"}]
  BY <1>2, ReturnTyped DEF ReleaseDone
<1>7. TypeOK'
  BY <1>3, <1>4, <1>5, <1>6 DEF ReleaseDone, TypeOK, TreeOK, tree, dirVars
<1> QED  BY <1>1, <1>7, AskingKept DEF ReleaseDone, Return, Goto, dirVars

\* The stream a listing reads, and what readdir does.
LEMMA StreamTyped ==
  ASSUME TypeInv, UsedOpen, NEW t \in Threads, pc[t] \in {"call", "fill"},
         request[t].sys = "readdir"
  PROVE  /\ request[t].h \in Handles /\ fh[request[t].h] \in Open
         /\ StreamOf(t) \in Descriptors
<1>1. request[t].h \in Handles /\ request[t].h # None
  BY BBFSAssumption DEF TypeInv, Asking
<1>2. fh[request[t].h] \in Open
  BY <1>1 DEF UsedOpen
<1> QED  BY <1>1, <1>2 DEF Open

LEMMA ReadsTyped ==
  ASSUME TypeOK, NEW t \in Threads, Reads(t), StreamOf(t) \in Descriptors
  PROVE  \E n \in Entries :
           /\ n \in unread[StreamOf(t)] \cup changed[StreamOf(t)]
           /\ de' = [de EXCEPT ![t] = n] /\ de'[t] = n
           /\ de' \in [Threads -> Entries \cup {None}]
           /\ unread'[StreamOf(t)] = unread[StreamOf(t)] \ {n}
           /\ \A d \in Descriptors : d # StreamOf(t) => unread'[d] = unread[d]
           /\ unread' \in [Descriptors -> SUBSET Entries]
<1> DEFINE s == StreamOf(t)
<1>1. unread[s] \subseteq Entries /\ changed[s] \subseteq Entries
  BY DEF TypeOK, StreamsOK
<1>2. PICK n \in unread[s] \cup changed[s] : /\ de' = [de EXCEPT ![t] = n]
                                          /\ unread' = [unread EXCEPT ![s] = @ \ {n}]
  BY DEF Reads
<1>3. n \in Entries
  BY <1>1
<1>4. de'[t] = n /\ de' \in [Threads -> Entries \cup {None}]
  BY <1>2, <1>3 DEF TypeOK
<1> HIDE DEF s
<1>5. /\ unread'[s] = unread[s] \ {n}
      /\ \A d \in Descriptors : d # s => unread'[d] = unread[d]
      /\ unread' \in [Descriptors -> SUBSET Entries]
  BY <1>1, <1>2 DEF TypeOK, StreamsOK, s
<1> QED  BY <1>2, <1>3, <1>4, <1>5 DEF s

LEMMA ReaddirFirstTyped ==
  ASSUME TypeInv, UsedOpen, NEW t \in Threads, ReaddirFirst(t), StreamsOK'
  PROVE  TypeInv'
<1> USE DEF TypeInv
<1>1. pc[t] = "call" /\ request[t].sys = "readdir" /\ errno[t] \in Errnos
  BY DEF ReaddirFirst, Call, TypeOK
<1>2. StreamOf(t) \in Descriptors
  BY <1>1, StreamTyped
<1>3. PICK n \in Entries : /\ de' = [de EXCEPT ![t] = n] /\ de'[t] = n
                           /\ de' \in [Threads -> Entries \cup {None}]
  BY <1>2, ReadsTyped DEF ReaddirFirst
<1>4. content' \in [Threads -> {None} \cup SUBSET Entries]
  BY <1>2 DEF ReaddirFirst, TypeOK, StreamsOK
<1>5. errno' \in [Threads -> Errnos]
  BY <1>1, LogTyped DEF ReaddirFirst, TypeOK
<1>6. pc' \in [Threads -> {"idle", "call", "close", "fill", "done"}]
  BY DEF ReaddirFirst, Goto, TypeOK
<1>7. UNCHANGED <<tree, fds, fh, request, retstat, listed, calls, failed>>
  BY DEF ReaddirFirst
<1>8. TypeOK'
  BY <1>3, <1>4, <1>5, <1>6, <1>7 DEF TypeOK, TreeOK, tree
<1>9. \A u \in Threads : u # t => de'[u] = de[u]
  BY <1>3 DEF TypeOK
<1> QED  BY <1>1, <1>3, <1>8, <1>9, AskingKept DEF ReaddirFirst, Goto

LEMMA ReaddirNullTyped ==
  ASSUME TypeInv, NEW t \in Threads, ReaddirNull(t), StreamsOK'
  PROVE  TypeInv'
<1> USE DEF TypeInv
<1>1. pc[t] # "idle" /\ errno[t] \in Errnos /\ EIO \in Errnos
  BY ErrnosAreNat DEF ReaddirNull, Call, TypeOK
<1>2. \A x \in ReportPointer(-1, errno[t]) \cup ReportPointer(-1, EIO) :
        x.ret \in Results /\ x.errno \in Errnos
  BY <1>1, PointerTyped
<1>3. failed' \in [Threads -> Errnos]
  BY <1>1 DEF ReaddirNull, Fails, TypeOK
<1>4. /\ retstat' \in [Threads -> Results] /\ errno' \in [Threads -> Errnos]
      /\ pc' \in [Threads -> {"idle", "call", "close", "fill", "done"}]
  BY <1>2, ReturnTyped DEF ReaddirNull
<1>5. TypeOK'
  BY <1>3, <1>4 DEF ReaddirNull, TypeOK, TreeOK, tree, dirVars
<1> QED  BY <1>1, <1>5, AskingKept DEF ReaddirNull, Return, Goto, dirVars

\* The ways the loop of bb_readdir goes on and ends.
FillsOn(t, e) ==
  /\ listed' = [listed EXCEPT ![t] = @ \cup {de[t]}]
  /\ Reads(t)
  /\ errno' = [errno EXCEPT ![t] = e]
  /\ UNCHANGED <<pc, retstat, failed>>
FillsLast(t, e) ==
  /\ listed' = [listed EXCEPT ![t] = @ \cup {de[t]}]
  /\ unread[StreamOf(t)] = {}
  /\ Return(t, {[ret |-> 0, errno |-> e]})
  /\ UNCHANGED <<unread, de, failed>>
FillsThenFails(t) ==
  /\ listed' = [listed EXCEPT ![t] = @ \cup {de[t]}]
  /\ Fails(t, EIO)
  /\ Return(t, {[ret |-> 0, errno |-> EIO]})
  /\ UNCHANGED <<unread, de>>
NoRoom(t, e) ==
  /\ Return(t, {[ret |-> -ENOMEM, errno |-> x] : x \in log_msg(e)})
  /\ UNCHANGED <<unread, de, listed, failed>>

LEMMA FillCases ==
  ASSUME NEW t \in Threads, ReaddirFill(t)
  PROVE  /\ pc[t] = "fill"
         /\ UNCHANGED <<tree, fds, changed, fh, request, content, calls>>
         /\ \E e \in log_msg(errno[t]) :
              FillsOn(t, e) \/ FillsLast(t, e) \/ FillsThenFails(t) \/ NoRoom(t, e)
  BY DEF ReaddirFill, FillsOn, FillsLast, FillsThenFails, NoRoom, dirVars

LEMMA ReaddirFillTyped ==
  ASSUME TypeInv, UsedOpen, NEW t \in Threads, ReaddirFill(t), StreamsOK'
  PROVE  TypeInv'
<1> USE DEF TypeInv
<1>1. PICK e \in log_msg(errno[t]) :
        FillsOn(t, e) \/ FillsLast(t, e) \/ FillsThenFails(t) \/ NoRoom(t, e)
  BY FillCases
<1>2. pc[t] = "fill" /\ UNCHANGED <<tree, fds, fh, request, content, calls>>
  BY FillCases
<1>3. request[t].sys = "readdir" /\ e \in Errnos /\ EIO \in Errnos
  BY <1>2, LogTyped, ErrnosAreNat DEF Asking, TypeOK
<1>4. StreamOf(t) \in Descriptors
  BY <1>2, <1>3, StreamTyped
<1>5. 0 \in Results /\ -ENOMEM \in Results
  BY DEF Results, Lengths
<1>6. [listed EXCEPT ![t] = @ \cup {de[t]}] \in [Threads -> SUBSET Entries]
  BY <1>2 DEF Asking, TypeOK
<1>7. CASE FillsOn(t, e)
  <2>1. PICK n \in Entries : /\ de' = [de EXCEPT ![t] = n]
                             /\ de' \in [Threads -> Entries \cup {None}]
    BY <1>4, <1>7, ReadsTyped DEF FillsOn
  <2>2. TypeOK'
    BY <1>2, <1>3, <1>6, <1>7, <2>1 DEF FillsOn, TypeOK, TreeOK, tree
  <2>3. (\A u \in Threads : Asking(u))'
    BY <1>2, <1>7, <2>1 DEF FillsOn, Asking, TypeOK
  <2> QED  BY <2>2, <2>3
<1>8. CASE FillsLast(t, e)
  <2>1. TypeOK'
    BY <1>2, <1>3, <1>5, <1>6, <1>8, ReturnTyped DEF FillsLast, TypeOK, TreeOK, tree
  <2> QED  BY <1>2, <1>8, <2>1, AskingKept DEF FillsLast, Return, Goto
<1>9. CASE FillsThenFails(t)
  <2>1. TypeOK'
    BY <1>2, <1>3, <1>5, <1>6, <1>9, ReturnTyped DEF FillsThenFails, Fails, TypeOK, TreeOK, tree
  <2> QED  BY <1>2, <1>9, <2>1, AskingKept DEF FillsThenFails, Return, Goto
<1>10. CASE NoRoom(t, e)
  <2> DEFINE results == {[ret |-> -ENOMEM, errno |-> x] : x \in log_msg(e)}
  <2>1. \A x \in results : x.ret \in Results /\ x.errno \in Errnos
    BY <1>3, <1>5, LogTyped
  <2>2. Return(t, results)
    BY <1>10 DEF NoRoom
  <2>3. /\ retstat' \in [Threads -> Results] /\ errno' \in [Threads -> Errnos]
        /\ pc' \in [Threads -> {"idle", "call", "close", "fill", "done"}]
        /\ pc' = [pc EXCEPT ![t] = "done"]
    <3> HIDE DEF results
    <3> QED  BY <2>1, <2>2, ReturnTyped
  <2>4. TypeOK'
    BY <1>2, <1>10, <2>3 DEF NoRoom, TypeOK, TreeOK, tree
  <2> QED  BY <1>2, <1>10, <2>3, <2>4, AskingKept DEF NoRoom
<1> QED  BY <1>1, <1>7, <1>8, <1>9, <1>10

LEMMA ReplyTyped ==
  ASSUME TypeInv, NEW t \in Threads, Reply(t), StreamsOK'
  PROVE  TypeInv'
<1> USE DEF TypeInv
<1>1. fh' \in [Handles -> Descriptors \cup {Null} \cup {-e : e \in Errnos}]
  BY DEF Reply, TypeOK
<1>2. 0 \in Results /\ 0 \in Errnos
  BY DEF Results, Lengths, Errnos
<1>3. /\ pc' \in [Threads -> {"idle", "call", "close", "fill", "done"}]
      /\ request' \in [Threads -> Requests \cup {None}]
      /\ retstat' \in [Threads -> Results]
      /\ de' \in [Threads -> Entries \cup {None}]
      /\ listed' \in [Threads -> SUBSET Entries]
  BY <1>2 DEF Reply, Goto, TypeOK
<1>4. /\ content' \in [Threads -> {None} \cup SUBSET Entries]
      /\ failed' \in [Threads -> Errnos]
      /\ UNCHANGED <<tree, fds, errno, calls>>
  BY <1>2 DEF Reply, TypeOK
<1>5. TypeOK'
  BY <1>1, <1>3, <1>4 DEF TypeOK, TreeOK, tree
<1>6. (\A u \in Threads : Asking(u))'
  BY DEF Reply, Goto, Asking, TypeOK
<1> QED  BY <1>5, <1>6

LEMMA InitTyped ==
  ASSUME Init
  PROVE  TypeInv
<1>1. TreeOK
  <2>1. object \in [Objects -> [kind: Kinds, length: {0}, attr: {FALSE}]]
    BY DEF Init, StartTree
  <2>2. 0 \in Lengths /\ FALSE \in BOOLEAN
    BY DEF Lengths
  <2>3. [kind: Kinds, length: {0}, attr: {FALSE}] \subseteq
          [kind: Kinds, length: Lengths, attr: BOOLEAN]
    BY <2>2
  <2>4. object \in [Objects -> [kind: Kinds, length: Lengths, attr: BOOLEAN]]
    BY <2>1, <2>3
  <2> QED  BY <2>4 DEF Init, StartTree, TreeOK
<1>2. 0 \in Results /\ 0 \in Errnos /\ 0 \in 0..MaxCalls
  BY DEF Results, Lengths, Errnos
<1>3. /\ fds \in [Descriptors -> OpenFiles \cup {None}]
      /\ request \in [Threads -> Requests \cup {None}]
      /\ de \in [Threads -> Entries \cup {None}]
  BY DEF Init
<1>4. /\ content \in [Threads -> {None} \cup SUBSET Entries]
      /\ listed \in [Threads -> SUBSET Entries]
      /\ fh \in [Handles -> Descriptors \cup {Null} \cup {-e : e \in Errnos}]
      /\ pc \in [Threads -> {"idle", "call", "close", "fill", "done"}]
  BY DEF Init
<1>5. /\ errno \in [Threads -> Errnos]
      /\ retstat \in [Threads -> Results]
      /\ calls \in 0..MaxCalls
      /\ failed \in [Threads -> Errnos]
  BY <1>2 DEF Init
<1>6. StreamsOK
  BY DEF Init, StreamsOK
<1>7. TypeOK
  BY <1>1, <1>3, <1>4, <1>5, <1>6 DEF TypeOK
<1> QED  BY <1>7 DEF Init, TypeInv, Asking

LEMMA UnchangedTyped ==
  ASSUME TypeInv, UNCHANGED vars
  PROVE  TypeInv'
  BY DEF TypeInv, TypeOK, TreeOK, StreamsOK, Asking, vars, tree, streams, dirVars

\* A listing changes only what is unread of its stream.
LEMMA ListingReads ==
  ASSUME NEW t \in Threads, ReaddirFirst(t) \/ ReaddirNull(t) \/ ReaddirFill(t)
  PROVE  /\ UNCHANGED <<tree, fds, changed, fh, request>>
         /\ Reads(t) \/ UNCHANGED unread
         /\ pc[t] \in {"call", "fill"} /\ (pc[t] = "call" => request[t].sys = "readdir")
<1>1. CASE ReaddirFirst(t)
  BY <1>1 DEF ReaddirFirst, Call
<1>2. CASE ReaddirNull(t)
  BY <1>2 DEF ReaddirNull, Call, streams
<1>3. CASE ReaddirFill(t)
  BY <1>3, FillCases DEF FillsOn, FillsLast, FillsThenFails, NoRoom
<1> QED  BY <1>1, <1>2, <1>3

LEMMA ChangesTyped ==
  ASSUME NEW o
  PROVE  Changes(o) \subseteq Entries
  BY DEF Changes, Entries

LEMMA NoticeTyped ==
  ASSUME StreamsOK, Notice
  PROVE  StreamsOK'
<1>1. \A d \in Descriptors : Changed(d) \subseteq Entries
  BY ChangesTyped DEF Changed
<1> QED  BY <1>1 DEF Notice, StreamsOK

LEMMA StreamsTyped ==
  ASSUME TypeInv, UsedOpen, NEW t \in Threads, Begin(t) \/ Step(t)
  PROVE  StreamsOK'
<1>1. StreamsOK
  BY DEF TypeInv, TypeOK
<1>2. CASE Begin(t) \/ OnFileDone(t) \/ NothingDone(t) \/ CallFails(t) \/ MknodClose(t)
           \/ OpenFails(t) \/ Reply(t)
  BY <1>1, <1>2
  DEF Begin, OnFileDone, NothingDone, CallFails, MknodClose, OpenFails, Reply, streams, StreamsOK
<1>3. CASE OnPathDone(t) \/ Mknod(t)
  BY <1>1, <1>3, NoticeTyped DEF OnPathDone, Mknod
<1>4. CASE OpenDone(t)
  BY <1>1, <1>4, NamesInTyped DEF OpenDone, StreamsOK
<1>5. CASE ReleaseDone(t)
  BY <1>1, <1>5 DEF ReleaseDone, StreamsOK
<1>6. CASE ReaddirFirst(t) \/ ReaddirNull(t) \/ ReaddirFill(t)
  <2>1. pc[t] \in {"call", "fill"} /\ request[t].sys = "readdir"
    BY <1>6, ListingReads DEF TypeInv, Asking
  <2>2. StreamOf(t) \in Descriptors
    BY <2>1, StreamTyped
  <2>3. unread' \in [Descriptors -> SUBSET Entries]
    BY <1>1, <1>6, <2>2, ListingReads, ReadsTyped DEF TypeInv, StreamsOK
  <2> QED  BY <1>1, <1>6, <2>3, ListingReads DEF StreamsOK
<1> QED  BY <1>2, <1>3, <1>4, <1>5, <1>6 DEF Step

\* Every step keeps the types, where whoever lists has an open stream.
LEMMA StepTyped ==
  ASSUME TypeInv, UsedOpen, [Next]_vars
  PROVE  TypeInv'
<1>1. ASSUME NEW t \in Threads, Begin(t) \/ Step(t)
      PROVE  TypeInv'
  BY <1>1, StreamsTyped, BeginTyped, OnPathDoneTyped, OnFileDoneTyped, NothingDoneTyped, CallFailsTyped,
     MknodTyped, MknodCloseTyped, OpenDoneTyped, OpenFailsTyped, ReleaseDoneTyped,
     ReaddirFirstTyped, ReaddirNullTyped, ReaddirFillTyped, ReplyTyped
  DEF Step
<1> QED  BY <1>1, UnchangedTyped DEF Next

-----------------------------------------------------------------------------
(* Errors *)

\* A thread changes nothing of another's callback.
LEMMA OthersKeep ==
  ASSUME TypeInv, NEW t \in Threads, NEW u \in Threads, u # t, Begin(t) \/ Step(t)
  PROVE  /\ pc'[u] = pc[u] /\ request'[u] = request[u] /\ retstat'[u] = retstat[u]
         /\ failed'[u] = failed[u] /\ de'[u] = de[u] /\ listed'[u] = listed[u]
         /\ content'[u] = content[u]
<1> USE DEF TypeInv, TypeOK, Return, Goto, Fails, dirVars
<1>1. CASE Begin(t)
  BY <1>1 DEF Begin
<1>2. CASE OnPathDone(t) \/ OnFileDone(t) \/ NothingDone(t) \/ CallFails(t)
  BY <1>2 DEF OnPathDone, OnFileDone, NothingDone, CallFails
<1>3. CASE Mknod(t) \/ MknodClose(t)
  BY <1>3 DEF Mknod, MknodClose
<1>4. CASE OpenDone(t) \/ ReleaseDone(t)
  BY <1>4 DEF OpenDone, ReleaseDone
<1>5. CASE OpenFails(t)
  BY <1>5 DEF OpenFails
<1>6. CASE ReaddirFirst(t) \/ ReaddirNull(t)
  BY <1>6 DEF ReaddirFirst, ReaddirNull, Reads
<1>7. CASE ReaddirFill(t)
  <2>1. PICK e \in log_msg(errno[t]) :
          FillsOn(t, e) \/ FillsLast(t, e) \/ FillsThenFails(t) \/ NoRoom(t, e)
    BY <1>7, FillCases
  <2>2. UNCHANGED <<request, content>>
    BY <1>7, FillCases
  <2>3. CASE FillsOn(t, e)
    BY <2>2, <2>3 DEF FillsOn, Reads
  <2>4. CASE FillsLast(t, e) \/ FillsThenFails(t)
    BY <2>2, <2>4 DEF FillsLast, FillsThenFails
  <2>5. CASE NoRoom(t, e)
    BY <2>2, <2>5 DEF NoRoom
  <2> QED  BY <2>1, <2>3, <2>4, <2>5
<1>8. CASE Reply(t)
  BY <1>8 DEF Reply
<1> QED  BY <1>1, <1>2, <1>3, <1>4, <1>5, <1>6, <1>7, <1>8 DEF Step

\* The result of a callback is one it may return.
LEMMA Returned ==
  ASSUME TypeInv, NEW t \in Threads, NEW results, Return(t, results)
  PROVE  pc'[t] = "done" /\ \E x \in results : retstat'[t] = x.ret /\ errno'[t] = x.errno
  BY DEF TypeInv, TypeOK, Return, Goto

\* A step that fails returns an error of its own, and one that does not returns
\* no error.
LEMMA ReportsOwn ==
  ASSUME NEW by \in {"log_syscall", "log_error", "nobody"}, NEW ret \in Int, NEW e \in Nat,
         NEW x \in Report(by, ret, e), by # "nobody"
  PROVE  /\ ret >= 0 => x.ret >= 0
         /\ ret < 0 => x.ret = -e \/ (by = "log_syscall" /\ x.ret = -ENOSPC)
  BY Reported

LEMMA DoneOwn ==
  ASSUME TypeInv, ErrorInv, NEW t \in Threads, OnPathDone(t) \/ OnFileDone(t) \/ NothingDone(t)
  PROVE  ErrorOK(t)'
<1> USE DEF TypeInv
<1>1. /\ pc[t] = "call" /\ request' = request /\ failed' = failed
      /\ request[t] \in Requests /\ errno[t] \in Nat
  BY ErrnosAreNat DEF OnPathDone, OnFileDone, NothingDone, Call, Asking, TypeOK
<1>2. failed'[t] = 0
  BY <1>1 DEF ErrorInv, ErrorOK
<1>3. PICK ret \in Nat : Return(t, Report(request[t].by, ret, errno[t]))
                         \/ Return(t, Report("nobody", 0, errno[t]))
  BY DEF OnPathDone, OnFileDone, NothingDone, Lengths
<1>4. CASE Return(t, Report(request[t].by, ret, errno[t]))
  <2>1. PICK x \in Report(request[t].by, ret, errno[t]) : retstat'[t] = x.ret
    BY <1>4, Returned
  <2>2. request[t].by # "nobody" => x.ret = ret
    BY <1>1, Reported DEF Requests
  <2> QED  BY <1>1, <1>2, <2>1, <2>2 DEF ErrorOK
<1>5. CASE Return(t, Report("nobody", 0, errno[t]))
  <2>1. PICK x \in Report("nobody", 0, errno[t]) : retstat'[t] = x.ret
    BY <1>5, Returned
  <2>2. x.ret = 0
    BY <1>1, Reported
  <2> QED  BY <1>1, <1>2, <2>1, <2>2 DEF ErrorOK
<1> QED  BY <1>3, <1>4, <1>5

LEMMA CallFailsOwn ==
  ASSUME TypeInv, NEW t \in Threads, CallFails(t)
  PROVE  ErrorOK(t)'
<1>1. request[t] \in Requests /\ request' = request
  BY DEF CallFails, Asking, TypeInv, TypeOK
<1>2. PICK e \in {EIO, EMFILE} : Fails(t, e) /\ Return(t, Report(request[t].by, -1, e))
  BY DEF CallFails, OwnErrors
<1>3. e \in Nat /\ e > 0
  BY DEF EIO, EMFILE
<1>4. PICK x \in Report(request[t].by, -1, e) : retstat'[t] = x.ret
  BY <1>2, Returned
<1>5. request[t].by # "nobody" =>
        x.ret = -e \/ (request[t].by = "log_syscall" /\ x.ret = -ENOSPC)
  BY <1>1, <1>3, ReportsOwn DEF Requests
<1>6. failed'[t] = e /\ pc'[t] = "done"
  BY <1>2, Returned DEF Fails, TypeInv, TypeOK
<1> QED  BY <1>1, <1>3, <1>4, <1>5, <1>6 DEF ErrorOK, ENOSPC

LEMMA MknodCloseOwn ==
  ASSUME TypeInv, ErrorInv, NEW t \in Threads, MknodClose(t)
  PROVE  ErrorOK(t)'
<1>1. /\ request' = request /\ pc[t] = "close" /\ request[t].by = "log_syscall"
      /\ errno[t] \in Nat /\ EIO \in Nat /\ EIO > 0
  BY ErrnoIsNat DEF MknodClose, MakesFile, Asking, TypeInv, TypeOK
<1>2. CASE Return(t, log_syscall(0, errno[t])) /\ UNCHANGED failed
  <2>1. PICK x \in Report("log_syscall", 0, errno[t]) : retstat'[t] = x.ret
    BY <1>2, Returned DEF Report
  <2>2. x.ret = 0
    BY <1>1, Reported
  <2> QED  BY <1>1, <1>2, <2>1, <2>2 DEF ErrorInv, ErrorOK
<1>3. CASE Fails(t, EIO) /\ Return(t, log_syscall(-1, EIO))
  <2>1. PICK x \in Report("log_syscall", -1, EIO) : retstat'[t] = x.ret
    BY <1>3, Returned DEF Report
  <2>2. x.ret = -EIO \/ x.ret = -ENOSPC
    BY <1>1, ReportsOwn
  <2>3. failed'[t] = EIO /\ pc'[t] = "done"
    BY <1>3, Returned DEF Fails, TypeInv, TypeOK
  <2> QED  BY <1>1, <2>1, <2>2, <2>3 DEF ErrorOK, ENOSPC
<1> QED  BY <1>2, <1>3 DEF MknodClose

LEMMA OpenDoneOwn ==
  ASSUME TypeInv, ErrorInv, NEW t \in Threads, OpenDone(t)
  PROVE  ErrorOK(t)'
<1> DEFINE fd == Lowest(NewDescriptors)
<1>1. /\ request' = request /\ failed' = failed /\ pc[t] = "call"
      /\ errno[t] \in Nat /\ fd \in Nat
  BY ErrnoIsNat, NewDescriptor DEF OpenDone, Call, TypeInv, Descriptors
<1>2. Return(t, ReportOpen(fd, errno[t])) \/ Return(t, ReportPointer(0, errno[t]))
  BY DEF OpenDone
<1>3. CASE Return(t, ReportOpen(fd, errno[t]))
  <2>1. PICK x \in ReportOpen(fd, errno[t]) : retstat'[t] = x.ret
    BY <1>3, Returned
  <2>2. x.ret = 0
    BY <1>1, OpenReported
  <2> QED  BY <1>1, <2>1, <2>2 DEF ErrorInv, ErrorOK
<1>4. CASE Return(t, ReportPointer(0, errno[t]))
  <2>1. PICK x \in ReportPointer(0, errno[t]) : retstat'[t] = x.ret
    BY <1>4, Returned
  <2>2. x.ret = 0
    BY <1>1, PointerReported
  <2> QED  BY <1>1, <2>1, <2>2 DEF ErrorInv, ErrorOK
<1> QED  BY <1>2, <1>3, <1>4

LEMMA OpenFailsOwn ==
  ASSUME TypeInv, NEW t \in Threads, OpenFails(t)
  PROVE  ErrorOK(t)'
<1>1. PICK e, results :
        /\ e \in {EIO, EMFILE}
        /\ Fails(t, e) /\ retstat'[t] \in {-e, -ENOSPC} /\ Return(t, results)
  BY OpenFailsWith
<1>2. /\ failed'[t] = e /\ pc'[t] = "done" /\ request' = request
      /\ e \in Nat /\ e > 0
  BY <1>1, Returned DEF Fails, TypeInv, TypeOK, OpenFails, EIO, EMFILE
<1>3. /\ request[t].sys = "open" => request[t].by = "log_syscall"
      /\ request[t].sys \in {"open", "opendir"}
  BY DEF OpenFails, Call, TypeInv, Asking
<1> QED  BY <1>1, <1>2, <1>3 DEF ErrorOK, ENOSPC

LEMMA ReleaseDoneOwn ==
  ASSUME TypeInv, ErrorInv, NEW t \in Threads, ReleaseDone(t)
  PROVE  ErrorOK(t)'
<1>1. /\ request' = request /\ pc[t] = "call" /\ request[t] \in Requests
      /\ errno[t] \in Nat /\ EIO \in Nat /\ EIO > 0
  BY ErrnoIsNat DEF ReleaseDone, Call, Asking, TypeInv, TypeOK
<1>2. CASE Return(t, Report(request[t].by, 0, errno[t])) /\ UNCHANGED failed
  <2>1. PICK x \in Report(request[t].by, 0, errno[t]) : retstat'[t] = x.ret
    BY <1>2, Returned
  <2>2. x.ret = 0
    BY <1>1, Reported DEF Requests
  <2> QED  BY <1>1, <1>2, <2>1, <2>2 DEF ErrorInv, ErrorOK
<1>3. CASE Fails(t, EIO) /\ Return(t, Report(request[t].by, -1, EIO))
  <2>1. PICK x \in Report(request[t].by, -1, EIO) : retstat'[t] = x.ret
    BY <1>3, Returned
  <2>2. request[t].by # "nobody" =>
          x.ret = -EIO \/ (request[t].by = "log_syscall" /\ x.ret = -ENOSPC)
    BY <1>1, ReportsOwn DEF Requests
  <2>3. failed'[t] = EIO /\ pc'[t] = "done"
    BY <1>3, Returned DEF Fails, TypeInv, TypeOK
  <2> QED  BY <1>1, <2>1, <2>2, <2>3 DEF ErrorOK, ENOSPC
<1> QED  BY <1>2, <1>3 DEF ReleaseDone

LEMMA StepOwn ==
  ASSUME TypeInv, ErrorInv, NEW t \in Threads, Begin(t) \/ Step(t)
  PROVE  ErrorOK(t)'
<1> USE DEF TypeInv, TypeOK, ErrorInv, ErrorOK, Goto
<1>1. CASE Begin(t)
  BY <1>1 DEF Begin
<1>2. CASE Mknod(t)
  BY <1>2 DEF Mknod
<1>3. CASE ReaddirFirst(t) \/ ReaddirNull(t)
  BY <1>3 DEF ReaddirFirst, ReaddirNull, Call, Return
<1>4. CASE ReaddirFill(t)
  BY <1>4, FillCases DEF FillsOn, FillsLast, FillsThenFails, NoRoom, Return, Asking
<1>5. CASE Reply(t)
  BY <1>5 DEF Reply
<1> QED
  BY <1>1, <1>2, <1>3, <1>4, <1>5, DoneOwn, CallFailsOwn, MknodCloseOwn, OpenDoneOwn,
     OpenFailsOwn, ReleaseDoneOwn
  DEF Step

\* What a callback answers is its own, whatever the other threads do.
LEMMA ErrorStep ==
  ASSUME TypeInv, ErrorInv, [Next]_vars
  PROVE  ErrorInv'
<1>1. ASSUME NEW t \in Threads, Begin(t) \/ Step(t)
      PROVE  ErrorInv'
  BY <1>1, StepOwn, OthersKeep DEF ErrorInv, ErrorOK
<1>2. CASE UNCHANGED vars
  BY <1>2 DEF vars, ErrorInv, ErrorOK
<1> QED  BY <1>1, <1>2 DEF Next

-----------------------------------------------------------------------------
(* Handles and descriptors *)

\* A step within a callback that opens and closes nothing.
LEMMA QuietHandles ==
  ASSUME TypeInv, HandleInv, NEW t \in Threads, NEW s \in {"fill", "done"},
         Open' = Open, fh' = fh, request' = request,
         pc[t] \in {"call", "fill"}, pc' = [pc EXCEPT ![t] = s],
         \A u \in Threads : u # t => retstat'[u] = retstat[u]
  PROVE  HandleInv'
<1> USE DEF TypeInv, TypeOK, HandleInv
<1>1. \A u \in Threads : u # t => pc'[u] = pc[u]
  OBVIOUS
<1>2. \A u \in Threads : pc'[u] = "call" => pc[u] = "call"
  OBVIOUS
<1>3. \A u \in Threads : pc'[u] \in {"call", "fill"} => pc[u] \in {"call", "fill"}
  OBVIOUS
<1>4. \A u \in Threads : (Holds(u)' <=> Holds(u)) /\ (Holds(u) => retstat'[u] = retstat[u])
  BY <1>1 DEF Holds
<1>5. OpenedOnce' /\ UsedOpen' /\ SoleUser'
  BY <1>2, <1>3 DEF OpenedOnce, UsedOpen, SoleUser
<1>6. HeldOpen'
  BY <1>4 DEF HeldOpen
<1>7. HeldAlone'
  BY <1>4 DEF HeldAlone
<1>8. AllHeld'
  BY <1>4 DEF AllHeld
<1> QED  BY <1>5, <1>6, <1>7, <1>8

LEMMA QuietSteps ==
  ASSUME TypeInv, HandleInv, NEW t \in Threads,
         \/ OnPathDone(t) \/ OnFileDone(t) \/ NothingDone(t) \/ CallFails(t)
         \/ ReaddirFirst(t) \/ ReaddirNull(t) \/ ReaddirFill(t)
  PROVE  HandleInv'
<1>1. \A u \in Threads : u # t => retstat'[u] = retstat[u]
  BY OthersKeep DEF Step
<1>2. CASE OnPathDone(t) \/ OnFileDone(t) \/ NothingDone(t) \/ CallFails(t) \/ ReaddirNull(t)
  <2>1. /\ Open' = Open /\ fh' = fh /\ request' = request
        /\ pc[t] = "call" /\ pc' = [pc EXCEPT ![t] = "done"]
    BY <1>2 DEF OnPathDone, OnFileDone, NothingDone, CallFails, ReaddirNull, Call, Return, Goto, Open
  <2> QED  BY <1>1, <2>1, QuietHandles
<1>3. CASE ReaddirFirst(t)
  <2>1. pc[t] = "call" /\ pc' = [pc EXCEPT ![t] = "fill"] /\ Open' = Open
    BY <1>3 DEF ReaddirFirst, Call, Goto, Open
  <2> QED  BY <1>1, <1>3, <2>1, ListingReads, QuietHandles
<1>4. CASE ReaddirFill(t)
  <2>1. PICK e \in log_msg(errno[t]) :
          FillsOn(t, e) \/ FillsLast(t, e) \/ FillsThenFails(t) \/ NoRoom(t, e)
    BY <1>4, FillCases
  <2>2. pc[t] = "fill" /\ fh' = fh /\ request' = request /\ Open' = Open
    BY <1>4, FillCases DEF Open
  <2>3. \E s \in {"fill", "done"} : pc' = [pc EXCEPT ![t] = s]
    BY <2>1, <2>2 DEF FillsOn, FillsLast, FillsThenFails, NoRoom, Return, Goto, TypeInv, TypeOK
  <2> QED  BY <1>1, <2>2, <2>3, QuietHandles
<1> QED  BY <1>2, <1>3, <1>4

LEMMA BeginHandles ==
  ASSUME TypeInv, HandleInv, NEW t \in Threads, Begin(t)
  PROVE  HandleInv'
<1> USE DEF TypeInv, TypeOK, HandleInv
<1>1. PICK r \in Calls : request' = [request EXCEPT ![t] = r]
  BY DEF Begin
<1>2. Asked(r) /\ r # None
  BY CallsAsked DEF Asked
<1>3. /\ pc[t] = "idle" /\ request[t] = None /\ pc' = [pc EXCEPT ![t] = "call"]
      /\ fh' = fh /\ fds' = fds /\ retstat' = retstat /\ Open' = Open
  BY DEF Begin, Goto, Asking, Open
<1>4. /\ request'[t] = r
      /\ \A u \in Threads : u # t => request'[u] = request[u] /\ pc'[u] = pc[u]
  BY <1>1, <1>3
<1>5. OpenedOnce'
  BY <1>2, <1>3, <1>4 DEF OpenedOnce, Asked
<1>6. UsedOpen'
  BY <1>2, <1>3, <1>4 DEF UsedOpen, Asked
<1>7. \A u \in Threads : u # t /\ request[u] # None /\ request[u].h = r.h =>
        r.sys \notin Sole /\ request[u].sys \notin Sole
  <2> SUFFICES ASSUME NEW u \in Threads, u # t, request[u] # None, request[u].h = r.h
               PROVE  r.sys \notin Sole /\ request[u].sys \notin Sole
    OBVIOUS
  <2>1. u \in Users(r.h)
    BY DEF Users
  <2>2. r.sys \notin Sole
    BY <1>2, <2>1 DEF Asked, Unused
  <2>3. request[u].sys \in Sole => request[u].h \in Handles
    BY DEF Asking
  <2>4. request[u].sys \notin Sole
    BY <1>2, <2>1, <2>2, <2>3, BBFSAssumption DEF Asked, Sole
  <2> QED  BY <2>2, <2>4
<1>8. SoleUser'
  BY <1>3, <1>4, <1>7 DEF SoleUser
<1>9. \A u \in Threads : Holds(u)' <=> Holds(u)
  BY <1>3, <1>4 DEF Holds
<1>10. HeldOpen' /\ HeldAlone' /\ AllHeld'
  BY <1>3, <1>9 DEF HeldOpen, HeldAlone, AllHeld
<1> QED  BY <1>5, <1>6, <1>8, <1>10

\* A descriptor that has been made is open, and the others stay as they are.
LEMMA NewOpen ==
  ASSUME TypeInv, NEW f \in OpenFiles, NewDescriptors # {},
         fds' = [fds EXCEPT ![Lowest(NewDescriptors)] = f]
  PROVE  Open' = Open \cup {Lowest(NewDescriptors)} /\ Lowest(NewDescriptors) \notin Open
<1> DEFINE fd == Lowest(NewDescriptors)
<1>1. fd \in Descriptors /\ fds[fd] = None
  BY NewDescriptor DEF TypeInv
<1>2. f # None
  BY BBFSAssumption
<1> HIDE DEF fd
<1>3. fds' = [fds EXCEPT ![fd] = f]
  BY DEF fd
<1> QED  BY <1>1, <1>2, <1>3 DEF Open, TypeInv, TypeOK, fd

\* One that has been closed is not open, and the others stay as they are.
LEMMA Closed ==
  ASSUME TypeInv, NEW d \in Descriptors, fds' = [fds EXCEPT ![d] = None]
  PROVE  Open' = Open \ {d}
  BY DEF Open, TypeInv, TypeOK

LEMMA MknodHandles ==
  ASSUME TypeInv, HandleInv, NEW t \in Threads, Mknod(t)
  PROVE  HandleInv'
<1> USE DEF HandleInv
<1> DEFINE fd == Lowest(NewDescriptors)
<1>1. entry'[request[t].path] \in Objects
  BY DEF Mknod, Make, Free, TypeInv, TypeOK, TreeOK
<1>2. Descriptor(entry'[request[t].path], FALSE) \in OpenFiles
  BY <1>1, DescriptorTyped
<1>3. Open' = Open \cup {fd} /\ fd \notin Open
  BY <1>2, NewOpen DEF Mknod
<1>4. /\ pc[t] = "call" /\ pc' = [pc EXCEPT ![t] = "close"] /\ fh' = fh /\ request' = request
      /\ retstat' = [retstat EXCEPT ![t] = fd]
  BY DEF Mknod, Goto
<1>5. \A u \in Threads : u # t => pc'[u] = pc[u] /\ retstat'[u] = retstat[u]
  BY <1>4 DEF TypeInv, TypeOK
<1>6. pc'[t] = "close" /\ retstat'[t] = fd
  BY <1>4 DEF TypeInv, TypeOK
<1>7. fd \in Descriptors
  BY NewDescriptor DEF Mknod, TypeInv
<1> HIDE DEF fd
<1>8. OpenedOnce' /\ UsedOpen' /\ SoleUser'
  BY <1>3, <1>4, <1>5, <1>6 DEF OpenedOnce, UsedOpen, SoleUser
<1>9. HeldOpen'
  BY <1>3, <1>4, <1>5, <1>6 DEF HeldOpen, Holds
<1>10. HeldAlone'
  BY <1>3, <1>4, <1>5, <1>6, <1>7 DEF HeldAlone, HeldOpen, Holds
<1>11. AllHeld'
  BY <1>3, <1>4, <1>5, <1>6 DEF AllHeld, Holds
<1> QED  BY <1>8, <1>9, <1>10, <1>11

LEMMA MknodCloseHandles ==
  ASSUME TypeInv, HandleInv, NEW t \in Threads, MknodClose(t)
  PROVE  HandleInv'
<1> USE DEF HandleInv
<1> DEFINE fd == retstat[t]
<1>1. Holds(t) /\ fd \in Open
  BY DEF MknodClose, Holds, HeldOpen
<1>2. Open' = Open \ {fd}
  BY <1>1, Closed DEF MknodClose, Open
<1>3. pc' = [pc EXCEPT ![t] = "done"] /\ fh' = fh /\ request' = request
  BY DEF MknodClose, Return, Goto
<1>4. \A u \in Threads : u # t => pc'[u] = pc[u] /\ retstat'[u] = retstat[u]
  BY OthersKeep DEF Step
<1>5. pc'[t] = "done"
  BY <1>3 DEF TypeInv, TypeOK
<1>6. \A h \in Handles : fh[h] # fd
  BY <1>1 DEF HeldAlone
<1> HIDE DEF fd
<1>7. OpenedOnce' /\ SoleUser'
  BY <1>3, <1>4, <1>5 DEF OpenedOnce, SoleUser
<1>8. UsedOpen'
  <2> SUFFICES ASSUME NEW u \in Threads, pc'[u] \in {"call", "fill"}, request[u].h # None,
                      request[u].sys \notin {"open", "opendir"}
               PROVE  fh[request[u].h] \in Open \ {fd}
    BY <1>2, <1>3 DEF UsedOpen
  <2>1. u # t /\ pc[u] = pc'[u]
    BY <1>4, <1>5
  <2>2. fh[request[u].h] \in Open
    BY <2>1 DEF UsedOpen
  <2>3. request[u] \in Requests
    BY <2>1 DEF TypeInv, TypeOK, Asking
  <2>4. request[u].h \in Handles
    BY <2>3 DEF Requests
  <2> QED  BY <1>6, <2>2, <2>4
<1>9. HeldOpen'
  BY <1>1, <1>2, <1>3, <1>4, <1>5, <1>6 DEF HeldOpen, HeldAlone, Holds, fd
<1>10. HeldAlone'
  BY <1>3, <1>4, <1>5 DEF HeldAlone, Holds
<1>11. AllHeld'
  <2> SUFFICES ASSUME NEW d \in Open, d # fd
               PROVE  \/ \E h \in Handles : fh[h] = d
                      \/ \E u \in Threads : pc'[u] = "close" /\ retstat'[u] = d
    BY <1>2, <1>3 DEF AllHeld, Holds
  <2>1. CASE \E h \in Handles : fh[h] = d
    BY <2>1
  <2>2. CASE \E u \in Threads : pc[u] = "close" /\ retstat[u] = d
    BY <1>4, <2>2 DEF fd
  <2> QED  BY <2>1, <2>2 DEF AllHeld, Holds
<1> QED  BY <1>7, <1>8, <1>9, <1>10, <1>11

LEMMA OpenDoneHandles ==
  ASSUME TypeInv, HandleInv, NEW t \in Threads, OpenDone(t)
  PROVE  HandleInv'
<1> USE DEF HandleInv
<1> DEFINE fd == Lowest(NewDescriptors)
           h  == request[t].h
<1>1. /\ request[t] \in Requests /\ h \in Handles /\ request[t].sys \in Sole
      /\ pc[t] = "call" /\ request[t] # None
  BY DEF OpenDone, Call, Asking, Sole, TypeInv, TypeOK
<1>2. Opened(request[t]) \in Objects \cup {RootDir}
  BY <1>1, OpenedTyped DEF OpenDone, TypeInv, TypeOK
<1>3. Descriptor(Opened(request[t]), request[t].sys = "opendir") \in OpenFiles
  BY <1>2, DescriptorTyped
<1>4. Open' = Open \cup {fd} /\ fd \notin Open
  BY <1>3, NewOpen DEF OpenDone
<1>5. fd \in Descriptors
  BY NewDescriptor DEF OpenDone, TypeInv
<1>6. /\ pc' = [pc EXCEPT ![t] = "done"] /\ fh' = [fh EXCEPT ![h] = fd] /\ request' = request
  BY DEF OpenDone, Return, Goto
<1>7. \A u \in Threads : u # t => pc'[u] = pc[u] /\ retstat'[u] = retstat[u]
  BY OthersKeep DEF Step
<1>8. pc'[t] = "done"
  BY <1>6 DEF TypeInv, TypeOK
<1>9. fh'[h] = fd /\ \A g \in Handles : g # h => fh'[g] = fh[g]
  BY <1>1, <1>6 DEF TypeInv, TypeOK
<1>10. fh[h] = Null
  BY <1>1 DEF OpenedOnce, OpenDone, Call
<1>11. \A u \in Threads : request[u] # None /\ request[u].h = h => u = t
  BY <1>1 DEF SoleUser
<1> HIDE DEF fd, h
<1>12. \A u \in Threads : pc'[u] \in {"call", "fill"} =>
         pc[u] = pc'[u] /\ u # t /\ request[u] # None /\ request[u].h # h
  BY <1>7, <1>8, <1>11 DEF TypeInv, Asking
<1>13. \A u \in Threads : request[u] # None => request[u].h \in Handles \cup {None}
  BY DEF TypeInv, TypeOK, Requests
<1>14. OpenedOnce'
  <2> SUFFICES ASSUME NEW u \in Threads, pc'[u] = "call", request[u].sys \in {"open", "opendir"}
               PROVE  fh'[request[u].h] = Null
    BY <1>6 DEF OpenedOnce
  <2>1. request[u].h \in Handles /\ request[u].h # h /\ fh[request[u].h] = Null
    BY <1>12 DEF TypeInv, Asking, Sole, OpenedOnce
  <2> QED  BY <1>9, <2>1
<1>15. UsedOpen'
  <2> SUFFICES ASSUME NEW u \in Threads, pc'[u] \in {"call", "fill"}, request[u].h # None,
                      request[u].sys \notin {"open", "opendir"}
               PROVE  fh'[request[u].h] \in Open'
    BY <1>6 DEF UsedOpen
  <2>1. request[u].h \in Handles /\ request[u].h # h
    BY <1>12, <1>13
  <2>2. fh[request[u].h] \in Open
    BY <1>12 DEF UsedOpen
  <2> QED  BY <1>4, <1>9, <2>1, <2>2
<1>16. SoleUser'
  BY <1>6 DEF SoleUser
<1>17. HeldOpen'
  BY <1>4, <1>7, <1>8, <1>9 DEF HeldOpen, Holds
<1>18. HeldAlone'
  BY <1>4, <1>5, <1>7, <1>8, <1>9 DEF HeldAlone, HeldOpen, Holds
<1>19. AllHeld'
  <2> SUFFICES ASSUME NEW d \in Open \cup {fd}
               PROVE  \/ \E g \in Handles : fh'[g] = d
                      \/ \E u \in Threads : pc'[u] = "close" /\ retstat'[u] = d
    BY <1>4 DEF AllHeld, Holds
  <2>1. CASE d = fd
    BY <1>1, <1>9, <2>1 DEF h
  <2>2. CASE \E g \in Handles : fh[g] = d /\ d \in Open
    <3>1. Null \notin Open
      BY DEF Open, Descriptors, Null
    <3> QED  BY <1>9, <1>10, <2>2, <3>1
  <2>3. CASE \E u \in Threads : pc[u] = "close" /\ retstat[u] = d
    BY <1>1, <1>7, <2>3
  <2> QED  BY <2>1, <2>2, <2>3 DEF AllHeld, Holds
<1> QED  BY <1>14, <1>15, <1>16, <1>17, <1>18, <1>19

LEMMA OpenFailsHandles ==
  ASSUME TypeInv, HandleInv, NEW t \in Threads, OpenFails(t)
  PROVE  HandleInv'
<1> USE DEF HandleInv
<1> DEFINE h == request[t].h
<1>1. /\ h \in Handles /\ request[t].sys \in Sole /\ pc[t] = "call" /\ request[t] # None
  BY DEF OpenFails, Call, Asking, Sole, TypeInv
<1>2. PICK e, results :
        /\ e \in {EIO, EMFILE}
        /\ retstat'[t] \in {-e, -ENOSPC}
        /\ fh' = [fh EXCEPT ![h] = retstat'[t]] \/ fh' = fh
        /\ Return(t, results)
  BY OpenFailsWith
<1>3. fh[h] = Null
  BY <1>1 DEF OpenedOnce, OpenFails, Call
<1>4. /\ \A g \in Handles : g # h => fh'[g] = fh[g]
      /\ fh'[h] \notin Descriptors
  BY <1>1, <1>2, <1>3 DEF TypeInv, TypeOK, Descriptors, EIO, EMFILE, ENOSPC, Null
<1>5. Open' = Open /\ request' = request /\ pc' = [pc EXCEPT ![t] = "done"]
  BY <1>2 DEF OpenFails, Return, Goto, Open
<1>6. \A u \in Threads : u # t => pc'[u] = pc[u] /\ retstat'[u] = retstat[u]
  BY OthersKeep DEF Step
<1>7. pc'[t] = "done"
  BY <1>5 DEF TypeInv, TypeOK
<1>8. \A u \in Threads : request[u] # None /\ request[u].h = h => u = t
  BY <1>1 DEF SoleUser
<1> HIDE DEF h
<1>9. \A u \in Threads : pc'[u] \in {"call", "fill"} =>
        pc[u] = pc'[u] /\ u # t /\ request[u] # None /\ request[u].h # h
  BY <1>6, <1>7, <1>8 DEF TypeInv, Asking
<1>10. \A u \in Threads : request[u] # None => request[u].h \in Handles \cup {None}
  BY DEF TypeInv, TypeOK, Requests
<1>11. OpenedOnce'
  <2> SUFFICES ASSUME NEW u \in Threads, pc'[u] = "call", request[u].sys \in {"open", "opendir"}
               PROVE  fh'[request[u].h] = Null
    BY <1>5 DEF OpenedOnce
  <2>1. request[u].h \in Handles /\ request[u].h # h /\ fh[request[u].h] = Null
    BY <1>9 DEF TypeInv, Asking, Sole, OpenedOnce
  <2> QED  BY <1>4, <2>1
<1>12. UsedOpen'
  <2> SUFFICES ASSUME NEW u \in Threads, pc'[u] \in {"call", "fill"}, request[u].h # None,
                      request[u].sys \notin {"open", "opendir"}
               PROVE  fh'[request[u].h] \in Open
    BY <1>5 DEF UsedOpen
  <2>1. request[u].h \in Handles /\ request[u].h # h
    BY <1>9, <1>10
  <2>2. fh[request[u].h] \in Open
    BY <1>9 DEF UsedOpen
  <2> QED  BY <1>4, <2>1, <2>2
<1>13. SoleUser'
  BY <1>5 DEF SoleUser
<1>14. HeldOpen'
  BY <1>4, <1>5, <1>6, <1>7 DEF HeldOpen, Holds
<1>15. Open \subseteq Descriptors
  BY DEF Open
<1>16. HeldAlone'
  BY <1>4, <1>5, <1>6, <1>7, <1>15 DEF HeldAlone, HeldOpen, Holds
<1>17. AllHeld'
  <2> SUFFICES ASSUME NEW d \in Open
               PROVE  \/ \E g \in Handles : fh'[g] = d
                      \/ \E u \in Threads : pc'[u] = "close" /\ retstat'[u] = d
    BY <1>5 DEF AllHeld, Holds
  <2>1. CASE \E g \in Handles : fh[g] = d
    <3>1. Null \notin Open
      BY DEF Open, Descriptors, Null
    <3> QED  BY <1>3, <1>4, <2>1, <3>1
  <2>2. CASE \E u \in Threads : pc[u] = "close" /\ retstat[u] = d
    BY <1>1, <1>6, <2>2
  <2> QED  BY <2>1, <2>2 DEF AllHeld, Holds
<1> QED  BY <1>11, <1>12, <1>13, <1>14, <1>16, <1>17

LEMMA ReleaseDoneHandles ==
  ASSUME TypeInv, HandleInv, NEW t \in Threads, ReleaseDone(t)
  PROVE  HandleInv'
<1> USE DEF HandleInv
<1> DEFINE h  == request[t].h
           fd == fh[h]
<1>1. /\ h \in Handles /\ request[t].sys \in Sole /\ pc[t] = "call" /\ request[t] # None
      /\ request[t].sys = "close"
  BY DEF ReleaseDone, Call, Asking, Sole, TypeInv
<1>2. fd \in Open
  BY <1>1, BBFSAssumption DEF UsedOpen
<1>3. fd \in Descriptors /\ Null \notin Descriptors
  BY <1>2 DEF Open, Descriptors, Null
<1>4. Open' = Open \ {fd}
  BY <1>3, Closed DEF ReleaseDone
<1>5. fh' = [fh EXCEPT ![h] = Null] /\ request' = request /\ pc' = [pc EXCEPT ![t] = "done"]
  BY DEF ReleaseDone, Return, Goto
<1>6. \A u \in Threads : u # t => pc'[u] = pc[u] /\ retstat'[u] = retstat[u]
  BY OthersKeep DEF Step
<1>7. pc'[t] = "done"
  BY <1>5 DEF TypeInv, TypeOK
<1>8. /\ \A g \in Handles : g # h => fh'[g] = fh[g] /\ fh[g] # fd
      /\ fh'[h] = Null
  BY <1>1, <1>3, <1>5 DEF HeldAlone, TypeInv, TypeOK
<1>9. \A u \in Threads : request[u] # None /\ request[u].h = h => u = t
  BY <1>1 DEF SoleUser
<1> HIDE DEF h, fd
<1>10. \A u \in Threads : pc'[u] \in {"call", "fill"} =>
         pc[u] = pc'[u] /\ u # t /\ request[u] # None /\ request[u].h # h
  BY <1>6, <1>7, <1>9 DEF TypeInv, Asking
<1>11. \A u \in Threads : request[u] # None => request[u].h \in Handles \cup {None}
  BY DEF TypeInv, TypeOK, Requests
<1>12. OpenedOnce'
  <2> SUFFICES ASSUME NEW u \in Threads, pc'[u] = "call", request[u].sys \in {"open", "opendir"}
               PROVE  fh'[request[u].h] = Null
    BY <1>5 DEF OpenedOnce
  <2>1. request[u].h \in Handles /\ request[u].h # h /\ fh[request[u].h] = Null
    BY <1>10 DEF TypeInv, Asking, Sole, OpenedOnce
  <2> QED  BY <1>8, <2>1
<1>13. UsedOpen'
  <2> SUFFICES ASSUME NEW u \in Threads, pc'[u] \in {"call", "fill"}, request[u].h # None,
                      request[u].sys \notin {"open", "opendir"}
               PROVE  fh'[request[u].h] \in Open \ {fd}
    BY <1>4, <1>5 DEF UsedOpen
  <2>1. request[u].h \in Handles /\ request[u].h # h
    BY <1>10, <1>11
  <2>2. fh[request[u].h] \in Open
    BY <1>10 DEF UsedOpen
  <2> QED  BY <1>8, <2>1, <2>2
<1>14. SoleUser'
  BY <1>5 DEF SoleUser
<1>15. \A u \in Threads : Holds(u) => retstat[u] # fd
  BY <1>1 DEF HeldAlone, h, fd
<1>16. HeldOpen'
  BY <1>3, <1>4, <1>6, <1>7, <1>8, <1>15 DEF HeldOpen, Holds
<1>17. HeldAlone'
  <2>1. \A u \in Threads : Holds(u) => retstat[u] \in Descriptors
    BY DEF HeldOpen, Open
  <2> QED  BY <1>3, <1>6, <1>7, <1>8, <2>1 DEF HeldAlone, Holds
<1>18. AllHeld'
  <2> SUFFICES ASSUME NEW d \in Open, d # fd
               PROVE  \/ \E g \in Handles : fh'[g] = d
                      \/ \E u \in Threads : pc'[u] = "close" /\ retstat'[u] = d
    BY <1>4 DEF AllHeld, Holds
  <2>1. CASE \E g \in Handles : fh[g] = d
    BY <1>8, <2>1 DEF fd
  <2>2. CASE \E u \in Threads : pc[u] = "close" /\ retstat[u] = d
    BY <1>1, <1>6, <2>2
  <2> QED  BY <2>1, <2>2 DEF AllHeld, Holds
<1> QED  BY <1>12, <1>13, <1>14, <1>16, <1>17, <1>18

LEMMA ReplyHandles ==
  ASSUME TypeInv, HandleInv, NEW t \in Threads, Reply(t)
  PROVE  HandleInv'
<1> USE DEF HandleInv
<1>1. /\ pc[t] = "done" /\ pc' = [pc EXCEPT ![t] = "idle"] /\ Open' = Open
      /\ request' = [request EXCEPT ![t] = None]
  BY DEF Reply, Goto, Open
<1>2. \A g \in Handles : /\ fh[g] \in Descriptors => fh'[g] = fh[g]
                         /\ fh[g] = Null => fh'[g] = Null
                         /\ fh'[g] \in {fh[g], Null}
  BY DEF Reply
<1>3. \A u \in Threads : u # t => /\ pc'[u] = pc[u] /\ retstat'[u] = retstat[u]
                                 /\ request'[u] = request[u]
  BY OthersKeep DEF Step
<1>4. pc'[t] = "idle" /\ request'[t] = None
  BY <1>1 DEF TypeInv, TypeOK
<1>5. Null \notin Descriptors /\ Open \subseteq Descriptors
  BY DEF Open, Descriptors, Null
<1>6. \A u \in Threads : pc'[u] \in {"call", "fill"} =>
        u # t /\ pc[u] = pc'[u] /\ request[u] # None
  BY <1>3, <1>4 DEF TypeInv, Asking
<1>7. \A u \in Threads : request[u] # None => request[u].h \in Handles \cup {None}
  BY DEF TypeInv, TypeOK, Requests
<1>8. OpenedOnce'
  <2> SUFFICES ASSUME NEW u \in Threads, pc'[u] = "call", request'[u].sys \in {"open", "opendir"}
               PROVE  fh'[request'[u].h] = Null
    BY DEF OpenedOnce
  <2>1. request'[u] = request[u] /\ pc[u] = "call" /\ request[u] # None
    BY <1>3, <1>6
  <2>2. request[u].h \in Handles /\ fh[request[u].h] = Null
    BY <2>1 DEF TypeInv, Asking, Sole, OpenedOnce
  <2> QED  BY <1>2, <2>1, <2>2
<1>9. UsedOpen'
  <2> SUFFICES ASSUME NEW u \in Threads, pc'[u] \in {"call", "fill"}, request'[u].h # None,
                      request'[u].sys \notin {"open", "opendir"}
               PROVE  fh'[request'[u].h] \in Open
    BY <1>1 DEF UsedOpen
  <2>1. request'[u] = request[u] /\ pc[u] = pc'[u] /\ request[u] # None
    BY <1>3, <1>6
  <2>2. request[u].h \in Handles /\ fh[request[u].h] \in Open
    BY <1>7, <2>1 DEF UsedOpen
  <2> QED  BY <1>2, <1>5, <2>1, <2>2
<1>10. SoleUser'
  BY <1>3, <1>4 DEF SoleUser
<1>11. HeldOpen'
  BY <1>1, <1>2, <1>3, <1>4, <1>5 DEF HeldOpen, Holds
<1>12. \A u \in Threads : Holds(u) => retstat[u] \in Descriptors
  BY <1>5 DEF HeldOpen
<1>13. HeldAlone'
  BY <1>2, <1>3, <1>4, <1>5, <1>12 DEF HeldAlone, Holds
<1>14. AllHeld'
  <2> SUFFICES ASSUME NEW d \in Open
               PROVE  \/ \E g \in Handles : fh'[g] = d
                      \/ \E u \in Threads : pc'[u] = "close" /\ retstat'[u] = d
    BY <1>1 DEF AllHeld, Holds
  <2>1. CASE \E g \in Handles : fh[g] = d
    BY <1>2, <1>5, <2>1
  <2>2. CASE \E u \in Threads : pc[u] = "close" /\ retstat[u] = d
    BY <1>1, <1>3, <2>2
  <2> QED  BY <2>1, <2>2 DEF AllHeld, Holds
<1> QED  BY <1>8, <1>9, <1>10, <1>11, <1>13, <1>14

\* Every step keeps each descriptor with its owner.
LEMMA HandleStep ==
  ASSUME TypeInv, HandleInv, [Next]_vars
  PROVE  HandleInv'
<1>1. ASSUME NEW t \in Threads, Begin(t) \/ Step(t)
      PROVE  HandleInv'
  BY <1>1, BeginHandles, QuietSteps, MknodHandles, MknodCloseHandles, OpenDoneHandles,
     OpenFailsHandles, ReleaseDoneHandles, ReplyHandles
  DEF Step
<1>2. CASE UNCHANGED vars
  BY <1>2
  DEF vars, HandleInv, OpenedOnce, UsedOpen, SoleUser, HeldOpen, HeldAlone, AllHeld, Holds, Open
<1> QED  BY <1>1, <1>2 DEF Next

LEMMA HandleInit ==
  ASSUME Init
  PROVE  HandleInv
<1>1. \A t \in Threads : pc[t] = "idle" /\ request[t] = None
  BY DEF Init
<1>2. \A h \in Handles : fh[h] \notin Descriptors
  BY DEF Init, Descriptors, Null
<1>3. Open = {}
  BY DEF Init, Open
<1> QED
  BY <1>1, <1>2, <1>3
  DEF HandleInv, OpenedOnce, UsedOpen, SoleUser, HeldOpen, HeldAlone, AllHeld, Holds

\* A descriptor that is held alone has one owner, any other has none.
LEMMA HeldIsOwned ==
  ASSUME HandleInv
  PROVE  DescriptorsOwned
<1> SUFFICES ASSUME NEW d \in Descriptors
             PROVE  Cardinality(Owners(d)) = IF d \in Open THEN 1 ELSE 0
  BY DEF DescriptorsOwned
<1> USE DEF HandleInv
<1>1. CASE d \in Open
  <2>1. CASE \E h \in Handles : fh[h] = d
    <3>1. PICK h \in Handles : fh[h] = d
      BY <2>1
    <3>2. Owners(d) = {h}
      BY <3>1 DEF Owners, HeldAlone, Holds
    <3> QED  BY <1>1, <3>2, FS_Singleton
  <2>2. CASE \E t \in Threads : Holds(t) /\ retstat[t] = d
    <3>1. PICK t \in Threads : Holds(t) /\ retstat[t] = d
      BY <2>2
    <3>2. Owners(d) = {t}
      BY <3>1 DEF Owners, HeldAlone, Holds
    <3> QED  BY <1>1, <3>2, FS_Singleton
  <2> QED  BY <1>1, <2>1, <2>2 DEF AllHeld
<1>2. CASE d \notin Open
  <2>1. Owners(d) = {}
    BY <1>2 DEF Owners, HeldOpen, Holds
  <2> QED  BY <1>2, <2>1, FS_EmptySet
<1> QED  BY <1>1, <1>2

-----------------------------------------------------------------------------
(* Listings *)

\* What is gone of a stream, and what is noted as changed.
Noticed(d) ==
  \E C : unread'[d] = unread[d] \ C /\ changed'[d] = changed[d] \cup C

\* Nobody else reads, opens or closes the stream a thread is listing; at most the
\* directory changes.
LEMMA OtherStreams ==
  ASSUME TypeInv, HandleInv, ListInv, NEW t \in Threads, NEW u \in Threads, u # t,
         Lists(u), Begin(t) \/ Step(t)
  PROVE  /\ fh'[request[u].h] = fh[request[u].h] /\ fds'[StreamOf(u)] = fds[StreamOf(u)]
         /\ Noticed(StreamOf(u))
<1> USE DEF HandleInv
<1> DEFINE h  == request[u].h
           fd == fh[h]
<1>1. /\ h \in Handles /\ fd \in Open /\ fd \in Descriptors /\ fds[fd].stream
      /\ request[u] # None
  BY DEF ListInv, ListsStream, Stream, Lists, Open, TypeInv, Asking
<1>2. \A g \in Handles : fh[g] = fd => g = h
  BY <1>1 DEF HeldAlone
<1>3. request[t] # None => request[t].h # h
  BY <1>1, BBFSAssumption DEF ListInv, OnStreamAlone
<1>4. request[t] # None => request[t].h \in Handles \cup {None}
  BY DEF TypeInv, TypeOK, Requests
<1>5. unread \in [Descriptors -> SUBSET Entries] /\ changed \in [Descriptors -> SUBSET Entries]
  BY DEF TypeInv, TypeOK, StreamsOK
<1>6. UNCHANGED streams => Noticed(fd)
  <2>1. unread[fd] = unread[fd] \ {} /\ changed[fd] = changed[fd] \cup {}
    OBVIOUS
  <2> QED  BY <2>1 DEF Noticed, streams
<1>7. unread'[fd] = unread[fd] /\ changed'[fd] = changed[fd] => Noticed(fd)
  <2>1. unread[fd] = unread[fd] \ {} /\ changed[fd] = changed[fd] \cup {}
    OBVIOUS
  <2> QED  BY <2>1 DEF Noticed
<1>8. Notice => Noticed(fd)
  <2>1. SUFFICES ASSUME Notice
                 PROVE  /\ unread'[fd] = unread[fd] \ Changed(fd)
                        /\ changed'[fd] = changed[fd] \cup Changed(fd)
    BY DEF Noticed
  <2> HIDE DEF fd
  <2> QED  BY <1>1, <2>1 DEF Notice
<1> SUFFICES fds'[fd] = fds[fd] /\ fh'[h] = fd /\ Noticed(fd)
  OBVIOUS
<1> HIDE DEF h, fd
<1>9. CASE Begin(t)
  BY <1>6, <1>9 DEF Begin, fd
<1>10. CASE OnPathDone(t)
  BY <1>8, <1>10 DEF OnPathDone, fd
<1>11. CASE OnFileDone(t) \/ NothingDone(t) \/ CallFails(t)
  BY <1>6, <1>11 DEF OnFileDone, NothingDone, CallFails, fd
<1>12. CASE Mknod(t)
  <2>1. fds[Lowest(NewDescriptors)] = None
    BY <1>12, NewDescriptor DEF Mknod, TypeInv
  <2>2. fds[fd] # None
    BY <1>1 DEF Open
  <2> QED  BY <1>1, <1>8, <1>12, <2>1, <2>2 DEF Mknod, TypeInv, TypeOK, fd
<1>13. CASE MknodClose(t)
  <2>1. retstat[t] # fd
    BY <1>1, <1>13 DEF HeldAlone, Holds, MknodClose, fd
  <2> QED  BY <1>1, <1>6, <1>13, <2>1 DEF MknodClose, TypeInv, TypeOK, fd
<1>14. CASE OpenDone(t)
  <2>1. fds[Lowest(NewDescriptors)] = None
    BY <1>14, NewDescriptor DEF OpenDone, TypeInv
  <2>2. fds[fd] # None /\ Lowest(NewDescriptors) # fd
    BY <1>1, <2>1 DEF Open
  <2>3. request[t].h # h
    BY <1>3, <1>14 DEF OpenDone, Call, TypeInv, Asking
  <2>4. unread'[fd] = unread[fd] /\ changed'[fd] = changed[fd]
    BY <1>1, <1>5, <1>14, <2>2 DEF OpenDone
  <2>5. fds'[fd] = fds[fd] /\ fh'[h] = fd
    BY <1>1, <1>14, <2>2, <2>3 DEF OpenDone, TypeInv, TypeOK, fd
  <2> QED  BY <1>7, <2>4, <2>5
<1>15. CASE OpenFails(t)
  <2>1. request[t].h # h
    BY <1>3, <1>15 DEF OpenFails, Call, TypeInv, Asking
  <2> QED  BY <1>1, <1>6, <1>15, <2>1 DEF OpenFails, TypeInv, TypeOK, fd
<1>16. CASE ReleaseDone(t)
  <2>1. request[t].h # h /\ request[t].h \in Handles
    BY <1>3, <1>16 DEF ReleaseDone, Call, TypeInv, Asking, Sole
  <2>2. fh[request[t].h] # fd
    BY <1>2, <2>1
  <2>3. unread'[fd] = unread[fd] /\ changed'[fd] = changed[fd]
    BY <1>1, <1>5, <1>16, <2>2 DEF ReleaseDone
  <2>4. fds'[fd] = fds[fd] /\ fh'[h] = fd
    BY <1>1, <1>16, <2>1, <2>2 DEF ReleaseDone, TypeInv, TypeOK, fd
  <2> QED  BY <1>7, <2>3, <2>4
<1>17. CASE ReaddirFirst(t) \/ ReaddirNull(t) \/ ReaddirFill(t)
  <2>1. /\ fds' = fds /\ fh' = fh /\ changed' = changed /\ (Reads(t) \/ unread' = unread)
        /\ pc[t] \in {"call", "fill"} /\ request[t].sys = "readdir"
    BY <1>17, ListingReads DEF TypeInv, Asking
  <2>2. request[t].h # h /\ request[t].h \in Handles /\ StreamOf(t) \in Descriptors
    BY <1>3, <2>1, StreamTyped DEF TypeInv, Asking
  <2>3. StreamOf(t) # fd
    BY <1>2, <2>2
  <2>4. unread'[fd] = unread[fd]
    BY <1>1, <2>1, <2>2, <2>3, ReadsTyped DEF TypeInv
  <2> QED  BY <1>7, <2>1, <2>4 DEF fd
<1>18. CASE Reply(t)
  BY <1>1, <1>6, <1>18 DEF Reply, fd
<1> QED
  BY <1>9, <1>10, <1>11, <1>12, <1>13, <1>14, <1>15, <1>16, <1>17, <1>18 DEF Step

\* An open handle that one thread does not have to itself has been open before, for
\* the same thing.
LEMMA OldStream ==
  ASSUME TypeInv, HandleInv, NEW t \in Threads, Begin(t) \/ Step(t),
         NEW h \in Handles, fh'[h] \in Open'
  PROVE  \/ fh[h] = fh'[h] /\ fh[h] \in Open /\ fds'[fh[h]].stream = fds[fh[h]].stream
         \/ \A u \in Threads : request[u] # None /\ request[u].h = h => u = t
<1> USE DEF HandleInv
<1> DEFINE fd == fh[h]
<1>1. CASE Begin(t)
  BY <1>1 DEF Begin, Open
<1>2. CASE OnPathDone(t) \/ OnFileDone(t) \/ NothingDone(t) \/ CallFails(t) \/ ReaddirNull(t)
  BY <1>2 DEF OnPathDone, OnFileDone, NothingDone, CallFails, ReaddirNull, Open
<1>3. CASE Mknod(t)
  <2>1. fh'[h] = fd /\ fd \in Descriptors
    BY <1>3 DEF Mknod, Open
  <2>2. fd \in Open
    BY <2>1 DEF HeldOpen
  <2>3. fds[Lowest(NewDescriptors)] = None /\ fds[fd] # None
    BY <1>3, <2>2, NewDescriptor DEF Mknod, TypeInv, Open
  <2> QED  BY <1>3, <2>1, <2>2, <2>3 DEF Mknod, TypeInv, TypeOK
<1>4. CASE MknodClose(t)
  <2>1. fh'[h] = fd /\ fd \in Descriptors
    BY <1>4 DEF MknodClose, Open
  <2>2. fd \in Open
    BY <2>1 DEF HeldOpen
  <2>3. fd # retstat[t]
    BY <1>4 DEF HeldAlone, Holds, MknodClose
  <2> QED  BY <1>4, <2>1, <2>2, <2>3 DEF MknodClose, TypeInv, TypeOK
<1>5. CASE OpenDone(t) \/ OpenFails(t) \/ ReleaseDone(t)
  <2>1. request[t] # None /\ request[t].sys \in Sole
    BY <1>5 DEF OpenDone, OpenFails, ReleaseDone, Call, Sole, TypeInv, Asking
  <2>2. CASE request[t].h = h
    BY <2>1, <2>2 DEF SoleUser
  <2>3. CASE request[t].h # h
    <3>1. fh'[h] = fd
      BY <1>5, <2>3 DEF OpenDone, OpenFails, ReleaseDone, TypeInv, TypeOK
    <3>2. fd \in Descriptors
      BY <3>1 DEF Open
    <3>3. fd \in Open
      BY <3>2 DEF HeldOpen
    <3>4. CASE OpenDone(t)
      <4>1. fds[Lowest(NewDescriptors)] = None /\ fds[fd] # None
        BY <3>3, <3>4, NewDescriptor DEF OpenDone, TypeInv, Open
      <4> QED  BY <3>1, <3>2, <3>3, <3>4, <4>1 DEF OpenDone, TypeInv, TypeOK
    <3>5. CASE OpenFails(t)
      BY <3>1, <3>3, <3>5 DEF OpenFails
    <3>6. CASE ReleaseDone(t)
      <4>1. request[t].h \in Handles
        BY <2>1 DEF TypeInv, Asking
      <4>2. fh[request[t].h] # fd
        BY <2>3, <3>2, <4>1 DEF HeldAlone
      <4> QED  BY <3>1, <3>2, <3>3, <3>6, <4>2 DEF ReleaseDone, TypeInv, TypeOK
    <3> QED  BY <1>5, <3>4, <3>5, <3>6
  <2> QED  BY <2>2, <2>3
<1>6. CASE ReaddirFirst(t) \/ ReaddirFill(t)
  BY <1>6, ListingReads DEF Open
<1>7. CASE Reply(t)
  <2>1. Null \notin Descriptors
    BY DEF Descriptors, Null
  <2> QED  BY <1>7, <2>1 DEF Reply, Open
<1> QED  BY <1>1, <1>2, <1>3, <1>4, <1>5, <1>6, <1>7 DEF Step

LEMMA AloneStep ==
  ASSUME TypeInv, HandleInv, ListInv, NEW t \in Threads, Begin(t) \/ Step(t)
  PROVE  OnStreamAlone'
<1> SUFFICES ASSUME NEW u \in Threads, NEW v \in Threads, u # v,
                    request'[u] # None, request'[v] # None, request'[u].h = request'[v].h,
                    request'[u].h # None, fh'[request'[u].h] \in Open',
                    fds'[fh'[request'[u].h]].stream
             PROVE  FALSE
  BY DEF OnStreamAlone
<1> DEFINE h == request'[u].h
<1>1. CASE Begin(t)
  <2>1. PICK r \in Calls : request' = [request EXCEPT ![t] = r]
    BY <1>1 DEF Begin
  <2>2. Asked(r)
    BY CallsAsked
  <2>3. /\ request'[t] = r /\ request[t] = None
        /\ \A w \in Threads : w # t => request'[w] = request[w]
    BY <1>1, <2>1 DEF Begin, TypeInv, TypeOK, Asking
  <2>4. fh' = fh /\ fds' = fds /\ Open' = Open
    BY <1>1 DEF Begin, Open
  <2>5. ASSUME NEW w \in Threads, w # t, request[w] # None, request[w].h = r.h, r.h # None
        PROVE  fds[fh[r.h]].stream = FALSE
    <3>1. w \in Users(r.h)
      BY <2>5 DEF Users
    <3> QED  BY <2>2, <2>5, <3>1 DEF Asked, Unused, Sole
  <2>6. CASE u = t
    BY <2>3, <2>4, <2>5, <2>6
  <2>7. CASE v = t
    BY <2>3, <2>4, <2>5, <2>7
  <2>8. CASE u # t /\ v # t
    BY <2>3, <2>4, <2>8 DEF ListInv, OnStreamAlone
  <2> QED  BY <2>6, <2>7, <2>8
<1>2. CASE Step(t)
  <2>1. \A w \in Threads : request'[w] # None => request'[w] = request[w]
    <3>1. CASE Reply(t)
      BY <3>1 DEF Reply, TypeInv, TypeOK
    <3>2. CASE ~Reply(t)
      <4>1. request' = request
        BY <1>2, <3>2, FillCases
        DEF Step, OnPathDone, OnFileDone, NothingDone, CallFails, Mknod, MknodClose, OpenDone,
            OpenFails, ReleaseDone, ReaddirFirst, ReaddirNull
      <4> QED  BY <4>1
    <3> QED  BY <3>1, <3>2
  <2>2. request[u] # None /\ request[v] # None /\ request[u].h = h /\ request[v].h = h
    BY <2>1
  <2>3. h \in Handles
    BY <2>2 DEF TypeInv, TypeOK, Requests
  <2>4. fh[h] = fh'[h] /\ fh[h] \in Open /\ fds'[fh[h]].stream = fds[fh[h]].stream
    BY <1>2, <2>2, <2>3, OldStream
  <2> QED  BY <2>2, <2>4 DEF ListInv, OnStreamAlone
<1> QED  BY <1>1, <1>2

LEMMA FirstListed ==
  ASSUME TypeInv, HandleInv, ListInv, NEW t \in Threads, ReaddirFirst(t)
  PROVE  ListingOK(t)'
<1>1. /\ pc[t] = "call" /\ request[t].sys = "readdir" /\ fh' = fh /\ request' = request
      /\ listed' = listed /\ listed[t] = {} /\ changed' = changed /\ pc'[t] = "fill"
  BY DEF ReaddirFirst, Call, Goto, ListInv, Listing, ListingOK, TypeInv, TypeOK
<1>2. StreamOf(t) \in Descriptors /\ StreamOf(t)' = StreamOf(t) /\ request[t] # None
  BY <1>1, StreamTyped DEF HandleInv, TypeInv, Asking
<1>3. content'[t] = unread[StreamOf(t)]
  BY DEF ReaddirFirst, TypeInv, TypeOK
<1>4. \E n \in unread[StreamOf(t)] \cup changed[StreamOf(t)] :
        de'[t] = n /\ unread'[StreamOf(t)] = unread[StreamOf(t)] \ {n}
  BY <1>2, ReadsTyped DEF ReaddirFirst, TypeInv
<1>5. Covers(t)'
  <2> USE DEF Covers
  <2> DEFINE s == StreamOf(t)
  <2> SUFFICES /\ content'[t] \ changed[s] \subseteq listed[t] \cup {de'[t]} \cup unread'[s]
               /\ listed[t] \cup {de'[t]} \cup unread'[s] \subseteq content'[t] \cup changed[s]
    BY <1>1, <1>2
  <2> HIDE DEF s
  <2> QED  BY <1>1, <1>3, <1>4 DEF s
<1> QED  BY <1>1, <1>2, <1>5 DEF ListingOK, Lists

LEMMA FillListed ==
  ASSUME TypeInv, HandleInv, ListInv, NEW t \in Threads, ReaddirFill(t)
  PROVE  ListingOK(t)'
<1>1. /\ pc[t] = "fill" /\ request[t].sys = "readdir" /\ fh' = fh /\ request' = request
      /\ content' = content /\ changed' = changed /\ request[t] # None
  BY FillCases DEF TypeInv, Asking
<1>2. PICK e \in log_msg(errno[t]) :
        FillsOn(t, e) \/ FillsLast(t, e) \/ FillsThenFails(t) \/ NoRoom(t, e)
  BY FillCases
<1>3. StreamOf(t) \in Descriptors /\ StreamOf(t)' = StreamOf(t)
  BY <1>1, StreamTyped DEF HandleInv
<1> DEFINE s == StreamOf(t)
<1>4. /\ content[t] \ changed[s] \subseteq listed[t] \cup {de[t]} \cup unread[s]
      /\ listed[t] \cup {de[t]} \cup unread[s] \subseteq content[t] \cup changed[s]
  BY <1>1 DEF ListInv, Listing, ListingOK, Covers
<1>5. Lists(t)'
  BY <1>1 DEF Lists
<1> HIDE DEF s
<1>6. CASE FillsOn(t, e)
  <2>1. pc'[t] = "fill" /\ listed'[t] = listed[t] \cup {de[t]}
    BY <1>1, <1>6 DEF FillsOn, TypeInv, TypeOK
  <2>2. \E n \in unread[s] \cup changed[s] : de'[t] = n /\ unread'[s] = unread[s] \ {n}
    BY <1>3, <1>6, ReadsTyped DEF FillsOn, TypeInv, s
  <2>3. /\ content[t] \ changed[s] \subseteq listed'[t] \cup {de'[t]} \cup unread'[s]
        /\ listed'[t] \cup {de'[t]} \cup unread'[s] \subseteq content[t] \cup changed[s]
    BY <1>4, <2>1, <2>2
  <2>4. Covers(t)'
    BY <1>1, <1>3, <2>3 DEF Covers, s
  <2> QED  BY <1>5, <2>1, <2>4 DEF ListingOK
<1>7. CASE FillsLast(t, e)
  <2>1. pc'[t] = "done" /\ listed'[t] = listed[t] \cup {de[t]} /\ unread[s] = {}
    BY <1>7, Returned DEF FillsLast, TypeInv, TypeOK, s
  <2>2. /\ content[t] \ changed[s] \subseteq listed'[t]
        /\ listed'[t] \subseteq content[t] \cup changed[s]
    BY <1>4, <2>1
  <2>3. Covered(t)'
    BY <1>1, <1>3, <2>2 DEF Covered, s
  <2> QED  BY <1>5, <2>1, <2>3 DEF ListingOK
<1>8. CASE FillsThenFails(t)
  <2>1. pc'[t] = "done" /\ failed'[t] # 0
    BY <1>8, Returned DEF FillsThenFails, Fails, TypeInv, TypeOK, EIO
  <2> QED  BY <1>5, <2>1 DEF ListingOK
<1>9. CASE NoRoom(t, e)
  <2>1. pc'[t] = "done" /\ retstat'[t] = -ENOMEM
    BY <1>9, Returned DEF NoRoom
  <2> QED  BY <1>5, <2>1 DEF ListingOK, ENOMEM
<1> QED  BY <1>2, <1>6, <1>7, <1>8, <1>9

\* What a thread asks a stream for, it has open.
LEMMA OwnStream ==
  ASSUME TypeInv, HandleInv, ListInv, NEW t \in Threads, Begin(t) \/ Step(t), Lists(t)'
  PROVE  fh'[request'[t].h] \in Open' /\ Stream(t)'.stream
<1> USE DEF Lists
<1>1. CASE Begin(t)
  <2>1. PICK r \in Calls : request' = [request EXCEPT ![t] = r]
    BY <1>1 DEF Begin
  <2>2. Asked(r) /\ fh' = fh /\ fds' = fds /\ request'[t] = r /\ r.sys = "readdir"
    BY <1>1, <2>1, CallsAsked DEF Begin, TypeInv, TypeOK
  <2>3. fh[r.h] \in Open /\ fds[fh[r.h]].stream
    BY <2>2 DEF Asked
  <2> QED  BY <2>2, <2>3 DEF Stream, Open
<1>2. CASE ~Begin(t)
  <2>1. request' = request /\ request[t] # None /\ request[t].sys = "readdir"
    <3>1. ~Reply(t)
      BY DEF Reply, TypeInv, TypeOK
    <3>2. request' = request
      BY <1>2, <3>1, ListingReads
      DEF Step, OnPathDone, OnFileDone, NothingDone, CallFails, Mknod, MknodClose, OpenDone,
          OpenFails, ReleaseDone
    <3> QED  BY <3>2
  <2>2. fh[request[t].h] \in Open /\ Stream(t).stream
    BY <2>1 DEF ListInv, ListsStream
  <2>3. ~Mknod(t) /\ ~MknodClose(t) /\ ~OpenDone(t) /\ ~OpenFails(t) /\ ~ReleaseDone(t)
    BY <2>1 DEF Mknod, MknodClose, OpenDone, OpenFails, ReleaseDone, Call, MakesFile, TypeInv, Asking
  <2>4. fds' = fds /\ fh' = fh
    <3>1. ~Reply(t)
      BY <2>1 DEF Reply, TypeInv, TypeOK
    <3> QED
      BY <1>2, <2>3, <3>1, ListingReads
      DEF Step, OnPathDone, OnFileDone, NothingDone, CallFails
  <2> QED  BY <2>1, <2>2, <2>4 DEF Stream, Open
<1> QED  BY <1>1, <1>2

LEMMA OwnListed ==
  ASSUME TypeInv, HandleInv, ListInv, NEW t \in Threads, Begin(t) \/ Step(t)
  PROVE  ListingOK(t)'
<1> USE DEF TypeInv, TypeOK, ListInv, Listing, ListingOK
<1>1. CASE Begin(t)
  <2>1. pc'[t] = "call" /\ pc[t] = "idle" /\ UNCHANGED <<listed, content>>
    BY <1>1 DEF Begin, Goto, dirVars
  <2> QED  BY <2>1
<1>2. CASE OnPathDone(t) \/ OnFileDone(t) \/ NothingDone(t) \/ CallFails(t) \/ ReaddirNull(t)
           \/ MknodClose(t) \/ OpenDone(t) \/ OpenFails(t) \/ ReleaseDone(t)
  <2>1. pc[t] \notin {"fill", "done"} /\ pc'[t] = "done" /\ content' = content
    BY <1>2
    DEF OnPathDone, OnFileDone, NothingDone, CallFails, ReaddirNull, MknodClose, OpenDone,
        OpenFails, ReleaseDone, Call, Return, Goto, dirVars
  <2> QED  BY <2>1
<1>3. CASE Mknod(t)
  <2>1. pc[t] = "call" /\ pc'[t] = "close" /\ UNCHANGED <<listed, content>>
    BY <1>3 DEF Mknod, Goto, dirVars
  <2> QED  BY <2>1
<1>4. CASE ReaddirFirst(t)
  BY <1>4, FirstListed
<1>5. CASE ReaddirFill(t)
  BY <1>5, FillListed
<1>6. CASE Reply(t)
  BY <1>6 DEF Reply, Goto
<1> QED  BY <1>1, <1>2, <1>3, <1>4, <1>5, <1>6 DEF Step

\* Entries that others add and remove count as changed.
LEMMA OtherListed ==
  ASSUME TypeInv, HandleInv, ListInv, NEW t \in Threads, NEW u \in Threads, u # t,
         Begin(t) \/ Step(t)
  PROVE  ListingOK(u)'
<1>1. /\ pc'[u] = pc[u] /\ request'[u] = request[u] /\ retstat'[u] = retstat[u]
      /\ failed'[u] = failed[u] /\ de'[u] = de[u] /\ listed'[u] = listed[u]
      /\ content'[u] = content[u]
  BY OthersKeep
<1>2. Lists(u)' <=> Lists(u)
  BY <1>1 DEF Lists
<1>3. ListingOK(u)
  BY DEF ListInv, Listing
<1>4. ASSUME Lists(u), Covers(u) PROVE Covers(u)'
  <2> DEFINE s == StreamOf(u)
  <2>1. StreamOf(u)' = s
    BY <1>1, <1>4, OtherStreams
  <2>2. PICK C : unread'[s] = unread[s] \ C /\ changed'[s] = changed[s] \cup C
    BY <1>4, OtherStreams DEF Noticed
  <2>3. /\ content[u] \ changed[s] \subseteq listed[u] \cup {de[u]} \cup unread[s]
        /\ listed[u] \cup {de[u]} \cup unread[s] \subseteq content[u] \cup changed[s]
    BY <1>4 DEF Covers
  <2> HIDE DEF s
  <2>4. /\ content[u] \ changed'[s] \subseteq listed[u] \cup {de[u]} \cup unread'[s]
        /\ listed[u] \cup {de[u]} \cup unread'[s] \subseteq content[u] \cup changed'[s]
    BY <2>2, <2>3
  <2> QED  BY <1>1, <2>1, <2>4 DEF Covers
<1>5. ASSUME Lists(u), Covered(u) PROVE Covered(u)'
  <2> DEFINE s == StreamOf(u)
  <2>1. StreamOf(u)' = s
    BY <1>1, <1>5, OtherStreams
  <2>2. PICK C : changed'[s] = changed[s] \cup C
    BY <1>5, OtherStreams DEF Noticed
  <2>3. /\ content[u] \ changed[s] \subseteq listed[u]
        /\ listed[u] \subseteq content[u] \cup changed[s]
    BY <1>5 DEF Covered
  <2> HIDE DEF s
  <2>4. /\ content[u] \ changed'[s] \subseteq listed[u]
        /\ listed[u] \subseteq content[u] \cup changed'[s]
    BY <2>2, <2>3
  <2> QED  BY <1>1, <2>1, <2>4 DEF Covered
<1>6. pc[u] = "fill" => Lists(u)
  BY DEF TypeInv, Asking, Lists
<1> QED  BY <1>1, <1>2, <1>3, <1>4, <1>5, <1>6 DEF ListingOK

\* Every step keeps what listings have passed on and have yet to read.
LEMMA ListStep ==
  ASSUME TypeInv, HandleInv, ListInv, [Next]_vars
  PROVE  ListInv'
<1>1. ASSUME NEW t \in Threads, Begin(t) \/ Step(t)
      PROVE  ListInv'
  <2>1. Listing'
    BY <1>1, OwnListed, OtherListed DEF Listing
  <2>2. ASSUME NEW u \in Threads, u # t, Lists(u)'
        PROVE  fh'[request'[u].h] \in Open' /\ Stream(u)'.stream
    <3>1. request'[u] = request[u] /\ Lists(u)
      BY <1>1, <2>2, OthersKeep DEF Lists
    <3>2. StreamOf(u) \in Open /\ Stream(u).stream
      BY <3>1 DEF ListInv, ListsStream
    <3>3. fh'[request[u].h] = fh[request[u].h] /\ fds'[StreamOf(u)] = fds[StreamOf(u)]
      BY <1>1, <2>2, <3>1, OtherStreams
    <3> QED  BY <3>1, <3>2, <3>3 DEF Stream, Open
  <2>3. ListsStream'
    BY <1>1, <2>2, OwnStream DEF ListsStream
  <2> QED  BY <1>1, <2>1, <2>3, AloneStep DEF ListInv
<1>2. CASE UNCHANGED vars
  BY <1>2
  DEF vars, streams, dirVars, ListInv, OnStreamAlone, ListsStream, Listing, ListingOK, Lists,
      Covers, Covered, Stream, Open
<1> QED  BY <1>1, <1>2 DEF Next

-----------------------------------------------------------------------------
(* Theorems *)

Inv == TypeInv /\ ErrorInv /\ HandleInv /\ ListInv

LEMMA InvHolds == Spec => []Inv
<1>1. Init => Inv
  <2> SUFFICES ASSUME Init PROVE Inv
    OBVIOUS
  <2>1. TypeInv /\ HandleInv
    BY InitTyped, HandleInit
  <2>2. /\ \A t \in Threads : pc[t] = "idle" /\ request[t] = None /\ failed[t] = 0
        /\ \A t \in Threads : listed[t] = {} /\ content[t] = None
    BY DEF Init
  <2>3. ErrorInv /\ ListInv
    BY <2>2 DEF ErrorInv, ErrorOK, ListInv, OnStreamAlone, ListsStream, Listing, ListingOK, Lists
  <2> QED  BY <2>1, <2>3 DEF Inv
<1>2. Inv /\ [Next]_vars => Inv'
  BY StepTyped, ErrorStep, HandleStep, ListStep DEF Inv, HandleInv
<1> QED  BY <1>1, <1>2, PTL DEF Spec

\* Every variable keeps its type: no step leaves the descriptor table, an answer or
\* a listing in a state the callbacks do not expect.
THEOREM MountTypeCorrect == Spec => []TypeOK
<1>1. Inv => TypeOK  BY DEF Inv, TypeInv
<1> QED  BY <1>1, InvHolds, PTL

\* A callback answers with the error of its own system call, or that of logging it,
\* and with an error only if that call has failed (log_syscall, log_error).
THEOREM AnswersOwnError == Spec => []RepliesOwnError
<1>1. Inv => RepliesOwnError  BY DEF Inv, ErrorInv, ErrorOK, RepliesOwnError
<1> QED  BY <1>1, InvHolds, PTL

\* No descriptor is lost, shared or closed twice (bb_open, bb_opendir, bb_mknod and
\* the releases), whatever the size of the table.
THEOREM EachDescriptorOwned == Spec => []DescriptorsOwned
<1>1. Inv => DescriptorsOwned  BY HeldIsOwned DEF Inv
<1> QED  BY <1>1, InvHolds, PTL

\* A listing that succeeds passes on every entry that has been in the directory
\* since opendir and has not been listed before, and none that has not been there
\* since (bb_readdir), whatever other callbacks add and remove meanwhile.
THEOREM ListingComplete == Spec => []ListsAll
<1>1. Inv => ListsAll  BY DEF Inv, ListInv, Listing, ListingOK, Covered, ListsAll
<1> QED  BY <1>1, InvHolds, PTL

-----------------------------------------------------------------------------
(* The promise to users *)

\* Only the thread that makes a step gets an answer by it.
LEMMA AnswersOne ==
  ASSUME TypeInv, NEW t \in Threads, Begin(t) \/ Step(t)
  PROVE  Answered' = [Answered EXCEPT ![t] = Answer(t)']
<1>1. \A u \in Threads : u # t => Answer(u)' = Answer(u)
  BY OthersKeep DEF Answer
<1> QED  BY <1>1 DEF Answered

\* An answer by the place in the callback and its result.
LEMMA AnswerAt ==
  ASSUME TypeInv, NEW t \in Threads
  PROVE  /\ pc[t] \in {"idle", "call", "fill"} => Answer(t) = -2
         /\ pc[t] = "close" => Answer(t) = 0
         /\ pc[t] = "done" /\ retstat[t] < 0 => Answer(t) = -1
         /\ pc[t] = "done" /\ retstat[t] >= 0 => Answer(t) = retstat[t]
         /\ Answered[t] = Answer(t)
         /\ retstat[t] \in Int
<1>1. retstat[t] \in Int
  <2>1. retstat[t] \in Results
    BY DEF TypeInv, TypeOK
  <2>2. Descriptors \subseteq Int /\ Lengths \subseteq Int /\ Errnos \cup {ENOMEM} \subseteq Int
    BY ErrnosAreNat DEF Descriptors, Lengths, ENOMEM
  <2>3. CASE retstat[t] \in Descriptors \cup Lengths
    BY <2>2, <2>3
  <2>4. CASE retstat[t] \in {-e : e \in Errnos \cup {ENOMEM}}
    <3>1. PICK e \in Errnos \cup {ENOMEM} : retstat[t] = -e
      BY <2>4
    <3>2. e \in Int
      BY <2>2
    <3> QED  BY <3>1, <3>2
  <2> QED  BY <2>1, <2>3, <2>4 DEF Results
<1>2. Answered[t] = Answer(t)
  BY DEF Answered
<1>3. /\ pc[t] \in {"idle", "call", "fill"} => Answer(t) = -2
      /\ pc[t] = "close" => Answer(t) = 0
  BY DEF Answer
<1>4. /\ pc[t] = "done" /\ retstat[t] < 0 => Answer(t) = -1
      /\ pc[t] = "done" /\ retstat[t] >= 0 => Answer(t) = retstat[t]
  BY <1>1 DEF Answer
<1> QED  BY <1>1, <1>2, <1>3, <1>4

\* What a handle leads to.
LEMMA FileAt ==
  ASSUME TypeInv, NEW h \in Handles
  PROVE  /\ fh[h] \in Open => /\ Files[h] = fds[fh[h]].obj /\ Files[h] # None
                             /\ Files[h] \in InUse
         /\ fh[h] \notin Open => Files[h] = None
<1>1. fh[h] \in Open => fds[fh[h]].obj \in Objects \cup {RootDir} /\ fds[fh[h]].obj \in InUse
  BY DEF Open, InUse, TypeInv, TypeOK, OpenFiles
<1> QED  BY <1>1, HostFSAssumption DEF Files, File

LEMMA FilesInUse ==
  ASSUME TypeInv
  PROVE  Promise!InUse \subseteq InUse
<1> SUFFICES ASSUME NEW h \in Handles, Files[h] # None
             PROVE  Files[h] \in InUse
  BY DEF Promise!InUse
<1> QED  BY FileAt

LEMMA TreeSame == Promise!tree = tree
  BY DEF Promise!tree, tree

LEMMA PathCallSame ==
  ASSUME TypeInv, NEW r, PathCall(r, InUse)
  PROVE  Promise!PathCall(r, Promise!InUse)
<1> USE DEF Is, Free, Exists, Linked, tree, Promise!Is, Promise!Free, Promise!Exists, Promise!Linked,
            Promise!tree
<1>1. CASE Look(r)
  BY <1>1 DEF Look, Promise!PathCall, Promise!Look
<1>2. CASE Make(r, InUse)
  <2>1. Promise!Make(r, Promise!InUse)
    BY <1>2, FilesInUse DEF Make, Promise!Make
  <2> QED  BY <2>1 DEF Promise!PathCall
<1>3. CASE Unlink(r)
  BY <1>3 DEF Unlink, Promise!PathCall, Promise!Unlink
<1>4. CASE Rmdir(r)
  BY <1>4 DEF Rmdir, Promise!PathCall, Promise!Rmdir
<1>5. CASE Rename(r)
  BY <1>5 DEF Rename, Promise!PathCall, Promise!Rename
<1>6. CASE Link(r)
  BY <1>6 DEF Link, Promise!PathCall, Promise!Link
<1>7. CASE SetAttr(r)
  BY <1>7 DEF SetAttr, Promise!PathCall, Promise!SetAttr
<1>8. CASE Truncate(r)
  BY <1>8 DEF Truncate, Promise!PathCall, Promise!Truncate
<1> QED  BY <1>1, <1>2, <1>3, <1>4, <1>5, <1>6, <1>7, <1>8 DEF PathCall

LEMMA FileCallSame ==
  ASSUME NEW r, NEW o, NEW ret, FileCall(r, o, ret)
  PROVE  Promise!FileCall(r, o, ret)
<1> USE DEF tree, Promise!tree
<1>1. CASE Pread(r, o, ret)
  BY <1>1 DEF Pread, Promise!FileCall, Promise!Pread
<1>2. CASE Pwrite(r, o, ret)
  BY <1>2 DEF Pwrite, Promise!FileCall, Promise!Pwrite
<1>3. CASE Ftruncate(r, o, ret)
  BY <1>3 DEF Ftruncate, Promise!FileCall, Promise!Ftruncate
<1>4. CASE Fstat(r, ret)
  BY <1>4 DEF Fstat, Promise!FileCall, Promise!Fstat
<1> QED  BY <1>1, <1>2, <1>3, <1>4 DEF FileCall

LEMMA OpenedSame ==
  ASSUME NEW r
  PROVE  Promise!Opened(r) = Opened(r)
  BY DEF Opened, Promise!Opened, Is, Promise!Is

\* A handle leads to what it led to, unless this step opens or releases it.
LEMMA FilesKept ==
  ASSUME TypeInv, TypeInv',
         \A h \in Handles :
           \/ /\ fh[h] \in Open /\ fh'[h] \in Open' /\ fds'[fh'[h]].obj = fds[fh[h]].obj
           \/ fh[h] \notin Open /\ fh'[h] \notin Open'
  PROVE  Files' = Files
<1>1. \A h \in Handles : File(h)' = File(h)
  BY DEF File
<1> QED  BY <1>1 DEF Files

LEMMA StepKeepsFiles ==
  ASSUME TypeInv, TypeInv', HandleInv, NEW t \in Threads,
         \/ Begin(t) \/ OnPathDone(t) \/ OnFileDone(t) \/ NothingDone(t) \/ CallFails(t)
         \/ Mknod(t) \/ MknodClose(t) \/ OpenFails(t)
         \/ ReaddirFirst(t) \/ ReaddirNull(t) \/ ReaddirFill(t) \/ Reply(t)
  PROVE  Files' = Files
<1> USE DEF HandleInv
<1> SUFFICES ASSUME NEW h \in Handles
             PROVE  \/ /\ fh[h] \in Open /\ fh'[h] \in Open'
                       /\ fds'[fh'[h]].obj = fds[fh[h]].obj
                    \/ fh[h] \notin Open /\ fh'[h] \notin Open'
  BY FilesKept
<1> DEFINE fd == fh[h]
<1>1. Open \subseteq Descriptors /\ Open' \subseteq Descriptors /\ Null \notin Descriptors
  BY DEF Open, Descriptors, Null
<1>2. fd \in Descriptors => fd \in Open
  BY DEF HeldOpen
<1>3. CASE Begin(t) \/ OnPathDone(t) \/ OnFileDone(t) \/ NothingDone(t) \/ CallFails(t)
           \/ ReaddirNull(t)
  BY <1>3 DEF Begin, OnPathDone, OnFileDone, NothingDone, CallFails, ReaddirNull, Open
<1>4. CASE Mknod(t)
  <2>1. fds[Lowest(NewDescriptors)] = None
    BY <1>4, NewDescriptor DEF Mknod, TypeInv
  <2>2. fd \in Open => fds'[fd] = fds[fd]
    BY <1>4, <2>1 DEF Mknod, Open, TypeInv, TypeOK
  <2>3. fd \in Open => fd \in Open'
    BY <2>2 DEF Open
  <2> QED  BY <1>1, <1>2, <1>4, <2>2, <2>3 DEF Mknod
<1>5. CASE MknodClose(t)
  <2>1. fd # retstat[t]
    BY <1>5 DEF HeldAlone, Holds, MknodClose
  <2>2. fd \in Open => fds'[fd] = fds[fd]
    BY <1>5, <2>1 DEF MknodClose, Open, TypeInv, TypeOK
  <2>3. fd \in Open => fd \in Open'
    BY <2>2 DEF Open
  <2> QED  BY <1>1, <1>2, <1>5, <2>2, <2>3 DEF MknodClose
<1>6. CASE OpenFails(t)
  <2>1. fds' = fds /\ Open' = Open
    BY <1>6 DEF OpenFails, Open
  <2>2. CASE h = request[t].h
    <3>1. fd = Null
      BY <1>6, <2>2 DEF OpenedOnce, OpenFails, Call
    <3>2. PICK e \in {EIO, EMFILE} :
            /\ retstat'[t] \in {-e, -ENOSPC}
            /\ fh' = [fh EXCEPT ![h] = retstat'[t]] \/ fh' = fh
      BY <1>6, <2>2, OpenFailsWith
    <3>3. fh'[h] \notin Descriptors
      BY <3>1, <3>2 DEF TypeInv, TypeOK, Descriptors, EIO, EMFILE, ENOSPC, Null
    <3> QED  BY <1>1, <3>1, <3>3
  <2>3. CASE h # request[t].h
    <3>1. fh'[h] = fd
      BY <1>6, <2>3 DEF OpenFails, TypeInv, TypeOK
    <3> QED  BY <2>1, <3>1
  <2> QED  BY <2>2, <2>3
<1>7. CASE ReaddirFirst(t) \/ ReaddirFill(t)
  BY <1>7, ListingReads DEF Open
<1>8. CASE Reply(t)
  <2>1. Open' = Open /\ fds' = fds
    BY <1>8 DEF Reply, Open
  <2>2. fd \in Descriptors => fh'[h] = fd
    BY <1>8 DEF Reply
  <2>3. fd \notin Descriptors => fh'[h] \notin Descriptors
    BY <1>1, <1>8 DEF Reply
  <2> QED  BY <1>1, <2>1, <2>2, <2>3
<1> QED  BY <1>3, <1>4, <1>5, <1>6, <1>7, <1>8

\* A step of a callback that has no answer yet and gives one, or gives none.
LEMMA AnswerGiven ==
  ASSUME TypeInv, NEW t \in Threads, Step(t), NEW a, Answer(t)' = a,
         pc[t] \in {"call", "fill"}, request' = request
  PROVE  Promise!Answers(t, a) /\ request[t] # None
<1>1. request[t] # None
  BY DEF TypeInv, Asking
<1>2. Answered[t] = -2
  BY AnswerAt
<1>3. Answered' = [Answered EXCEPT ![t] = a]
  BY AnswersOne
<1> QED  BY <1>1, <1>2, <1>3 DEF Promise!Answers, Promise!NoAnswer

LEMMA AnswerKept ==
  ASSUME TypeInv, NEW t \in Threads, Begin(t) \/ Step(t), Answer(t)' = Answer(t)
  PROVE  Answered' = Answered
<1>1. \A u \in Threads : Answer(u)' = Answer(u)
  BY OthersKeep DEF Answer
<1> QED  BY <1>1 DEF Answered

LEMMA BeginAsks ==
  ASSUME TypeInv, TypeInv', HandleInv, NEW t \in Threads, Begin(t)
  PROVE  Promise!Ask(t)
<1>1. PICK r \in Calls : request' = [request EXCEPT ![t] = r]
  BY DEF Begin
<1>2. r # None
  BY CallsAsked DEF Asked
<1>3. request[t] = None /\ request'[t] = r
  BY <1>1 DEF Begin, TypeInv, TypeOK, Asking
<1>4. Answered' = Answered
  <2>1. pc[t] = "idle" /\ pc'[t] = "call"
    BY DEF Begin, Goto, TypeInv, TypeOK
  <2> QED  BY <2>1, AnswerKept DEF Answer
<1>5. Files' = Files
  BY StepKeepsFiles
<1> QED  BY <1>1, <1>2, <1>3, <1>4, <1>5 DEF Promise!Ask, Promise!tree, Begin, tree

LEMMA PathPerformed ==
  ASSUME TypeInv, TypeInv', HandleInv, NEW t \in Threads, OnPathDone(t)
  PROVE  Promise!PerformPath(t)
<1>1. /\ pc[t] = "call" /\ request' = request /\ request[t] \in Requests
      /\ PathCall(request[t], InUse) /\ errno[t] \in Nat
      /\ Return(t, Report(request[t].by, 0, errno[t]))
  BY ErrnoIsNat DEF OnPathDone, TypeInv, TypeOK, Asking
<1>2. PICK x \in Report(request[t].by, 0, errno[t]) : retstat'[t] = x.ret
  BY <1>1, Returned
<1>3. x.ret = 0
  BY <1>1, Reported DEF Requests
<1>4. Answer(t)' = 0
  BY <1>1, <1>2, <1>3, Returned DEF Answer
<1>5. Promise!Answers(t, 0)
  BY <1>1, <1>4, AnswerGiven DEF Step
<1>6. Files' = Files
  BY StepKeepsFiles
<1> QED  BY <1>1, <1>5, <1>6, PathCallSame DEF Promise!PerformPath

LEMMA FilePerformed ==
  ASSUME TypeInv, TypeInv', HandleInv, NEW t \in Threads, OnFileDone(t)
  PROVE  Promise!PerformFile(t)
<1> DEFINE h == request[t].h
<1>1. /\ pc[t] = "call" /\ request' = request /\ request[t] \in Requests /\ request[t] # None
      /\ h \in Handles /\ h # None /\ fh[h] \in Open /\ errno[t] \in Nat
  BY ErrnoIsNat DEF OnFileDone, TypeInv, TypeOK, Asking, Requests
<1>2. PICK ret \in Lengths : /\ FileCall(request[t], fds[fh[h]].obj, ret)
                             /\ Return(t, Report(request[t].by, ret, errno[t]))
  BY DEF OnFileDone
<1>3. request[t].sys \in {"pread", "pwrite", "ftruncate", "fstat"}
  BY <1>2 DEF FileCall, Pread, Pwrite, Ftruncate, Fstat
<1>4. request[t].by \in {"log_syscall", "log_error"}
  BY <1>1, <1>3 DEF TypeInv, Asking, Requests
<1>5. PICK x \in Report(request[t].by, ret, errno[t]) : retstat'[t] = x.ret
  BY <1>2, Returned
<1>6. x.ret = ret /\ ret \in Int /\ ret >= 0
  BY <1>1, <1>4, <1>5, Reported DEF Lengths
<1>7. Answer(t)' = ret
  BY <1>2, <1>5, <1>6, Returned DEF Answer
<1>8. Promise!Answers(t, ret)
  BY <1>1, <1>7, AnswerGiven DEF Step
<1>9. Files[h] = fds[fh[h]].obj /\ Files[h] # None
  BY <1>1, FileAt
<1>10. Promise!FileCall(request[t], Files[h], ret)
  BY <1>2, <1>9, FileCallSame
<1>11. Files' = Files
  BY StepKeepsFiles
<1>12. ret \in Promise!Lengths
  BY DEF Lengths, Promise!Lengths
<1> QED  BY <1>1, <1>8, <1>9, <1>10, <1>11, <1>12 DEF Promise!PerformFile

LEMMA NothingLeft ==
  ASSUME TypeInv, TypeInv', HandleInv, NEW t \in Threads, NothingDone(t)
  PROVE  Promise!Leave(t)
<1>1. /\ pc[t] = "call" /\ request' = request /\ request[t].sys = "none"
      /\ tree' = tree /\ errno[t] \in Nat /\ Return(t, Report("nobody", 0, errno[t]))
  BY ErrnoIsNat DEF NothingDone, Call, TypeInv
<1>2. PICK x \in Report("nobody", 0, errno[t]) : retstat'[t] = x.ret
  BY <1>1, Returned
<1>3. x.ret = 0
  BY <1>1, Reported
<1>4. Answer(t)' = 0
  BY <1>1, <1>2, <1>3, Returned DEF Answer
<1>5. Promise!Answers(t, 0)
  BY <1>1, <1>4, AnswerGiven DEF Step
<1>6. Files' = Files
  BY StepKeepsFiles
<1> QED  BY <1>1, <1>5, <1>6 DEF Promise!Leave, Promise!tree, tree

LEMMA CallFailed ==
  ASSUME TypeInv, TypeInv', HandleInv, NEW t \in Threads, CallFails(t)
  PROVE  Promise!Fail(t)
<1>1. /\ pc[t] = "call" /\ request' = request /\ tree' = tree
      /\ request[t].sys \notin {"open", "opendir", "readdir", "close", "none"}
      /\ request[t] \in Requests /\ request[t] # None
  BY DEF CallFails, TypeInv, TypeOK, Asking
<1>2. PICK e \in {EIO, EMFILE} : Return(t, Report(request[t].by, -1, e))
  BY DEF CallFails, OwnErrors
<1>3. request[t].by \in {"log_syscall", "log_error"}
  BY <1>1 DEF TypeInv, Asking, Requests
<1>4. e \in Nat /\ e > 0
  BY DEF EIO, EMFILE
<1>5. PICK x \in Report(request[t].by, -1, e) : retstat'[t] = x.ret
  BY <1>2, Returned
<1>6. x.ret = -e \/ x.ret = -ENOSPC
  BY <1>3, <1>4, ReportsOwn
<1>7. Answer(t)' = -1
  BY <1>2, <1>4, <1>5, <1>6, Returned DEF Answer, ENOSPC
<1>8. Promise!Answers(t, -1)
  BY <1>1, <1>7, AnswerGiven DEF Step
<1>9. Files' = Files
  BY StepKeepsFiles
<1> QED  BY <1>1, <1>8, <1>9 DEF Promise!Fail, Promise!Failed, Promise!tree, tree

LEMMA MknodPerformed ==
  ASSUME TypeInv, TypeInv', HandleInv, NEW t \in Threads, Mknod(t)
  PROVE  Promise!PerformPath(t)
<1>1. /\ pc[t] = "call" /\ request' = request /\ request[t].sys = "make"
      /\ Make(request[t], InUse) /\ pc'[t] = "close"
  BY DEF Mknod, MakesFile, Goto, TypeInv, TypeOK
<1>2. Promise!PathCall(request[t], Promise!InUse)
  BY <1>1, PathCallSame DEF PathCall
<1>3. Promise!Answers(t, 0)
  BY <1>1, AnswerGiven DEF Step, Answer
<1>4. Files' = Files
  BY StepKeepsFiles
<1> QED  BY <1>2, <1>3, <1>4 DEF Promise!PerformPath

LEMMA MknodFinished ==
  ASSUME TypeInv, TypeInv', HandleInv, NEW t \in Threads, MknodClose(t)
  PROVE  Promise!FailLate(t) \/ UNCHANGED <<Promise!tree, request, Answered, Files>>
<1>1. /\ pc[t] = "close" /\ request' = request /\ tree' = tree /\ request[t] # None
      /\ MakesFile(request[t]) /\ errno[t] \in Nat /\ EIO \in Nat /\ EIO > 0
  BY ErrnoIsNat DEF MknodClose, TypeInv, Asking
<1>2. Files' = Files
  BY StepKeepsFiles
<1>3. Answer(t) = 0 /\ Answered[t] = 0
  BY <1>1, AnswerAt
<1>4. CASE Return(t, log_syscall(0, errno[t]))
  <2>1. PICK x \in Report("log_syscall", 0, errno[t]) : retstat'[t] = x.ret
    BY <1>4, Returned DEF Report
  <2>2. x.ret = 0
    BY <1>1, Reported
  <2>3. Answer(t)' = 0
    BY <1>4, <2>1, <2>2, Returned DEF Answer
  <2>4. Answered' = Answered
    BY <1>3, <2>3, AnswerKept DEF Step
  <2> QED  BY <1>1, <1>2, <2>4 DEF Promise!tree, tree
<1>5. CASE Return(t, log_syscall(-1, EIO))
  <2>1. PICK x \in Report("log_syscall", -1, EIO) : retstat'[t] = x.ret
    BY <1>5, Returned DEF Report
  <2>2. x.ret = -EIO \/ x.ret = -ENOSPC
    BY <1>1, ReportsOwn
  <2>3. Answer(t)' = -1
    BY <1>1, <1>5, <2>1, <2>2, Returned DEF Answer, ENOSPC
  <2>4. Answered' = [Answered EXCEPT ![t] = -1]
    BY <2>3, AnswersOne DEF Step
  <2> QED
    BY <1>1, <1>2, <1>3, <2>4
    DEF MakesFile, Promise!FailLate, Promise!Failed, Promise!tree, tree
<1> QED  BY <1>4, <1>5 DEF MknodClose

LEMMA OpenPromised ==
  ASSUME TypeInv, TypeInv', HandleInv, NEW t \in Threads, OpenDone(t)
  PROVE  Promise!Open(t)
<1> USE DEF HandleInv
<1>0. PICK h \in Handles : h = request[t].h
  BY DEF OpenDone, Call, Asking, Sole, TypeInv
<1> DEFINE fd == Lowest(NewDescriptors)
           o  == Opened(request[t])
<1>1. /\ pc[t] = "call" /\ request' = request /\ tree' = tree /\ request[t] \in Requests
      /\ errno[t] \in Nat /\ fd \in Nat /\ fd \in Descriptors
      /\ o # None /\ request[t] # None
  BY ErrnoIsNat, NewDescriptor
  DEF OpenDone, Call, Asking, Sole, TypeInv, TypeOK, Descriptors
<1>2. Return(t, ReportOpen(fd, errno[t])) \/ Return(t, ReportPointer(0, errno[t]))
  BY DEF OpenDone
<1>3. retstat'[t] = 0 /\ pc'[t] = "done"
  <2>1. ASSUME NEW x \in ReportOpen(fd, errno[t]) \cup ReportPointer(0, errno[t])
        PROVE  x.ret = 0
    BY <1>1, OpenReported, PointerReported
  <2> QED  BY <1>2, <2>1, Returned
<1>4. Promise!Answers(t, 0)
  BY <1>1, <1>3, AnswerGiven DEF Step, Answer
<1>5. o \in Objects \cup {RootDir}
  BY <1>1, OpenedTyped DEF TypeInv, TypeOK
<1>6. Descriptor(o, request[t].sys = "opendir") \in OpenFiles
  BY <1>5, DescriptorTyped
<1>7. /\ fds' = [fds EXCEPT ![fd] = Descriptor(o, request[t].sys = "opendir")]
      /\ fh' = [fh EXCEPT ![h] = fd]
  BY <1>0 DEF OpenDone
<1>8. Open' = Open \cup {fd} /\ fd \notin Open
  BY <1>6, <1>7, NewOpen DEF OpenDone
<1>9. fds'[fd] = Descriptor(o, request[t].sys = "opendir")
  BY <1>1, <1>7 DEF TypeInv, TypeOK
<1> HIDE DEF fd, o
<1>10. File(h)' = o
  <2>1. fh'[h] = fd /\ fd \in Open'
    BY <1>1, <1>7, <1>8 DEF TypeInv, TypeOK
  <2>2. fds'[fd].obj = o
    BY <1>9 DEF Descriptor
  <2> QED  BY <2>1, <2>2 DEF File
<1>11. ASSUME NEW g \in Handles, g # h
       PROVE  File(g)' = File(g)
  <2>1. fh'[g] = fh[g] /\ fh[g] # fd
    BY <1>1, <1>7, <1>8, <1>11 DEF HeldOpen, TypeInv, TypeOK
  <2>2. fh[g] \in Open => fds'[fh[g]] = fds[fh[g]]
    BY <1>7, <2>1 DEF Open, TypeInv, TypeOK
  <2> QED  BY <1>8, <2>1, <2>2 DEF File
<1>12. Files' = [Files EXCEPT ![h] = o]
  BY <1>10, <1>11 DEF Files
<1>13. Files' = [Files EXCEPT ![request[t].h] = Promise!Opened(request[t])]
  BY <1>0, <1>12, OpenedSame DEF o
<1>14. Promise!Opened(request[t]) # None
  BY <1>1, OpenedSame DEF o
<1> QED  BY <1>1, <1>4, <1>13, <1>14 DEF Promise!Open, Promise!tree, tree

LEMMA OpenFailed ==
  ASSUME TypeInv, TypeInv', HandleInv, NEW t \in Threads, OpenFails(t)
  PROVE  Promise!Fail(t)
<1>1. /\ pc[t] = "call" /\ request' = request /\ tree' = tree /\ request[t] # None
      /\ request[t].sys \in {"open", "opendir"}
  BY DEF OpenFails, Call, TypeInv, Asking
<1>2. PICK e, results :
        e \in {EIO, EMFILE} /\ retstat'[t] \in {-e, -ENOSPC} /\ Return(t, results)
  BY OpenFailsWith
<1>3. Answer(t)' = -1
  BY <1>2, Returned DEF Answer, EIO, EMFILE, ENOSPC
<1>4. Promise!Answers(t, -1)
  BY <1>1, <1>3, AnswerGiven DEF Step
<1>5. Files' = Files
  BY StepKeepsFiles
<1> QED  BY <1>1, <1>4, <1>5 DEF Promise!Fail, Promise!Failed, Promise!tree, tree

LEMMA ReleasePromised ==
  ASSUME TypeInv, TypeInv', HandleInv, NEW t \in Threads, ReleaseDone(t)
  PROVE  Promise!Release(t)
<1> USE DEF HandleInv
<1>1. PICK h \in Handles : h = request[t].h
  BY DEF ReleaseDone, Call, Asking, Sole, TypeInv
<1> DEFINE fd == fh[h]
<1>2. /\ pc[t] = "call" /\ request' = request /\ tree' = tree /\ request[t] \in Requests
      /\ request[t].sys = "close" /\ errno[t] \in Nat /\ EIO \in Nat /\ EIO > 0
      /\ request[t] # None
  BY ErrnoIsNat DEF ReleaseDone, Call, Asking, TypeInv, TypeOK
<1>3. fd \in Open /\ fd \in Descriptors /\ Null \notin Descriptors
  BY <1>1, <1>2, BBFSAssumption DEF UsedOpen, Open, Descriptors, Null
<1>4. fds' = [fds EXCEPT ![fd] = None] /\ fh' = [fh EXCEPT ![h] = Null]
  BY <1>1 DEF ReleaseDone
<1>5. Open' = Open \ {fd}
  BY <1>3, <1>4, Closed
<1>6. Answer(t)' \in {0, -1}
  <2>1. ASSUME NEW x \in Report(request[t].by, 0, errno[t])
        PROVE  x.ret = 0
    BY <1>2, Reported DEF Requests
  <2>2. ASSUME NEW x \in Report(request[t].by, -1, EIO)
        PROVE  x.ret = 0 \/ x.ret < 0
    <3>1. request[t].by = "nobody" => x.ret = 0
      BY <1>2, Reported
    <3>2. request[t].by # "nobody" => x.ret \in {-EIO, -ENOSPC}
      BY <1>2, ReportsOwn DEF Requests
    <3> QED  BY <1>2, <3>1, <3>2 DEF ENOSPC
  <2>3. pc'[t] = "done" /\ (retstat'[t] = 0 \/ retstat'[t] < 0)
    BY <2>1, <2>2, Returned DEF ReleaseDone
  <2> QED  BY <2>3 DEF Answer
<1>7. \E a \in {0, Promise!Failed} : Promise!Answers(t, a)
  BY <1>2, <1>6, AnswerGiven DEF Step, Promise!Failed
<1>8. File(h)' = None
  BY <1>3, <1>4 DEF File, Open, TypeInv, TypeOK
<1>9. ASSUME NEW g \in Handles, g # h
      PROVE  File(g)' = File(g)
  <2>1. fh'[g] = fh[g] /\ fh[g] # fd
    BY <1>3, <1>4, <1>9 DEF HeldAlone, TypeInv, TypeOK
  <2>2. fh[g] \in Open => fds'[fh[g]] = fds[fh[g]]
    BY <1>4, <2>1 DEF Open, TypeInv, TypeOK
  <2> QED  BY <1>5, <2>1, <2>2 DEF File
<1>10. Files' = [Files EXCEPT ![h] = None]
  BY <1>8, <1>9 DEF Files
<1> QED  BY <1>1, <1>2, <1>7, <1>10 DEF Promise!Release, Promise!tree, tree

\* A listing is answered, with an error or without, and nothing else happens.
LEMMA ListingAnswered ==
  ASSUME TypeInv, TypeInv', HandleInv, NEW t \in Threads, ReaddirNull(t) \/ ReaddirFill(t),
         pc[t] \in {"call", "fill"}, request[t].sys = "readdir", request' = request, tree' = tree,
         pc'[t] = "done", retstat'[t] = 0 \/ retstat'[t] < 0
  PROVE  Promise!Leave(t) \/ Promise!Fail(t)
<1>1. Files' = Files
  BY StepKeepsFiles
<1>2. CASE retstat'[t] = 0
  <2>1. Promise!Answers(t, 0)
    BY <1>2, AnswerGiven DEF Step, Answer
  <2> QED  BY <1>1, <2>1 DEF Promise!Leave, Promise!tree, tree
<1>3. CASE retstat'[t] < 0
  <2>1. Promise!Answers(t, -1)
    BY <1>3, AnswerGiven DEF Step, Answer
  <2> QED  BY <1>1, <2>1 DEF Promise!Fail, Promise!Failed, Promise!tree, tree
<1> QED  BY <1>2, <1>3

LEMMA NullPromised ==
  ASSUME TypeInv, TypeInv', HandleInv, NEW t \in Threads, ReaddirNull(t)
  PROVE  Promise!Leave(t) \/ Promise!Fail(t)
<1>1. /\ pc[t] = "call" /\ request' = request /\ tree' = tree /\ request[t].sys = "readdir"
      /\ errno[t] \in Nat /\ EIO \in Nat
  BY ErrnoIsNat DEF ReaddirNull, Call, TypeInv
<1>2. PICK e \in Nat : Return(t, ReportPointer(-1, e))
  BY <1>1 DEF ReaddirNull
<1>3. PICK x \in ReportPointer(-1, e) : retstat'[t] = x.ret /\ pc'[t] = "done"
  BY <1>2, Returned
<1>4. x.ret \in {-e, -ENOSPC}
  BY PointerReported
<1>5. retstat'[t] = 0 \/ retstat'[t] < 0
  BY <1>3, <1>4 DEF ENOSPC
<1> QED  BY <1>1, <1>3, <1>5, ListingAnswered

LEMMA FirstPromised ==
  ASSUME TypeInv, TypeInv', HandleInv, NEW t \in Threads, ReaddirFirst(t)
  PROVE  UNCHANGED <<Promise!tree, request, Answered, Files>>
<1>1. pc[t] = "call" /\ pc'[t] = "fill" /\ request' = request /\ tree' = tree
  BY DEF ReaddirFirst, Call, Goto, TypeInv, TypeOK
<1>2. Answered' = Answered
  BY <1>1, AnswerKept DEF Step, Answer
<1>3. Files' = Files
  BY StepKeepsFiles
<1> QED  BY <1>1, <1>2, <1>3 DEF Promise!tree, tree

LEMMA FillPromised ==
  ASSUME TypeInv, TypeInv', HandleInv, NEW t \in Threads, ReaddirFill(t)
  PROVE  \/ Promise!Leave(t) \/ Promise!Fail(t)
         \/ UNCHANGED <<Promise!tree, request, Answered, Files>>
<1>1. /\ pc[t] = "fill" /\ request[t].sys = "readdir" /\ tree' = tree /\ request' = request
  BY FillCases DEF TypeInv, Asking
<1>2. PICK e \in log_msg(errno[t]) :
        FillsOn(t, e) \/ FillsLast(t, e) \/ FillsThenFails(t) \/ NoRoom(t, e)
  BY FillCases
<1>3. CASE FillsOn(t, e)
  <2>1. Answered' = Answered
    BY <1>1, <1>3, AnswerKept DEF FillsOn, Step, Answer
  <2>2. Files' = Files
    BY StepKeepsFiles
  <2> QED  BY <1>1, <2>1, <2>2 DEF Promise!tree, tree
<1>4. CASE FillsLast(t, e) \/ FillsThenFails(t) \/ NoRoom(t, e)
  <2>1. pc'[t] = "done" /\ (retstat'[t] = 0 \/ retstat'[t] = -ENOMEM)
    BY <1>4, Returned DEF FillsLast, FillsThenFails, NoRoom
  <2> QED  BY <1>1, <2>1, ListingAnswered DEF ENOMEM
<1> QED  BY <1>2, <1>3, <1>4

LEMMA ReplyPromised ==
  ASSUME TypeInv, TypeInv', HandleInv, NEW t \in Threads, Reply(t)
  PROVE  Promise!Reply(t)
<1>1. /\ pc[t] = "done" /\ pc'[t] = "idle" /\ request' = [request EXCEPT ![t] = None]
      /\ tree' = tree /\ request[t] # None
  BY DEF Reply, Goto, TypeInv, TypeOK, Asking
<1>2. Answered[t] # -2
  BY <1>1, AnswerAt
<1>3. Answered' = [Answered EXCEPT ![t] = -2]
  BY <1>1, AnswersOne DEF Step, Answer
<1>4. Files' = Files
  BY StepKeepsFiles
<1> QED  BY <1>1, <1>2, <1>3, <1>4 DEF Promise!Reply, Promise!NoAnswer, Promise!tree, tree

\* Every step is one that users are promised, or one they do not see.
LEMMA StepPromised ==
  ASSUME TypeInv, TypeInv', HandleInv, [Next]_vars
  PROVE  [Promise!Next]_<<Promise!tree, request, Answered, Files>>
<1>1. ASSUME NEW t \in Threads, Begin(t) \/ Step(t)
      PROVE  \/ UNCHANGED <<Promise!tree, request, Answered, Files>>
             \/ Promise!Ask(t) \/ Promise!PerformPath(t) \/ Promise!PerformFile(t)
             \/ Promise!Open(t) \/ Promise!Release(t) \/ Promise!Leave(t) \/ Promise!Fail(t)
             \/ Promise!FailLate(t) \/ Promise!Reply(t)
  BY <1>1, BeginAsks, PathPerformed, FilePerformed, NothingLeft, CallFailed, MknodPerformed,
     MknodFinished, OpenPromised, OpenFailed, ReleasePromised, NullPromised, FirstPromised,
     FillPromised, ReplyPromised
  DEF Step
<1>2. CASE Next
  BY <1>1, <1>2 DEF Next, Promise!Next
<1>3. CASE UNCHANGED vars
  BY <1>3 DEF vars, Promise!tree, tree, Answered, Answer, Files, File, Open
<1> QED  BY <1>2, <1>3

LEMMA InitPromised ==
  ASSUME Init
  PROVE  Promise!Init
<1>1. Promise!StartTree
  BY DEF Init, StartTree, Promise!StartTree, Promise!Kinds, Kinds
<1>2. Answered = [t \in Threads |-> -2]
  BY DEF Init, Answered, Answer
<1>3. \A h \in Handles : fh[h] \notin Open
  BY DEF Init, Open, Descriptors, Null
<1>4. Files = [h \in Handles |-> None]
  BY <1>3 DEF Files, File
<1> QED  BY <1>1, <1>2, <1>4 DEF Init, Promise!Init, Promise!NoAnswer

\* Users of a mounted directory get what they would get of the directory below:
\* errno, descriptors, handles and the two calls of bb_mknod amount to calls that
\* are performed once, on the right object, or not at all.
THEOREM MountImplements == Spec => ImplementsMounted
<1>1. Init => Promise!Init
  BY InitPromised
<1>2. Inv /\ Inv' /\ [Next]_vars => [Promise!Next]_<<Promise!tree, request, Answered, Files>>
  BY StepPromised DEF Inv
<1> QED  BY <1>1, <1>2, InvHolds, PTL DEF Spec, ImplementsMounted, Promise!Spec

=============================================================================
