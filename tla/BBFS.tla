-------------------------------- MODULE BBFS --------------------------------
(***************************************************************************)
(* hw4 bbfs.c and log.c: the threads of libfuse run callbacks, each of     *)
(* which logs, makes one system call on the directory below (two for a     *)
(* regular file made by mknod, several for a listing) and answers with     *)
(* what log_syscall or log_error make of errno.                            *)
(*                                                                         *)
(* Every thread has an errno of its own, which a log line that cannot be   *)
(* written overwrites.  A system call and what the thread then does by     *)
(* itself are one step.  The descriptor table of the process is shared: a  *)
(* new descriptor is the lowest free one.  A directory stream is known by  *)
(* its descriptor.                                                         *)
(***************************************************************************)
EXTENDS HostFS

CONSTANTS
  Threads,          \* threads of libfuse
  Handles,          \* struct fuse_file_info of libfuse
  MaxDescriptors,   \* size of the descriptor table
  MaxCalls          \* bound on the calls users make

Descriptors == 0..(MaxDescriptors - 1)
Entries     == Names \cup {"."}

\* What the callbacks ask of the system: each is one call or a kind of calls.
Systems ==
  {"look", "readlink", "make", "unlink", "rmdir", "rename", "link", "setattr", "truncate",
   "open", "opendir", "pread", "pwrite", "ftruncate", "fstat", "readdir", "close", "none"}

\* What a descriptor is open for, and what a callback asks of the system.
OpenFiles == [obj: Objects \cup {RootDir}, stream: BOOLEAN]
Requests ==
  [sys: Systems, path: Paths \cup {None}, to: Names \cup {None}, kind: Kinds, size: Lengths,
   h: Handles \cup {None}, by: {"log_syscall", "log_error", "nobody"}]

ASSUME BBFSAssumption ==
  /\ MaxDescriptors \in Nat \ {0} /\ MaxCalls \in Nat
  /\ None \notin Handles /\ None \notin OpenFiles /\ None \notin Requests

EIO    == 5      \* any error of a system call
ENOMEM == 12     \* the answer to a full buffer
EMFILE == 24     \* the descriptor table is full
ENOSPC == 28     \* any error of writing to the log

VARIABLES
  fds,       \* the descriptor table: what is open, or None
  unread,    \* of each stream: the entries there since opendir, not yet returned
  changed,   \* of each stream: the entries added or removed since opendir
  fh,        \* fi->fh: a descriptor, or less than 0
  errno,     \* errno of each thread
  request,   \* the call each thread has been asked for, or None
  pc,        \* where each thread is in its callback
  retstat,   \* retstat of the callback, or the descriptor it holds
  de,        \* the entry readdir has returned, or None
  listed,    \* the entries passed to filler
  calls,     \* calls users have made
  failed,    \* history: the error of the callback's own system call, or 0
  content    \* history: the unread entries when a listing began, or None

streams == <<unread, changed>>
dirVars == <<de, listed, content>>
vars    == <<tree, fds, streams, fh, errno, request, pc, retstat, dirVars, calls, failed>>

Null     == -1
Errnos   == {0, EIO, EMFILE, ENOSPC}
Open     == {d \in Descriptors : fds[d] # None}
InUse    == {fds[d].obj : d \in Open}
Lowest(S) == CHOOSE d \in S : \A e \in S : d <= e

-----------------------------------------------------------------------------
(* What each callback asks of the system, and which function of log.c      *)
(* reports on it                                                           *)

Request(sys, p, q, kind, n, h, by) ==
  [sys |-> sys, path |-> p, to |-> q, kind |-> kind, size |-> n, h |-> h, by |-> by]

ByPath(sys, p, by)   == Request(sys, p, None, "node", 0, None, by)
ByHandle(sys, h, by) == Request(sys, None, None, "node", 0, h, by)

bb_getattr(p)     == ByPath("look", p, "log_syscall")
bb_readlink(p)    == ByPath("readlink", p, "log_syscall")
bb_mknod(p, kind) == Request("make", p, None, kind, 0, None, "log_syscall")
bb_mkdir(p)       == Request("make", p, None, "dir", 0, None, "log_syscall")
bb_unlink(p)      == ByPath("unlink", p, "log_syscall")
bb_rmdir(p)       == ByPath("rmdir", p, "log_syscall")
bb_symlink(p)     == ByPath("make", p, "log_syscall")
bb_rename(p, q)   == Request("rename", p, q, "node", 0, None, "log_syscall")
bb_link(p, q)     == Request("link", p, q, "node", 0, None, "log_syscall")
bb_chmod(p)       == ByPath("setattr", p, "log_syscall")
bb_chown(p)       == ByPath("setattr", p, "log_syscall")
bb_truncate(p, n) == Request("truncate", p, None, "node", n, None, "log_syscall")
bb_utime(p)       == ByPath("setattr", p, "log_syscall")
bb_open(p, h)     == Request("open", p, None, "node", 0, h, "log_syscall")
bb_read(h)        == ByHandle("pread", h, "log_syscall")
bb_write(h, n)    == Request("pwrite", None, None, "node", n, h, "log_syscall")
bb_statfs(p)      == ByPath("look", p, "log_syscall")
bb_flush(h)       == ByHandle("none", h, "nobody")
bb_release(h)     == ByHandle("close", h, "log_syscall")
bb_fsync(h)       == ByHandle("fstat", h, "log_syscall")
bb_setxattr(p)    == ByPath("setattr", p, "log_syscall")
bb_getxattr(p)    == ByPath("look", p, "log_syscall")
bb_listxattr(p)   == ByPath("look", p, "log_syscall")
bb_removexattr(p) == ByPath("setattr", p, "log_syscall")
bb_opendir(p, h)  == Request("opendir", p, None, "node", 0, h, "log_error")
bb_readdir(h)     == ByHandle("readdir", h, "log_error")
bb_releasedir(h)  == ByHandle("close", h, "nobody")
bb_fsyncdir(h)    == ByHandle("none", h, "nobody")
bb_access(p)      == ByPath("look", p, "log_error")
bb_ftruncate(h, n) == Request("ftruncate", None, None, "node", n, h, "log_error")

\* The attributes of the root are always asked for by its path.
bb_fgetattr(p, h) ==
  IF p = RootPath THEN bb_getattr(p) ELSE ByHandle("fstat", h, "log_error")

\* bb_oper, for a path or a name p, another q, a handle h and a size n.
OnPath(p, q, n) ==
  {bb_getattr(p), bb_readlink(p), bb_access(p), bb_statfs(p), bb_getxattr(p),
   bb_listxattr(p)}
  \cup IF p = RootPath THEN {}
       ELSE {bb_mknod(p, "file"), bb_mknod(p, "node"), bb_mkdir(p), bb_symlink(p),
             bb_unlink(p), bb_rmdir(p), bb_rename(p, q), bb_link(p, q),
             bb_truncate(p, n), bb_chmod(p), bb_chown(p), bb_utime(p),
             bb_setxattr(p), bb_removexattr(p)}
OnFile(p, h, n) ==
  {bb_read(h), bb_write(h, n), bb_ftruncate(h, n), bb_fgetattr(p, h), bb_flush(h),
   bb_fsync(h)}
OnStream(h)    == {bb_readdir(h), bb_releasedir(h), bb_fsyncdir(h)}
Opening(p, h)  == {bb_open(p, h), bb_opendir(p, h)}

-----------------------------------------------------------------------------
(* errno (log.c): each operator gives what is returned and what errno is   *)
(* afterwards, given what it was before                                    *)

\* A line that cannot be written leaves its own error.
log_msg(e) == {e, ENOSPC}

\* Mutant: ret is taken from errno after the line has been written.
log_errorLate(e) == {[ret |-> -x, errno |-> x] : x \in log_msg(e)}

log_error(e) == {[ret |-> -e, errno |-> x] : x \in log_msg(e)}

log_retstat(e) == LET errsave == e IN {errsave : x \in log_msg(e)}

\* errno is read again after log_error has logged.
log_syscall(ret, e) ==
  IF ret >= 0 THEN {[ret |-> ret, errno |-> x] : x \in log_retstat(e)}
  ELSE {[ret |-> -x.errno, errno |-> x.errno] : x \in UNION {log_error(y) : y \in log_retstat(e)}}

Report(by, ret, e) ==
  CASE by = "log_syscall" -> log_syscall(ret, e)
    [] by = "log_error"   -> IF ret >= 0 THEN {[ret |-> ret, errno |-> e]} ELSE log_error(e)
    [] by = "nobody"      -> {[ret |-> 0, errno |-> e]}

\* Mutant: a failed open is not noticed.
ReportOpenZero(ret, e) == {[ret |-> 0, errno |-> x.errno] : x \in log_syscall(ret, e)}

\* bb_open reports twice, the first time only for fi->fh.
ReportOpen(ret, e) ==
  IF ret >= 0 THEN {[ret |-> 0, errno |-> x.errno] : x \in log_syscall(ret, e)}
  ELSE UNION {log_error(x.errno) : x \in log_syscall(ret, e)}

\* bb_opendir and bb_readdir write a line before they look at errno.
ReportPointer(ret, e) == UNION {Report("log_error", ret, x) : x \in log_msg(e)}

-----------------------------------------------------------------------------
(* Calls of the users, as libfuse passes them on: a handle is opened once, *)
(* used while it is open, for one listing at a time, and released once,    *)
(* when nothing else uses it.                                              *)

Users(h) == {t \in Threads : request[t] # None /\ request[t].h = h}

Usable(stream) ==
  {h \in Handles :
     /\ fh[h] \in Open /\ fds[fh[h]].stream = stream
     /\ \A t \in Users(h) : request[t].sys \notin {"open", "opendir", "close"}}
UsableFiles   == Usable(FALSE)
UsableStreams == Usable(TRUE)
Unused        == {h \in Handles : Users(h) = {}}

CallsOnPaths   == UNION {OnPath(p, q, n) : p \in Paths, q \in Names, n \in Lengths}
CallsToOpen    == UNION {Opening(p, h) : p \in Paths, h \in {h \in Unused : fh[h] = Null}}
CallsOnFiles   == UNION {OnFile(p, h, n) : p \in Paths, h \in UsableFiles, n \in Lengths}
CallsToRelease == {bb_release(h) : h \in UsableFiles \cap Unused}
CallsOnStreams == UNION {OnStream(h) : h \in UsableStreams \cap Unused}

Calls == CallsOnPaths \cup CallsToOpen \cup CallsOnFiles \cup CallsToRelease \cup CallsOnStreams

-----------------------------------------------------------------------------
(* The steps of a callback in thread t                                     *)

Call(t, systems) == pc[t] = "call" /\ request[t].sys \in systems
Goto(t, step)    == pc' = [pc EXCEPT ![t] = step]

\* The callback returns, with one of some results.
Return(t, results) ==
  /\ \E x \in results : /\ retstat' = [retstat EXCEPT ![t] = x.ret]
                        /\ errno' = [errno EXCEPT ![t] = x.errno]
  /\ Goto(t, "done")

Fails(t, e) == failed' = [failed EXCEPT ![t] = e]

\* The lines every callback begins with, bb_fullpath's and log_fi's among them.
Begin(t) ==
  /\ pc[t] = "idle" /\ calls < MaxCalls
  /\ calls' = calls + 1
  /\ \E r \in Calls : request' = [request EXCEPT ![t] = r]
  /\ \E e \in log_msg(errno[t]) : errno' = [errno EXCEPT ![t] = e]
  /\ Goto(t, "call")
  /\ UNCHANGED <<tree, fds, streams, fh, retstat, dirVars, failed>>

MakesFile(r) == r.sys = "make" /\ r.kind = "file"

\* What a step changes in the directory of a stream.
Changed(d) == IF d \in Open /\ fds[d].stream THEN Changes(fds[d].obj) ELSE {}
Notice ==
  /\ unread' = [d \in Descriptors |-> unread[d] \ Changed(d)]
  /\ changed' = [d \in Descriptors |-> changed[d] \cup Changed(d)]

OnPathDone(t) ==
  /\ pc[t] = "call" /\ ~MakesFile(request[t])
  /\ PathCall(request[t], InUse)
  /\ Notice
  /\ Return(t, Report(request[t].by, 0, errno[t]))
  /\ UNCHANGED <<fds, fh, request, dirVars, calls, failed>>

OnFileDone(t) ==
  /\ pc[t] = "call" /\ request[t].h # None
  /\ LET fd == fh[request[t].h] IN
       /\ fd \in Open
       /\ \E ret \in Lengths : /\ FileCall(request[t], fds[fd].obj, ret)
                               /\ Return(t, Report(request[t].by, ret, errno[t]))
  /\ UNCHANGED <<fds, streams, fh, request, dirVars, calls, failed>>

\* Nothing but logging, in bb_flush and bb_fsyncdir.
NothingDone(t) ==
  /\ Call(t, {"none"})
  /\ Return(t, Report("nobody", 0, errno[t]))
  /\ UNCHANGED <<tree, fds, streams, fh, request, dirVars, calls, failed>>

NewDescriptors == Descriptors \ Open

\* What a call on a path or an open file fails with.
OwnErrors(r) == {EIO} \cup IF MakesFile(r) /\ NewDescriptors = {} THEN {EMFILE} ELSE {}

\* Nothing changes below when a call fails.
CallFails(t) ==
  /\ pc[t] = "call" /\ request[t].sys \notin {"open", "opendir", "readdir", "close", "none"}
  /\ \E e \in OwnErrors(request[t]) :
       /\ Fails(t, e)
       /\ Return(t, Report(request[t].by, -1, e))
  /\ UNCHANGED <<tree, fds, streams, fh, request, dirVars, calls>>

-----------------------------------------------------------------------------
(* bb_mknod for a regular file: open, then close                           *)

Descriptor(o, stream) == [obj |-> o, stream |-> stream]

Mknod(t) ==
  /\ pc[t] = "call" /\ MakesFile(request[t])
  /\ NewDescriptors # {}
  /\ Make(request[t], InUse)
  /\ Notice
  /\ LET fd == Lowest(NewDescriptors) IN
       /\ fds' = [fds EXCEPT ![fd] = Descriptor(entry'[request[t].path], FALSE)]
       /\ retstat' = [retstat EXCEPT ![t] = fd]
  /\ Goto(t, "close")
  /\ UNCHANGED <<fh, errno, request, dirVars, calls, failed>>

\* Mutant: the descriptor is not closed.
MknodKeeps(t) ==
  /\ pc[t] = "close"
  /\ Return(t, {[ret |-> 0, errno |-> errno[t]]})
  /\ UNCHANGED <<tree, fds, streams, fh, request, dirVars, calls, failed>>

\* The descriptor is free whatever close returns.
MknodClose(t) ==
  /\ pc[t] = "close"
  /\ fds' = [fds EXCEPT ![retstat[t]] = None]
  /\ \/ /\ Return(t, log_syscall(0, errno[t]))
        /\ UNCHANGED failed
     \/ /\ Fails(t, EIO)
        /\ Return(t, log_syscall(-1, EIO))
  /\ UNCHANGED <<tree, streams, fh, request, dirVars, calls>>

-----------------------------------------------------------------------------
(* Opening and releasing a handle                                          *)

OpenDone(t) ==
  /\ Call(t, {"open", "opendir"})
  /\ Opened(request[t]) # None /\ NewDescriptors # {}
  /\ LET r  == request[t]
         fd == Lowest(NewDescriptors)
     IN /\ fds' = [fds EXCEPT ![fd] = Descriptor(Opened(r), r.sys = "opendir")]
        /\ unread' = [unread EXCEPT ![fd] = IF r.sys = "opendir" THEN NamesIn(Opened(r)) ELSE {}]
        /\ changed' = [changed EXCEPT ![fd] = {}]
        /\ fh' = [fh EXCEPT ![r.h] = fd]
        /\ Return(t, IF r.sys = "open" THEN ReportOpen(fd, errno[t])
                     ELSE ReportPointer(0, errno[t]))
  /\ UNCHANGED <<tree, request, dirVars, calls, failed>>

\* bb_open leaves -errno in fi->fh.
OpenFails(t) ==
  /\ Call(t, {"open", "opendir"})
  /\ \E e \in {EIO} \cup IF NewDescriptors = {} THEN {EMFILE} ELSE {} :
       /\ Fails(t, e)
       /\ \/ /\ request[t].sys = "open"
             /\ Return(t, ReportOpen(-1, e))
             /\ fh' = [fh EXCEPT ![request[t].h] = retstat'[t]]
          \/ /\ request[t].sys = "opendir"
             /\ Return(t, ReportPointer(-1, e))
             /\ UNCHANGED fh
  /\ UNCHANGED <<tree, fds, streams, request, dirVars, calls>>

\* libfuse forgets the handle with this call.
ReleaseDone(t) ==
  /\ Call(t, {"close"})
  /\ LET h == request[t].h IN
       /\ fds' = [fds EXCEPT ![fh[h]] = None]
       /\ unread' = [unread EXCEPT ![fh[h]] = {}]
       /\ changed' = [changed EXCEPT ![fh[h]] = {}]
       /\ fh' = [fh EXCEPT ![h] = Null]
  /\ \/ /\ Return(t, Report(request[t].by, 0, errno[t]))
        /\ UNCHANGED failed
     \/ /\ Fails(t, EIO)
        /\ Return(t, Report(request[t].by, -1, EIO))
  /\ UNCHANGED <<tree, request, dirVars, calls>>

-----------------------------------------------------------------------------
(* bb_readdir                                                              *)

StreamOf(t) == fh[request[t].h]

\* readdir returns an entry that has been there since opendir, once; whether it
\* returns one added or removed since then, POSIX leaves open.
Reads(t) ==
  \E n \in unread[StreamOf(t)] \cup changed[StreamOf(t)] :
    /\ de' = [de EXCEPT ![t] = n]
    /\ unread' = [unread EXCEPT ![StreamOf(t)] = @ \ {n}]

ReaddirFirst(t) ==
  /\ Call(t, {"readdir"})
  /\ Reads(t)
  /\ content' = [content EXCEPT ![t] = unread[StreamOf(t)]]
  /\ \E e \in log_msg(errno[t]) : errno' = [errno EXCEPT ![t] = e]
  /\ Goto(t, "fill")
  /\ UNCHANGED <<tree, fds, changed, fh, request, retstat, listed, calls, failed>>

\* readdir returns NULL at once.  At the end of a directory it leaves errno
\* alone, so that of an earlier call is reported, if there has been one.
ReaddirNull(t) ==
  /\ Call(t, {"readdir"})
  /\ \/ /\ unread[StreamOf(t)] = {}
        /\ Return(t, ReportPointer(-1, errno[t]))
        /\ UNCHANGED failed
     \/ /\ Fails(t, EIO)
        /\ Return(t, ReportPointer(-1, EIO))
  /\ UNCHANGED <<tree, fds, streams, fh, request, dirVars, calls>>

\* Mutant: the loop begins with a readdir, so the first entry is not passed on.
ReaddirFillNext(t) ==
  /\ pc[t] = "fill"
  /\ listed' = [listed EXCEPT ![t] = @ \cup unread[StreamOf(t)]]
  /\ Return(t, {[ret |-> 0, errno |-> errno[t]]})
  /\ UNCHANGED <<tree, fds, streams, fh, request, de, content, calls, failed>>

\* filler takes the entry, and readdir returns another; or there is no other, or
\* readdir fails, which ends the loop in the same way; or filler has no room.
ReaddirFill(t) ==
  /\ pc[t] = "fill"
  /\ \E e \in log_msg(errno[t]) :
       \/ /\ listed' = [listed EXCEPT ![t] = @ \cup {de[t]}]
          /\ \/ /\ Reads(t)
                /\ errno' = [errno EXCEPT ![t] = e]
                /\ UNCHANGED <<pc, retstat, failed>>
             \/ /\ unread[StreamOf(t)] = {}
                /\ Return(t, {[ret |-> 0, errno |-> e]})
                /\ UNCHANGED <<unread, de, failed>>
             \/ /\ Fails(t, EIO)
                /\ Return(t, {[ret |-> 0, errno |-> EIO]})
                /\ UNCHANGED <<unread, de>>
       \/ /\ Return(t, {[ret |-> -ENOMEM, errno |-> x] : x \in log_msg(e)})
          /\ UNCHANGED <<unread, dirVars, failed>>
  /\ UNCHANGED <<tree, fds, changed, fh, request, content, calls>>

-----------------------------------------------------------------------------

\* libfuse passes the result on, and has no handle when opening failed.
Reply(t) ==
  /\ pc[t] = "done"
  /\ Goto(t, "idle")
  /\ request' = [request EXCEPT ![t] = None]
  /\ retstat' = [retstat EXCEPT ![t] = 0]
  /\ de' = [de EXCEPT ![t] = None]
  /\ listed' = [listed EXCEPT ![t] = {}]
  /\ content' = [content EXCEPT ![t] = None]
  /\ failed' = [failed EXCEPT ![t] = 0]
  /\ fh' = [h \in Handles |-> IF fh[h] \in Descriptors THEN fh[h] ELSE
                              IF h = request[t].h THEN Null ELSE fh[h]]
  /\ UNCHANGED <<tree, fds, streams, errno, calls>>

Step(t) ==
  \/ OnPathDone(t) \/ OnFileDone(t) \/ NothingDone(t) \/ CallFails(t)
  \/ Mknod(t) \/ MknodClose(t)
  \/ OpenDone(t) \/ OpenFails(t) \/ ReleaseDone(t)
  \/ ReaddirFirst(t) \/ ReaddirNull(t) \/ ReaddirFill(t)
  \/ Reply(t)

Init ==
  /\ StartTree
  /\ fds = [d \in Descriptors |-> None]
  /\ unread = [d \in Descriptors |-> {}]
  /\ changed = [d \in Descriptors |-> {}]
  /\ fh = [h \in Handles |-> Null]
  /\ errno = [t \in Threads |-> 0]
  /\ request = [t \in Threads |-> None]
  /\ pc = [t \in Threads |-> "idle"]
  /\ retstat = [t \in Threads |-> 0]
  /\ de = [t \in Threads |-> None]
  /\ listed = [t \in Threads |-> {}]
  /\ content = [t \in Threads |-> None]
  /\ calls = 0
  /\ failed = [t \in Threads |-> 0]

Next == \E t \in Threads : Begin(t) \/ Step(t)
Spec == Init /\ [][Next]_vars

-----------------------------------------------------------------------------
(* Properties                                                              *)

Results == Descriptors \cup Lengths \cup {-e : e \in Errnos \cup {ENOMEM}}

StreamsOK ==
  /\ unread \in [Descriptors -> SUBSET Entries]
  /\ changed \in [Descriptors -> SUBSET Entries]

TypeOK ==
  /\ TreeOK
  /\ fds \in [Descriptors -> OpenFiles \cup {None}]
  /\ StreamsOK
  /\ fh \in [Handles -> Descriptors \cup {Null} \cup {-e : e \in Errnos}]
  /\ errno \in [Threads -> Errnos]
  /\ request \in [Threads -> Requests \cup {None}]
  /\ pc \in [Threads -> {"idle", "call", "close", "fill", "done"}]
  /\ retstat \in [Threads -> Results]
  /\ de \in [Threads -> Entries \cup {None}]
  /\ listed \in [Threads -> SUBSET Entries]
  /\ content \in [Threads -> {None} \cup SUBSET Entries]
  /\ calls \in 0..MaxCalls
  /\ failed \in [Threads -> Errnos]

\* A callback answers with an error exactly when its system call failed, and with
\* the error of that call; where errno is read after a line has been logged, it
\* may be the error of logging instead, but never success.
RepliesOwnError ==
  \A t \in Threads : pc[t] = "done" /\ request[t].sys # "readdir" /\ request[t].by # "nobody" =>
    /\ retstat[t] < 0 <=> failed[t] # 0
    /\ retstat[t] < 0 => \/ retstat[t] = -failed[t]
                         \/ /\ request[t].by = "log_syscall" \/ request[t].sys = "opendir"
                            /\ retstat[t] = -ENOSPC

\* Every open descriptor has one owner, a handle or a bb_mknod in progress, and
\* none is kept that is not open: none is lost, shared or closed twice, although
\* all threads take the lowest number that is free.
Owners(d) ==
  {h \in Handles : fh[h] = d} \cup {t \in Threads : pc[t] = "close" /\ retstat[t] = d}
DescriptorsOwned ==
  \A d \in Descriptors : Cardinality(Owners(d)) = IF d \in Open THEN 1 ELSE 0

\* A listing that succeeds passes on every entry that has been in the directory
\* since opendir and that no listing took before, and none that was never there,
\* whatever other threads add and remove meanwhile; unless readdir failed behind
\* the first entry, which the code takes for the end.
ListsAll ==
  \A t \in Threads :
    pc[t] = "done" /\ content[t] # None /\ retstat[t] = 0 /\ failed[t] = 0
      => /\ content[t] \ changed[StreamOf(t)] \subseteq listed[t]
         /\ listed[t] \subseteq content[t] \cup changed[StreamOf(t)]

\* "Every directory contains at least two entries: . and ..  If my first call to
\* the system readdir() returns NULL I've got an error": of a directory that has
\* not been removed.
NullIsError ==
  \A t \in Threads :
    pc[t] = "done" /\ request[t].sys = "readdir" /\ listed[t] = {} /\ retstat[t] # -ENOMEM
      /\ NamesIn(fds[StreamOf(t)].obj) # {}
      => failed[t] # 0

\* Users get what they would get of the directory below: errno, descriptors and
\* the two calls of bb_mknod amount to calls performed once on the right object.
Answer(t) ==
  CASE pc[t] \in {"idle", "call", "fill"}    -> -2
    [] pc[t] = "close"                       -> 0
    [] pc[t] = "done" /\ retstat[t] < 0      -> -1
    [] pc[t] = "done" /\ ~(retstat[t] < 0)   -> retstat[t]
File(h)  == IF fh[h] \in Open THEN fds[fh[h]].obj ELSE None
Answered == [t \in Threads |-> Answer(t)]
Files    == [h \in Handles |-> File(h)]
Promise  == INSTANCE Mounted WITH asked <- request, answer <- Answered, file <- Files

ImplementsMounted == Promise!Spec

=============================================================================
