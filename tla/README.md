# Formal model of the ECEC-353 programs

The repository holds four course programs in C, each a small concurrent system
built on shared memory, threads or callbacks. This directory models them in
TLA+, checks the models with TLC and proves theorems about them with TLAPS.

| program | what it is | in this project |
|---|---|---|
| `hw3/` | a chat service: one server process, many client processes, System V shared memory | the protocol, the start and end of processes, the hash table: modelled, checked and proved about, serial executions too |
| `hw2/` | a parallel grep over a directory tree, pthreads | both searches and the count in a file: modelled, checked and proved about |
| `hw4/fuse-tutorial-2016-03-25/src/` | BBFS, a FUSE file system that logs through an "atomic file" | both modelled, checked and proved about |
| `hw1/trap.c` | a fork/join trapezoidal rule | not modelled (section 10) |

The core is hw3: it has processes, threads, signals, a protocol, capacity and a
service promised to users, and nothing in it is tested beyond what one person
can type.

## 1. Inventory

### hw3 chat nodes and message exchange (`chat.c`, `chat.h`)

*State.* Every process owns one shared-memory segment, found by the hash of its
name: a status word (`AVAILABLE`, `RECIEVED_MESSAGE`, `WAITING_FOR_RESPONSE`,
`HANDLING_RESPONSE`, the last never used) and a buffer with room for one message.

*Operations.* `create_node` (create or attach), `detatch_node`, `free_node`,
`node_is_up`; `send_message`, which copies a message into the recipient's
buffer, marks itself WAITING, the recipient RECIEVED, and polls itself until it
is AVAILABLE; `respond_to_message`, which asserts that it is RECIEVED and that
the process its buffer names is WAITING, copies the answer to it, makes it
AVAILABLE, then itself.

*Hard.* Nothing is locked. A sender never looks at the recipient's status; a
responder finds the sender by reading a buffer that others may overwrite; a
node can be freed under those attached to it; polling has no timeout. A name is
tested and its node made in separate system calls, two names may have one key,
and a process may be killed between any two calls.

*Correct means.* A request is answered, to the process that sent it, before it
is overwritten; the assertions hold; a node has one owner, outlives its users,
and is gone when its owner is.

### hw3 server (`server.c`, `server.h`)

*State.* The table of clients (client to group), the table of groups (group to
member list), the count of clients; the request, by pointer into the shared
buffer. *Operations.* One handler each for join, broadcast, display, leave,
refuse, and SIGINT. *Hard.* The sender and the group are read again from the
shared buffer at each use; a broadcast is a send to every member in turn, each
of which must answer; capacity is tested in one place and counted in another; a
failed lookup is dereferenced. *Correct means.* The three records agree, the
capacity is respected, a broadcast reaches the members, and the server outlives
its clients' requests.

### hw3 client (`client.c`, `client.h`)

*State.* `kill_client`, the node, three threads of control: main, which joins
and then serves what reaches its node; the input thread, which turns lines into
requests; the SIGINT handler, which leaves. *Hard.* All three use one node; two
of them free it; the input thread and main send and answer through one status
word; a private message carries an uninitialised type. *Correct means.* A
client keeps its node until it is told to end, every line is answered, logging
out takes it out of the server's tables.

### hw3 hash table and linked list (`hashtable.c`, `linked_list.c`)

*State.* A chained table with copied keys and values it owns, bins sorted by key;
a singly linked list with a size beside its pointers. *Operations.* Create, free,
set, get, contains, remove; prepend, get, remove by index and by value, copy,
compare, print. *Hard.* Ownership: `ht_set` frees the value it replaces before it
copies the new one, `ht_get` hands out the table's own list to be changed in place,
every walk of a bin stops early and relies on the order, and every walk of a list
goes by a size that must agree with the pointers. *Correct means.* They implement a
map of sequences; every block has one owner.

### hw2 parallel grep (`mini_grep.c`, `queue_utils.c`, `queue.h`)

*State.* A linked queue of paths, a dirent buffer, one record per thread with
`is_running` and `result`, the count. *Operations.* `handle_element` (a file is
counted, a directory's entries are queued); serial search; static search (the
entries of the top directory dealt round to the threads, each with its own
queue, all with one dirent); dynamic search (main removes from one queue and
starts a thread per element; the threads insert). *Hard.* No lock: the shared
dirent is read again after the checks, the queue is inserted into by several
threads while main removes, and main reads `result` and `is_running` that the
threads write. *Correct means.* Each file is handled once, its count is added
once, the loop ends when, and only when, the work is done.

### hw4 atomic files (`atomic_file.c`, `atomic_file.h`)

*State.* A shared segment per opened file with a status word; a file.
*Operations.* `atomic_file`, `atomic_file_write`, `atomic_file_close`. *Hard.*
The status is tested and set in two steps; the segment is marked for removal as
soon as it is made, so processes that open the file later never find it; a failed
`fopen` or `shmget` is noticed only where its NULL is used. *Correct means.*
(`atomic_file.h:15-25`) one write at a time; the process that creates the
segment closes it, the others share it; nothing is left behind.

### hw4 BBFS (`bbfs.c`, `log.c`)

FUSE callbacks, each of which makes a system call on the directory below, logs
around it and answers with what `log_syscall` or `log_error` make of `errno`.
*State.* The descriptor table, the descriptors and streams in `fi->fh`, `errno` of
each thread. *Hard.* Callbacks run on many threads; `errno` is read after log calls
that may fail themselves; `bb_mknod` opens a descriptor it must close; a stream
keeps its place between two listings, and the directory changes under it. *Correct
means.* The error returned is the one of the system call, no descriptor is lost,
shared or closed twice, a listing has all that stays in the directory, and users get
what the directory below would give them.

### hw1 trapezoidal rule (`trap.c`)

Fork/join over four ranges, each summed by a thread of its own.

### The rest

Autotools output, the FUSE tutorial's HTML, its example directory and the PDF:
generated, vendored or prose. The repository holds no tests.

## 2. Plan

Done, in this order:

1. `ChatNode`, `ChatServer`, `ChatClient`, composed by `Chat`; `ChatGroups`, the
   service promised to users, and the refinement; `ChatProofs`.
2. `MiniGrep`, the queue and `handle_element`, and over it `GrepDynamic` and
   `GrepStatic`; `GrepWork`, the bag of work both should implement; `GrepMatch`,
   the count of occurrences in a file; `GrepProofs`.
3. `SharedMemory`, the System V calls that hw3 and hw4 rely on, and over it
   `AtomicFile` and `ChatStartup`; `AtomicProofs`, `StartupProofs`.
4. `Lists` and `Hashtable`, operations on a heap; `Tables`, a program that uses
   them; `TableMap`, the map of sequences they should implement; `TablesProofs`.
5. `HostFS`, the directory below; `BBFS`, the callbacks on it; `Mounted`, the promise
   to users, and the refinement; `BBFSProofs`.

6. Proofs of every safety invariant of `Chat`, the serial executions and the refinement
   of `ChatGroups` included; of the queues of both searches as chains, and of the sums
   over threads; of the count in a file: `ChatProofs`, `GrepProofs`,
   `GrepStaticProofs`, `GrepMatchProofs`.

7. Proofs of the tables; of `FindsAll` and the refinement of `GrepWork` by both searches,
   which hold of file trees only and need that said of the constants: `TablesProofs`,
   `GrepProofs`, `GrepStaticProofs`.

Next, in this order:

8. `Chat` over `ChatStartup`'s nodes, so that two processes of one key exchange
   messages through one node.

## 3. The chat service (hw3): the protocol

| module | models | state |
|---|---|---|
| `ChatNode` | `chat.c`: one action per access of `send_message` and `respond_to_message` to a shared node | `up` (names with a segment), `status`, `buffer`, `pc` and `call` of each thread, `kill` |
| `ChatServer` | the loop of `server.c`, one action per handler, split where the code sends, answers or reads the shared buffer again | `clients`, `groups`, `created`, `client_count`, `list`, `todo` |
| `ChatClient` | `client.c`: the steps of main, the input thread and the SIGINT handler; the actions of users | `acts` |
| `Chat` | the composition: `Init`, `Restart`, `Next`, the serial discipline, fairness, the properties | |
| `ChatGroups` | nothing in the code: what users are promised | `member`, `pending` |
| `MCChat` | constants for TLC | |
| `ChatProofs` | theorems about `Chat` | |

*Threads.* A thread is a pair of process and role: `<<c, "main">>`,
`<<c, "input">>`, `<<c, "sig">>`, and `<<Server, "main">>`. `pc` says where it is.
The names of the steps follow `chat.c`: a send is `copy` (line 116), `claim`
(117), `post` (120), `spin` (123); a respond is `check` (137), `attach` (139-140),
`reply` (142-147), `release` (149), `finish` (151). The caller's next step is kept in
`call[t].back`. The SIGINT handler runs on the main thread of its process and so
suspends it (`Suspended`).

*Nodes.* A segment is known by the name of its owner. `free_node` removes the
segment; a thread that was attached to it keeps a pointer to memory nobody else
can reach (`Orphaned` sets the peer of its call to `None`, and its later writes are
lost). A thread that touches its own process's freed node faults (`Fault`).
An assertion that fails and a `create_node` that does end the process (`Exit`);
its segment stays, as it does in the kernel.

*The server's tables.* A hash table is a function with `None` for absent, which is
what its sorted chains amount to (section 5); a member list is a sequence, newest
first; the pointer `list` is the group whose list it is. Lookups that fail are
`None`, and what the code then does with a NULL pointer ends the process
(`ServerNull`, `ServerLog`). `message`, `sender_name` and `group_id` are pointers
into the shared buffer, so every action reads `buffer[Server]` again.

*Merged steps.* Attaching to a node is merged with the copy that follows; a
message is copied in one step (a torn copy is not modelled); the second
assertion of a respond is merged with the attach before it. The server's
lookups happen in one step with the test of the type they follow, because no
shared write of the server lies between; its two table updates of a join are two
steps because the request can be overwritten in between. Finer reads are merged:
the several reads of the sender and the group on the way to the member list of a join
(`ServerJoin`), the two removals and the count of a leave, each of which reads the
sender (`ServerRemove`), and in a broadcast the attach to the server's own node with
the poll that ends the wait (`ServerAwait`: were the node freed just between them,
the server would poll a segment nobody else reaches, and here it faults). With more
overlap than that the tables can only be wrong in more ways, and what is claimed of
overlapping executions does not speak of the tables but for the count.

*Users.* Users act through `Start`, `TypeLine`, `TypeDisplay`, `TypeExit`,
`TypePrivate`, `CtrlC`, `Stop` and `Restart`. `acts` counts these actions and `MaxActs`
bounds them; nothing else in the model is bounded. A line is a model value
(`Texts`), parsing is abstracted to the command it selects.

*Uninitialised data.* `message.type` of a private message, and `response.type` of
several answers, are never assigned. The value is drawn from the constant
`Stale`. `UNKNOWN` stands for every number outside the enumeration. A run draws
from the values its cfg names, the theorems from any.

*Not in this model.* Names share no key and `Start` is one step: what happens
otherwise is `ChatStartup`'s subject. Sleeps are plain delays. Command-line errors end a
process before it touches anything shared. A segment left behind by a crashed
process stays, as the code has no way to remove it, so a crashed server cannot
be started again (`NodeIsUp` in `Restart`).

### The serial discipline

Much of what the service should do it does only when requests do not overlap:
`chat.c` has no lock and no queue. `SerialSpec` lets a user act only when every
thread is waiting for a message or a user (`AtRest`). This is a restriction on
the *users*, never on the steps of the program: one user action can still set
off the server, all members of a group and their three threads, in every
interleaving. Properties of `Spec` are what survives without the restriction.

## 4. The chat service (hw3): start and end of processes

| module | models | state |
|---|---|---|
| `SharedMemory` | external: `shmget`, `shmat`, `shmdt` and `IPC_RMID` as the code relies on them | `keyed` (the segment a key finds), `live`, `marked`, `attached` |
| `ChatStartup` | the beginning and the end of `main` in `server.c` and `client.c`, `create_node`, `free_node` and `node_is_up` of `chat.c`, one action per system call | `pc`, `found`, `node`, `kills`; `revived`, `met` (history) |
| `MCChatStartup` | an instance for TLC | |
| `StartupProofs` | theorems | |

A client tests whether the server's node is up, then whether one of its own name
is (`shmget`, `shmat`, `shmdt` each time), then makes its node (`shmget` with
`IPC_CREAT`, `shmat`). A server does the same with its one name. Names are mapped
to keys by an arbitrary function `name_to_key`, so collisions of the hash
(`chat.c:11`) are among its values.

A segment that has been destroyed cannot be attached to: `shmat` then returns -1,
and the code looks for NULL. `AttachFound` ends the process by the failing
`shmdt` that follows, `Shmat` by the fault of the first access, `Shmctl` by the
failing `IPC_RMID`.

A process ends in one of these ways:

- `Leave`: ctrl-c, a refusal, or being told to leave, all by `free_node` (`Shmdt`,
  `Shmctl`);
- `Exit`: `[exit]` in a client, where main returns and leaves the node;
- `Abort`: an assertion of `respond_to_message` (`chat.c:137`, `140`), a `create_node`
  that finds no recipient (`chat.c:30-35`), a lookup that gives the server NULL
  (`server.c:109`, `123`); the node stays;
- `Kill`: SIGKILL at any step, or ctrl-c at a step where no handler can help. `MaxKills`
  bounds the kills.

The SIGINT handler of the server returns into the code it interrupted, so behind
`free_node` there may be `server.c:135`, which makes a node again (`Revive`, then the fault
of the next access to the old one, at once or, when a node of that name is there
already, by `Resume`). A running server makes one in the same way when a
second server, with which it shared its node, has freed it. `revived` is the set of
nodes made so.

Between "run" and its end a process does what `Chat` describes. Its passing attachments
to the nodes of others are left out: they delay the end of a node that is marked, and
do nothing else.

`met` is a history variable: the pairs of processes that were both between the test
of their name and the `shmget` that makes the node. Every property is stated
relative to it, because without a race the program keeps what it promises.

## 5. The hash table and the lists (hw3)

| module | models | state |
|---|---|---|
| `Lists` | `linked_list.c`, each function as an operator from heap to heap | |
| `Hashtable` | `hashtable.c`, likewise | |
| `Tables` | a program that uses both in every way their headers offer | `heap`, `entry_count`, `own` (its own lists) |
| `TableMap` | nothing in the code: a map of sequences | |
| `MCTables` | an instance for TLC | |
| `TablesProofs` | theorems about `Tables` | |

The heap maps every block to what is in it: a list (size, head), a node (value,
next), an entry (key, list, next), a bin, or free memory. `free` makes blocks free
again, `malloc` takes a free one (which one is of no consequence, as free blocks
are alike), so a block that is used after it was freed, or freed while something
leads to it, shows in `OwnedOnce`. The walks stop where the code stops:
`Before` is the place where `ht_set`, `entry_for_key` and `ht_remove` end theirs.

Sequential code needs no interleavings; what is explored is every sequence of calls.
Values of the table are lists, because `group_to_clients` is the only table in
which ownership is at stake (the other table's values are strings). The program
works in place on lists that `ht_get` returned, as `server.c` does. It does not give
`ht_set` the very list it replaces, which `ht_set` would read after freeing it
(`r # k` in `Set`); `server.c` does not either.

## 6. The parallel grep (hw2)

| module | models | state |
|---|---|---|
| `MiniGrep` | `queue_utils.c` access by access, `handle_element` and `handle_dir` of `mini_grep.c` | the elements (`node`, `next`, `used`, `freed`), `head` and `tail` of every queue, the shared dirent (`entry`), `pc` and `local` of each thread, `args` (thread_args), `fault` |
| `GrepDynamic` | `parallelSearchDynamic`, `handle_element_wrapper`, `thread_is_working`, `first_available_thread` | `num`, `slot`; `overlap` (history) |
| `GrepStatic` | `parallelSearchStatic` and `serialSearchActual` in its threads | `num`, `count`, `slot`; `overlap` (history) |
| `GrepWork` | nothing in the code: a bag of work, each piece handled once, its count added once | `todo`, `total` |
| `GrepMatch` | `handle_file`, character by character | `pos`, `i`, `count`, `done` |
| `MCGrep`, `MCGrepDynamic`, `MCGrepStatic`, `MCGrepMatch` | file trees and words for TLC | |
| `GrepProofs`, `GrepStaticProofs`, `GrepMatchProofs` | theorems about `GrepDynamic`, `GrepStatic` and `GrepMatch` | |

*Threads.* Thread 0 is main; thread `i` runs in slot `i` of `thread_args`.
Queue 0 is main's, queue `i` belongs to thread `i` of the static search; in the
dynamic search all threads use queue 0 (`args[i].queue`).

*Steps.* Each read or write of a queue's `head` and `tail`, of an element's
`next`, of the dirent and of a slot of `thread_args` is a step. `insertElement`
reads `queue->tail` twice, once to link and once to advance, and both reads are in
the model (`GetTail`, `GetNext`); so are the two reads of `queue->head` in
`removeElement` (`Take`, `Follow`). This takes the accesses as they are written,
which is what the build without optimisation does; a compiler that keeps `tail`
in a register would leave out some of these interleavings and add none that the
properties below depend on being absent. Three merges: a pointer of the queue
and the `next` of the element it leads to are read in one step (`GetNext`,
`Follow`); the test of the loop looks at all `is_running` flags in one step, since
only main ever sets one; and dealing an element to a thread is one step, since no
thread runs yet.

*Paths.* A path is known by what it leads to (`node`), and the file tree does not
change during a search. A thread that finds another thread's name in the dirent
makes a path of its own directory and that name: `Target` then gives `Nowhere`,
for which `lstat` fails and `handle_element` returns -1.

*Not in the model.* `malloc` and `readdir_r` do not fail, nor does `pthread_create`,
whose result nobody looks at: in the dynamic search `is_running` would stay set
(`mini_grep.c:417-418`) and main would poll for ever, so `Ends` supposes that threads
can be made. The word to search for is not empty, although main looks only at the
number of its arguments (`mini_grep.c:31`). A freed element's memory
is not used again by the next `malloc`. The number of threads is positive
(`atoi` of a word gives 0: the static search then divides by zero and the
dynamic one polls for ever). The serial search is the loop of one static thread.
`MaxElements` bounds the elements: a thread that has named an entry waits when
none is left. Each cfg gives it the number of paths its tree has. Only a race can
need more (an entry named twice, or `.` named in place of an entry, which makes a
thread list a directory again, without end if it goes on).

*Trees.* The path searched is `/`, whose `..` is itself. `Deep` has a directory in a
directory, an unreadable file and files beside it; `Twin` two directories side by
side, so that two threads list at once. `.` and `..` stand at different places of
the listings, because the dirent is read again after each comparison. The counts
of the files are distinct powers of two, so one in place of another shows in the
sum.

*`overlap`* is a history variable: in `GrepDynamic` it becomes TRUE when two threads
(main included) are inside an operation on the queue or the dirent at once, in
`GrepStatic` when two threads are inside `handle_dir` at once. The properties that
unlocked sharing breaks are stated of the executions where it stays FALSE, which
says exactly what the missing lock costs; those that hold anyway are stated of all.

## 7. Atomic files and BBFS (hw4)

### Atomic files

`AtomicFile` models `atomic_file`, `atomic_file_write` and `atomic_file_close` of
`atomic_file.c` over `SharedMemory`, with the log's callers as the threads that
write.

| state | code |
|---|---|
| `keyed`, `live`, `marked`, `attached` | the kernel's segments (`SharedMemory`) |
| `status` | `seg->status` |
| `pc`, `shm_exists`, `segment`, `file` | a process inside `atomic_file`, what it has got (`file`: whether `file_pointer` is not NULL), and how it ended |
| `at`, `writes` | a thread inside `atomic_file_write` |
| `met`, `raced`, `kills`, `refused` | history: which processes were opening at once; which segments two threads, or a thread and an opener, used at once; processes killed from outside; which process was refused a call, and where |

`Probe` and `AttachSegment` end the process when the segment has gone, as in
`ChatStartup`; `shmget` that finds nothing makes `shmalloc` return NULL,
`atomic_file` goes on, and the first write or the close faults.

*Refusals.* The kernel may refuse any call for a reason of its own: rights, limits,
memory, a missing directory. `Refuse` is what the code then does. After `shmget` in
`shm_seg_is_up` the segment counts as missing; after `shmget` in `shmalloc`, with or
without `IPC_CREAT`, the segment is NULL, and the first write or the close faults;
`shmat` returns -1, which nobody looks for, so `shmdt` or the next access fails; after
`shmctl` the process exits. After `fopen`, whose result nobody looks at
(`atomic_file.c:208`), `file` stays FALSE, and the first `vfprintf` faults with the status at
WRITING, or else `fclose` does. `MaxRefusals` bounds the refusals. `shmdt` of what is
attached is not refused.

The key made of the file name is taken to be injective. `shmrealloc`,
`free_shm_seg` and `buffer_start` are never called. A process closes when none of
its threads writes: FUSE has stopped its threads when it calls `destroy`. The
fork of the FUSE daemon is left out, and so are the lines that are printed.

### BBFS

| module | models | state |
|---|---|---|
| `HostFS` | external: the directory below, one level of names, and what each system call does to it | `entry` (name to object), `object` (kind, length, attribute) |
| `BBFS` | every callback of `bb_oper` that makes a system call or only logs, and the reporting functions of `log.c` | `fds` (the descriptor table), `unread` (of each directory stream), `fh`, `errno`, `request`, `pc`, `retstat`, `de`, `listed`; `changed`, `failed`, `content` (history) |
| `Mounted` | nothing in the code: what users of the mounted directory are promised | `asked`, `answer`, `file` |
| `MCBBFS` | an instance for TLC | |
| `BBFSProofs` | theorems about `BBFS` | |

*Callbacks.* Most callbacks differ only in the system call they make and in how they
report on it: `log_syscall`, `log_error` or not at all. `bb_getattr` ... `bb_ftruncate` say
so, one definition each, as requests; `OnPathDone`, `OnFileDone`, `NothingDone` and
`CallFails` perform them. `bb_mknod`, `bb_open`, `bb_opendir`, the releases and
`bb_readdir` have steps of their own.

*Steps.* A callback is a step that logs (`Begin`), a step for each system call with what
the thread then does by itself, and the answer (`Reply`). A thread touches nothing
that others see but by its system calls, which is why the rest needs no steps. The
listing takes one step per `readdir`.

*readdir.* What is assumed of it is what POSIX says. A stream returns once every
entry that has been in the directory since `opendir`; of an entry that was added,
removed or replaced since then (`changed`) it may return anything or nothing, at any
time and again. It ends only when all of the first kind has been returned, or it
fails. `unread` is what it still owes, whatever other callbacks do to the directory
between two `readdir`s (`Notice`). The stream is that of the handle: a listing that
begins where another has ended finds nothing. `.` and `..` are one entry, which a
directory that has been removed has lost.

*errno.* Each thread has its own. Any log line may fail to be written and then leaves
`ENOSPC`, which stands for every error of writing; a failing system call leaves `EIO`,
which stands for every error of its own, or `EMFILE` when the descriptor table is
full. An operator for each function of `log.c` gives the results it may return
with the errno it may leave. A system call may always fail.

*What libfuse is assumed to do* (`Calls`): a handle is opened once; used while it is open;
released once, when no other call uses it; a directory handle serves one call at a
time; a handle that could not be opened is forgotten. The path of most callbacks is
not the root (the kernel does not unlink, rename or truncate a mount point).

*Left out.* `bb_init` and `bb_destroy` only log, before and after all else. `setattr` stands
for everything that sets mode, owner, times or extended attributes, and "look" for
everything that reads them. Data is a length. `fsync` and `fstat` of an open file are one
kind of call. Paths that are too long, `main` and mounting are left out; so is
what a host without `HAVE_SYS_XATTR_H` or `HAVE_FDATASYNC` would compile away.

## 8. What is checked

`violation` runs are findings: TLC shows that the code does not do what one of its
lines says. State counts are those of a complete exploration.

| run | instance | what it shows |
|---|---|---|
| `overlap` | 2 clients, 1 group, all commands, restart; left-over types LEAVE_GROUP and one outside the enumeration; 4 user actions; 1.14 M states | What survives any overlap: a node of a running process is WAITING only while a thread of it is in a send (`WaitingMeansBlocked`), a client keeps its node until it is told to end (`NodeHeldUntilKilled`), the server never admits more than its capacity (`CapacityRespected`) |
| `serial` | 3 clients, 2 groups, capacity 2; 6 user actions, one at a time, ctrl-c at the server among them; 267 k states, symmetry | The tables agree (`RegistryConsistent`), the two assertions of `respond_to_message` hold (`RendezvousPaired`), a broadcast reaches every member (`BroadcastDelivered`), the server implements `ChatGroups`, and it ends only in one way (`ServerFallsOnlyWhenFull`) |
| `serial_live` | 3 clients, 1 group, all commands, restart; the same left-over types; 4 user actions one at a time; 60 k states, fair | Every send is answered (`SendReturns`) unless the server has ended, a client ended by `[exit]` and left its node, or the message was private and its left-over type told the recipient to leave; ctrl-c takes a client out of the tables and frees its name (`LogoutCompletes`) |
| `lost_request` (violation) | 1 client, 3 user actions, fair | A line posted while main of the client answers a broadcast makes the server poll for ever |
| `startup` | 2 servers, a client, a client whose name has the server's key; 4 segments; 1 kill; 252 k states, symmetry | Processes share a node only if both tested for it before either made it (`SharedByRaceOnly`); a process loses its node, or faults on one, only if it started in a race (`LosesNodeByRaceOnly`); `free_node` leaves no node behind: one without a user was left by an end without it, or made anew by a server (`LeftWithoutFree`) |
| `tables` | 4 keys in 2 bins, 2 texts, 2 lists of the program; 3 lists, 4 nodes, 3 entries of memory; 9 k states, symmetry | Every block has one owner (`OwnedOnce`), bins are sorted (`Sorted`), sizes and early ends read what is there (`ReadsRight`), and every operation does what it would do to a map of sequences (`ImplementsMap`) |
| `dynamic` | 2 threads, `Twin`; 712 k states, fair | In every execution: main leaves no work (`LeavesNoWork`), no element is handed out twice or after it was freed (`HandedOutOnce`), each count is added once (`CountedOnce`). Where no two threads use the queue or the dirent at once, the search finds what there is (`FindsAll`), ends (`Ends`) and implements `GrepWork` |
| `static` | 2 threads, `Deep`; 21 k states, fair | In every execution the queues stay apart (`QueuesApart`); where no two threads list at once, the search is exact (`FindsAll`), ends and implements `GrepWork` |
| `match` | all words up to 3 and texts up to 6 of two letters (`Chars`); 14 k states, fair | `handle_file` never counts what is not there, counts everything where the first letter never occurs twice in a row (`CountsRight`), and ends |
| `atomic_file` | 2 processes of 2 threads, 1 write each, 1 kill, 1 refused call; 191 k states, fair | One write at a time but for two named races (`OneWriteAtATime`); opening, writing and closing fail only where a call was refused or two opened at once (`FailsByRaceOrRefusal`); nothing is left behind without kills and without refusals of `shmat` and `shmctl` (`NothingLeftBehind`); a write returns unless somebody was killed or his `fopen` refused (`WriteReturns`) |
| `bbfs` | 2 threads, 2 names, 2 objects, 2 handles, 2 descriptors; 3 calls; 1.7 M states, symmetry | Every answer is that of the callback's own system call or of logging it (`RepliesOwnError`), every open descriptor has one owner (`DescriptorsOwned`), a listing passes on all that stays in the directory and nothing that was never there, while others change it (`ListsAll`), and users get what the directory below would give them (`ImplementsMounted`) |
| `bbfs_again` (violation) | 1 thread, 1 handle, 3 calls | The second listing of an open directory that still has its entries answers with an old errno |

The type invariants of `Chat` and `GrepDynamic` are checked in `overlap` and `dynamic`;
those of `ChatStartup`, `AtomicFile` and `BBFS` are proved (section 9).

### Why the bounds are enough

*Chat.* The protocol's hazards need a requester, a second writer to the same node
and a node that both forget: two clients and the server have them. The third
client is there for the full table (capacity 2) and for a broadcast to more than
one other member; two groups for a join to an unseen group at capacity and for a
client that comes back into another group. A user action sets off dozens of
steps of up to four processes and all their interleavings; four actions let two
clients join and two of their requests overlap, six let a client leave, join
again and be broadcast to. `serial_live` has one group so that every command and a
left-over LEAVE_GROUP fit; two groups (226 k states), and a third left-over type
(130 k), gave the same results. `MaxClients` is 2 instead of 10: nothing in the server
depends on its value but the test.

*Startup.* Each process starts once. Three of the four have one key: a race needs two,
and a third takes the node of a racing pair out of the way; the other client ends and
leaves while they do. Identifiers are not used again: who would make a fifth
segment waits. Five processes, the fifth a second client of one name, gave the same results
(6.3 M states). The theorems cover any number of all of these.

*Tables.* Three keys share a bin, so an entry comes to lie before, between and behind
others; four nodes let two lists of two exist, or one of three beside another; three
lists let a value be replaced while its source is kept. Only free memory bounds
the calls.

*Grep.* Two threads lose, double and mistake entries, since every conflict in the
code is between two accesses; main interleaves with both. One element more than
the cfg allows gave the same results (3.4 M states in the dynamic search).

*Match.* Words of three letters give false starts of one and of two characters,
with and without the first letter repeated; texts of six hold two occurrences,
or two false starts and an occurrence.

*Atomic files.* Two processes race in all the pairs of steps; one kill covers a
creator that dies before it marks, and one refusal each call that can be refused, by
either. Two refusals (341 k states) kept the invariants as well.

*BBFS.* Two descriptors are taken by two handles, or by a handle and a `bb_mknod` that
then leaves none; three calls let one thread open, list or write while the other
renames, unlinks or makes the same name, before or between its `readdir`s. The start is any directory of two names.
What needs more calls or threads is proved.

Deadlock is not checked, because every system here may stop: users need not act,
processes end, searches end, and the bounds on user actions, writes and calls end
a behaviour; a table may be left alone when memory is used up.

*Symmetry.* Clients and groups are interchangeable in the safety runs of the chat,
segments and servers in `startup`, blocks in `tables` (`malloc`
chooses among free blocks, which are all alike), names, objects, handles and
threads in `bbfs`. The descriptors are not: they are ordered. No liveness run uses
symmetry.

### Fairness

Weak fairness for each thread of the program, and nothing else: the operating
system schedules every thread again and again, and a thread that polls takes a
step whenever its condition holds. Users, signals, kills, the opening and the
closing of files owe nothing. `WriteReturns` needs no strong fairness only
because `MaxWrites` is finite: a thread that polls without a queue can be overtaken
as long as others write. `ChatStartup`, `Tables` and `BBFS` state no liveness: their
processes wait for nobody.

### Findings

1. `lost_request`, `chat.c:120`. While the server sends the broadcast of a first line
   to its only member, the member's input thread is in `send_message` with a second
   one, behind line 117. Its main answers the broadcast and sets the server's
   node AVAILABLE (149). Before the server looks (123), the input thread posts RECIEVED
   there (120). The server polls for AVAILABLE, and nobody will set it: whoever could
   waits for the server. ("Send a message and receive a response", `chat.c:109`.)
2. `bbfs_again`, `bbfs.c:608`: the comment above (`bbfs.c:601-604`) says that a first
   `readdir` that returns NULL is an error. The stream keeps its place in `fi->fh`, so
   after `opendir` and one listing, of a directory that still has its entries, a
   second listing begins at the end, where `readdir` leaves errno alone, and
   `bb_readdir` answers with an errno of an earlier call or with an empty listing.

### Known deviations kept without a run of their own

Chat:

- Two clients that send at once overwrite each other's request, and the one whose
  request is gone waits for ever, or the server fails the `assert` at `chat.c:140`:
  `send_message` never looks at the recipient's status. `RendezvousPaired` holds only of
  serial executions.
- A responder makes its own node AVAILABLE last (`chat.c:151`) and so erases a request
  that was posted meanwhile.
- Whom `respond_to_message` finds WAITING (`chat.c:140`) is in its send at that moment, by
  `WaitingMeansBlocked`. But two responders may both have looked, and the second then
  writes (143, 149) to a client that the first has released.
- A join at capacity to a group that does not exist is answered and then printed
  through a NULL list (`server.c:109`). `ServerFallsOnlyWhenFull` says that under
  serial use this is the only way the server ends.
- The comment at `server.c:134` announces a wait for the sender; the code waits for
  the server's own node. Under serial use nothing depends on it.
- `[exit]` sets `kill_client` before it sends the leave request (`client.c:13`), and
  main may end the process first: the client stays a member, its node stays up,
  its name cannot be used again. `Stranded` is this state.
- A private message has no type (`client.c:57`); its recipient may take it for a
  LEAVE_GROUP, free its node and end without an answer, and the sender then polls for
  ever (`Dismisses`, an exception of `SendReturns`); or the server may take it for any
  request.
- A server that ends in any other way than by ctrl-c leaves its node, and no other can
  start; ctrl-c in the middle of a broadcast can leave a node made anew
  (`server.c:135`). `LeftWithoutFree` names both.
- "Only 1 server should be up" (`server.c:43`) does not hold of two servers started at
  once: both pass the test and share a node, and when one ends it takes the node
  away from the other. A client whose name has the key of the server's is refused as
  if its own name were in use.
- A join leaks the list it has made for a new group, since the table keeps a copy
  (`server.c:87-89`). `malloc` that fails is dereferenced (`ht_create` tests the
  wrong pointer the second time).

Grep:

- With several threads the count depends on the schedule, because queue and dirent
  are shared without a lock (`mini_grep.c:116`, `queue_utils.c:34`), while
  `hw2/README.md:9` expects one count.
- `handle_file` does not find `ab` in `aab`: after a false start of `i` characters
  `fseek(1-i)` leaves the offset two, not one, behind the start (`mini_grep.c:145`).
  `CountsRight` says when the count is exact.
- A path for which `lstat` fails counts as -1 (`mini_grep.c:173`) and lowers the
  total; the comment at line 164 says that an error returns 0.
- `insertElement` can follow a NULL tail when another thread has just set the head
  of the empty queue (`queue_utils.c:31-34`): `fault` in `Link` and `GetNext`.

Atomic files and BBFS:

- A segment is marked for removal as soon as it is made (`atomic_file.c:116`), so
  a process that opens the file later never finds it, makes one of its own, and the two
  never exclude each other, while `atomic_file.h:20-25` has the later ones share the
  creator's. No property speaks of it: one that said that they share fails, and one
  that said that they do not would state what the file should not do.
- Two threads can pass the test at `atomic_file.c:223` together, against
  `atomic_file.h:15-19`. `OneWriteAtATime` says which races lead to that.
- `fopen` and `shmalloc` may return NULL and nobody looks (`atomic_file.c:196`, `208`): the
  first write or the close faults, and a fault in `vfprintf` leaves WRITING behind for the
  threads of other processes.
- `fi->fh` of an open that failed is -errno, not "exactly -1" (`bbfs.c:301-303`).
- Where a line cannot be logged, the error of logging can be answered in place of the
  system call's: `log_syscall` reads errno again after `log_error` has written a line,
  `bb_opendir` and `bb_readdir` write one before they read it. `RepliesOwnError` allows
  exactly this.
- An error of `readdir` behind the first entry ends a listing as a success (the
  exception of `ListsAll`). A listing
  that stops with ENOMEM is taken up behind the entry that had no room.
- `bb_mknod` of a regular file answers with the error of `close`, although the file has
  been made (`FailLate` in `Mounted`).
- `main` of `bbfs.c` does not look at what `realpath` returns.

## 9. What is proved

TLAPS checks every proof to the last leaf; nothing is assumed but the named
assumptions on constants, which TLC evaluates in the runs. A lemma per action
shows that the action keeps (a part of) the invariant, and one lemma combines them.

`ChatProofs`, from `ChatAssumption` (the server is no client, `None` is no name, the
capacity is positive, stale types are types):

| theorem | statement | argument |
|---|---|---|
| `TypeCorrect` | `Spec => []TypeOK` | `TypeOK` is not inductive: a broadcast reads `groups[list]`, so `list` must not be None there, and a send returns to the step in `call[t].back`. `TypeInv` adds these (`ServerLists`, `ServerCalls`) |
| `Capacity` | `Spec => []CapacityRespected` | `ServerInv` adds `Room`: at `enroll` the count is still below capacity, although the request may have changed since the test |
| `NodeHeld` | `Spec => []NodeHeldUntilKilled` | `HoldInv` adds that a handler runs only in a client that has been told to end (`Handlers`): a free by the handler, by main or by a refused join each follows a kill or ends the process |
| `WaitersWait` | `Spec => []WaitingMeansBlocked` | `FollowInv` says which steps can follow a send or a respond in each role (so a handler never returns into main's steps); with it a node leaves WAITING before its owner's thread leaves the poll. It is a statement about the moment of the test, not of the answer |

and of its serial executions (`SerialSpec`), by `SerialInv`:

| theorem | statement | argument |
|---|---|---|
| `Rendezvous` | `SerialSpec => []RendezvousPaired` | `PlaceInv` and `TurnInv` |
| `Registry` | `ToClientsOnly`: `SerialSpec => []RegistryConsistent` | `TalkInv` (`Books`): outside the two updates of a join a member list has no name twice and holds who the client table says |
| `BroadcastReaches` | `ToClientsOnly`: `SerialSpec => []BroadcastDelivered` | `TalkInv` (`WalkInv`): the walk of the list has reached whom it has passed, and the list cannot change under it because the server has the turn |
| `ServerFalls` | `ToClientsOnly`: `SerialSpec => ServerFallsOnlyWhenFull` | `TalkInv` (`Remembers`, `FitsInv`): whom the server looks up it has enrolled, so every other lookup finds something |
| `GroupsImplemented` | `ToClientsOnly`: `SerialSpec => ImplementsGroups` | initial states map to initial states; every step of the server maps to a step of `ChatGroups` or a stutter, and no other step changes what is mapped |

Users wait for the system to be at rest, but one user action sets off many threads, so the
invariant has to say what each of them can be doing meanwhile. It has three layers.
`PlaceInv` says where the threads of one client can be together. `TurnInv` says that at
most one thread has the turn (`OneTurn`): it is about to put a message before a process, or
has one to answer, or is the server going on by itself; and what the nodes and the
other threads are like in each case. That pairs every answer with its request.
`TalkInv` says what is asked and answered and how it fits the server's tables. It
needs `ToClientsOnly`, a hypothesis about the users: nobody writes a private message to the
server, which takes it for whatever its uninitialised type says, and nobody starts
the server anew while clients of the old one run, as it knows none of them. Both are
among `Commands`, and the `serial` run leaves them out too; the theorems without the
hypothesis are those of `Spec` and `Rendezvous`.

`StartupProofs` and `AtomicProofs` begin, from `SharedMemoryAssumption` (finitely many
processes), with what each call of `SharedMemory` keeps (`KernelInv`): the types of the
kernel's tables, that a key finds only segments that exist and are not marked
(`KeyedLives`), and that a marked segment exists only while somebody is attached to it
(`MarkedInUse`).

`StartupProofs`, from `ChatStartupAssumption` (servers have the server's name), for any
processes, names, keys, segments and number of kills:

| theorem | statement | argument |
|---|---|---|
| `StartupTypeCorrect` | `Spec => []TypeOK` | inductive as it stands: it says where `found` and `node` are segments |
| `SharedOnlyByRace` | `Spec => []SharedByRaceOnly` | `RaceInv` follows a node from the `shmget` that made or found it: whoever is in the window when a key finds a segment has met the maker and every process that has it (`MetInWindow`, `MetMaker`, `MetSharer`) |
| `NodeLostOnlyByRace` | `Spec => []LosesNodeByRaceOnly` | also `RaceInv`: a process that has met nobody keeps its node keyed (`KeepsNode`), and only one that has met somebody faults (`FaultsMet`) |
| `UniqueButForRaces` | `Spec => []UniqueUnlessRaced` | two processes that both keep their node under one key have the same node, and then `SharedByRaceOnly` applies; not a property of a run |
| `FreeNodeLeavesNone` | `Spec => []LeftWithoutFree` | `LeftInv`: a process that runs is attached to its node (`AttachedToNode`), and a segment that exists unmarked has an owner in one of the named steps or was made anew (`HasOwner`) |

`GrepProofs`, from `MiniGrepAssumption` (at least one thread, targets and listings
well typed), for every tree, number of threads and interleaving:

| theorem | statement | argument |
|---|---|---|
| `GrepTypeCorrect` | `Spec => []TypeOK` | pointers must lead to allocated elements (`Allocated`), a thread that handles an element must hold one (`InHand`), and main's slot must be a slot where it is used (`Roles`) |
| `MainLeavesNoWork` | `Spec => []LeavesNoWork` | `Leaving`: once the test has found no thread running, none is until main starts one; a thread at work is marked running (`Roles`), so the queue that was empty stays so |
| `QueueHandsOut` | `Spec => []HandedOutOnce` | `ChainInv`: a new element is loose, known to its maker alone, until it is linked (`LooseEnds`); no chain comes back to itself (`NoCycle`); and what main can still hand out, from the head or the element it is removing, is apart from what is freed or in a hand (`HandsApart`). A racing insertion cuts the chain or hangs an element behind one that is gone, which only shrinks what main can reach |
| `CountsAddedOnce` | `Spec => CountedOnce` | `CountInv`: a slot whose thread is at work has result 0, and main has collected the result of the slot it is about to fill, so that nothing is overwritten or collected twice; lemmas on sums over threads say what a step at one thread does to the sum |
| `SearchFindsAll` | `ASSUME Tree PROVE Spec => []FindsAll` | at the end nothing waits and nothing is owed, so that the handled elements are the tree and what they yielded is `Total` |
| `SearchImplementsWork` | `ASSUME Tree PROVE Spec => ImplementsWork` | `Pending` is what waits and what is owed; only `Stat` changes it, by one step of `GrepWork` |

The last two hold of file trees and of executions in which no two threads overlap. `Tree`
(in `MiniGrep`) says the first: a directory lists a name once, everything below `Root` has
one place, and what can be read is found by going down from `Root`. TLC evaluates it for
the trees of both runs (`MCGrepAssumption`). For the second there is the invariant
`SearchInv == ~overlap => Right`, where `Right` has four parts:

- `Alone`: one thread at a time is in `handle_dir` or `removeElement`;
- `Serial`: what that thread has read of the queue still holds, and head and tail agree;
- `TreeInv`: every node is in one place. What waits in the queue or in a hand (`Waiting`)
  and what a directory being listed has still to give (`Owed`) have not been reached before
  (`Untouched`), what has been handled has given all it reveals (`Complete`), and each
  element but the first was revealed by another (`Planted`);
- what has been found is the sum of the occurrences in the files that were handled.

`Waiting` is what can be reached from the head, by a definition (`Reach`) that needs no
recursion: what is in every set that has the head and is closed under `next`. `ChainIs`
shows that it is the recursive `Chain` of the properties.

`GrepStaticProofs`, from `MiniGrepAssumption`:

| theorem | statement | argument |
|---|---|---|
| `EachHasItsQueue` | `Spec => []QueuesApart` | there is a set of elements for each queue (`Parted`), disjoint from the others (`Apart`), which its `next` pointers do not leave and in which each element is the next of at most one and the head of none (`Line`), with the tail at its end but for the steps of the one thread that is about to move it (`End`). Dealing moves an element from one set to another, an insertion adds a loose one, a removal takes the head out; `Chain` stays within the set |
| `StaticFindsAll` | `ASSUME Tree PROVE Spec => []FindsAll` | when main is done every queue is empty and every thread is off and joined (`CountInv`), so nothing waits and nothing is owed, and `num` is all of the credit |
| `StaticImplementsWork` | `ASSUME Tree PROVE Spec => ImplementsWork` | `Pending` is what waits and what is owed; main's `Open` and a thread's `Stat` handle one element each (`Handles`), every other step leaves what is left and what is counted as they are (`Still`) |

The last two are argued as those of the dynamic search, by the same `SearchInv` with
the parts `Alone` (one thread at a time is in `handle_dir`), `Serial`, `TreeInv` and the sum
of what was found. The queues differ. Each thread has one (`Chained`), and what a thread
`Has` is that and what is in its hand; `Waiting` is what all threads have. `Serial` says
of each queue that its thread has seen it as it is and that its tail is in it (`Tails`),
and that no two threads have the same element in hand (`Hands`), so an element
that is handled leaves `Waiting` for good (`ElApart`, `LessWaiting`). Dealing takes the
head of main's queue to the end of another without a change to `Waiting` (`DealChains`,
`MovedWaiting`). `CountInv` needs no condition on the schedule: a thread that is off has
its count in its slot (`Paid`) and nothing in its queue (`Emptied`).

`GrepMatchProofs`, from `GrepMatchAssumption` (words and texts are sequences of
characters, no word is empty), for every word and text:

| theorem | statement | argument |
|---|---|---|
| `MatchCountsRight` | `Spec => []CountsRight` | `Counted`: the last `i` characters match the beginning of the word, and what is counted and what there is to find from where that match began make up at most what there is, exactly that where the first letter never occurs twice in a row |

`AtomicProofs`, from `AtomicFileAssumption` (one key), for any processes, threads, writes,
kills and refused calls, by one invariant `Inv`:

| theorem | statement | argument |
|---|---|---|
| `AtomicTypeCorrect` | `Spec => []TypeOK` | |
| `OneWriter` | `Spec => []OneWriteAtATime` | `WriteInv`: in a segment that neither race has touched, AVAILABLE means that nobody is printing (`AvailableFree`) and at most one thread is past the test (`OnePast`) |
| `FailsForAReason` | `Spec => []FailsByRaceOrRefusal` | a process that has met nobody keeps the segment it found (`KeepsSegment`), so a failure or a NULL segment needs another opener or a refused call (`NullExcused`), and a NULL file a refused `fopen` |
| `LeavesNoSegment` | `Spec => []NothingLeftBehind` | `LeftInv`: without kills, and without refusals of `shmat` and `shmctl`, an unmarked segment has an opener that will mark it (`HasOpener`), a marked one somebody attached |

`BBFSProofs`, from `BBFSAssumption` and `HostFSAssumption` (`None` is none of the other
values, there is a descriptor), for any threads, names, objects, handles, lengths and
descriptors:

| theorem | statement | argument |
|---|---|---|
| `MountTypeCorrect` | `Spec => []TypeOK` | needs what each step knows of its request (`Asking`): a step that writes `fh[request[t].h]` has a handle |
| `AnswersOwnError` | `Spec => []RepliesOwnError` | lemmas on each function of `log.c` say what it can return; `ErrorInv` adds that an error is noted only when the callback returns |
| `EachDescriptorOwned` | `Spec => []DescriptorsOwned` | `HandleInv`: a handle is opened once (`OpenedOnce`), who opens or releases it is its only user (`SoleUser`), what is held is open (`HeldOpen`), by one holder (`HeldAlone`), and all that is open is held (`AllHeld`); the new descriptor is free, so it takes nobody's |
| `ListingComplete` | `Spec => []ListsAll` | `ListInv`: one call at a time uses a stream (`OnStreamAlone`), and up to what has changed since `opendir` what a listing has passed on, the entry it holds and what is unread make up what was unread when it began (`Listing`) |
| `MountImplements` | `Spec => ImplementsMounted` | initial states map to initial states; every step maps to a step of `Mounted` or a stutter. It rests on the invariant: a call on an open file reaches the object the handle was opened for because nobody else holds its descriptor, and making an object takes none that a handle leads to |

`TablesProofs`, from `TablesAssumption` (keys are numbers, there is a bin, every key has
one, a block belongs to one of the pools, which are finite, and `NULL` is no block, value,
key, sequence of values or table of them), for any hash function, values, variables and
amount of memory:

| theorem | statement | argument |
|---|---|---|
| `TablesAreWell` | `Spec => []TableInv` | one lemma per operation |
| `BlocksAreOwnedOnce` | `Spec => []OwnedOnce` | the chains share no block (`Disjoint`) and have every cell in use (`Covered`); every list has one owner (`Owned`) |
| `BinsAreSorted` | `Spec => []Sorted` | `Keyed` |
| `WhatIsThereIsRead` | `Spec => []ReadsRight` | `Keyed` lets the walk to a key stop early (`WalkIs`, `GetIs`); a size is the length of its chain (`Sized`, `StrIs`) |
| `TablesImplementMap` | `Spec => ImplementsMap` | `Shown` is what the chains of a state amount to, and every operation does to it what `TableMap` says (`CreateIs` to `DeleteValueIs`) |

The invariant `TableInv` says that there is a family `C` of sequences of blocks, one for
each list and bin, along which `next` leads (`Linked`). The properties look at the heap
from one block at a time; an operation goes along whole chains, so what it does is said of
`C`: `ll_prepend` and `ht_set` insert a block into one sequence (`CellIn`), `ll_remove`,
`ll_remove_value` and `ht_remove` take one out (`CellOut`), the frees empty sequences
(`ChainsOut`), and all other sequences stay what they are. For each operation a lemma
about the heap (`PrependStep`, `CutStep`, `FreeStep`, `CopyStep`, `SetNewStep`,
`SetOldStep`, `UnsetStep`, `TableCreateStep`, `TableFreeStep`) says this of the chains and
texts, and a second one what it means for owners and for what the state shows
(`InPlace`, `IntoVar`, `FromVar`, `IntoTable`, `WithinTable`, `OutOfTable`). The order in
which `ht_set` frees the old list before it copies the new one needs `r # k` in `Set`: with
one owner for each list (`OneOwner`) what is copied is then not what has been freed.

*Recursion.* `Chain`, the sums over threads and the number of occurrences are recursive
functions, and what they compute follows by induction on a number. The induction
theorems of the library take an operator as their parameter, so the proofs do without:
they show that a function satisfies the defining equation (there would be a least
length for which none does, `LeastOf` from the well-foundedness of the numbers, and
that one can be extended from the one before), so that `CHOOSE` takes one that does, and
then argue with the equation and a least counterexample again (`WalkedExists`,
`ChainWithin`, `FromBounds`, `FollowsExists`, `CopiesExist`).

Only model-checked is liveness, which is out of TLAPS's reach. Every safety property
of the passing runs, the refinements included, is stated by one of these theorems.

## 10. What is not modelled

`hw1/trap.c`: four threads sum four ranges, each into a record of its own, and main
reads a record after it has joined its thread. Nothing is shared at the same
time, so there is no interleaving to explore, and what is left is a sum in
floating point, which TLC has no numbers for.

The autotools output, the tutorial's HTML and examples: generated or vendored.

Failures of `malloc`, `pthread_create` and of terminal input end a process or are
ignored by the code, and are left out (section 6 says what that excludes). So is what is printed, except where
printing dereferences a pointer (`ServerLog`) or may fail and leave an errno (BBFS).
