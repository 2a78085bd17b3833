------------------------------- MODULE HostFS -------------------------------
(***************************************************************************)
(* The file system below BBFS, as far as bbfs.c relies on it: one          *)
(* directory of names, the objects they lead to, and what each system call *)
(* does when it succeeds.  Any of them may fail instead.                   *)
(*                                                                         *)
(* A file is known by its length; mode, owner, times and extended          *)
(* attributes are one attribute; a link, a fifo or a device is a "node",   *)
(* which leads nowhere.  Directories below the root stay empty.            *)
(***************************************************************************)
EXTENDS Integers, FiniteSets

CONSTANTS
  Names,       \* names in the root directory
  RootPath,    \* the path "/"
  RootDir,     \* the object it leads to
  Objects,     \* the objects names may lead to
  None,        \* no object, no path, no handle
  MaxLength    \* bound on the length of a file

ASSUME HostFSAssumption ==
  /\ RootPath \notin Names
  /\ RootDir \notin Objects
  /\ None \notin Names \cup Objects \cup {RootPath, RootDir}
  /\ MaxLength \in Nat \ {0}

Paths   == Names \cup {RootPath}
Lengths == 0..MaxLength
Kinds   == {"dir", "file", "node"}

VARIABLES
  entry,   \* the object each name leads to
  object   \* what each object is

tree == <<entry, object>>

TreeOK ==
  /\ entry \in [Names -> Objects \cup {None}]
  /\ object \in [Objects -> [kind: Kinds, length: Lengths, attr: BOOLEAN]]

\* Files are empty and nothing that has a name has another.
StartTree ==
  /\ entry \in [Names -> Objects \cup {None}]
  /\ \A m, n \in Names : m # n /\ entry[m] # None => entry[m] # entry[n]
  /\ object \in [Objects -> [kind: Kinds, length: {0}, attr: {FALSE}]]
  /\ \A o \in Objects : (\A n \in Names : entry[n] # o) => object[o].kind = "node"

Is(n, kind) == n \in Names /\ entry[n] # None /\ object[entry[n]].kind = kind
Free(n)     == n \in Names /\ entry[n] = None
Exists(p)   == p = RootPath \/ (p \in Names /\ entry[p] # None)

Linked == {entry[n] : n \in Names} \ {None}

-----------------------------------------------------------------------------
(* Calls on a path                                                         *)

Look(r) ==
  /\ \/ r.sys = "look" /\ Exists(r.path)
     \/ r.sys = "readlink" /\ Is(r.path, "node")
  /\ UNCHANGED tree

\* Objects that an open descriptor leads to are in use too.
Make(r, inUse) ==
  /\ r.sys = "make" /\ Free(r.path)
  /\ \E o \in Objects \ (Linked \cup inUse) :
       /\ entry' = [entry EXCEPT ![r.path] = o]
       /\ object' = [object EXCEPT ![o] = [kind |-> r.kind, length |-> 0, attr |-> FALSE]]

Unlink(r) ==
  /\ r.sys = "unlink" /\ (Is(r.path, "file") \/ Is(r.path, "node"))
  /\ entry' = [entry EXCEPT ![r.path] = None]
  /\ UNCHANGED object

Rmdir(r) ==
  /\ r.sys = "rmdir" /\ Is(r.path, "dir")
  /\ entry' = [entry EXCEPT ![r.path] = None]
  /\ UNCHANGED object

\* Two names of one object stay as they are.
Rename(r) ==
  /\ r.sys = "rename" /\ r.path \in Names /\ Exists(r.path) /\ r.to \in Names
  /\ Free(r.to) \/ (Is(r.to, "dir") <=> Is(r.path, "dir"))
  /\ entry' = IF entry[r.path] = entry[r.to] THEN entry
              ELSE [entry EXCEPT ![r.to] = entry[r.path], ![r.path] = None]
  /\ UNCHANGED object

Link(r) ==
  /\ r.sys = "link" /\ (Is(r.path, "file") \/ Is(r.path, "node")) /\ Free(r.to)
  /\ entry' = [entry EXCEPT ![r.to] = entry[r.path]]
  /\ UNCHANGED object

SetAttr(r) ==
  /\ r.sys = "setattr" /\ r.path \in Names /\ Exists(r.path)
  /\ object' = [object EXCEPT ![entry[r.path]].attr = ~@]
  /\ UNCHANGED entry

Truncate(r) ==
  /\ r.sys = "truncate" /\ Is(r.path, "file")
  /\ object' = [object EXCEPT ![entry[r.path]].length = r.size]
  /\ UNCHANGED entry

PathCall(r, inUse) ==
  \/ Look(r) \/ Make(r, inUse) \/ Unlink(r) \/ Rmdir(r) \/ Rename(r) \/ Link(r)
  \/ SetAttr(r) \/ Truncate(r)

-----------------------------------------------------------------------------
(* Calls on an open file o, which return ret                               *)

Pread(r, o, ret) ==
  /\ r.sys = "pread"
  /\ ret = object[o].length
  /\ UNCHANGED tree

Pwrite(r, o, ret) ==
  /\ r.sys = "pwrite"
  /\ ret = r.size
  /\ object' = [object EXCEPT ![o].length = IF @ > r.size THEN @ ELSE r.size]
  /\ UNCHANGED entry

Ftruncate(r, o, ret) ==
  /\ r.sys = "ftruncate"
  /\ ret = 0
  /\ object' = [object EXCEPT ![o].length = r.size]
  /\ UNCHANGED entry

\* fstat and fsync
Fstat(r, ret) ==
  /\ r.sys = "fstat"
  /\ ret = 0
  /\ UNCHANGED tree

FileCall(r, o, ret) ==
  \/ Pread(r, o, ret) \/ Pwrite(r, o, ret) \/ Ftruncate(r, o, ret) \/ Fstat(r, ret)

-----------------------------------------------------------------------------
(* Opening and listing *)

\* The object a call opens, or None.
Opened(r) ==
  CASE r.sys = "open" /\ Is(r.path, "file")       -> entry[r.path]
    [] r.sys = "opendir" /\ r.path = RootPath     -> RootDir
    [] r.sys = "opendir" /\ Is(r.path, "dir")     -> entry[r.path]
    [] OTHER                                      -> None

\* What is in a directory; "." stands for . and .., which a directory that has
\* been removed has lost.
NamesIn(o) ==
  IF o = RootDir THEN {n \in Names : entry[n] # None} \cup {"."}
  ELSE IF o \in Linked THEN {"."} ELSE {}

\* The entries that a step adds to directory o, removes from it or replaces.
Changes(o) ==
  IF o = RootDir THEN {n \in Names : entry'[n] # entry[n]}
  ELSE IF o \in Linked <=> o \in Linked' THEN {} ELSE {"."}

=============================================================================
