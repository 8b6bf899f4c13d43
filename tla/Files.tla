------------------------------- MODULE Files -------------------------------
(***************************************************************************)
(* The file tree and what refers to it: nodes and child arrays of          *)
(* fs/ramfs.c, the path calls of fs/vfs.c, and the file system calls of    *)
(* cpu/syscall.c with their global tables of descriptors and directory     *)
(* handles.                                                                *)
(*                                                                         *)
(* A node is a slot of memory; ramfs_remove_node frees it and the next     *)
(* creation may take it again.  Paths are absolute and normalised.         *)
(* Whether vfs_check_access allows a call, and how much of a write the     *)
(* heap or the disk takes, are free choices; where contents are kept, and  *)
(* what is lost there, is in module Storage.  A system call runs to its    *)
(* end.                                                                    *)
(*                                                                         *)
(* Nothing counts the references to a node, so a descriptor, a handle or   *)
(* the working directory may outlive it.  A call through such a reference  *)
(* finds freed memory, of which only the tree is modelled: it reads        *)
(* anything and leaves the tree alone, until a new node takes the memory,  *)
(* which the call then takes for its own.  What it does to other blocks of *)
(* the heap is left out.                                                   *)
(***************************************************************************)
EXTENDS Integers, Sequences, SequencesExt

CONSTANTS
  Names,       \* file names (shorter than VFS_NAME_MAX)
  MaxDepth,    \* bound: names of a path
  NodeSlots,   \* memory for nodes, besides the root
  VFS_MAX_CHILDREN,
  Bytes,       \* file data
  MaxSize,     \* bound: bytes of a file
  Fds,         \* descriptors
  Handles,     \* directory handles
  FsProcs      \* processes

ASSUME FilesConstants ==
  /\ MaxDepth \in Nat /\ VFS_MAX_CHILDREN \in Nat /\ MaxSize \in Nat
  /\ NodeSlots \subseteq Nat \ {0}

VARIABLES
  vnode,      \* nodes
  kfds,       \* descriptors
  dh_table,   \* directory handles
  fs_cwd,     \* node of the shell's working directory
  \* History: the path each of the references was opened on, as a set that
  \* becomes empty when the entry there is deleted.
  fd_path, dh_path, cwd_path

fsRefs == <<kfds, dh_table, fs_cwd>>
fsPaths == <<fd_path, dh_path, cwd_path>>
fsVars == <<vnode, fsRefs, fsPaths>>

Root == 0
Nodes == NodeSlots \cup {Root}
NoNode == -1
Contents == UNION {[1 .. n -> Bytes] : n \in 0 .. MaxSize}
Paths == UNION {[1 .. n -> Names] : n \in 1 .. MaxDepth}

FreeNode == [type |-> "free", name |-> "", parent |-> NoNode, children |-> <<>>,
             data |-> <<>>]
RootNode == [FreeNode EXCEPT !.type = "VFS_DIRECTORY"]
NoFd == [used |-> FALSE, node |-> NoNode, pos |-> 0, owner_pid |-> NoNode]
NoHandle == [node |-> NoNode, idx |-> 0]

FsInit ==
  /\ vnode = [n \in Nodes |-> IF n = Root THEN RootNode ELSE FreeNode]
  /\ kfds = [f \in Fds |-> NoFd]
  /\ dh_table = [h \in Handles |-> NoHandle]
  /\ fs_cwd = Root
  /\ fd_path = [f \in Fds |-> {}]
  /\ dh_path = [h \in Handles |-> {}]
  /\ cwd_path = {<<>>}

\* The entry at p is deleted.
Forget(p) ==
  /\ fd_path' = [f \in Fds |-> fd_path[f] \ {p}]
  /\ dh_path' = [h \in Handles |-> dh_path[h] \ {p}]
  /\ cwd_path' = cwd_path \ {p}
----------------------------------------------------------------------------
(* vfs.c and ramfs.c, on a tree t *)

\* The first child of that name.
ramfs_finddir(t, n, name) ==
  IF n = NoNode \/ t[n].type # "VFS_DIRECTORY" THEN NoNode
  ELSE LET kids == t[n].children
           hits == {i \in DOMAIN kids : t[kids[i]].name = name}
       IN  IF hits = {} THEN NoNode
           ELSE kids[CHOOSE i \in hits : \A j \in hits : i <= j]

\* One name after the other.
vfs_resolve(t, p) ==
  LET at[i \in 0 .. Len(p)] ==
        IF i = 0 THEN Root ELSE ramfs_finddir(t, at[i - 1], p[i])
  IN  at[Len(p)]

\* Reuse of memory is up to the heap: any free slot.  None when the heap, or
\* the array of children, is full.
CanAdd(t, d) == Len(t[d].children) < VFS_MAX_CHILDREN
FreeSlots(t) == {n \in NodeSlots : t[n].type = "free"}

AddNode(t, d, name, type, n) ==
  [t EXCEPT ![d].children = Append(@, n),
            ![n] = [FreeNode EXCEPT !.type = type, !.name = name,
                                    !.parent = d]]

\* A directory goes with all that is in it.
CanRemoveAny(t, n) == n \notin {NoNode, Root}

CanRemove(t, n) ==
  n \notin {NoNode, Root} /\ (t[n].type = "VFS_DIRECTORY" => t[n].children = <<>>)

\* The entry is taken out of the parent's array, later ones move up.
DropNode(t, n) ==
  LET d == t[n].parent
      i == SelectInSeq(t[d].children, LAMBDA c : c = n)
  IN  [t EXCEPT ![d].children = RemoveAt(@, i), ![n] = FreeNode]

\* vfs_create: the existing entry, of whatever type, or a new file.  The
\* trees it can leave, each with the node it returns.
vfs_create(t, p) ==
  LET d == vfs_resolve(t, Front(p))
      e == ramfs_finddir(t, d, Last(p))
  IN  IF d = NoNode \/ t[d].type # "VFS_DIRECTORY" THEN {}
      ELSE IF e # NoNode THEN {[tree |-> t, node |-> e]}
      ELSE IF ~CanAdd(t, d) THEN {}
      ELSE {[tree |-> AddNode(t, d, Last(p), "VFS_FILE", n),
             node |-> n] : n \in FreeSlots(t)}

\* vfs_write of buf at off, of which k bytes are taken.  The size grows to the
\* end of what is taken even when that is nothing; bytes between the old end
\* and off are whatever the buffer held, here any byte.
Overwritten(old, off, buf, k, gap) ==
  [i \in 1 .. (IF off + k > Len(old) THEN off + k ELSE Len(old)) |->
     IF i > off /\ i <= off + k THEN buf[i - off]
     ELSE IF i <= Len(old) THEN old[i] ELSE gap]
----------------------------------------------------------------------------
(* Path calls *)

\* Without a look at what is there.
MkdirTwice(p) ==
  LET d == vfs_resolve(vnode, Front(p))
  IN  /\ d # NoNode /\ vnode[d].type = "VFS_DIRECTORY" /\ CanAdd(vnode, d)
      /\ \E n \in FreeSlots(vnode) :
           vnode' = AddNode(vnode, d, Last(p), "VFS_DIRECTORY", n)
      /\ UNCHANGED <<fsRefs, fsPaths>>

Mkdir(p) ==
  LET d == vfs_resolve(vnode, Front(p))
  IN  /\ d # NoNode /\ vnode[d].type = "VFS_DIRECTORY"
      /\ ramfs_finddir(vnode, d, Last(p)) = NoNode /\ CanAdd(vnode, d)
      /\ \E n \in FreeSlots(vnode) :
           vnode' = AddNode(vnode, d, Last(p), "VFS_DIRECTORY", n)
      /\ UNCHANGED <<fsRefs, fsPaths>>

\* SYS_WRITEFILE: the entry is cut to nothing, then written.
WriteFile(p, buf) ==
  /\ \E c \in vfs_create(vnode, p), k \in 0 .. Len(buf) :
       vnode' = [c.tree EXCEPT ![c.node].data = SubSeq(buf, 1, k)]
  /\ UNCHANGED <<fsRefs, fsPaths>>

\* SYS_UNLINK and SYS_RMDIR.  Nobody asks who has the node open.
Delete(p) ==
  LET n == vfs_resolve(vnode, p)
  IN  /\ n # NoNode /\ CanRemove(vnode, n)
      /\ vnode' = DropNode(vnode, n)
      /\ Forget(p) /\ UNCHANGED fsRefs

\* The contents of p put at q.
Copied(p, q) ==
  LET s == vfs_resolve(vnode, p)
  IN  {[c.tree EXCEPT ![c.node].data = SubSeq(vnode[s].data, 1, k)] :
         c \in vfs_create(vnode, q), k \in 0 .. Len(vnode[s].data)}

\* Rename without the check of the type.
RenameAny(p, q) ==
  /\ vfs_resolve(vnode, p) # NoNode
  /\ \E t \in Copied(p, q) :
       IF CanRemove(t, vfs_resolve(t, p))
       THEN vnode' = DropNode(t, vfs_resolve(t, p)) /\ Forget(p)
       ELSE vnode' = t /\ UNCHANGED fsPaths
  /\ UNCHANGED fsRefs

\* SYS_RENAME of a file: the contents are read, the target created or cut and
\* written, the source looked up again and deleted.  Neither the length
\* written nor the result of the deletion is looked at.
Rename(p, q) ==
  LET s == vfs_resolve(vnode, p)
  IN  /\ s # NoNode /\ vnode[s].type = "VFS_FILE"
      /\ \E t \in Copied(p, q), allowed \in BOOLEAN :
           IF allowed /\ CanRemove(t, vfs_resolve(t, p))
           THEN vnode' = DropNode(t, vfs_resolve(t, p)) /\ Forget(p)
           ELSE vnode' = t /\ UNCHANGED fsPaths
      /\ UNCHANGED fsRefs
----------------------------------------------------------------------------
(* Descriptors *)

SetFd(f, v) == kfds' = [kfds EXCEPT ![f] = v]

\* SYS_FILE_OPEN, with the flags that change something.
Open(pid, p, creat, trunc, append) ==
  LET n == vfs_resolve(vnode, p)
      found == IF n # NoNode THEN {[tree |-> vnode, node |-> n]}
               ELSE IF creat THEN vfs_create(vnode, p) ELSE {}
  IN  /\ \E f \in {f \in Fds : ~kfds[f].used} :
           /\ \A g \in Fds : g < f => kfds[g].used
           /\ fd_path' = [fd_path EXCEPT ![f] = {p}]
           /\ \E c \in found :
                /\ SetFd(f, [used |-> TRUE, node |-> c.node, owner_pid |-> pid,
                             pos |-> IF append THEN Len(c.tree[c.node].data) ELSE 0])
                /\ vnode' = IF trunc THEN [c.tree EXCEPT ![c.node].data = <<>>]
                            ELSE c.tree
      /\ UNCHANGED <<dh_table, fs_cwd, dh_path, cwd_path>>

\* Without a free descriptor the call fails, but a file it made stays.
OpenNoFd(p) ==
  /\ vfs_resolve(vnode, p) = NoNode /\ \A f \in Fds : kfds[f].used
  /\ \E c \in vfs_create(vnode, p) : vnode' = c.tree
  /\ UNCHANGED <<fsRefs, fsPaths>>

\* SYS_FILE_READ: up to len bytes from the position, from freed memory any
\* number of them.
Read(f, len) ==
  LET n == kfds[f].node
      size == Len(vnode[n].data)
      left == IF kfds[f].pos < size THEN size - kfds[f].pos ELSE 0
  IN  /\ kfds[f].used
      /\ \E got \in 0 .. len :
           /\ vnode[n].type # "free" => got = IF len < left THEN len ELSE left
           /\ kfds[f].pos + got <= MaxSize
           /\ SetFd(f, [kfds[f] EXCEPT !.pos = @ + got])
      /\ UNCHANGED <<vnode, dh_table, fs_cwd, fsPaths>>

\* Nothing is taken without memory or blocks for it.
Write(f, buf) ==
  LET n == kfds[f].node
  IN  /\ kfds[f].used /\ kfds[f].pos + Len(buf) <= MaxSize
      /\ \E k \in 0 .. Len(buf) :
           /\ SetFd(f, [kfds[f] EXCEPT !.pos = @ + k])
           /\ \/ (k = 0 \/ vnode[n].type = "free") /\ vnode' = vnode
              \/ /\ vnode[n].type # "free"
                 /\ \E gap \in Bytes :
                      vnode' = [vnode EXCEPT ![n].data =
                                  Overwritten(@, kfds[f].pos, buf, k, gap)]
      /\ UNCHANGED <<dh_table, fs_cwd, fsPaths>>

Seek(f, pos) ==
  /\ kfds[f].used
  /\ SetFd(f, [kfds[f] EXCEPT !.pos = pos])
  /\ UNCHANGED <<vnode, dh_table, fs_cwd, fsPaths>>

\* SYS_FILE_CLOSE does not ask whose descriptor it is.
Close(f) ==
  /\ SetFd(f, [kfds[f] EXCEPT !.used = FALSE])
  /\ fd_path' = [fd_path EXCEPT ![f] = {}]
  /\ UNCHANGED <<vnode, dh_table, fs_cwd, dh_path, cwd_path>>

\* The descriptors in use of a process that ends.
Owned(pid) == {f \in Fds : kfds[f].used /\ kfds[f].owner_pid = pid}

fd_cleanup_process(pid) ==
  /\ kfds' = [f \in Fds |-> IF f \in Owned(pid)
                            THEN [kfds[f] EXCEPT !.used = FALSE, !.node = NoNode,
                                                 !.owner_pid = NoNode]
                            ELSE kfds[f]]
  /\ fd_path' = [f \in Fds |-> IF f \in Owned(pid) THEN {} ELSE fd_path[f]]
  /\ UNCHANGED <<vnode, dh_table, fs_cwd, dh_path, cwd_path>>
----------------------------------------------------------------------------
(* Directory handles *)

Opendir(p) ==
  LET n == vfs_resolve(vnode, p)
  IN  /\ n # NoNode /\ vnode[n].type = "VFS_DIRECTORY"
      /\ \E h \in Handles :
           /\ dh_table[h].node = NoNode
           /\ \A g \in Handles : g < h => dh_table[g].node # NoNode
           /\ dh_table' = [dh_table EXCEPT ![h] = [node |-> n, idx |-> 0]]
           /\ dh_path' = [dh_path EXCEPT ![h] = {p}]
      /\ UNCHANGED <<vnode, kfds, fs_cwd, fd_path, cwd_path>>

\* The next entry, by its place in the array of children.
Readdir(h) ==
  LET d == dh_table[h]
  IN  /\ d.node # NoNode
      /\ \/ /\ vnode[d.node].type = "VFS_DIRECTORY"
            /\ d.idx < Len(vnode[d.node].children)
         \/ vnode[d.node].type = "free" /\ d.idx < VFS_MAX_CHILDREN
      /\ dh_table' = [dh_table EXCEPT ![h].idx = @ + 1]
      /\ UNCHANGED <<vnode, kfds, fs_cwd, fsPaths>>

Closedir(h) ==
  /\ dh_table' = [dh_table EXCEPT ![h] = NoHandle]
  /\ dh_path' = [dh_path EXCEPT ![h] = {}]
  /\ UNCHANGED <<vnode, kfds, fs_cwd, fd_path, cwd_path>>

\* SYS_CHDIR keeps the node itself.
Chdir(p) ==
  LET n == vfs_resolve(vnode, p)
  IN  /\ n # NoNode /\ vnode[n].type = "VFS_DIRECTORY"
      /\ fs_cwd' = n /\ cwd_path' = {p}
      /\ UNCHANGED <<vnode, kfds, dh_table, fd_path, dh_path>>

FsNext ==
  \/ \E p \in Paths : Mkdir(p) \/ Delete(p) \/ OpenNoFd(p)
  \/ \E p \in Paths \cup {<<>>} : Opendir(p) \/ Chdir(p)
  \/ \E p \in Paths, buf \in Contents : WriteFile(p, buf)
  \/ \E p, q \in Paths : Rename(p, q)
  \/ \E pid \in FsProcs, p \in Paths, creat, trunc, append \in BOOLEAN :
       Open(pid, p, creat, trunc, append)
  \/ \E f \in Fds : Close(f)
                    \/ \E k \in 0 .. MaxSize : Read(f, k) \/ Seek(f, k)
                    \/ \E buf \in Contents : Write(f, buf)
  \/ \E pid \in FsProcs : fd_cleanup_process(pid)
  \/ \E h \in Handles : Readdir(h) \/ Closedir(h)

FsSpec == FsInit /\ [][FsNext]_fsVars
----------------------------------------------------------------------------
(* Properties. *)

Live == {n \in Nodes : vnode[n].type # "free"}

\* The pointers agree in both directions: a node is in its parent's array once
\* and in no other, siblings have different names, and a freed node is in none.
TreeSound ==
  /\ \A n \in Live : \A i, j \in DOMAIN vnode[n].children :
       LET c == vnode[n].children[i]
          e == vnode[n].children[j]
       IN  /\ c \in Live \ {Root} /\ vnode[c].parent = n
           /\ i # j => c # e /\ vnode[c].name # vnode[e].name
  /\ \A n \in Live \ {Root} :
       /\ vnode[n].parent \in Live
       /\ n \in Range(vnode[vnode[n].parent].children)

\* What was not deleted stays reachable through what was opened: as long as
\* the file or directory at its path is not removed or moved away itself, a
\* descriptor, a directory handle or the working directory has the node that
\* the path leads to, whatever else is created, renamed and deleted around it
\* and however the memory of nodes is reused.
ReferencesFollowPaths ==
  /\ \A f \in Fds : kfds[f].used =>
       \A p \in fd_path[f] : vfs_resolve(vnode, p) = kfds[f].node
  /\ \A h \in Handles : dh_table[h].node # NoNode =>
       \A p \in dh_path[h] : vfs_resolve(vnode, p) = dh_table[h].node
  /\ \A p \in cwd_path : vfs_resolve(vnode, p) = fs_cwd

\* Paths as callers see them.
Resolved == {[path |-> p, node |-> vfs_resolve(vnode, p)] : p \in Paths \cup {<<>>}}
Entries ==
  {[path |-> r.path, type |-> vnode[r.node].type, data |-> vnode[r.node].data] :
     r \in {r \in Resolved : r.node # NoNode}}

Ns == INSTANCE Namespace WITH NsContents <- Contents

\* What a call promises about the entries f before and g after it, in the
\* terms of module Namespace and of the arguments of the call.
PathCalls(f, g) ==
  \A p \in Paths :
    /\ Mkdir(p) => Ns!MakeDir(f, g, p)
    /\ Delete(p) => Ns!Remove(f, g, p)
    /\ OpenNoFd(p) => Ns!MakeFile(f, g, p)
    /\ \A buf \in Contents : WriteFile(p, buf) => Ns!Fill(f, g, p, buf)
    /\ \A q \in Paths : Rename(p, q) => Ns!Move(f, g, p, q)
    /\ \A pid \in FsProcs, creat, trunc, append \in BOOLEAN :
         Open(pid, p, creat, trunc, append) => Ns!OpenAt(f, g, p, creat, trunc)

\* A descriptor names the file it was opened on.  Once that is deleted it
\* names nothing, and a write fills at most one of the entries.
Writes(f, g) ==
  \A fd \in Fds, buf \in Contents : Write(fd, buf) =>
    \/ g = f
    \/ \E p \in fd_path[fd] : Ns!WriteAt(f, g, p, kfds[fd].pos, Len(buf))
    \/ fd_path[fd] = {} /\ \E p \in Paths : Ns!WriteAt(f, g, p, kfds[fd].pos, Len(buf))

OtherCalls(f, g) ==
  \/ \E fd \in Fds : Close(fd) \/ \E k \in 0 .. MaxSize : Read(fd, k) \/ Seek(fd, k)
  \/ \E p \in Paths \cup {<<>>} : Opendir(p) \/ Chdir(p)
  \/ \E pid \in FsProcs : fd_cleanup_process(pid)
  \/ \E h \in Handles : Readdir(h) \/ Closedir(h)
  => g = f

CallsDoAsNamed ==
  fsVars' # fsVars =>
    \E f \in {Entries}, g \in {Entries'} :
      PathCalls(f, g) /\ Writes(f, g) /\ OtherCalls(f, g)

\* Seen through paths, nodes, arrays, descriptors and memory reuse are the map
\* of module Namespace: every call does to the entries it names what it is
\* asked, and leaves all others as they are.
ImplementsNamespace == Ns!NsInit(Entries) /\ [][CallsDoAsNamed]_fsVars
=============================================================================
