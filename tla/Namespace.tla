----------------------------- MODULE Namespace -----------------------------
(***************************************************************************)
(* What the file system promises the callers of the path-based system      *)
(* calls: a set of entries, at most one for each path, every one of them   *)
(* in a directory, and what each call does to the entries its arguments    *)
(* name.  A path is the sequence of its names; the root, the empty path,   *)
(* is always there.                                                        *)
(***************************************************************************)
EXTENDS Naturals, Sequences

CONSTANT NsContents

Entry(p, type, data) == [path |-> p, type |-> type, data |-> data]
EmptyDir(p) == Entry(p, "VFS_DIRECTORY", <<>>)
IsParent(p, q) == Len(q) = Len(p) + 1 /\ SubSeq(q, 1, Len(p)) = p

NsInit(f) == f = {EmptyDir(<<>>)}

(* Sets of entries. *)

At(f, p) == {e \in f : e.path = p}
HasParent(f, p) ==
  \E d \in f : IsParent(d.path, p) /\ d.type = "VFS_DIRECTORY"

\* An entry that is not there is made as a file; one that is there keeps its
\* type.  Either way it holds c.
Holding(f, p, c) ==
  (f \ At(f, p)) \cup
  (IF At(f, p) = {} THEN {Entry(p, "VFS_FILE", c)}
   ELSE {[e EXCEPT !.data = c] : e \in At(f, p)})

(* The calls, as relations between the entries f before and g after. *)

MakeDir(f, g, p) ==
  At(f, p) = {} /\ HasParent(f, p) /\ g = f \cup {EmptyDir(p)}

\* p holds c.
Put(f, g, p, c) == HasParent(f, p) /\ g = Holding(f, p, c)

MakeFile(f, g, p) == At(f, p) = {} /\ Put(f, g, p, <<>>)

\* p holds the start of buf, or all of it.
Fill(f, g, p, buf) == \E k \in 0 .. Len(buf) : Put(f, g, p, SubSeq(buf, 1, k))

\* Opening cuts a file, makes one, or changes nothing.
OpenAt(f, g, p, creat, trunc) ==
  \/ At(f, p) = {} /\ creat /\ Put(f, g, p, <<>>)
  \/ At(f, p) # {} /\ IF trunc THEN Put(f, g, p, <<>>) ELSE g = f

\* Only a leaf of the tree goes away.
Remove(f, g, p) ==
  /\ At(f, p) # {} /\ g = f \ At(f, p)
  /\ \A e \in f : ~IsParent(p, e.path)

\* The contents of a file, or the start of them, appear at another path, and
\* the file is gone unless its removal was refused.
Move(f, g, p, q) ==
  \E e \in At(f, p) :
    /\ e.type = "VFS_FILE"
    /\ \E k \in 0 .. Len(e.data) :
         LET h == Holding(f, q, SubSeq(e.data, 1, k))
         IN  HasParent(f, q) /\ (g = h \/ g = h \ At(h, p))

\* len bytes are asked to be written at off: what is there before and after
\* them stays.
WriteAt(f, g, p, off, len) ==
  \E e \in At(f, p), c \in NsContents :
    /\ g = Holding(f, p, c) /\ Len(c) >= Len(e.data)
    /\ \A i \in 1 .. Len(e.data) : i <= off \/ i > off + len => c[i] = e.data[i]
=============================================================================
