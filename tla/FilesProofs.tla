---------------------------- MODULE FilesProofs -----------------------------
(***************************************************************************)
(* Proofs about Files, for every number of nodes, descriptors, handles and *)
(* processes, every set of names and every depth of paths: the tree of     *)
(* fs/vfs.c and fs/ramfs.c stays a tree, descriptors, handles and the      *)
(* working directory follow the paths they were opened on, and what        *)
(* callers see through paths is the map of module Namespace.               *)
(*                                                                         *)
(* vfs_resolve is a recursive function over the path.  That it exists, that*)
(* it keeps its result when the tree grows and that different paths name   *)
(* different nodes is shown by induction on the length of the path, in the *)
(* form of a least counterexample (NatLeast).                              *)
(***************************************************************************)
EXTENDS Files, SequenceTheorems, WellFoundedInduction, NaturalsInduction, TLAPS

\* A set of natural numbers that is not empty has a least element.
LEMMA NatLeast ==
  ASSUME NEW T \in SUBSET Nat, T # {}
  PROVE  \E n \in T : \A m \in T : n <= m
<1> DEFINE R == OpToRel(<, Nat)
<1>1. IsWellFoundedOn(R, Nat)
  BY NatLessThanWellFounded, Zenon
<1>2. R = {ss \in Nat \X Nat : ss[1] < ss[2]}
  BY DEF OpToRel
<1> HIDE DEF R
<1>3. PICK n \in T : \A m \in T : ~(<<m, n>> \in R)
  BY <1>1, WFMin
<1>4. \A m \in T : ~(m < n)
  BY <1>2, <1>3
<1> QED BY <1>4

\* The walk of vfs_resolve, one name after the other.
IsWalk(t, p, k, w) ==
  w = [i \in 0 .. k |-> IF i = 0 THEN Root ELSE ramfs_finddir(t, w[i - 1], p[i])]

LEMMA WalkExists ==
  ASSUME NEW t, NEW p, NEW k \in Nat
  PROVE  \E w : IsWalk(t, p, k, w)
<1> DEFINE T == {j \in Nat : ~\E w : IsWalk(t, p, j, w)}
<1> SUFFICES ASSUME T # {} PROVE FALSE
  OBVIOUS
<1>1. PICK j \in T : \A i \in T : j <= i
  <2> HIDE DEF T
  <2>1. T \in SUBSET Nat
    BY DEF T
  <2> QED BY <2>1, NatLeast
<1>2. j # 0
  <2>1. IsWalk(t, p, 0, [i \in 0 .. 0 |-> Root])
    BY DEF IsWalk
  <2> QED BY <2>1
<1>3. j - 1 \in Nat /\ j - 1 \notin T
  BY <1>1, <1>2
<1>4. PICK w : IsWalk(t, p, j - 1, w)
  BY <1>3
<1> DEFINE v == [i \in 0 .. j |-> IF i = j THEN ramfs_finddir(t, w[j - 1], p[j]) ELSE w[i]]
<1>5. ASSUME NEW i \in 0 .. j
      PROVE  v[i] = IF i = 0 THEN Root ELSE ramfs_finddir(t, v[i - 1], p[i])
  <2>1. CASE i = 0
    BY <1>2, <1>4, <2>1 DEF IsWalk
  <2>2. CASE i # 0
    <3>1. v[i - 1] = w[i - 1] /\ i - 1 \in 0 .. (j - 1)
      BY <2>2
    <3>2. CASE i = j
      BY <2>2, <3>1, <3>2
    <3>3. CASE i # j
      <4>1. i \in 0 .. (j - 1) /\ v[i] = w[i]
        BY <3>3
      <4>2. w[i] = ramfs_finddir(t, w[i - 1], p[i])
        BY <1>4, <2>2, <4>1 DEF IsWalk
      <4> QED BY <2>2, <3>1, <4>1, <4>2
    <3> QED BY <3>2, <3>3
  <2> QED BY <2>1, <2>2
<1>6. v = [i \in 0 .. j |-> v[i]]
  OBVIOUS
<1> HIDE DEF v
<1>7. IsWalk(t, p, j, v)
  BY <1>5, <1>6 DEF IsWalk
<1> QED BY <1>7

LEMMA ResolveWalk ==
  ASSUME NEW t, NEW p, Len(p) \in Nat
  PROVE  \E w : IsWalk(t, p, Len(p), w) /\ vfs_resolve(t, p) = w[Len(p)]
<1> DEFINE w == CHOOSE w : IsWalk(t, p, Len(p), w)
<1>1. IsWalk(t, p, Len(p), w)
  BY WalkExists
<1>2. vfs_resolve(t, p) = w[Len(p)]
  BY DEF vfs_resolve, IsWalk
<1> QED BY <1>1, <1>2

-----------------------------------------------------------------------------
(* A tree t of nodes. *)

LiveIn(t) == {n \in Nodes : t[n].type # "free"}
NodeShape(r) == r = [type |-> r.type, name |-> r.name, parent |-> r.parent,
                     children |-> r.children, data |-> r.data]

\* The tables are tables: nodes have their fields, only directories have
\* children, and the root is one.
Shaped(t) ==
  /\ t = [n \in Nodes |-> t[n]]
  /\ \A n \in Nodes : NodeShape(t[n]) /\ t[n].children \in Seq(NodeSlots)
  /\ \A n \in Nodes : t[n].type # "VFS_DIRECTORY" => t[n].children = <<>>
  /\ t[Root].type = "VFS_DIRECTORY"

Down(t) == \A n \in LiveIn(t) : \A i \in DOMAIN t[n].children :
             LET c == t[n].children[i]
             IN  c \in LiveIn(t) \ {Root} /\ t[c].parent = n
Once(t) == \A n \in LiveIn(t) : \A i, j \in DOMAIN t[n].children :
             i # j => /\ t[n].children[i] # t[n].children[j]
                      /\ t[t[n].children[i]].name # t[t[n].children[j]].name
Up(t) == \A n \in LiveIn(t) \ {Root} :
           /\ t[n].parent \in LiveIn(t)
           /\ \E i \in DOMAIN t[t[n].parent].children : t[t[n].parent].children[i] = n

Sound(t) == Shaped(t) /\ Down(t) /\ Once(t) /\ Up(t)

LEMMA NodeFacts ==
  /\ NodeSlots \subseteq Nat /\ Root \notin NodeSlots /\ NoNode \notin Nodes
  /\ Root \in Nodes /\ NodeSlots \subseteq Nodes /\ Root # NoNode
  BY FilesConstants DEF Root, Nodes, NoNode

\* ramfs_finddir finds the first child of the name, if there is one.
LEMMA Finddir ==
  ASSUME NEW t, Sound(t), NEW d \in LiveIn(t) \cup {NoNode}, NEW name
  PROVE  LET c == ramfs_finddir(t, d, name)
         IN  /\ c # NoNode =>
                /\ d # NoNode /\ t[d].type = "VFS_DIRECTORY" /\ c \in LiveIn(t) \ {Root}
                /\ t[c].name = name
                /\ \E i \in DOMAIN t[d].children : t[d].children[i] = c
             /\ c = NoNode /\ d # NoNode /\ t[d].type = "VFS_DIRECTORY" =>
                \A i \in DOMAIN t[d].children : t[t[d].children[i]].name # name
<1> DEFINE kids == t[d].children
           hits == {i \in DOMAIN kids : t[kids[i]].name = name}
           c == ramfs_finddir(t, d, name)
<1>1. CASE d = NoNode \/ t[d].type # "VFS_DIRECTORY"
  BY <1>1 DEF ramfs_finddir
<1>2. CASE ~(d = NoNode \/ t[d].type # "VFS_DIRECTORY")
  <2>1. /\ d \in LiveIn(t) /\ kids \in Seq(NodeSlots) /\ DOMAIN kids = 1 .. Len(kids)
        /\ Len(kids) \in Nat
    BY <1>2 DEF Sound, Shaped, LiveIn
  <2>2. c = IF hits = {} THEN NoNode ELSE kids[CHOOSE i \in hits : \A j \in hits : i <= j]
    BY <1>2 DEF ramfs_finddir
  <2> HIDE DEF c
  <2>3. CASE hits = {}
    <3>1. c = NoNode /\ \A i \in DOMAIN kids : t[kids[i]].name # name
      BY <2>2, <2>3
    <3> QED BY <3>1 DEF c
  <2>4. CASE hits # {}
    <3>1. hits \in SUBSET Nat
      BY <2>1
    <3> HIDE DEF hits
    <3>2. \E i \in hits : \A j \in hits : i <= j
      BY <2>4, <3>1, NatLeast
    <3>3. PICK i \in hits : c = kids[i]
      BY <2>2, <2>4, <3>2
    <3>4. i \in DOMAIN kids /\ t[kids[i]].name = name
      BY <3>3 DEF hits
    <3>5. c \in LiveIn(t) \ {Root}
      BY <2>1, <3>3, <3>4 DEF Sound, Down
    <3>6. c # NoNode
      BY <3>5, NodeFacts DEF LiveIn
    <3> HIDE DEF kids
    <3> QED BY <1>2, <3>3, <3>4, <3>5, <3>6 DEF c, kids
  <2> QED BY <2>3, <2>4 DEF c
<1> QED BY <1>1, <1>2

\* What vfs_resolve returns is NULL or a node that is there.
LEMMA ResolvesLive ==
  ASSUME NEW t, Sound(t), NEW p, Len(p) \in Nat
  PROVE  vfs_resolve(t, p) \in LiveIn(t) \cup {NoNode}
<1>1. PICK w : IsWalk(t, p, Len(p), w) /\ vfs_resolve(t, p) = w[Len(p)]
  BY ResolveWalk
<1> DEFINE T == {j \in Nat : j <= Len(p) /\ w[j] \notin LiveIn(t) \cup {NoNode}}
<1>2. ASSUME T # {} PROVE FALSE
  <2>1. PICK j \in T : \A i \in T : j <= i
    <3>1. T \in SUBSET Nat
      OBVIOUS
    <3> HIDE DEF T
    <3> QED BY <1>2, <3>1, NatLeast
  <2>2. j \in Nat /\ j <= Len(p) /\ w[j] \notin LiveIn(t) \cup {NoNode}
    OBVIOUS
  <2>3. j # 0
    BY <1>1, <2>2, NodeFacts DEF IsWalk, Sound, Shaped, LiveIn
  <2>4. j - 1 \in Nat /\ w[j - 1] \in LiveIn(t) \cup {NoNode}
    BY <2>1, <2>2, <2>3
  <2>5. w[j] = ramfs_finddir(t, w[j - 1], p[j])
    BY <1>1, <2>2, <2>3 DEF IsWalk
  <2>6. w[j] = NoNode \/ w[j] \in LiveIn(t)
    BY <2>4, <2>5, Finddir
  <2> QED BY <2>2, <2>6
<1> QED BY <1>1, <1>2

-----------------------------------------------------------------------------
(* Changes of the tree. *)

\* Only contents differ.
SameButData(t, u) ==
  /\ u = [n \in Nodes |-> u[n]]
  /\ \A n \in Nodes : NodeShape(u[n]) /\ u[n].type = t[n].type /\ u[n].name = t[n].name
                      /\ u[n].parent = t[n].parent /\ u[n].children = t[n].children

LEMMA DataWritten ==
  ASSUME NEW t, Sound(t), NEW n, NEW x
  PROVE  SameButData(t, [t EXCEPT ![n].data = x])
<1> DEFINE u == [t EXCEPT ![n].data = x]
<1>1. t = [m \in Nodes |-> t[m]] /\ \A m \in Nodes : NodeShape(t[m])
  BY DEF Sound, Shaped
<1>2. u = [m \in Nodes |-> u[m]] /\ \A m \in Nodes : m # n => u[m] = t[m]
  BY <1>1
<1>3. n \in Nodes => u[n] = [t[n] EXCEPT !.data = x]
  BY <1>1
<1> HIDE DEF u
<1>4. n \in Nodes => /\ NodeShape(u[n]) /\ u[n].type = t[n].type /\ u[n].name = t[n].name
                     /\ u[n].parent = t[n].parent /\ u[n].children = t[n].children
  <2> SUFFICES ASSUME n \in Nodes
               PROVE  /\ NodeShape(u[n]) /\ u[n].type = t[n].type /\ u[n].name = t[n].name
                      /\ u[n].parent = t[n].parent /\ u[n].children = t[n].children
    OBVIOUS
  <2> DEFINE r == t[n]
             q == u[n]
  <2>1. r = [type |-> r.type, name |-> r.name, parent |-> r.parent,
             children |-> r.children, data |-> r.data]
    BY <1>1 DEF NodeShape
  <2>2. q = [r EXCEPT !.data = x]
    BY <1>3
  <2> HIDE DEF r, q
  <2>3. q = [type |-> r.type, name |-> r.name, parent |-> r.parent,
             children |-> r.children, data |-> x]
    BY <2>1, <2>2, ZenonT(40)
  <2>4. /\ NodeShape(q) /\ q.type = r.type /\ q.name = r.name
        /\ q.parent = r.parent /\ q.children = r.children
    BY <2>3 DEF NodeShape
  <2> QED BY <2>4 DEF q, r
<1>5. ASSUME NEW m \in Nodes
      PROVE  /\ NodeShape(u[m]) /\ u[m].type = t[m].type /\ u[m].name = t[m].name
             /\ u[m].parent = t[m].parent /\ u[m].children = t[m].children
  <2>1. CASE m = n
    BY <1>4, <2>1
  <2>2. CASE m # n
    BY <1>1, <1>2, <2>2
  <2> QED BY <2>1, <2>2
<1> QED BY <1>2, <1>5 DEF SameButData, u

LEMMA DataKeepsSound ==
  ASSUME NEW t, Sound(t), NEW u, SameButData(t, u)
  PROVE  Sound(u) /\ LiveIn(u) = LiveIn(t)
<1>1. LiveIn(u) = LiveIn(t)
  BY DEF SameButData, LiveIn
<1>2. \A n \in Nodes : u[n].children \in Seq(NodeSlots) /\ t[n].children \in Seq(NodeSlots)
  BY DEF Sound, Shaped, SameButData
<1>3. Shaped(u)
  BY <1>2, NodeFacts DEF Sound, Shaped, SameButData
<1>4. \A n \in LiveIn(t) : n \in Nodes
  BY DEF LiveIn
<1>5. Down(u)
  BY <1>1, <1>4 DEF Sound, Down, SameButData
<1>6. Once(u)
  <2> SUFFICES ASSUME NEW n \in LiveIn(t), NEW i \in DOMAIN t[n].children,
                      NEW j \in DOMAIN t[n].children, i # j
               PROVE  /\ u[n].children[i] # u[n].children[j]
                      /\ u[u[n].children[i]].name # u[u[n].children[j]].name
    <3>1. \A n \in LiveIn(t) : u[n].children = t[n].children
      BY <1>4 DEF SameButData
    <3> QED BY <1>1, <3>1 DEF Once
  <2>1. /\ t[n].children[i] # t[n].children[j]
        /\ t[t[n].children[i]].name # t[t[n].children[j]].name
        /\ t[n].children[i] \in LiveIn(t) /\ t[n].children[j] \in LiveIn(t)
    BY DEF Sound, Once, Down
  <2> QED BY <1>4, <2>1 DEF SameButData
<1>7. Up(u)
  BY <1>1, <1>4 DEF Sound, Up, SameButData
<1> QED BY <1>1, <1>3, <1>5, <1>6, <1>7 DEF Sound

\* ramfs_create and ramfs_mkdir: u is t with the free slot n as a child of d.
Grown(t, u, d, name, type, n) ==
  /\ u = [m \in Nodes |-> u[m]]
  /\ NodeShape(u[n]) /\ u[n].type = type /\ u[n].name = name /\ u[n].parent = d
  /\ u[n].children = <<>> /\ u[n].data = <<>>
  /\ NodeShape(u[d]) /\ u[d].type = t[d].type /\ u[d].name = t[d].name
  /\ u[d].parent = t[d].parent /\ u[d].children = Append(t[d].children, n)
  /\ u[d].data = t[d].data
  /\ \A m \in Nodes : m # d /\ m # n => u[m] = t[m]

LEMMA NodeAdded ==
  ASSUME NEW t, Sound(t), NEW d \in LiveIn(t), NEW name, NEW type, NEW n \in FreeSlots(t)
  PROVE  Grown(t, AddNode(t, d, name, type, n), d, name, type, n) /\ n # d /\ n \in Nodes
<1> DEFINE u == AddNode(t, d, name, type, n)
           e == [FreeNode EXCEPT !.type = type, !.name = name, !.parent = d]
           r == t[d]
           s == Append(r.children, n)
           q == [r EXCEPT !.children = s]
<1>1. n # d /\ n \in Nodes /\ d \in Nodes /\ n \in NodeSlots
  BY NodeFacts DEF FreeSlots, LiveIn
<1>2. t = [m \in Nodes |-> t[m]] /\ NodeShape(r)
  BY <1>1 DEF Sound, Shaped
<1>3. u = [t EXCEPT ![d] = q, ![n] = e]
  BY Zenon DEF AddNode
<1>4. /\ e = [type |-> type, name |-> name, parent |-> d, children |-> e.children, data |-> e.data]
      /\ e.children = <<>> /\ e.data = <<>>
  <2> DEFINE f == FreeNode
             e1 == [f EXCEPT !.type = type]
             e2 == [e1 EXCEPT !.name = name]
  <2>1. e = [e2 EXCEPT !.parent = d] /\ e2 = [e1 EXCEPT !.name = name] /\ e1 = [f EXCEPT !.type = type]
    OBVIOUS
  <2>2. f = [type |-> f.type, name |-> f.name, parent |-> f.parent, children |-> f.children, data |-> f.data]
        /\ f.children = <<>> /\ f.data = <<>>
    BY DEF FreeNode
  <2> HIDE DEF e, e1, e2, f
  <2>3. e1 = [type |-> type, name |-> f.name, parent |-> f.parent, children |-> f.children, data |-> f.data]
    BY <2>1, <2>2, ZenonT(40)
  <2>4. e2 = [type |-> type, name |-> name, parent |-> f.parent, children |-> f.children, data |-> f.data]
    BY <2>1, <2>3, ZenonT(40)
  <2>5. e = [type |-> type, name |-> name, parent |-> d, children |-> f.children, data |-> f.data]
    BY <2>1, <2>4, ZenonT(40)
  <2> QED BY <2>2, <2>5
<1>5. q = [type |-> r.type, name |-> r.name, parent |-> r.parent,
           children |-> s, data |-> r.data]
  <2>1. r = [type |-> r.type, name |-> r.name, parent |-> r.parent,
             children |-> r.children, data |-> r.data]
    BY <1>2 DEF NodeShape
  <2>2. q = [r EXCEPT !.children = s]
    OBVIOUS
  <2> HIDE DEF r, s, q
  <2> QED BY <2>1, <2>2, ZenonT(40)
<1> HIDE DEF u, e, q, s
<1>6. /\ u = [m \in Nodes |-> u[m]] /\ u[d] = q /\ u[n] = e
      /\ \A m \in Nodes : m # d /\ m # n => u[m] = t[m]
  <2> HIDE DEF r
  <2> QED BY <1>1, <1>2, <1>3
<1> HIDE DEF r
<1>7. /\ NodeShape(e) /\ e.type = type /\ e.name = name /\ e.parent = d /\ e.children = <<>>
      /\ e.data = <<>>
  BY <1>4 DEF NodeShape
<1>8. /\ NodeShape(q) /\ q.type = r.type /\ q.name = r.name /\ q.parent = r.parent
      /\ q.children = s /\ q.data = r.data
  BY <1>5 DEF NodeShape
<1> QED BY <1>1, <1>6, <1>7, <1>8 DEF Grown, u, r, s

NameFree(t, d, name) ==
  \A i \in DOMAIN t[d].children : t[t[d].children[i]].name # name

LEMMA GrownSound ==
  ASSUME NEW t, Sound(t), NEW d \in LiveIn(t), t[d].type = "VFS_DIRECTORY",
         NEW name, NEW type, type # "free", NEW n \in FreeSlots(t), NEW u,
         NameFree(t, d, name),
         Grown(t, u, d, name, type, n), n # d
  PROVE  Sound(u) /\ LiveIn(u) = LiveIn(t) \cup {n} /\ n \notin LiveIn(t)
<1> DEFINE s == t[d].children
<1>1. n \in Nodes /\ n \in NodeSlots /\ d \in Nodes /\ n # Root /\ n \notin LiveIn(t)
  BY NodeFacts DEF FreeSlots, LiveIn
<1>2. LiveIn(u) = LiveIn(t) \cup {n}
  BY <1>1 DEF Grown, LiveIn
<1>3. s \in Seq(NodeSlots) /\ u[d].children = Append(s, n)
  BY <1>1 DEF Sound, Shaped, Grown
<1> HIDE DEF s
<1>4. /\ Append(s, n) \in Seq(NodeSlots) /\ Len(s) \in Nat
      /\ DOMAIN s = 1 .. Len(s)
      /\ DOMAIN Append(s, n) = 1 .. (Len(s) + 1)
      /\ Append(s, n)[Len(s) + 1] = n
      /\ \A i \in 1 .. Len(s) : Append(s, n)[i] = s[i]
  BY <1>1, <1>3
<1>5. Shaped(u)
  <2>1. \A m \in Nodes : NodeShape(u[m]) /\ u[m].children \in Seq(NodeSlots)
    <3> SUFFICES ASSUME NEW m \in Nodes PROVE NodeShape(u[m]) /\ u[m].children \in Seq(NodeSlots)
      OBVIOUS
    <3>1. CASE m = d
      BY <1>3, <1>4, <3>1 DEF Grown
    <3>2. CASE m = n
      <4>1. <<>> \in Seq(NodeSlots)
        OBVIOUS
      <4> QED BY <3>2, <4>1 DEF Grown
    <3>3. CASE m # d /\ m # n
      BY <3>3 DEF Grown, Sound, Shaped
    <3> QED BY <3>1, <3>2, <3>3
  <2>2. \A m \in Nodes : u[m].type # "VFS_DIRECTORY" => u[m].children = <<>>
    <3> SUFFICES ASSUME NEW m \in Nodes, u[m].type # "VFS_DIRECTORY" PROVE u[m].children = <<>>
      OBVIOUS
    <3>1. m # d
      BY DEF Grown
    <3>2. CASE m = n
      BY <3>2 DEF Grown
    <3>3. CASE m # n
      BY <3>1, <3>3 DEF Grown, Sound, Shaped
    <3> QED BY <3>2, <3>3
  <2>3. u[Root].type = "VFS_DIRECTORY"
    BY <1>1, NodeFacts DEF Grown, Sound, Shaped
  <2> QED BY <2>1, <2>2, <2>3 DEF Shaped, Grown
<1>6. \A m \in LiveIn(t) : m \in Nodes /\ m # n /\ u[m].name = t[m].name /\ u[m].parent = t[m].parent
  BY <1>1 DEF LiveIn, Grown
<1>7. \A m \in LiveIn(t) \ {d} : u[m].children = t[m].children
  BY <1>6 DEF Grown
<1>8. u[n].children = <<>> /\ u[n].parent = d /\ u[n].name = name
  BY DEF Grown
<1>9. Down(u)
  <2> SUFFICES ASSUME NEW m \in LiveIn(u), NEW i \in DOMAIN u[m].children
               PROVE  /\ u[m].children[i] \in LiveIn(u) \ {Root}
                      /\ u[u[m].children[i]].parent = m
    BY DEF Down
  <2>1. m # n
    BY <1>8
  <2>2. CASE m # d
    <3>1. t[m].children[i] \in LiveIn(t) \ {Root} /\ t[t[m].children[i]].parent = m
      BY <1>2, <1>7, <2>1, <2>2 DEF Sound, Down
    <3> QED BY <1>2, <1>6, <1>7, <2>1, <2>2, <3>1
  <2>3. CASE m = d /\ i \in 1 .. Len(s)
    <3>1. s[i] \in LiveIn(t) \ {Root} /\ t[s[i]].parent = m
      BY <1>4, <2>3 DEF Sound, Down, s
    <3> QED BY <1>2, <1>3, <1>4, <1>6, <2>3, <3>1
  <2>4. CASE m = d /\ i \notin 1 .. Len(s)
    <3>1. u[m].children[i] = n
      BY <1>3, <1>4, <2>4
    <3> QED BY <1>1, <1>2, <1>8, <2>4, <3>1
  <2> QED BY <2>2, <2>3, <2>4
<1>10. Once(u)
  <2> SUFFICES ASSUME NEW m \in LiveIn(u), NEW i \in DOMAIN u[m].children,
                      NEW j \in DOMAIN u[m].children, i # j
               PROVE  /\ u[m].children[i] # u[m].children[j]
                      /\ u[u[m].children[i]].name # u[u[m].children[j]].name
    BY DEF Once
  <2>1. m # n
    BY <1>8
  <2>2. CASE m # d
    <3>1. /\ t[m].children[i] # t[m].children[j]
          /\ t[t[m].children[i]].name # t[t[m].children[j]].name
          /\ t[m].children[i] \in LiveIn(t) /\ t[m].children[j] \in LiveIn(t)
      BY <1>2, <1>7, <2>1, <2>2 DEF Sound, Once, Down
    <3> QED BY <1>2, <1>6, <1>7, <2>1, <2>2, <3>1
  <2>3. CASE m = d
    <3>1. \A k \in 1 .. Len(s) : s[k] \in LiveIn(t) /\ t[s[k]].name # name
      BY <1>4 DEF Sound, Down, NameFree, s
    <3>2. \A k, l \in 1 .. Len(s) : k # l => s[k] # s[l] /\ t[s[k]].name # t[s[l]].name
      BY <1>4 DEF Sound, Once, s
    <3> DEFINE a == Append(s, n)
    <3>3. i \in 1 .. (Len(s) + 1) /\ j \in 1 .. (Len(s) + 1) /\ u[m].children = a
      BY <1>3, <1>4, <2>3
    <3>4. \A k \in 1 .. Len(s) : a[k] = s[k] /\ u[a[k]].name = t[s[k]].name /\ a[k] # n
      BY <1>4, <1>6, <3>1
    <3>5. a[Len(s) + 1] = n /\ u[n].name = name
      BY <1>4, <1>8
    <3> HIDE DEF a
    <3>6. a[i] # a[j] /\ u[a[i]].name # u[a[j]].name
      <4>1. CASE i \in 1 .. Len(s) /\ j \in 1 .. Len(s)
        BY <3>2, <3>4, <4>1
      <4>2. CASE i \notin 1 .. Len(s)
        <5>1. i = Len(s) + 1 /\ j \in 1 .. Len(s)
          BY <1>4, <3>3, <4>2
        <5> QED BY <3>1, <3>4, <3>5, <5>1
      <4>3. CASE j \notin 1 .. Len(s)
        <5>1. j = Len(s) + 1 /\ i \in 1 .. Len(s)
          BY <1>4, <3>3, <4>3
        <5> QED BY <3>1, <3>4, <3>5, <5>1
      <4> QED BY <4>1, <4>2, <4>3
    <3> QED BY <3>3, <3>6
  <2> QED BY <2>2, <2>3
<1>11. Up(u)
  <2> SUFFICES ASSUME NEW m \in LiveIn(u) \ {Root}
               PROVE  /\ u[m].parent \in LiveIn(u)
                      /\ \E i \in DOMAIN u[u[m].parent].children : u[u[m].parent].children[i] = m
    BY DEF Up
  <2>1. CASE m = n
    <3>1. Len(s) + 1 \in DOMAIN u[d].children /\ u[d].children[Len(s) + 1] = n
      BY <1>3, <1>4
    <3> QED BY <1>2, <1>8, <2>1, <3>1
  <2>2. CASE m # n
    <3>1. /\ m \in LiveIn(t) /\ t[m].parent \in LiveIn(t) /\ u[m].parent = t[m].parent
          /\ \E i \in DOMAIN t[t[m].parent].children : t[t[m].parent].children[i] = m
      BY <1>2, <1>6, <2>2 DEF Sound, Up
    <3>2. CASE t[m].parent # d
      BY <1>2, <1>7, <3>1, <3>2
    <3>3. CASE t[m].parent = d
      <4>1. PICK i \in 1 .. Len(s) : s[i] = m
        BY <1>4, <3>1, <3>3 DEF s
      <4>2. i \in DOMAIN u[d].children /\ u[d].children[i] = m
        BY <1>3, <1>4, <4>1
      <4> QED BY <1>2, <3>1, <3>3, <4>2
    <3> QED BY <3>2, <3>3
  <2> QED BY <2>1, <2>2
<1> QED BY <1>1, <1>2, <1>5, <1>9, <1>10, <1>11 DEF Sound

\* The first place of n in a sequence, and the sequence without it.
LEMMA FirstPlace ==
  ASSUME NEW S, NEW s \in Seq(S), NEW n, NEW k \in DOMAIN s, s[k] = n
  PROVE  LET i == SelectInSeq(s, LAMBDA c : c = n) IN i \in 1 .. Len(s) /\ s[i] = n
<1> DEFINE I == {i \in 1 .. Len(s) : s[i] = n}
<1>1. I # {} /\ I \in SUBSET Nat
  OBVIOUS
<1>2. SelectInSeq(s, LAMBDA c : c = n) = IF I # {} THEN Min(I) ELSE 0
  BY DEF SelectInSeq
<1> HIDE DEF I
<1>3. \E x \in I : \A y \in I : x <= y
  BY <1>1, NatLeast
<1>4. Min(I) \in I
  BY <1>3 DEF Min
<1> QED BY <1>1, <1>2, <1>4 DEF I

LEMMA Removed ==
  ASSUME NEW S, NEW s \in Seq(S), NEW i \in 1 .. Len(s)
  PROVE  LET r == RemoveAt(s, i)
         IN  /\ r \in Seq(S) /\ Len(r) = Len(s) - 1 /\ DOMAIN r = 1 .. (Len(s) - 1)
             /\ \A j \in 1 .. (Len(s) - 1) : r[j] = IF j < i THEN s[j] ELSE s[j + 1]
<1> DEFINE a == SubSeq(s, 1, i - 1)
           b == SubSeq(s, i + 1, Len(s))
           r == RemoveAt(s, i)
<1>1. Len(s) \in Nat /\ i \in Nat /\ DOMAIN s = 1 .. Len(s) /\ \A j \in 1 .. Len(s) : s[j] \in S
  OBVIOUS
<1>2. a \in Seq(S) /\ Len(a) = i - 1 /\ \A j \in 1 .. (i - 1) : a[j] = s[j]
  BY <1>1
<1>3. b \in Seq(S) /\ Len(b) = Len(s) - i /\ \A j \in 1 .. (Len(s) - i) : b[j] = s[j + i]
  <2>1. i + 1 \in 1 .. (Len(s) + 1) /\ Len(s) - (i + 1) + 1 = Len(s) - i
    BY <1>1
  <2>2. b = [j \in 1 .. (Len(s) - i) |-> s[(i + 1) + j - 1]]
    BY <1>1, <2>1
  <2> HIDE DEF b
  <2>3. \A j \in 1 .. (Len(s) - i) : b[j] = s[j + i] /\ b[j] \in S
    BY <1>1, <2>2
  <2>4. b \in [1 .. (Len(s) - i) -> S]
    BY <2>2, <2>3
  <2>5. Len(s) - i \in Nat
    BY <1>1
  <2> QED BY <2>2, <2>3, <2>4, <2>5
<1>4. r = a \o b
  BY DEF RemoveAt
<1> HIDE DEF a, b, r
<1>5. r \in Seq(S) /\ Len(r) = Len(s) - 1
  <2>1. a \in Seq(S) /\ b \in Seq(S) /\ Len(a) = i - 1 /\ Len(b) = Len(s) - i
    BY <1>2, <1>3
  <2>2. r \in Seq(S) /\ Len(r) = Len(a) + Len(b)
    BY <1>4, <2>1, ConcatProperties
  <2> QED BY <1>1, <2>1, <2>2
<1>6. ASSUME NEW j \in 1 .. (Len(s) - 1)
      PROVE  r[j] = IF j < i THEN s[j] ELSE s[j + 1]
  <2>1. CASE j < i
    BY <1>1, <1>2, <1>3, <1>4, <2>1
  <2>2. CASE ~(j < i)
    <3>1. r[j] = b[j - (i - 1)] /\ j - (i - 1) \in 1 .. (Len(s) - i)
      BY <1>1, <1>2, <1>3, <1>4, <2>2
    <3>2. b[j - (i - 1)] = s[(j - (i - 1)) + i] /\ (j - (i - 1)) + i = j + 1
      BY <1>1, <1>3, <3>1
    <3> QED BY <2>2, <3>1, <3>2
  <2> QED BY <2>1, <2>2
<1>7. DOMAIN r = 1 .. (Len(s) - 1)
  BY <1>5
<1> QED BY <1>5, <1>6, <1>7 DEF r

\* ramfs_remove_node: u is t without the node n, which was at place k of the
\* children of d.
Shrunk(t, u, d, n, k) ==
  /\ u = [m \in Nodes |-> u[m]]
  /\ NodeShape(u[n]) /\ u[n].type = "free" /\ u[n].children = <<>> /\ u[n].data = <<>>
  /\ NodeShape(u[d]) /\ u[d].type = t[d].type /\ u[d].name = t[d].name
  /\ u[d].parent = t[d].parent /\ u[d].children = RemoveAt(t[d].children, k)
  /\ u[d].data = t[d].data
  /\ \A m \in Nodes : m # d /\ m # n => u[m] = t[m]

LEMMA NodeDropped ==
  ASSUME NEW t, Sound(t), NEW n \in LiveIn(t), CanRemove(t, n)
  PROVE  LET d == t[n].parent
         IN  /\ n # d /\ n # Root /\ d \in LiveIn(t) /\ t[n].children = <<>>
             /\ \E k \in 1 .. Len(t[d].children) :
                  t[d].children[k] = n /\ Shrunk(t, DropNode(t, n), d, n, k)
<1> DEFINE d == t[n].parent
           u == DropNode(t, n)
           r == t[d]
           k == SelectInSeq(r.children, LAMBDA c : c = n)
           s == RemoveAt(r.children, k)
           q == [r EXCEPT !.children = s]
<1>1. n # Root /\ n \in Nodes /\ t[n].children = <<>>
  BY DEF CanRemove, LiveIn, Sound, Shaped
<1>2. d \in LiveIn(t) /\ d \in Nodes /\ \E i \in DOMAIN r.children : r.children[i] = n
  BY <1>1 DEF Sound, Up, LiveIn
<1>3. n # d
  BY <1>1, <1>2
<1>4. t = [m \in Nodes |-> t[m]] /\ NodeShape(r) /\ r.children \in Seq(NodeSlots)
  BY <1>2 DEF Sound, Shaped
<1>5. k \in 1 .. Len(r.children) /\ r.children[k] = n
  <2> DEFINE c0 == r.children
  <2>1. c0 \in Seq(NodeSlots) /\ \E i \in DOMAIN c0 : c0[i] = n
    BY <1>2, <1>4
  <2>2. k = SelectInSeq(c0, LAMBDA c : c = n)
    OBVIOUS
  <2> HIDE DEF c0
  <2>3. LET i == SelectInSeq(c0, LAMBDA c : c = n) IN i \in 1 .. Len(c0) /\ c0[i] = n
    BY <2>1, FirstPlace
  <2> HIDE DEF k
  <2> QED BY <2>2, <2>3 DEF c0
<1>6. u = [t EXCEPT ![d] = q, ![n] = FreeNode]
  BY Zenon DEF DropNode
<1>7. q = [type |-> r.type, name |-> r.name, parent |-> r.parent,
           children |-> s, data |-> r.data]
  <2>1. r = [type |-> r.type, name |-> r.name, parent |-> r.parent,
             children |-> r.children, data |-> r.data]
    BY <1>4 DEF NodeShape
  <2>2. q = [r EXCEPT !.children = s]
    OBVIOUS
  <2> HIDE DEF r, s, q
  <2> QED BY <2>1, <2>2, ZenonT(40)
<1> HIDE DEF u, q, s, k
<1>8. /\ u = [m \in Nodes |-> u[m]] /\ u[d] = q /\ u[n] = FreeNode
      /\ \A m \in Nodes : m # d /\ m # n => u[m] = t[m]
  <2> HIDE DEF r, d
  <2> QED BY <1>1, <1>2, <1>3, <1>4, <1>6
<1> HIDE DEF r
<1>9. /\ NodeShape(FreeNode) /\ FreeNode.type = "free" /\ FreeNode.children = <<>>
      /\ FreeNode.data = <<>>
  BY DEF NodeShape, FreeNode
<1>10. /\ NodeShape(q) /\ q.type = r.type /\ q.name = r.name /\ q.parent = r.parent
       /\ q.children = s /\ q.data = r.data
  BY <1>7 DEF NodeShape
<1>11. Shrunk(t, u, d, n, k)
  BY <1>8, <1>9, <1>10 DEF Shrunk, r, s
<1> QED BY <1>1, <1>2, <1>3, <1>5, <1>11 DEF u, r

LEMMA ShrunkSound ==
  ASSUME NEW t, Sound(t), NEW n \in LiveIn(t), NEW d \in LiveIn(t), t[n].parent = d,
         n # d, n # Root, t[n].children = <<>>, NEW u, NEW k \in 1 .. Len(t[d].children),
         t[d].children[k] = n, Shrunk(t, u, d, n, k)
  PROVE  Sound(u) /\ LiveIn(u) = LiveIn(t) \ {n}
<1> DEFINE s == t[d].children
           r == RemoveAt(s, k)
<1>1. n \in Nodes /\ d \in Nodes
  BY DEF LiveIn
<1>2. LiveIn(u) = LiveIn(t) \ {n}
  BY <1>1 DEF Shrunk, LiveIn
<1>3. s \in Seq(NodeSlots) /\ u[d].children = r /\ DOMAIN s = 1 .. Len(s) /\ Len(s) \in Nat
      /\ k \in 1 .. Len(s) /\ s[k] = n
  BY <1>1 DEF Sound, Shaped, Shrunk
<1> HIDE DEF s
<1>4. /\ r \in Seq(NodeSlots) /\ DOMAIN r = 1 .. (Len(s) - 1)
      /\ \A j \in 1 .. (Len(s) - 1) : r[j] = IF j < k THEN s[j] ELSE s[j + 1]
  BY <1>3, Removed
<1> HIDE DEF r
<1>5. Shaped(u)
  <2>1. \A m \in Nodes : NodeShape(u[m]) /\ u[m].children \in Seq(NodeSlots)
    <3> SUFFICES ASSUME NEW m \in Nodes PROVE NodeShape(u[m]) /\ u[m].children \in Seq(NodeSlots)
      OBVIOUS
    <3>1. CASE m = d
      BY <1>3, <1>4, <3>1 DEF Shrunk
    <3>2. CASE m = n
      <4>1. <<>> \in Seq(NodeSlots)
        OBVIOUS
      <4> QED BY <3>2, <4>1 DEF Shrunk
    <3>3. CASE m # d /\ m # n
      BY <3>3 DEF Shrunk, Sound, Shaped
    <3> QED BY <3>1, <3>2, <3>3
  <2>2. \A m \in Nodes : u[m].type # "VFS_DIRECTORY" => u[m].children = <<>>
    <3> SUFFICES ASSUME NEW m \in Nodes, u[m].type # "VFS_DIRECTORY" PROVE u[m].children = <<>>
      OBVIOUS
    <3>1. t[d].type = "VFS_DIRECTORY"
      <4>1. s # <<>>
        BY <1>3
      <4> QED BY <1>1, <4>1 DEF Sound, Shaped, s
    <3>2. m # d
      BY <3>1 DEF Shrunk
    <3>3. CASE m = n
      BY <3>3 DEF Shrunk
    <3>4. CASE m # n
      BY <3>2, <3>4 DEF Shrunk, Sound, Shaped
    <3> QED BY <3>3, <3>4
  <2>3. u[Root].type = "VFS_DIRECTORY"
    BY <1>1, NodeFacts DEF Shrunk, Sound, Shaped
  <2> QED BY <2>1, <2>2, <2>3 DEF Shaped, Shrunk
<1>6. \A m \in LiveIn(u) : m \in Nodes /\ m # n /\ m \in LiveIn(t) /\ u[m].name = t[m].name
                           /\ u[m].parent = t[m].parent
  BY <1>2 DEF LiveIn, Shrunk
<1>7. \A m \in LiveIn(u) \ {d} : u[m].children = t[m].children
  BY <1>6 DEF Shrunk
\* Where an entry of the shorter array was before.
<1>8. \A i \in DOMAIN r : \E a \in 1 .. Len(s) :
        a # k /\ r[i] = s[a] /\ a = (IF i < k THEN i ELSE i + 1)
  BY <1>3, <1>4
<1>9. \A a, b \in 1 .. Len(s) : a # b => s[a] # s[b] /\ t[s[a]].name # t[s[b]].name
  BY <1>3 DEF Sound, Once, s
<1>10. \A a \in 1 .. Len(s) : s[a] \in LiveIn(t) \ {Root} /\ t[s[a]].parent = d
  BY <1>3 DEF Sound, Down, s
<1>11. \A i \in DOMAIN r : r[i] \in LiveIn(u) \ {Root} /\ t[r[i]].parent = d
  BY <1>2, <1>3, <1>8, <1>9, <1>10
<1>12. Down(u)
  <2> SUFFICES ASSUME NEW m \in LiveIn(u), NEW i \in DOMAIN u[m].children
               PROVE  /\ u[m].children[i] \in LiveIn(u) \ {Root}
                      /\ u[u[m].children[i]].parent = m
    BY DEF Down
  <2>1. CASE m = d
    BY <1>3, <1>6, <1>11, <2>1
  <2>2. CASE m # d
    <3>1. /\ t[m].children[i] \in LiveIn(t) \ {Root} /\ t[t[m].children[i]].parent = m
          /\ u[m].children[i] = t[m].children[i]
      BY <1>6, <1>7, <2>2 DEF Sound, Down
    <3>2. t[m].children[i] # n
      BY <2>2, <3>1
    <3> QED BY <1>2, <1>6, <3>1, <3>2
  <2> QED BY <2>1, <2>2
<1>13. Once(u)
  <2> SUFFICES ASSUME NEW m \in LiveIn(u), NEW i \in DOMAIN u[m].children,
                      NEW j \in DOMAIN u[m].children, i # j
               PROVE  /\ u[m].children[i] # u[m].children[j]
                      /\ u[u[m].children[i]].name # u[u[m].children[j]].name
    BY DEF Once
  <2>0. u[m].children[i] \in LiveIn(u) /\ u[m].children[j] \in LiveIn(u)
    BY <1>12 DEF Down
  <2>1. CASE m = d
    <3>1. i \in DOMAIN r /\ j \in DOMAIN r /\ u[m].children = r
      BY <1>3, <2>1
    <3>2. PICK a \in 1 .. Len(s) : r[i] = s[a] /\ a = (IF i < k THEN i ELSE i + 1)
      BY <1>8, <3>1
    <3>3. PICK b \in 1 .. Len(s) : r[j] = s[b] /\ b = (IF j < k THEN j ELSE j + 1)
      BY <1>8, <3>1
    <3>4. a # b
      BY <1>3, <1>4, <3>1, <3>2, <3>3
    <3>5. s[a] # s[b] /\ t[s[a]].name # t[s[b]].name
      BY <1>9, <3>4
    <3> QED BY <1>6, <2>0, <3>1, <3>2, <3>3, <3>5
  <2>2. CASE m # d
    <3>1. /\ u[m].children = t[m].children
          /\ t[m].children[i] # t[m].children[j]
          /\ t[t[m].children[i]].name # t[t[m].children[j]].name
      BY <1>6, <1>7, <2>2 DEF Sound, Once
    <3> QED BY <1>6, <2>0, <3>1
  <2> QED BY <2>1, <2>2
<1>14. Up(u)
  <2> SUFFICES ASSUME NEW m \in LiveIn(u) \ {Root}
               PROVE  /\ u[m].parent \in LiveIn(u)
                      /\ \E i \in DOMAIN u[u[m].parent].children : u[u[m].parent].children[i] = m
    BY DEF Up
  <2>1. PICK i \in DOMAIN t[t[m].parent].children : t[t[m].parent].children[i] = m
    BY <1>6 DEF Sound, Up
  <2>2. t[m].parent \in LiveIn(t) /\ u[m].parent = t[m].parent /\ m # n
    BY <1>6 DEF Sound, Up
  <2>3. t[m].parent # n
    BY <2>1
  <2>4. t[m].parent \in LiveIn(u)
    BY <1>2, <2>2, <2>3
  <2>5. CASE t[m].parent # d
    BY <1>7, <2>1, <2>2, <2>4, <2>5
  <2>6. CASE t[m].parent = d
    <3>1. i \in 1 .. Len(s) /\ s[i] = m /\ i # k
      BY <1>3, <2>1, <2>2, <2>6 DEF s
    <3>2. CASE i < k
      <4>1. i \in DOMAIN r /\ r[i] = m
        BY <1>3, <1>4, <3>1, <3>2
      <4> QED BY <1>3, <2>2, <2>4, <2>6, <4>1
    <3>3. CASE k < i
      <4>1. i - 1 \in DOMAIN r /\ r[i - 1] = m
        BY <1>3, <1>4, <3>1, <3>3
      <4> QED BY <1>3, <2>2, <2>4, <2>6, <4>1
    <3> QED BY <1>3, <3>1, <3>2, <3>3
  <2> QED BY <2>5, <2>6
<1> QED BY <1>2, <1>5, <1>12, <1>13, <1>14 DEF Sound

\* The two together: what the removal of a node does.
LEMMA DropKeepsSound ==
  ASSUME NEW t, Sound(t), NEW n \in LiveIn(t), CanRemove(t, n)
  PROVE  Sound(DropNode(t, n)) /\ LiveIn(DropNode(t, n)) = LiveIn(t) \ {n} /\ n # Root
<1> DEFINE d == t[n].parent
           u == DropNode(t, n)
<1>1. /\ n # d /\ n # Root /\ d \in LiveIn(t) /\ t[n].children = <<>>
      /\ \E k \in 1 .. Len(t[d].children) : t[d].children[k] = n /\ Shrunk(t, u, d, n, k)
  BY NodeDropped
<1> HIDE DEF u
<1> QED BY <1>1, ShrunkSound DEF u

-----------------------------------------------------------------------------
(* What a path names does not change when the tree only grows. *)

Extends(t, u) ==
  \A m \in LiveIn(t) :
    /\ m \in LiveIn(u) /\ u[m].type = t[m].type /\ u[m].name = t[m].name
    /\ \A i \in DOMAIN t[m].children :
         i \in DOMAIN u[m].children /\ u[m].children[i] = t[m].children[i]

LEMMA ExtendsTwice ==
  ASSUME NEW t, NEW u, NEW v, Extends(t, u), Extends(u, v)
  PROVE  Extends(t, v)
  BY DEF Extends

LEMMA DataExtends ==
  ASSUME NEW t, Sound(t), NEW u, SameButData(t, u)
  PROVE  Extends(t, u)
<1>1. LiveIn(u) = LiveIn(t)
  BY DataKeepsSound
<1>2. \A m \in LiveIn(t) : m \in Nodes
  BY DEF LiveIn
<1> QED BY <1>1, <1>2 DEF Extends, SameButData

LEMMA GrownExtends ==
  ASSUME NEW t, Sound(t), NEW d \in LiveIn(t), NEW name, NEW type, type # "free",
         NEW n \in FreeSlots(t), NEW u, Grown(t, u, d, name, type, n), n # d
  PROVE  Extends(t, u)
<1>1. n \in Nodes /\ n \in NodeSlots /\ n \notin LiveIn(t)
  BY NodeFacts DEF FreeSlots, LiveIn
<1> SUFFICES ASSUME NEW m \in LiveIn(t)
             PROVE  /\ m \in LiveIn(u) /\ u[m].type = t[m].type /\ u[m].name = t[m].name
                    /\ \A i \in DOMAIN t[m].children :
                         i \in DOMAIN u[m].children /\ u[m].children[i] = t[m].children[i]
  BY DEF Extends
<1>2. m \in Nodes /\ m # n /\ t[m].type # "free"
  BY <1>1 DEF LiveIn
<1>3. CASE m = d
  <2> DEFINE s == t[d].children
  <2>1. s \in Seq(NodeSlots) /\ u[m].children = Append(s, n)
    BY <1>2, <1>3 DEF Sound, Shaped, Grown
  <2>2. u[m].type = t[m].type /\ u[m].name = t[m].name
    BY <1>3 DEF Grown
  <2>3. m \in LiveIn(u)
    BY <1>2, <2>2 DEF LiveIn
  <2> HIDE DEF s
  <2>4. \A i \in DOMAIN s : i \in DOMAIN Append(s, n) /\ Append(s, n)[i] = s[i]
    BY <1>1, <2>1
  <2> QED BY <1>3, <2>1, <2>2, <2>3, <2>4 DEF s
<1>4. CASE m # d
  BY <1>2, <1>4 DEF Grown, LiveIn
<1> QED BY <1>3, <1>4

\* Siblings have different names, so a child of the name is what is found.
LEMMA FinddirIs ==
  ASSUME NEW t, Sound(t), NEW d \in LiveIn(t), t[d].type = "VFS_DIRECTORY",
         NEW i \in DOMAIN t[d].children
  PROVE  ramfs_finddir(t, d, t[t[d].children[i]].name) = t[d].children[i]
<1> DEFINE name == t[t[d].children[i]].name
           c == ramfs_finddir(t, d, name)
<1>1. d # NoNode
  BY NodeFacts DEF LiveIn
<1>2. c # NoNode /\ t[c].name = name /\ \E j \in DOMAIN t[d].children : t[d].children[j] = c
  BY <1>1, Finddir
<1> HIDE DEF c
<1>3. PICK j \in DOMAIN t[d].children : t[d].children[j] = c
  BY <1>2
<1>4. j = i
  BY <1>2, <1>3 DEF Sound, Once
<1> QED BY <1>3, <1>4 DEF c

LEMMA FinddirKept ==
  ASSUME NEW t, Sound(t), NEW u, Sound(u), Extends(t, u),
         NEW d \in LiveIn(t) \cup {NoNode}, NEW name, ramfs_finddir(t, d, name) # NoNode
  PROVE  ramfs_finddir(u, d, name) = ramfs_finddir(t, d, name)
<1> DEFINE c == ramfs_finddir(t, d, name)
<1>1. /\ d # NoNode /\ t[d].type = "VFS_DIRECTORY" /\ c \in LiveIn(t) /\ t[c].name = name
      /\ \E i \in DOMAIN t[d].children : t[d].children[i] = c
  BY Finddir
<1> HIDE DEF c
<1>2. PICK i \in DOMAIN t[d].children : t[d].children[i] = c
  BY <1>1
<1>3. /\ d \in LiveIn(u) /\ u[d].type = "VFS_DIRECTORY" /\ i \in DOMAIN u[d].children
      /\ u[d].children[i] = c /\ u[c].name = name
  BY <1>1, <1>2 DEF Extends
<1>4. ramfs_finddir(u, d, u[u[d].children[i]].name) = u[d].children[i]
  BY <1>3, FinddirIs
<1> QED BY <1>3, <1>4 DEF c

LEMMA ResolveKept ==
  ASSUME NEW t, Sound(t), NEW u, Sound(u), Extends(t, u), NEW p, Len(p) \in Nat,
         vfs_resolve(t, p) # NoNode
  PROVE  vfs_resolve(u, p) = vfs_resolve(t, p)
<1>1. PICK w : IsWalk(t, p, Len(p), w) /\ vfs_resolve(t, p) = w[Len(p)]
  BY ResolveWalk
<1>2. PICK v : IsWalk(u, p, Len(p), v) /\ vfs_resolve(u, p) = v[Len(p)]
  BY ResolveWalk
<1> DEFINE T == {j \in Nat : /\ j <= Len(p)
                             /\ w[j] \notin LiveIn(t) \cup {NoNode}
                                \/ (w[j] # NoNode /\ v[j] # w[j])}
<1>3. ASSUME T # {} PROVE FALSE
  <2>1. PICK j \in T : \A i \in T : j <= i
    <3>1. T \in SUBSET Nat
      OBVIOUS
    <3> HIDE DEF T
    <3> QED BY <1>3, <3>1, NatLeast
  <2>2. j \in Nat /\ j <= Len(p)
    OBVIOUS
  <2>3. j # 0
    <3>1. Root \in LiveIn(t)
      BY NodeFacts DEF Sound, Shaped, LiveIn
    <3>2. w[0] = Root /\ v[0] = Root
      BY <1>1, <1>2 DEF IsWalk
    <3> QED BY <3>1, <3>2
  <2>4. /\ j - 1 \in Nat /\ w[j - 1] \in LiveIn(t) \cup {NoNode}
        /\ w[j - 1] # NoNode => v[j - 1] = w[j - 1]
    BY <2>1, <2>2, <2>3
  <2>5. w[j] = ramfs_finddir(t, w[j - 1], p[j]) /\ v[j] = ramfs_finddir(u, v[j - 1], p[j])
    BY <1>1, <1>2, <2>2, <2>3 DEF IsWalk
  <2> DEFINE a == w[j - 1]
             b == ramfs_finddir(t, a, p[j])
  <2>6. /\ w[j] = b /\ (a # NoNode => v[j] = ramfs_finddir(u, a, p[j]))
        /\ a \in LiveIn(t) \cup {NoNode}
    BY <2>4, <2>5
  <2> HIDE DEF a
  <2>7. /\ b # NoNode => a # NoNode /\ b \in LiveIn(t)
    BY <2>6, Finddir
  <2>8. b # NoNode => ramfs_finddir(u, a, p[j]) = b
    BY <2>6, FinddirKept
  <2> HIDE DEF b
  <2>9. w[j] \in LiveIn(t) \cup {NoNode} /\ (w[j] # NoNode => v[j] = w[j])
    BY <2>6, <2>7, <2>8
  <2> QED BY <2>9
<1> QED BY <1>1, <1>2, <1>3

-----------------------------------------------------------------------------
(* Calls. *)

LEMMA PathFacts ==
  ASSUME NEW p \in Paths
  PROVE  /\ Len(p) \in Nat \ {0} /\ p \in Seq(Names)
         /\ Len(Front(p)) \in Nat /\ Len(Front(p)) = Len(p) - 1
<1>1. PICK n \in 1 .. MaxDepth : p \in [1 .. n -> Names]
  BY DEF Paths
<1>2. n \in Nat \ {0}
  BY <1>1, FilesConstants
<1>3. p \in Seq(Names) /\ Len(p) = n
  BY <1>1, <1>2
<1>4. Len(SubSeq(p, 1, n - 1)) = n - 1
  BY <1>2, <1>3
<1> QED BY <1>2, <1>3, <1>4 DEF Front

\* A new child of a directory in which the name is free.
LEMMA Added ==
  ASSUME NEW t, Sound(t), NEW d \in LiveIn(t) \cup {NoNode}, d # NoNode,
         t[d].type = "VFS_DIRECTORY", NEW name, ramfs_finddir(t, d, name) = NoNode,
         NEW type, type # "free", NEW n \in FreeSlots(t)
  PROVE  LET u == AddNode(t, d, name, type, n)
         IN  /\ Sound(u) /\ LiveIn(u) = LiveIn(t) \cup {n} /\ Extends(t, u)
<1> DEFINE u == AddNode(t, d, name, type, n)
<1>1. d \in LiveIn(t) /\ NameFree(t, d, name)
  BY Finddir DEF NameFree
<1>2. Grown(t, u, d, name, type, n) /\ n # d
  BY <1>1, NodeAdded
<1> HIDE DEF u
<1>3. Sound(u) /\ LiveIn(u) = LiveIn(t) \cup {n}
  BY <1>1, <1>2, GrownSound
<1>4. Extends(t, u)
  BY <1>1, <1>2, GrownExtends
<1> QED BY <1>3, <1>4 DEF u

LEMMA Created ==
  ASSUME NEW t, Sound(t), NEW p \in Paths, NEW c \in vfs_create(t, p)
  PROVE  Sound(c.tree) /\ c.node \in LiveIn(c.tree) /\ Extends(t, c.tree)
<1> DEFINE d == vfs_resolve(t, Front(p))
           e == ramfs_finddir(t, d, Last(p))
<1>1. d \in LiveIn(t) \cup {NoNode}
  BY PathFacts, ResolvesLive
<1>2. e # NoNode => e \in LiveIn(t)
  <2> HIDE DEF d
  <2> QED BY <1>1, Finddir
<1>3. ~(d = NoNode \/ t[d].type # "VFS_DIRECTORY")
  BY DEF vfs_create
<1>4. CASE e # NoNode
  <2>1. c \in {[tree |-> t, node |-> e]}
    BY <1>3, <1>4 DEF vfs_create
  <2>2. c.tree = t /\ c.node = e
    <3> HIDE DEF e, d
    <3> QED BY <2>1
  <2>3. Extends(t, t)
    BY DEF Extends
  <2> QED BY <1>2, <1>4, <2>2, <2>3
<1>5. CASE e = NoNode
  <2>1. PICK n \in FreeSlots(t) :
          c = [tree |-> AddNode(t, d, Last(p), "VFS_FILE", n), node |-> n]
    BY <1>3, <1>5 DEF vfs_create
  <2> DEFINE u == AddNode(t, d, Last(p), "VFS_FILE", n)
  <2>2. c.tree = u /\ c.node = n
    <3> HIDE DEF u
    <3> QED BY <2>1 DEF u
  <2>3. Sound(u) /\ LiveIn(u) = LiveIn(t) \cup {n} /\ Extends(t, u)
    <3> HIDE DEF d
    <3> QED BY <1>1, <1>3, <1>5, Added
  <2> HIDE DEF u
  <2> QED BY <2>2, <2>3
<1> QED BY <1>4, <1>5

\* A file made or found, with other contents.
LEMMA PutStep ==
  ASSUME NEW t, Sound(t), NEW p \in Paths, NEW c \in vfs_create(t, p), NEW x
  PROVE  LET u == [c.tree EXCEPT ![c.node].data = x]
         IN  /\ Sound(u) /\ Extends(t, u) /\ LiveIn(u) = LiveIn(c.tree)
<1> DEFINE u == [c.tree EXCEPT ![c.node].data = x]
<1>1. Sound(c.tree) /\ Extends(t, c.tree)
  BY Created
<1>2. SameButData(c.tree, u)
  BY <1>1, DataWritten
<1> HIDE DEF u
<1>3. Sound(u) /\ LiveIn(u) = LiveIn(c.tree) /\ Extends(c.tree, u)
  BY <1>1, <1>2, DataKeepsSound, DataExtends
<1> QED BY <1>1, <1>3, ExtendsTwice DEF u

-----------------------------------------------------------------------------
(* Paths, and what they name. *)

\* Every path, the root's included.
AllPaths == Paths \cup {<<>>}

LEMMA PathParts ==
  ASSUME NEW p \in Paths
  PROVE  /\ Front(p) \in AllPaths /\ Len(p) \in Nat \ {0} /\ Len(Front(p)) = Len(p) - 1
         /\ Last(p) = p[Len(p)] /\ \A i \in 1 .. (Len(p) - 1) : Front(p)[i] = p[i]
         /\ p = [i \in 1 .. Len(p) |-> p[i]] /\ p \in Seq(Names)
<1>1. PICK n \in 1 .. MaxDepth : p \in [1 .. n -> Names]
  BY DEF Paths
<1>2. n \in Nat \ {0} /\ MaxDepth \in Nat
  BY <1>1, FilesConstants
<1>3. p \in Seq(Names) /\ Len(p) = n /\ p = [i \in 1 .. n |-> p[i]]
  BY <1>1, <1>2
<1> DEFINE m == n - 1
           f == SubSeq(p, 1, m)
<1>4. m \in 0 .. n /\ m \in Nat
  BY <1>2
<1>5. /\ f \in Seq(Names) /\ Len(f) = m
      /\ \A i \in 1 .. m : f[i] = p[i]
  <2> HIDE DEF m
  <2> QED BY <1>3, <1>4, SubSeqProperties
<1>6. Front(p) = f
  BY <1>3 DEF Front
<1> HIDE DEF f
<1>7. f \in [1 .. m -> Names]
  BY <1>5, <1>4, LenProperties
<1>8. f \in AllPaths
  <2>1. CASE m = 0
    BY <1>5, <2>1, EmptySeq DEF AllPaths
  <2>2. CASE m # 0
    <3>1. m \in 1 .. MaxDepth
      BY <1>2, <1>4, <2>2
    <3> HIDE DEF m
    <3> QED BY <1>7, <3>1 DEF AllPaths, Paths
  <2> QED BY <2>1, <2>2
<1> QED BY <1>2, <1>3, <1>5, <1>6, <1>8 DEF Last

LEMMA PathLen == ASSUME NEW p \in AllPaths PROVE Len(p) \in Nat /\ (p \notin Paths => p = <<>>)
<1>1. Len(<<>>) \in Nat
  OBVIOUS
<1> QED BY <1>1, PathParts DEF AllPaths

\* A path is its directory and its last name.
LEMMA PathSplit ==
  ASSUME NEW p \in Paths, NEW q \in Paths, Front(p) = Front(q), Last(p) = Last(q)
  PROVE  p = q
<1>1. /\ Len(p) \in Nat \ {0} /\ Len(q) \in Nat \ {0} /\ Len(p) = Len(q)
  <2>1. Len(p) - 1 = Len(q) - 1 /\ Len(p) \in Nat /\ Len(q) \in Nat
    BY PathParts
  <2> QED BY <2>1, PathParts
<1>2. ASSUME NEW i \in 1 .. Len(p) PROVE p[i] = q[i]
  <2>1. CASE i = Len(p)
    BY <1>1, <2>1, PathParts
  <2>2. CASE i # Len(p)
    <3>1. i \in 1 .. (Len(p) - 1)
      BY <1>1, <2>2
    <3>2. Front(p)[i] = p[i] /\ Front(q)[i] = q[i]
      BY <1>1, <3>1, PathParts
    <3> QED BY <3>2
  <2> QED BY <2>1, <2>2
<1> QED BY <1>1, <1>2, PathParts

\* Two walks along the same names are the same.
LEMMA SameWalk ==
  ASSUME NEW t, NEW p, NEW q, NEW k \in Nat, NEW l \in Nat, k <= l,
         \A i \in 1 .. k : q[i] = p[i], NEW w, IsWalk(t, p, l, w), NEW v, IsWalk(t, q, k, v)
  PROVE  v[k] = w[k]
<1> DEFINE T == {j \in Nat : j <= k /\ v[j] # w[j]}
<1> SUFFICES ASSUME T # {} PROVE FALSE
  OBVIOUS
<1>1. PICK j \in T : \A i \in T : j <= i
  <2>1. T \in SUBSET Nat
    OBVIOUS
  <2> HIDE DEF T
  <2> QED BY <2>1, NatLeast
<1>2. j \in Nat /\ j <= k /\ v[j] # w[j]
  OBVIOUS
<1>3. j # 0
  BY <1>2 DEF IsWalk
<1>4. j - 1 \in Nat /\ v[j - 1] = w[j - 1] /\ j \in 0 .. k /\ j \in 0 .. l /\ j \in 1 .. k
  BY <1>1, <1>2, <1>3
<1>5. v[j] = ramfs_finddir(t, v[j - 1], q[j]) /\ w[j] = ramfs_finddir(t, w[j - 1], p[j])
  BY <1>3, <1>4 DEF IsWalk
<1> QED BY <1>2, <1>4, <1>5

LEMMA ResolveRoot == ASSUME NEW t PROVE vfs_resolve(t, <<>>) = Root
<1>1. Len(<<>>) = 0 /\ 0 \in Nat
  OBVIOUS
<1>2. PICK w : IsWalk(t, <<>>, Len(<<>>), w) /\ vfs_resolve(t, <<>>) = w[Len(<<>>)]
  BY <1>1, ResolveWalk
<1> QED BY <1>1, <1>2 DEF IsWalk

\* vfs_resolve goes through the directory of a path.
LEMMA ResolveStep ==
  ASSUME NEW t, NEW p \in Paths
  PROVE  vfs_resolve(t, p) = ramfs_finddir(t, vfs_resolve(t, Front(p)), Last(p))
<1> DEFINE f == Front(p)
           l == Len(p)
<1>1. /\ l \in Nat \ {0} /\ Len(f) = l - 1 /\ Last(p) = p[l]
      /\ \A i \in 1 .. (l - 1) : f[i] = p[i]
  BY PathParts
<1>2. PICK w : IsWalk(t, p, l, w) /\ vfs_resolve(t, p) = w[l]
  BY <1>1, ResolveWalk
<1>3. PICK v : IsWalk(t, f, Len(f), v) /\ vfs_resolve(t, f) = v[Len(f)]
  BY <1>1, ResolveWalk
<1> HIDE DEF f, l
<1>4. l - 1 \in Nat /\ l - 1 <= l /\ l \in Nat
  BY <1>1
<1>5. v[l - 1] = w[l - 1]
  <2> DEFINE k == l - 1
  <2>1. k \in Nat /\ k <= l /\ IsWalk(t, f, k, v) /\ \A i \in 1 .. k : f[i] = p[i]
    BY <1>1, <1>3, <1>4
  <2> HIDE DEF k
  <2>2. v[k] = w[k]
    BY <1>2, <1>4, <2>1, SameWalk
  <2> QED BY <2>2 DEF k
<1>6. w[l] = ramfs_finddir(t, w[l - 1], p[l])
  BY <1>1, <1>2 DEF IsWalk
<1> QED BY <1>1, <1>2, <1>3, <1>5, <1>6 DEF f

LEMMA PathResolves ==
  ASSUME NEW t, Sound(t), NEW p \in AllPaths
  PROVE  vfs_resolve(t, p) \in LiveIn(t) \cup {NoNode} /\ vfs_resolve(t, p) \in Nodes \cup {NoNode}
  BY PathLen, ResolvesLive DEF LiveIn

\* What a path names has the path's last name and is a child of what the rest
\* of the path names.
LEMMA ResolvedChild ==
  ASSUME NEW t, Sound(t), NEW p \in Paths, vfs_resolve(t, p) # NoNode
  PROVE  LET n == vfs_resolve(t, p)
             d == vfs_resolve(t, Front(p))
         IN  /\ d \in LiveIn(t) /\ t[d].type = "VFS_DIRECTORY" /\ n \in LiveIn(t) \ {Root}
             /\ t[n].name = Last(p) /\ t[n].parent = d
             /\ \E i \in DOMAIN t[d].children : t[d].children[i] = n
<1> DEFINE n == vfs_resolve(t, p)
           d == vfs_resolve(t, Front(p))
<1>1. d \in LiveIn(t) \cup {NoNode}
  BY PathParts, PathResolves
<1>2. n = ramfs_finddir(t, d, Last(p)) /\ n # NoNode
  BY ResolveStep
<1> HIDE DEF n, d
<1>3. /\ d # NoNode /\ t[d].type = "VFS_DIRECTORY" /\ n \in LiveIn(t) \ {Root}
      /\ t[n].name = Last(p) /\ \E i \in DOMAIN t[d].children : t[d].children[i] = n
  BY <1>1, <1>2, Finddir
<1>4. t[n].parent = d
  BY <1>1, <1>3 DEF Sound, Down
<1> QED BY <1>1, <1>3, <1>4 DEF n, d

\* Different paths name different nodes.
LEMMA ResolveInjective ==
  ASSUME NEW t, Sound(t), NEW p \in AllPaths, NEW q \in AllPaths,
         vfs_resolve(t, p) = vfs_resolve(t, q), vfs_resolve(t, p) # NoNode
  PROVE  p = q
<1> DEFINE Twins(a, b) == a # b /\ vfs_resolve(t, a) = vfs_resolve(t, b)
                          /\ vfs_resolve(t, a) # NoNode
           T == {j \in Nat : \E a, b \in AllPaths : Len(a) = j /\ Twins(a, b)}
<1> SUFFICES ASSUME p # q PROVE FALSE
  OBVIOUS
<1>1. Len(p) \in T
  BY PathLen
<1>2. PICK j \in T : \A i \in T : j <= i
  <2>1. T \in SUBSET Nat /\ T # {}
    BY <1>1
  <2> HIDE DEF T
  <2> QED BY <2>1, NatLeast
<1>3. PICK a \in AllPaths, b \in AllPaths : Len(a) = j /\ Twins(a, b)
  BY <1>2
<1>4. a \in Paths /\ b \in Paths
  <2>1. a \notin Paths => b \in Paths /\ a = <<>>
    BY <1>3, PathLen
  <2>2. b \notin Paths => a \in Paths /\ b = <<>>
    BY <1>3, PathLen
  <2>3. a \in Paths => vfs_resolve(t, a) # Root
    BY <1>3, ResolvedChild
  <2>4. b \in Paths => vfs_resolve(t, b) # Root
    BY <1>3, ResolvedChild
  <2> QED BY <1>3, <2>1, <2>2, <2>3, <2>4, ResolveRoot
<1>5. /\ vfs_resolve(t, Front(a)) = vfs_resolve(t, Front(b)) /\ Last(a) = Last(b)
      /\ vfs_resolve(t, Front(a)) \in LiveIn(t)
  BY <1>3, <1>4, ResolvedChild
<1>6. vfs_resolve(t, Front(a)) # NoNode
  BY <1>5, NodeFacts DEF LiveIn
<1>7. Front(a) # Front(b)
  BY <1>3, <1>4, <1>5, PathSplit
<1>8. Front(a) \in AllPaths /\ Front(b) \in AllPaths /\ Len(Front(a)) = j - 1 /\ j - 1 \in Nat
      /\ j \in Nat
  BY <1>3, <1>4, PathParts
<1>9. j - 1 \in T
  BY <1>5, <1>6, <1>7, <1>8
<1> HIDE DEF T
<1> QED BY <1>2, <1>8, <1>9

-----------------------------------------------------------------------------
(* Changes of the tree as paths show them. *)

\* u has the nodes of t, all but perhaps n, which has no children.
AllBut(t, u, n) ==
  /\ n \in LiveIn(t) => t[n].children = <<>>
  /\ \A m \in LiveIn(t) \ {n} :
       /\ m \in LiveIn(u) /\ u[m].type = t[m].type /\ u[m].name = t[m].name
       /\ \A i \in DOMAIN t[m].children : t[m].children[i] # n =>
            \E j \in DOMAIN u[m].children : u[m].children[j] = t[m].children[i]

\* Then what a path names in t, other than n, it names in u.
LEMMA ResolveAllBut ==
  ASSUME NEW t, Sound(t), NEW u, Sound(u), NEW n, AllBut(t, u, n), NEW q \in AllPaths,
         vfs_resolve(t, q) \notin {NoNode, n}
  PROVE  vfs_resolve(u, q) = vfs_resolve(t, q)
<1> DEFINE Lost(a) == vfs_resolve(t, a) \notin {NoNode, n} /\ vfs_resolve(u, a) # vfs_resolve(t, a)
           T == {j \in Nat : \E a \in AllPaths : Len(a) = j /\ Lost(a)}
<1> SUFFICES ASSUME Lost(q) PROVE FALSE
  OBVIOUS
<1>1. PICK j \in T : \A i \in T : j <= i
  <2>1. Len(q) \in T
    BY PathLen
  <2>2. T \in SUBSET Nat /\ T # {}
    BY <2>1
  <2> HIDE DEF T
  <2> QED BY <2>2, NatLeast
<1>2. PICK a \in AllPaths : Len(a) = j /\ Lost(a)
  BY <1>1
<1>3. a \in Paths
  <2>1. a # <<>>
    BY <1>2, ResolveRoot
  <2> QED BY <2>1, PathLen
<1> DEFINE m == vfs_resolve(t, a)
           d == vfs_resolve(t, Front(a))
<1>4. /\ d \in LiveIn(t) /\ t[d].type = "VFS_DIRECTORY" /\ m \in LiveIn(t) /\ t[m].name = Last(a)
      /\ \E i \in DOMAIN t[d].children : t[d].children[i] = m
  BY <1>2, <1>3, ResolvedChild
<1>5. m # n /\ m # NoNode /\ vfs_resolve(u, a) # m
  BY <1>2
<1>6. d # n /\ d # NoNode
  <2>1. DOMAIN <<>> = {}
    OBVIOUS
  <2> QED BY <1>4, <2>1, NodeFacts DEF AllBut, LiveIn
<1>7. /\ Front(a) \in AllPaths /\ Len(Front(a)) = j - 1 /\ j - 1 \in Nat /\ j \in Nat
  BY <1>2, <1>3, PathParts
<1>8. j - 1 \notin T
  <2> HIDE DEF T
  <2> QED BY <1>1, <1>7
<1>9. vfs_resolve(u, Front(a)) = d
  BY <1>6, <1>7, <1>8
<1>10. vfs_resolve(u, a) = ramfs_finddir(u, d, Last(a))
  BY <1>3, <1>9, ResolveStep
<1> HIDE DEF m, d, T, Lost
<1>11. PICK i \in DOMAIN t[d].children : t[d].children[i] = m
  BY <1>4
<1>12. /\ d \in LiveIn(u) /\ u[d].type = "VFS_DIRECTORY" /\ u[m].name = Last(a)
       /\ \E k \in DOMAIN u[d].children : u[d].children[k] = m
  BY <1>4, <1>5, <1>6, <1>11 DEF AllBut
<1>13. PICK k \in DOMAIN u[d].children : u[d].children[k] = m
  BY <1>12
<1>14. ramfs_finddir(u, d, u[u[d].children[k]].name) = u[d].children[k]
  BY <1>12, FinddirIs
<1> QED BY <1>5, <1>10, <1>12, <1>13, <1>14

-----------------------------------------------------------------------------
(* What callers see of a change: the entries at all paths but one agree. *)

Agree(t, u, q) ==
  /\ vfs_resolve(t, q) = NoNode <=> vfs_resolve(u, q) = NoNode
  /\ vfs_resolve(t, q) # NoNode =>
       /\ u[vfs_resolve(u, q)].type = t[vfs_resolve(t, q)].type
       /\ u[vfs_resolve(u, q)].data = t[vfs_resolve(t, q)].data

OnlyAt(t, u, p) == \A q \in AllPaths : q # p => Agree(t, u, q)

LEMMA OnlyTwice ==
  ASSUME NEW t, NEW u, NEW v, NEW p, OnlyAt(t, u, p), OnlyAt(u, v, p)
  PROVE  OnlyAt(t, v, p)
  BY DEF OnlyAt, Agree

\* New contents: no path names another node, and only n has other data.
Rewritten(t, u, n, x) ==
  /\ Sound(u) /\ LiveIn(u) = LiveIn(t)
  /\ \A q \in AllPaths : vfs_resolve(u, q) = vfs_resolve(t, q)
  /\ \A m \in Nodes : u[m].type = t[m].type
  /\ \A m \in Nodes : u[m].data = IF m = n THEN x ELSE t[m].data

LEMMA DataSeen ==
  ASSUME NEW t, Sound(t), NEW n, NEW x, NEW u, u = [t EXCEPT ![n].data = x]
  PROVE  Rewritten(t, u, n, x)
<1>1. SameButData(t, u)
  BY DataWritten
<1>2. t = [m \in Nodes |-> t[m]] /\ \A m \in Nodes : NodeShape(t[m])
  BY DEF Sound, Shaped
<1>3. \A m \in Nodes : u[m] = IF m = n THEN [t[n] EXCEPT !.data = x] ELSE t[m]
  BY <1>2
<1>4. Sound(u) /\ LiveIn(u) = LiveIn(t) /\ Extends(t, u)
  BY <1>1, DataKeepsSound, DataExtends
<1>5. Extends(u, t)
  <2>1. SameButData(u, t)
    BY <1>1, <1>2 DEF SameButData
  <2> QED BY <1>4, <2>1, DataExtends
<1>6. ASSUME NEW q \in AllPaths PROVE vfs_resolve(u, q) = vfs_resolve(t, q)
  <2>1. Len(q) \in Nat
    BY PathLen
  <2>2. vfs_resolve(t, q) # NoNode => vfs_resolve(u, q) = vfs_resolve(t, q)
    BY <1>4, <2>1, ResolveKept
  <2>3. vfs_resolve(u, q) # NoNode => vfs_resolve(t, q) = vfs_resolve(u, q)
    BY <1>4, <1>5, <2>1, ResolveKept
  <2> QED BY <2>2, <2>3
<1>7. n \in Nodes => u[n].data = x
  <2> DEFINE r == t[n]
             q == u[n]
  <2> HAVE n \in Nodes
  <2>1. /\ r = [type |-> r.type, name |-> r.name, parent |-> r.parent,
                children |-> r.children, data |-> r.data]
        /\ q = [r EXCEPT !.data = x]
    BY <1>2, <1>3 DEF NodeShape
  <2> HIDE DEF q, r
  <2>2. q = [type |-> r.type, name |-> r.name, parent |-> r.parent,
             children |-> r.children, data |-> x]
    BY <2>1, ZenonT(40)
  <2> QED BY <2>2 DEF q
<1>8. \A m \in Nodes : u[m].data = IF m = n THEN x ELSE t[m].data
  BY <1>3, <1>7
<1>9. \A m \in Nodes : u[m].type = t[m].type
  BY <1>1 DEF SameButData
<1> QED BY <1>4, <1>6, <1>8, <1>9 DEF Rewritten

LEMMA DataOnly ==
  ASSUME NEW t, Sound(t), NEW u, NEW n, NEW x, Rewritten(t, u, n, x),
         NEW p \in AllPaths, vfs_resolve(t, p) = n
  PROVE  OnlyAt(t, u, p)
<1>1. ASSUME NEW q \in AllPaths, q # p PROVE Agree(t, u, q)
  <2>1. vfs_resolve(t, q) # NoNode => vfs_resolve(t, q) # n /\ vfs_resolve(t, q) \in Nodes
    BY <1>1, PathResolves, ResolveInjective
  <2> QED BY <2>1 DEF Agree, Rewritten
<1> QED BY <1>1 DEF OnlyAt

\* A new child.
LEMMA GrownOnly ==
  ASSUME NEW t, Sound(t), NEW p \in Paths, vfs_resolve(t, p) = NoNode,
         NEW d \in LiveIn(t), vfs_resolve(t, Front(p)) = d, t[d].type = "VFS_DIRECTORY",
         NEW type, type # "free", NEW n \in FreeSlots(t),
         NEW u, Sound(u), LiveIn(u) = LiveIn(t) \cup {n},
         Grown(t, u, d, Last(p), type, n), n # d
  PROVE  OnlyAt(t, u, p) /\ vfs_resolve(u, p) = n
<1>1. /\ n \in Nodes /\ n \in NodeSlots /\ n \notin LiveIn(t) /\ d \in Nodes /\ d # NoNode
      /\ n # NoNode
  BY NodeFacts DEF FreeSlots, LiveIn
<1>2. Extends(t, u)
  BY GrownExtends
<1> DEFINE s == t[d].children
<1>3. s \in Seq(NodeSlots) /\ u[d].children = Append(s, n)
  BY <1>1 DEF Sound, Shaped, Grown
<1> HIDE DEF s
<1>4. /\ Len(s) \in Nat /\ DOMAIN s = 1 .. Len(s) /\ DOMAIN Append(s, n) = 1 .. (Len(s) + 1)
      /\ Append(s, n)[Len(s) + 1] = n
      /\ \A i \in 1 .. Len(s) : Append(s, n)[i] = s[i]
  BY <1>1, <1>3
<1>5. vfs_resolve(u, p) = n
  <2>1. Front(p) \in AllPaths /\ Len(Front(p)) \in Nat
    BY PathParts, PathLen
  <2>2. vfs_resolve(u, Front(p)) = d
    BY <1>1, <1>2, <2>1, ResolveKept
  <2>3. d \in LiveIn(u) /\ u[d].type = "VFS_DIRECTORY" /\ u[n].name = Last(p)
    BY <1>2 DEF Extends, Grown
  <2>4. (Len(s) + 1) \in DOMAIN u[d].children /\ u[d].children[Len(s) + 1] = n
    BY <1>3, <1>4
  <2>5. ramfs_finddir(u, d, u[u[d].children[Len(s) + 1]].name) = u[d].children[Len(s) + 1]
    BY <2>3, <2>4, FinddirIs
  <2> QED BY <2>2, <2>3, <2>4, <2>5, ResolveStep
<1>6. AllBut(u, t, n)
  <2>1. u[n].children = <<>>
    BY DEF Grown
  <2>2. ASSUME NEW m \in LiveIn(u) \ {n}
        PROVE  /\ m \in LiveIn(t) /\ t[m].type = u[m].type /\ t[m].name = u[m].name
               /\ \A i \in DOMAIN u[m].children : u[m].children[i] # n =>
                    \E j \in DOMAIN t[m].children : t[m].children[j] = u[m].children[i]
    <3>1. m \in LiveIn(t) /\ m \in Nodes /\ m # n
      BY DEF LiveIn
    <3>2. CASE m # d
      BY <3>1, <3>2 DEF Grown
    <3>3. CASE m = d
      <4>1. t[m].type = u[m].type /\ t[m].name = u[m].name
        BY <3>3 DEF Grown
      <4>2. \A i \in DOMAIN Append(s, n) : Append(s, n)[i] # n => i \in DOMAIN s /\ s[i] = Append(s, n)[i]
        BY <1>4
      <4>3. t[m].children = s /\ u[m].children = Append(s, n)
        BY <1>3, <3>3 DEF s
      <4>4. \A i \in DOMAIN u[m].children : u[m].children[i] # n =>
              \E j \in DOMAIN t[m].children : t[m].children[j] = u[m].children[i]
        BY <4>2, <4>3
      <4> QED BY <3>1, <4>1, <4>4
    <3> QED BY <3>2, <3>3
  <2> QED BY <2>1, <2>2 DEF AllBut
<1>7. ASSUME NEW q \in AllPaths, q # p PROVE Agree(t, u, q)
  <2>1. CASE vfs_resolve(t, q) # NoNode
    <3> DEFINE m == vfs_resolve(t, q)
    <3>1. vfs_resolve(u, q) = m
      BY <1>2, <2>1, PathLen, ResolveKept
    <3>2. m \in LiveIn(t) /\ m \in Nodes /\ m # n
      BY <1>1, <2>1, PathResolves DEF LiveIn
    <3> HIDE DEF m
    <3>3. u[m].type = t[m].type /\ u[m].data = t[m].data
      <4>1. CASE m = d
        BY <4>1 DEF Grown
      <4>2. CASE m # d
        BY <3>2, <4>2 DEF Grown
      <4> QED BY <4>1, <4>2
    <3> QED BY <2>1, <3>1, <3>3 DEF Agree, m
  <2>2. CASE vfs_resolve(t, q) = NoNode
    <3>1. vfs_resolve(u, q) # n
      BY <1>1, <1>5, <1>7, ResolveInjective DEF AllPaths
    <3>2. vfs_resolve(u, q) \notin {NoNode, n} => vfs_resolve(t, q) = vfs_resolve(u, q)
      BY <1>6, ResolveAllBut
    <3> QED BY <2>2, <3>1, <3>2 DEF Agree
  <2> QED BY <2>1, <2>2
<1> QED BY <1>5, <1>7 DEF OnlyAt

\* What the paths of t name, those in P aside, they name in u.
Kept(t, u, P) ==
  \A q \in AllPaths \ P : vfs_resolve(t, q) # NoNode => vfs_resolve(u, q) = vfs_resolve(t, q)

LEMMA KeptBy ==
  ASSUME NEW t, Sound(t), NEW u, Sound(u), Extends(t, u) PROVE Kept(t, u, {})
  BY PathLen, ResolveKept DEF Kept

LEMMA KeptTwice ==
  ASSUME NEW t, NEW u, NEW v, NEW P, Kept(t, u, {}), Kept(u, v, P) PROVE Kept(t, v, P)
  BY DEF Kept

\* A node removed.
LEMMA DropOnly ==
  ASSUME NEW t, Sound(t), NEW p \in Paths, NEW n, vfs_resolve(t, p) = n, n # NoNode,
         CanRemove(t, n), NEW u, u = DropNode(t, n)
  PROVE  /\ Sound(u) /\ OnlyAt(t, u, p) /\ vfs_resolve(u, p) = NoNode
         /\ \A q \in Paths : Front(q) = p => vfs_resolve(t, q) = NoNode
         /\ Kept(t, u, {p})
<1>1. n \in LiveIn(t) /\ p \in AllPaths
  BY ResolvedChild DEF AllPaths
<1> DEFINE d == t[n].parent
           s == t[d].children
<1>2. Sound(u) /\ LiveIn(u) = LiveIn(t) \ {n}
  BY <1>1, DropKeepsSound
<1>3. /\ n # d /\ d \in LiveIn(t) /\ t[n].children = <<>>
      /\ \E k \in 1 .. Len(s) : s[k] = n /\ Shrunk(t, u, d, n, k)
  BY <1>1, NodeDropped
<1> HIDE DEF d
<1>4. PICK k \in 1 .. Len(s) : s[k] = n /\ Shrunk(t, u, d, n, k)
  BY <1>3
<1> DEFINE r == RemoveAt(s, k)
<1>5. s \in Seq(NodeSlots) /\ u[d].children = r
  BY <1>3, <1>4 DEF Sound, Shaped, Shrunk, LiveIn
<1> HIDE DEF s
<1>6. /\ Len(s) \in Nat /\ DOMAIN s = 1 .. Len(s) /\ DOMAIN r = 1 .. (Len(s) - 1)
      /\ \A j \in 1 .. (Len(s) - 1) : r[j] = IF j < k THEN s[j] ELSE s[j + 1]
  <2>1. Len(s) \in Nat /\ DOMAIN s = 1 .. Len(s)
    BY <1>5
  <2> QED BY <1>5, <2>1, Removed
<1> HIDE DEF r
<1>7. \A i \in DOMAIN s : s[i] # n => \E j \in DOMAIN r : r[j] = s[i]
  <2> SUFFICES ASSUME NEW i \in DOMAIN s, s[i] # n PROVE \E j \in DOMAIN r : r[j] = s[i]
    OBVIOUS
  <2>1. i # k /\ i \in Nat /\ k \in Nat /\ i \in 1 .. Len(s)
    BY <1>4, <1>6
  <2>2. CASE i < k
    <3>1. i \in 1 .. (Len(s) - 1)
      BY <1>6, <2>1, <2>2
    <3> QED BY <1>6, <2>2, <3>1
  <2>3. CASE ~(i < k)
    <3>1. i - 1 \in 1 .. (Len(s) - 1) /\ ~(i - 1 < k) /\ (i - 1) + 1 = i
      BY <1>6, <2>1, <2>3
    <3> QED BY <1>6, <3>1
  <2> QED BY <2>2, <2>3
<1>8. \A j \in DOMAIN r : \E i \in DOMAIN s : s[i] = r[j]
  <2> SUFFICES ASSUME NEW j \in 1 .. (Len(s) - 1) PROVE \E i \in DOMAIN s : s[i] = r[j]
    BY <1>6
  <2>1. j \in 1 .. Len(s) /\ j + 1 \in 1 .. Len(s)
    BY <1>6
  <2> QED BY <1>6, <2>1
<1>9. ASSUME NEW m \in LiveIn(t), m # n
      PROVE  m \in LiveIn(u) /\ u[m].type = t[m].type /\ u[m].name = t[m].name
             /\ u[m].data = t[m].data
  <2>1. CASE m = d
    BY <1>2, <1>4, <1>9, <2>1 DEF Shrunk
  <2>2. CASE m # d
    BY <1>2, <1>4, <1>9, <2>2 DEF Shrunk, LiveIn
  <2> QED BY <2>1, <2>2
<1>10. AllBut(t, u, n)
  <2>1. ASSUME NEW m \in LiveIn(t) \ {n}, NEW i \in DOMAIN t[m].children, t[m].children[i] # n
        PROVE  \E j \in DOMAIN u[m].children : u[m].children[j] = t[m].children[i]
    <3>1. CASE m = d
      <4>1. t[m].children = s /\ u[m].children = r
        BY <1>5, <3>1 DEF s
      <4> QED BY <1>7, <2>1, <4>1
    <3>2. CASE m # d
      <4>1. u[m] = t[m]
        BY <1>4, <3>2 DEF Shrunk, LiveIn
      <4> QED BY <4>1
    <3> QED BY <3>1, <3>2
  <2> QED BY <1>3, <1>9, <2>1 DEF AllBut
<1>11. AllBut(u, t, n)
  <2>1. ASSUME NEW m \in LiveIn(u) \ {n}, NEW j \in DOMAIN u[m].children
        PROVE  \E i \in DOMAIN t[m].children : t[m].children[i] = u[m].children[j]
    <3>1. CASE m = d
      <4>1. t[m].children = s /\ u[m].children = r
        BY <1>5, <3>1 DEF s
      <4> QED BY <1>8, <4>1
    <3>2. CASE m # d
      <4>1. u[m] = t[m]
        BY <1>4, <3>2 DEF Shrunk, LiveIn
      <4> QED BY <4>1
    <3> QED BY <3>1, <3>2
  <2> QED BY <1>2, <1>9, <2>1 DEF AllBut
<1>12. ASSUME NEW q \in AllPaths, vfs_resolve(u, q) # NoNode
       PROVE  vfs_resolve(t, q) = vfs_resolve(u, q) /\ vfs_resolve(u, q) # n
  <2>1. vfs_resolve(u, q) # n
    BY <1>2, <1>12, PathResolves
  <2> QED BY <1>2, <1>11, <1>12, <2>1, ResolveAllBut
<1>13. vfs_resolve(u, p) = NoNode
  BY <1>1, <1>12
<1>14. ASSUME NEW q \in AllPaths, q # p PROVE Agree(t, u, q)
  <2>1. CASE vfs_resolve(t, q) # NoNode
    <3>1. vfs_resolve(t, q) # n
      BY <1>1, <1>14, <2>1, ResolveInjective
    <3>2. vfs_resolve(u, q) = vfs_resolve(t, q) /\ vfs_resolve(t, q) \in LiveIn(t)
      BY <1>2, <1>10, <2>1, <3>1, ResolveAllBut, PathResolves
    <3> QED BY <1>9, <2>1, <3>1, <3>2 DEF Agree
  <2>2. CASE vfs_resolve(t, q) = NoNode
    BY <1>12, <2>2 DEF Agree
  <2> QED BY <2>1, <2>2
<1>15. ASSUME NEW q \in Paths, Front(q) = p, vfs_resolve(t, q) # NoNode PROVE FALSE
  <2>1. \E i \in DOMAIN t[n].children : TRUE
    BY <1>15, ResolvedChild
  <2>2. DOMAIN <<>> = {}
    OBVIOUS
  <2> QED BY <1>3, <2>1, <2>2
<1>16. Kept(t, u, {p})
  <2> SUFFICES ASSUME NEW q \in AllPaths \ {p}, vfs_resolve(t, q) # NoNode
               PROVE  vfs_resolve(u, q) = vfs_resolve(t, q)
    BY DEF Kept
  <2>1. vfs_resolve(t, q) # n
    BY <1>1, ResolveInjective
  <2> QED BY <1>2, <1>10, <2>1, ResolveAllBut
<1> QED BY <1>2, <1>13, <1>14, <1>15, <1>16 DEF OnlyAt

\* A node made where there was none.
LEMMA AddOnly ==
  ASSUME NEW t, Sound(t), NEW p \in Paths, NEW d, vfs_resolve(t, Front(p)) = d, d # NoNode,
         t[d].type = "VFS_DIRECTORY", ramfs_finddir(t, d, Last(p)) = NoNode,
         NEW type, type # "free", NEW n \in FreeSlots(t),
         NEW u, u = AddNode(t, d, Last(p), type, n)
  PROVE  /\ Sound(u) /\ OnlyAt(t, u, p) /\ vfs_resolve(t, p) = NoNode
         /\ vfs_resolve(u, p) = n /\ n # NoNode /\ u[n].type = type /\ u[n].data = <<>>
<1>1. d \in LiveIn(t) /\ NameFree(t, d, Last(p))
  <2>1. d \in LiveIn(t)
    BY PathParts, PathResolves
  <2> QED BY <2>1, Finddir DEF NameFree
<1>2. Grown(t, u, d, Last(p), type, n) /\ n # d /\ n \in Nodes
  BY <1>1, NodeAdded
<1>3. Sound(u) /\ LiveIn(u) = LiveIn(t) \cup {n}
  BY <1>1, <1>2, GrownSound
<1>4. vfs_resolve(t, p) = NoNode
  BY ResolveStep
<1>5. OnlyAt(t, u, p) /\ vfs_resolve(u, p) = n
  BY <1>1, <1>2, <1>3, <1>4, GrownOnly
<1> QED BY <1>2, <1>3, <1>4, <1>5, NodeFacts DEF Grown

-----------------------------------------------------------------------------
(* The entry at p holds x, made as a file if it was not there. *)

InDir(t, p) ==
  /\ vfs_resolve(t, Front(p)) # NoNode
  /\ t[vfs_resolve(t, Front(p))].type = "VFS_DIRECTORY"

PutAt(t, u, p, x) ==
  /\ Sound(u) /\ OnlyAt(t, u, p) /\ InDir(t, p)
  /\ vfs_resolve(u, p) # NoNode
  /\ u[vfs_resolve(u, p)].data = x
  /\ u[vfs_resolve(u, p)].type =
       IF vfs_resolve(t, p) = NoNode THEN "VFS_FILE" ELSE t[vfs_resolve(t, p)].type

\* The two outcomes of vfs_create.
LEMMA CreatedIs ==
  ASSUME NEW t, Sound(t), NEW p \in Paths, NEW c \in vfs_create(t, p)
  PROVE  /\ InDir(t, p) /\ c.node # NoNode /\ vfs_resolve(c.tree, p) = c.node
         /\ c.tree = t \/ (vfs_resolve(t, p) = NoNode /\ PutAt(t, c.tree, p, <<>>))
<1> DEFINE d == vfs_resolve(t, Front(p))
           e == ramfs_finddir(t, d, Last(p))
<1>1. ~(d = NoNode \/ t[d].type # "VFS_DIRECTORY") /\ InDir(t, p)
  BY DEF vfs_create, InDir
<1>2. vfs_resolve(t, p) = e
  BY ResolveStep
<1>3. CASE e # NoNode
  <2>1. c \in {[tree |-> t, node |-> e]}
    BY <1>1, <1>3 DEF vfs_create
  <2> HIDE DEF e
  <2>2. c.tree = t /\ c.node = e
    BY <2>1
  <2> QED BY <1>1, <1>2, <1>3, <2>2
<1>4. CASE e = NoNode
  <2>1. PICK n \in FreeSlots(t) :
          c = [tree |-> AddNode(t, d, Last(p), "VFS_FILE", n), node |-> n]
    BY <1>1, <1>4 DEF vfs_create
  <2> DEFINE u == AddNode(t, d, Last(p), "VFS_FILE", n)
  <2>2. c.tree = u /\ c.node = n
    <3> HIDE DEF u
    <3> QED BY <2>1 DEF u
  <2>3. u = AddNode(t, d, Last(p), "VFS_FILE", n) /\ "VFS_FILE" # "free"
    OBVIOUS
  <2> HIDE DEF u, d
  <2>4. /\ Sound(u) /\ OnlyAt(t, u, p) /\ vfs_resolve(t, p) = NoNode
        /\ vfs_resolve(u, p) = n /\ n # NoNode /\ u[n].type = "VFS_FILE" /\ u[n].data = <<>>
    BY <1>1, <1>4, <2>3, AddOnly DEF d
  <2> QED BY <1>1, <2>2, <2>4 DEF PutAt
<1> QED BY <1>3, <1>4

\* Contents written over those of an entry.
LEMMA RewritePut ==
  ASSUME NEW t, Sound(t), NEW p \in Paths, InDir(t, p), NEW n, vfs_resolve(t, p) = n, n # NoNode,
         NEW x, NEW u, u = [t EXCEPT ![n].data = x]
  PROVE  PutAt(t, u, p, x)
<1>1. p \in AllPaths /\ n \in Nodes
  BY PathResolves DEF AllPaths
<1>2. Rewritten(t, u, n, x)
  BY DataSeen
<1>3. OnlyAt(t, u, p)
  BY <1>1, <1>2, DataOnly
<1> QED BY <1>1, <1>2, <1>3 DEF Rewritten, PutAt

LEMMA PutTwice ==
  ASSUME NEW t, NEW u, NEW v, NEW p, NEW x, NEW y, vfs_resolve(t, p) = NoNode,
         PutAt(t, u, p, x), PutAt(u, v, p, y)
  PROVE  PutAt(t, v, p, y)
  BY OnlyTwice DEF PutAt

Wrote(c, x, u) == u = [c.tree EXCEPT ![c.node].data = x]

LEMMA CreatePut ==
  ASSUME NEW t, Sound(t), NEW p \in Paths, NEW c \in vfs_create(t, p), NEW x,
         NEW u, Wrote(c, x, u)
  PROVE  PutAt(t, u, p, x)
<1>0. u = [c.tree EXCEPT ![c.node].data = x]
  BY DEF Wrote
<1>1. /\ InDir(t, p) /\ c.node # NoNode /\ vfs_resolve(c.tree, p) = c.node
      /\ c.tree = t \/ (vfs_resolve(t, p) = NoNode /\ PutAt(t, c.tree, p, <<>>))
  BY CreatedIs
<1>2. CASE c.tree = t
  BY <1>0, <1>1, <1>2, RewritePut
<1>3. CASE vfs_resolve(t, p) = NoNode /\ PutAt(t, c.tree, p, <<>>)
  <2> DEFINE v == c.tree
             m == c.node
  <2>1. Sound(v) /\ vfs_resolve(v, p) = m /\ m # NoNode /\ u = [v EXCEPT ![m].data = x]
    BY <1>0, <1>1, <1>3 DEF PutAt
  <2>2. InDir(v, p)
    <3>1. Front(p) \in AllPaths /\ Front(p) # p
      <4>1. Len(Front(p)) # Len(p)
        <5>1. Len(p) \in Nat /\ Len(Front(p)) = Len(p) - 1
          BY PathParts
        <5> QED BY <5>1
      <4> QED BY <4>1, PathParts
    <3> QED BY <1>1, <1>3, <3>1 DEF PutAt, InDir, OnlyAt, Agree
  <2> HIDE DEF v, m
  <2>3. PutAt(v, u, p, x)
    BY <2>1, <2>2, RewritePut
  <2> QED BY <1>3, <2>3, PutTwice DEF v
<1> QED BY <1>1, <1>2, <1>3

-----------------------------------------------------------------------------
(* Contents stay contents. *)

LEMMA ContentsFacts ==
  /\ <<>> \in Contents
  /\ \A x \in Contents : Len(x) \in 0 .. MaxSize /\ x \in [1 .. Len(x) -> Bytes]
<1>1. <<>> \in [1 .. 0 -> Bytes] /\ 0 \in 0 .. MaxSize
  BY FilesConstants
<1>2. <<>> \in Contents
  BY <1>1 DEF Contents
<1>3. ASSUME NEW x \in Contents PROVE Len(x) \in 0 .. MaxSize /\ x \in [1 .. Len(x) -> Bytes]
  <2>1. PICK n \in 0 .. MaxSize : x \in [1 .. n -> Bytes]
    BY DEF Contents
  <2>2. n \in Nat /\ Len(x) = n
    BY <2>1, FilesConstants
  <2> QED BY <2>1, <2>2
<1> QED BY <1>2, <1>3

LEMMA ContentsOf ==
  ASSUME NEW n \in 0 .. MaxSize, NEW x, x \in [1 .. n -> Bytes] PROVE x \in Contents
  BY DEF Contents

LEMMA PartOf ==
  ASSUME NEW x \in Contents, NEW k \in 0 .. Len(x)
  PROVE  SubSeq(x, 1, k) \in Contents
<1>1. Len(x) \in 0 .. MaxSize /\ x \in [1 .. Len(x) -> Bytes] /\ MaxSize \in Nat
  BY ContentsFacts, FilesConstants
<1>2. k \in 0 .. MaxSize /\ k \in Nat /\ Len(x) \in Nat
  BY <1>1
<1>3. x \in Seq(Bytes)
  BY <1>1, <1>2
<1>4. SubSeq(x, 1, k) \in Seq(Bytes) /\ Len(SubSeq(x, 1, k)) = k
  BY <1>2, <1>3, SubSeqProperties
<1> DEFINE y == SubSeq(x, 1, k)
<1> HIDE DEF y
<1>5. y \in [1 .. k -> Bytes]
  BY <1>2, <1>4, LenProperties DEF y
<1> QED BY <1>2, <1>5, ContentsOf DEF y

LEMMA OverwriteOf ==
  ASSUME NEW old \in Contents, NEW buf \in Contents, NEW off \in Nat,
         off + Len(buf) <= MaxSize, NEW k \in 0 .. Len(buf), NEW gap \in Bytes
  PROVE  /\ Overwritten(old, off, buf, k, gap) \in Contents
         /\ Len(Overwritten(old, off, buf, k, gap)) >= Len(old)
         /\ \A i \in 1 .. Len(old) : i <= off \/ i > off + Len(buf) =>
              Overwritten(old, off, buf, k, gap)[i] = old[i]
<1> DEFINE n == IF off + k > Len(old) THEN off + k ELSE Len(old)
           y == Overwritten(old, off, buf, k, gap)
<1>1. /\ Len(old) \in 0 .. MaxSize /\ old \in [1 .. Len(old) -> Bytes] /\ MaxSize \in Nat
      /\ Len(buf) \in 0 .. MaxSize /\ buf \in [1 .. Len(buf) -> Bytes]
  BY ContentsFacts, FilesConstants
<1>2. n \in 0 .. MaxSize /\ k \in Nat /\ Len(old) \in Nat /\ Len(buf) \in Nat
  BY <1>1
<1>3. y = [i \in 1 .. n |->
             IF i > off /\ i <= off + k THEN buf[i - off]
             ELSE IF i <= Len(old) THEN old[i] ELSE gap]
  BY DEF Overwritten
<1> HIDE DEF n, y
<1>4. ASSUME NEW i \in 1 .. n
      PROVE  (IF i > off /\ i <= off + k THEN buf[i - off]
              ELSE IF i <= Len(old) THEN old[i] ELSE gap) \in Bytes
  <2>1. CASE i > off /\ i <= off + k
    <3>1. i - off \in 1 .. Len(buf)
      BY <1>2, <2>1
    <3> QED BY <1>1, <2>1, <3>1
  <2>2. CASE ~(i > off /\ i <= off + k) /\ i <= Len(old)
    <3>1. i \in 1 .. Len(old)
      BY <1>2, <2>2
    <3> QED BY <1>1, <2>2, <3>1
  <2>3. CASE ~(i > off /\ i <= off + k) /\ ~(i <= Len(old))
    BY <2>3
  <2> QED BY <2>1, <2>2, <2>3
<1>5. y \in [1 .. n -> Bytes]
  BY <1>3, <1>4
<1>6. Len(y) = n /\ n >= Len(old)
  BY <1>2, <1>5 DEF n
<1>7. ASSUME NEW i \in 1 .. Len(old), i <= off \/ i > off + Len(buf) PROVE y[i] = old[i]
  <2>1. i \in 1 .. n /\ i \in Nat /\ i <= Len(old)
    BY <1>2, <1>6
  <2>2. ~(i > off /\ i <= off + k)
    BY <1>2, <1>7, <2>1
  <2> QED BY <1>3, <2>1, <2>2
<1>8. y \in Contents
  BY <1>2, <1>5, ContentsOf
<1> QED BY <1>6, <1>7, <1>8 DEF y

DataOk(t) == \A m \in Nodes : t[m].data \in Contents

LEMMA RewrittenData ==
  ASSUME NEW t, Sound(t), DataOk(t), NEW n, NEW x \in Contents, NEW u, u = [t EXCEPT ![n].data = x]
  PROVE  DataOk(u)
<1>1. Rewritten(t, u, n, x)
  BY DataSeen
<1> QED BY <1>1 DEF Rewritten, DataOk

LEMMA AddedData ==
  ASSUME NEW t, Sound(t), DataOk(t), NEW d \in LiveIn(t), NEW name, NEW type,
         NEW n \in FreeSlots(t), NEW u, u = AddNode(t, d, name, type, n)
  PROVE  DataOk(u)
<1>1. Grown(t, u, d, name, type, n)
  BY NodeAdded
<1>2. ASSUME NEW m \in Nodes PROVE u[m].data \in Contents
  <2>1. CASE m = n
    BY <1>1, <2>1, ContentsFacts DEF Grown
  <2>2. CASE m = d
    BY <1>1, <2>2 DEF Grown, DataOk
  <2>3. CASE m # n /\ m # d
    BY <1>1, <2>3 DEF Grown, DataOk
  <2> QED BY <2>1, <2>2, <2>3
<1> QED BY <1>2 DEF DataOk

LEMMA DroppedData ==
  ASSUME NEW t, Sound(t), DataOk(t), NEW n \in LiveIn(t), CanRemove(t, n),
         NEW u, u = DropNode(t, n)
  PROVE  DataOk(u)
<1> DEFINE d == t[n].parent
<1>1. /\ d \in LiveIn(t)
      /\ \E k \in 1 .. Len(t[d].children) : t[d].children[k] = n /\ Shrunk(t, u, d, n, k)
  BY NodeDropped
<1>2. PICK k : Shrunk(t, u, d, n, k)
  BY <1>1
<1> HIDE DEF d
<1>3. ASSUME NEW m \in Nodes PROVE u[m].data \in Contents
  <2>1. CASE m = n
    BY <1>2, <2>1, ContentsFacts DEF Shrunk
  <2>2. CASE m = d
    BY <1>2, <2>2 DEF Shrunk, DataOk
  <2>3. CASE m # n /\ m # d
    BY <1>2, <2>3 DEF Shrunk, DataOk
  <2> QED BY <2>1, <2>2, <2>3
<1> QED BY <1>3 DEF DataOk

LEMMA CreatedData ==
  ASSUME NEW t, Sound(t), DataOk(t), NEW p \in Paths, NEW c \in vfs_create(t, p)
  PROVE  DataOk(c.tree) /\ c.node \in NodeSlots /\ Sound(c.tree)
<1> DEFINE d == vfs_resolve(t, Front(p))
           e == ramfs_finddir(t, d, Last(p))
<1>1. ~(d = NoNode \/ t[d].type # "VFS_DIRECTORY") /\ d \in LiveIn(t)
  <2>1. ~(d = NoNode \/ t[d].type # "VFS_DIRECTORY")
    BY DEF vfs_create
  <2> QED BY <2>1, PathParts, PathResolves
<1>2. CASE e # NoNode
  <2>1. c \in {[tree |-> t, node |-> e]}
    BY <1>1, <1>2 DEF vfs_create
  <2>2. e \in LiveIn(t) \ {Root}
    <3> HIDE DEF d
    <3> QED BY <1>1, <1>2, Finddir
  <2> HIDE DEF e
  <2>3. c.tree = t /\ c.node = e
    BY <2>1
  <2> QED BY <2>2, <2>3 DEF LiveIn, Nodes
<1>3. CASE e = NoNode
  <2>1. PICK n \in FreeSlots(t) :
          c = [tree |-> AddNode(t, d, Last(p), "VFS_FILE", n), node |-> n]
    BY <1>1, <1>3 DEF vfs_create
  <2> DEFINE u == AddNode(t, d, Last(p), "VFS_FILE", n)
  <2>2. c.tree = u /\ c.node = n
    <3> HIDE DEF u
    <3> QED BY <2>1 DEF u
  <2> HIDE DEF d
  <2>3. DataOk(u)
    BY <1>1, AddedData
  <2> HIDE DEF u
  <2> QED BY <2>2, <2>3, Created DEF FreeSlots
<1> QED BY <1>2, <1>3

-----------------------------------------------------------------------------
(* The entries that callers see in a tree t. *)

EntryAt(t, p) == [path |-> p, type |-> t[vfs_resolve(t, p)].type,
                  data |-> t[vfs_resolve(t, p)].data]
EntriesOf(t) == {EntryAt(t, p) : p \in {p \in AllPaths : vfs_resolve(t, p) # NoNode}}

LEMMA EntriesBy ==
  ASSUME NEW t
  PROVE  {[path |-> r.path, type |-> t[r.node].type, data |-> t[r.node].data] :
            r \in {r \in {[path |-> p, node |-> vfs_resolve(t, p)] : p \in Paths \cup {<<>>}} :
                    r.node # NoNode}} = EntriesOf(t)
<1> DEFINE R(p) == [path |-> p, node |-> vfs_resolve(t, p)]
           V(r) == [path |-> r.path, type |-> t[r.node].type, data |-> t[r.node].data]
           E == {V(r) : r \in {r \in {R(p) : p \in AllPaths} : r.node # NoNode}}
<1>1. ASSUME NEW p \in AllPaths
      PROVE  R(p).node = vfs_resolve(t, p) /\ V(R(p)) = EntryAt(t, p)
  BY DEF EntryAt
<1> HIDE DEF R, V
<1>2. ASSUME NEW e \in E PROVE e \in EntriesOf(t)
  <2>1. PICK r \in {R(p) : p \in AllPaths} : r.node # NoNode /\ e = V(r)
    OBVIOUS
  <2>2. PICK p \in AllPaths : r = R(p)
    BY <2>1
  <2> QED BY <1>1, <2>1, <2>2 DEF EntriesOf
<1>3. ASSUME NEW e \in EntriesOf(t) PROVE e \in E
  <2>1. PICK p \in AllPaths : vfs_resolve(t, p) # NoNode /\ e = EntryAt(t, p)
    BY DEF EntriesOf
  <2>2. R(p).node # NoNode /\ e = V(R(p))
    BY <1>1, <2>1
  <2> QED BY <2>2
<1>4. E = EntriesOf(t)
  <2> HIDE DEF E
  <2> QED BY <1>2, <1>3
<1> QED BY <1>4 DEF E, R, V, AllPaths

LEMMA EntriesAre == Entries = EntriesOf(vnode) /\ Entries' = EntriesOf(vnode')
  BY EntriesBy DEF Entries, Resolved

LEMMA EntryFields ==
  ASSUME NEW t, NEW p
  PROVE  /\ EntryAt(t, p).path = p
         /\ EntryAt(t, p).type = t[vfs_resolve(t, p)].type
         /\ EntryAt(t, p).data = t[vfs_resolve(t, p)].data
  BY DEF EntryAt

\* An entry is the one at its path.
LEMMA EntryIn ==
  ASSUME NEW t, NEW e
  PROVE  e \in EntriesOf(t) <=> /\ e.path \in AllPaths /\ vfs_resolve(t, e.path) # NoNode
                                /\ e = EntryAt(t, e.path)
<1>1. ASSUME e \in EntriesOf(t)
      PROVE  /\ e.path \in AllPaths /\ vfs_resolve(t, e.path) # NoNode
             /\ e = EntryAt(t, e.path)
  <2>1. PICK p \in AllPaths : vfs_resolve(t, p) # NoNode /\ e = EntryAt(t, p)
    BY <1>1 DEF EntriesOf
  <2> QED BY <2>1, EntryFields
<1>2. ASSUME e.path \in AllPaths, vfs_resolve(t, e.path) # NoNode, e = EntryAt(t, e.path)
      PROVE  e \in EntriesOf(t)
  BY <1>2 DEF EntriesOf
<1> QED BY <1>1, <1>2

LEMMA AtIs ==
  ASSUME NEW t, NEW p \in AllPaths
  PROVE  Ns!At(EntriesOf(t), p) = IF vfs_resolve(t, p) = NoNode THEN {} ELSE {EntryAt(t, p)}
<1>1. ASSUME NEW e
      PROVE  e \in Ns!At(EntriesOf(t), p) <=> vfs_resolve(t, p) # NoNode /\ e = EntryAt(t, p)
  BY EntryIn, EntryFields DEF Ns!At
<1> QED BY <1>1

\* What is off the path is the same before and after.
LEMMA OffPath ==
  ASSUME NEW t, NEW u, NEW p, OnlyAt(t, u, p)
  PROVE  EntriesOf(u) \ Ns!At(EntriesOf(u), p) = EntriesOf(t) \ Ns!At(EntriesOf(t), p)
<1>1. ASSUME NEW q \in AllPaths, q # p
      PROVE  /\ vfs_resolve(t, q) = NoNode <=> vfs_resolve(u, q) = NoNode
             /\ vfs_resolve(t, q) # NoNode => EntryAt(u, q) = EntryAt(t, q)
  BY <1>1 DEF OnlyAt, Agree, EntryAt
<1>2. ASSUME NEW e PROVE e \in EntriesOf(u) /\ e.path # p <=> e \in EntriesOf(t) /\ e.path # p
  BY <1>1, EntryIn
<1>3. ASSUME NEW f, NEW e PROVE e \in f \ Ns!At(f, p) <=> e \in f /\ e.path # p
  BY DEF Ns!At
<1> QED BY <1>2, <1>3

\* The entry of a directory is the parent of what is in it.
LEMMA ParentSeen ==
  ASSUME NEW t, NEW p \in Paths, InDir(t, p) PROVE Ns!HasParent(EntriesOf(t), p)
<1> DEFINE q == Front(p)
           d == EntryAt(t, q)
<1>1. q \in AllPaths /\ Len(p) \in Nat /\ Len(q) = Len(p) - 1 /\ q = SubSeq(p, 1, Len(p) - 1)
  BY PathParts DEF Front
<1>2. d \in EntriesOf(t) /\ d.path = q /\ d.type = "VFS_DIRECTORY"
  <2>1. d.path = q /\ d.type = t[vfs_resolve(t, q)].type
    <3> HIDE DEF q
    <3> QED BY EntryFields
  <2>2. d \in EntriesOf(t)
    BY <1>1 DEF InDir, EntriesOf
  <2> QED BY <2>1, <2>2 DEF InDir
<1> HIDE DEF q, d
<1>3. Len(p) = Len(q) + 1 /\ SubSeq(p, 1, Len(q)) = q
  BY <1>1
<1>4. Ns!IsParent(d.path, p)
  BY <1>2, <1>3 DEF Ns!IsParent
<1> QED BY <1>2, <1>4 DEF Ns!HasParent


-----------------------------------------------------------------------------
(* What the calls do to the tree, and to the entries. *)

MadeAt(t, u, p) ==
  /\ OnlyAt(t, u, p) /\ InDir(t, p)
  /\ vfs_resolve(t, p) = NoNode /\ vfs_resolve(u, p) # NoNode
  /\ u[vfs_resolve(u, p)].type = "VFS_DIRECTORY" /\ u[vfs_resolve(u, p)].data = <<>>

DroppedAt(t, u, p) ==
  /\ OnlyAt(t, u, p)
  /\ vfs_resolve(t, p) # NoNode /\ vfs_resolve(u, p) = NoNode
  /\ \A q \in Paths : Front(q) = p => vfs_resolve(t, q) = NoNode

\* Over a tree v: the contents of p, or the start of them, put at q, and p
\* dropped unless u is still v.
MovedAt(t, u, p, q) ==
  /\ vfs_resolve(t, p) # NoNode /\ t[vfs_resolve(t, p)].type = "VFS_FILE"
  /\ \E v : \E k \in 0 .. Len(t[vfs_resolve(t, p)].data) :
       /\ PutAt(t, v, q, SubSeq(t[vfs_resolve(t, p)].data, 1, k))
       /\ u = v \/ (OnlyAt(v, u, p) /\ vfs_resolve(u, p) = NoNode)

\* Between entries f and g: p holds x and nothing else is different.
PutView(f, g, p, x) ==
  /\ g = Ns!Holding(f, p, x) /\ Ns!HasParent(f, p)
  /\ g \ Ns!At(g, p) = f \ Ns!At(f, p)

LEMMA PutHolds ==
  ASSUME NEW t, NEW u, NEW p \in Paths, NEW x, PutAt(t, u, p, x)
  PROVE  PutView(EntriesOf(t), EntriesOf(u), p, x)
<1> DEFINE f == EntriesOf(t)
           g == EntriesOf(u)
           e == EntryAt(u, p)
           o == EntryAt(t, p)
<1>1. p \in AllPaths
  BY DEF AllPaths
<1>2. g \ Ns!At(g, p) = f \ Ns!At(f, p)
  BY OffPath DEF PutAt
<1>3. Ns!HasParent(f, p)
  BY ParentSeen DEF PutAt
<1>4. Ns!At(g, p) = {e}
  BY <1>1, AtIs DEF PutAt
<1>5. Ns!At(f, p) = IF vfs_resolve(t, p) = NoNode THEN {} ELSE {o}
  BY <1>1, AtIs
<1>6. /\ e = [path |-> p, type |-> e.type, data |-> x]
      /\ e.type = IF vfs_resolve(t, p) = NoNode THEN "VFS_FILE" ELSE t[vfs_resolve(t, p)].type
  BY DEF PutAt, EntryAt
<1>7. o = [path |-> p, type |-> t[vfs_resolve(t, p)].type, data |-> o.data]
  BY DEF EntryAt
<1>8. g = (g \ Ns!At(g, p)) \cup Ns!At(g, p)
  BY DEF Ns!At
<1> HIDE DEF f, g, e, o
<1>9. g = Ns!Holding(f, p, x)
  <2>1. CASE vfs_resolve(t, p) = NoNode
    <3>1. e = Ns!Entry(p, "VFS_FILE", x)
      BY <1>6, <2>1 DEF Ns!Entry
    <3> QED BY <1>2, <1>4, <1>5, <1>8, <2>1, <3>1 DEF Ns!Holding
  <2>2. CASE vfs_resolve(t, p) # NoNode
    <3>1. [o EXCEPT !.data = x] = e
      <4>1. o.type = e.type
        BY <1>6, <1>7, <2>2
      <4>2. [o EXCEPT !.data = x] = [path |-> p, type |-> o.type, data |-> x]
        BY <1>7
      <4> QED BY <1>6, <4>1, <4>2
    <3> DEFINE y(a) == [a EXCEPT !.data = x]
    <3>2. Ns!Holding(f, p, x) = (f \ Ns!At(f, p)) \cup {y(a) : a \in {o}}
      BY <1>5, <2>2 DEF Ns!Holding
    <3>3. y(o) = e
      BY <3>1
    <3> HIDE DEF y
    <3>4. {y(a) : a \in {o}} = {e}
      BY <3>3
    <3> QED BY <1>2, <1>4, <1>8, <3>2, <3>4
  <2> QED BY <2>1, <2>2
<1> QED BY <1>2, <1>3, <1>9 DEF f, g, PutView

LEMMA PutSeen ==
  ASSUME NEW t, NEW u, NEW p \in Paths, NEW x, PutAt(t, u, p, x)
  PROVE  Ns!Put(EntriesOf(t), EntriesOf(u), p, x)
<1> DEFINE f == EntriesOf(t)
           g == EntriesOf(u)
<1>1. PutView(f, g, p, x)
  BY PutHolds
<1> HIDE DEF f, g
<1>2. Ns!Put(f, g, p, x)
  BY <1>1 DEF PutView, Ns!Put
<1> QED BY <1>2 DEF f, g

LEMMA MadeSeen ==
  ASSUME NEW t, NEW u, NEW p \in Paths, MadeAt(t, u, p)
  PROVE  Ns!MakeDir(EntriesOf(t), EntriesOf(u), p)
<1> DEFINE f == EntriesOf(t)
           g == EntriesOf(u)
           e == EntryAt(u, p)
<1>1. p \in AllPaths
  BY DEF AllPaths
<1>2. g \ Ns!At(g, p) = f \ Ns!At(f, p)
  BY OffPath DEF MadeAt
<1>3. Ns!HasParent(f, p)
  BY ParentSeen DEF MadeAt
<1>4. Ns!At(g, p) = {e}
  BY <1>1, AtIs DEF MadeAt
<1>5. Ns!At(f, p) = {}
  BY <1>1, AtIs DEF MadeAt
<1>6. e = Ns!EmptyDir(p)
  BY DEF MadeAt, EntryAt, Ns!EmptyDir, Ns!Entry
<1>7. g = (g \ Ns!At(g, p)) \cup Ns!At(g, p)
  BY DEF Ns!At
<1> HIDE DEF f, g, e
<1>8. g = f \cup {Ns!EmptyDir(p)}
  BY <1>2, <1>4, <1>5, <1>6, <1>7
<1>9. Ns!MakeDir(f, g, p)
  BY <1>3, <1>5, <1>8 DEF Ns!MakeDir
<1> QED BY <1>9 DEF f, g

LEMMA DroppedSeen ==
  ASSUME NEW t, NEW u, NEW p \in Paths, DroppedAt(t, u, p)
  PROVE  Ns!Remove(EntriesOf(t), EntriesOf(u), p)
<1> DEFINE f == EntriesOf(t)
           g == EntriesOf(u)
<1>1. p \in AllPaths /\ Len(p) \in Nat \ {0}
  BY PathParts DEF AllPaths
<1>2. g \ Ns!At(g, p) = f \ Ns!At(f, p)
  BY OffPath DEF DroppedAt
<1>3. Ns!At(g, p) = {} /\ Ns!At(f, p) # {}
  BY <1>1, AtIs DEF DroppedAt
<1>4. ASSUME NEW e \in f, Ns!IsParent(p, e.path) PROVE FALSE
  <2> DEFINE q == e.path
  <2>1. q \in AllPaths /\ vfs_resolve(t, q) # NoNode
    BY EntryIn
  <2>2. Len(q) = Len(p) + 1 /\ SubSeq(q, 1, Len(p)) = p
    BY <1>4 DEF Ns!IsParent
  <2> HIDE DEF q
  <2>3. q \in Paths
    <3>1. Len(<<>>) = 0
      OBVIOUS
    <3> QED BY <1>1, <2>1, <2>2, <3>1, PathLen
  <2>4. Front(q) = p
    <3>1. Len(q) - 1 = Len(p)
      BY <1>1, <2>2
    <3> QED BY <2>2, <3>1 DEF Front
  <2> QED BY <2>1, <2>3, <2>4 DEF DroppedAt
<1> HIDE DEF f, g
<1>5. g = f \ Ns!At(f, p)
  BY <1>2, <1>3
<1>6. Ns!Remove(f, g, p)
  BY <1>3, <1>4, <1>5 DEF Ns!Remove
<1> QED BY <1>6 DEF f, g

LEMMA MovedSeen ==
  ASSUME NEW t, NEW u, NEW p \in Paths, NEW q \in Paths, MovedAt(t, u, p, q)
  PROVE  Ns!Move(EntriesOf(t), EntriesOf(u), p, q)
<1> DEFINE f == EntriesOf(t)
           g == EntriesOf(u)
           e == EntryAt(t, p)
<1>1. p \in AllPaths
  BY DEF AllPaths
<1>2. e.type = "VFS_FILE" /\ e.data = t[vfs_resolve(t, p)].data
  BY EntryFields DEF MovedAt
<1>3. Ns!At(f, p) = {e}
  BY <1>1, AtIs DEF MovedAt
<1>a. PICK v : \E k \in 0 .. Len(t[vfs_resolve(t, p)].data) :
        /\ PutAt(t, v, q, SubSeq(t[vfs_resolve(t, p)].data, 1, k))
        /\ u = v \/ (OnlyAt(v, u, p) /\ vfs_resolve(u, p) = NoNode)
  BY DEF MovedAt
<1>4. PICK k \in 0 .. Len(e.data) :
        /\ PutAt(t, v, q, SubSeq(e.data, 1, k))
        /\ u = v \/ (OnlyAt(v, u, p) /\ vfs_resolve(u, p) = NoNode)
  BY <1>a, <1>2
<1> DEFINE h == EntriesOf(v)
           x == SubSeq(e.data, 1, k)
<1>5. h = Ns!Holding(f, q, x) /\ Ns!HasParent(f, q)
  <2>1. PutView(f, h, q, x)
    BY <1>4, PutHolds
  <2> QED BY <2>1 DEF PutView
<1>6. g = h \/ g = h \ Ns!At(h, p)
  <2>1. CASE u = v
    BY <2>1
  <2>2. CASE OnlyAt(v, u, p) /\ vfs_resolve(u, p) = NoNode
    <3>1. g \ Ns!At(g, p) = h \ Ns!At(h, p)
      BY <2>2, OffPath
    <3>2. Ns!At(g, p) = {}
      BY <1>1, <2>2, AtIs
    <3> HIDE DEF g, h
    <3> QED BY <3>1, <3>2
  <2> QED BY <1>4, <2>1, <2>2
<1> HIDE DEF f, g, e, h, x
<1>9. e \in Ns!At(f, p) /\ e.type = "VFS_FILE" /\ k \in 0 .. Len(e.data)
  BY <1>2, <1>3, <1>4
<1>10. /\ Ns!HasParent(f, q)
       /\ g = Ns!Holding(f, q, x) \/ g = Ns!Holding(f, q, x) \ Ns!At(Ns!Holding(f, q, x), p)
  BY <1>5, <1>6
<1>11. Ns!Move(f, g, p, q)
  BY <1>9, <1>10 DEF Ns!Move, x
<1> QED BY <1>11 DEF f, g

-----------------------------------------------------------------------------
(* The calls on a sound tree. *)

\* u is a tree, and its paths name what they did, those in P aside.
Moves(t, u, P) == Sound(u) /\ DataOk(u) /\ Kept(t, u, P)

LEMMA MkdirSeen ==
  ASSUME Sound(vnode), DataOk(vnode), NEW p \in Paths, Mkdir(p)
  PROVE  Moves(vnode, vnode', {}) /\ Ns!MakeDir(EntriesOf(vnode), EntriesOf(vnode'), p)
<1> DEFINE d == vfs_resolve(vnode, Front(p))
<1>1. /\ d # NoNode /\ vnode[d].type = "VFS_DIRECTORY" /\ InDir(vnode, p)
      /\ ramfs_finddir(vnode, d, Last(p)) = NoNode
      /\ \E n \in FreeSlots(vnode) : vnode' = AddNode(vnode, d, Last(p), "VFS_DIRECTORY", n)
  BY DEF Mkdir, InDir
<1>2. d \in LiveIn(vnode)
  BY <1>1, PathParts, PathResolves
<1>3. PICK n \in FreeSlots(vnode) : vnode' = AddNode(vnode, d, Last(p), "VFS_DIRECTORY", n)
  BY <1>1
<1>4. d = vfs_resolve(vnode, Front(p)) /\ "VFS_DIRECTORY" # "free"
  OBVIOUS
<1> HIDE DEF d
<1> DEFINE t == vnode
           u == vnode'
<1>5. /\ Sound(t) /\ DataOk(t) /\ n \in FreeSlots(t)
      /\ u = AddNode(t, d, Last(p), "VFS_DIRECTORY", n) /\ d \in LiveIn(t)
      /\ vfs_resolve(t, Front(p)) = d /\ d # NoNode
      /\ t[d].type = "VFS_DIRECTORY" /\ ramfs_finddir(t, d, Last(p)) = NoNode /\ InDir(t, p)
  BY <1>1, <1>2, <1>3, <1>4
<1> HIDE DEF t, u
<1>6. DataOk(u)
  BY <1>5, AddedData
<1>7. /\ Sound(u) /\ OnlyAt(t, u, p) /\ vfs_resolve(t, p) = NoNode
      /\ vfs_resolve(u, p) = n /\ n # NoNode /\ u[n].type = "VFS_DIRECTORY" /\ u[n].data = <<>>
  BY <1>4, <1>5, AddOnly
<1>8. MadeAt(t, u, p)
  BY <1>5, <1>7 DEF MadeAt
<1>9. Kept(t, u, {})
  <2>1. Extends(t, u)
    BY <1>4, <1>5, Added
  <2> QED BY <1>5, <1>7, <2>1, KeptBy
<1> QED BY <1>6, <1>7, <1>8, <1>9, MadeSeen DEF Moves, t, u

\* Contents x written over those of an entry that was found or made.
LEMMA WroteSeen ==
  ASSUME NEW t, Sound(t), DataOk(t), NEW p \in Paths, NEW c \in vfs_create(t, p),
         NEW x \in Contents, NEW u, Wrote(c, x, u)
  PROVE  Moves(t, u, {}) /\ PutAt(t, u, p, x) /\ Ns!Put(EntriesOf(t), EntriesOf(u), p, x)
<1>1. PutAt(t, u, p, x)
  BY CreatePut
<1>2. DataOk(u)
  <2> DEFINE v == c.tree
             n == c.node
  <2>1. u = [v EXCEPT ![n].data = x] /\ Sound(v) /\ DataOk(v)
    BY CreatedData DEF Wrote
  <2> HIDE DEF v, n
  <2> QED BY <2>1, RewrittenData
<1>3. Sound(u) /\ Extends(t, u)
  <2>1. u = [c.tree EXCEPT ![c.node].data = x]
    BY DEF Wrote
  <2> QED BY <2>1, PutStep
<1> QED BY <1>1, <1>2, <1>3, KeptBy, PutSeen DEF Moves

LEMMA WriteFileSeen ==
  ASSUME Sound(vnode), DataOk(vnode), NEW p \in Paths, NEW buf \in Contents, WriteFile(p, buf)
  PROVE  Moves(vnode, vnode', {}) /\ Ns!Fill(EntriesOf(vnode), EntriesOf(vnode'), p, buf)
<1>1. PICK c \in vfs_create(vnode, p), k \in 0 .. Len(buf) :
        vnode' = [c.tree EXCEPT ![c.node].data = SubSeq(buf, 1, k)]
  BY DEF WriteFile
<1> DEFINE x == SubSeq(buf, 1, k)
           t == vnode
           u == vnode'
<1>2. x \in Contents
  BY PartOf
<1>3. Sound(t) /\ DataOk(t) /\ c \in vfs_create(t, p) /\ Wrote(c, x, u)
  BY <1>1 DEF Wrote
<1> HIDE DEF x, t, u
<1>4. Moves(t, u, {}) /\ Ns!Put(EntriesOf(t), EntriesOf(u), p, x)
  BY <1>2, <1>3, WroteSeen
<1> QED BY <1>4 DEF Ns!Fill, t, u, x

LEMMA DeleteSeen ==
  ASSUME Sound(vnode), DataOk(vnode), NEW p \in Paths, Delete(p)
  PROVE  Moves(vnode, vnode', {p}) /\ Ns!Remove(EntriesOf(vnode), EntriesOf(vnode'), p)
<1> DEFINE t == vnode
           u == vnode'
           n == vfs_resolve(vnode, p)
<1>1. /\ Sound(t) /\ DataOk(t) /\ vfs_resolve(t, p) = n /\ n # NoNode /\ CanRemove(t, n)
      /\ u = DropNode(t, n)
  BY DEF Delete
<1> HIDE DEF t, u, n
<1>2. n \in LiveIn(t)
  BY <1>1, ResolvedChild
<1>3. DataOk(u)
  BY <1>1, <1>2, DroppedData
<1>4. /\ Sound(u) /\ OnlyAt(t, u, p) /\ vfs_resolve(u, p) = NoNode
      /\ \A q \in Paths : Front(q) = p => vfs_resolve(t, q) = NoNode
      /\ Kept(t, u, {p})
  BY <1>1, DropOnly
<1>5. DroppedAt(t, u, p)
  BY <1>1, <1>4 DEF DroppedAt
<1> QED BY <1>3, <1>4, <1>5, DroppedSeen DEF Moves, t, u

\* After the target was made or cut the source is looked up again, and is
\* still the node that was found before.
LEMMA RenameSeen ==
  ASSUME Sound(vnode), DataOk(vnode), NEW p \in Paths, NEW q \in Paths, Rename(p, q)
  PROVE  /\ \/ Moves(vnode, vnode', {}) /\ UNCHANGED fsPaths
            \/ Moves(vnode, vnode', {p}) /\ Forget(p)
         /\ Ns!Move(EntriesOf(vnode), EntriesOf(vnode'), p, q)
<1> DEFINE t == vnode
           u == vnode'
           s == vfs_resolve(vnode, p)
<1>1. Sound(t) /\ DataOk(t) /\ vfs_resolve(t, p) = s /\ s # NoNode /\ t[s].type = "VFS_FILE"
  BY DEF Rename
<1>a. PICK v \in Copied(p, q), allowed \in BOOLEAN :
        IF allowed /\ CanRemove(v, vfs_resolve(v, p))
        THEN u = DropNode(v, vfs_resolve(v, p)) /\ Forget(p)
        ELSE u = v /\ UNCHANGED fsPaths
  BY DEF Rename
<1>2. PICK c \in vfs_create(t, q), k \in 0 .. Len(t[s].data) :
        v = [c.tree EXCEPT ![c.node].data = SubSeq(t[s].data, 1, k)]
  <2> DEFINE y(c, k) == [c.tree EXCEPT ![c.node].data = SubSeq(t[s].data, 1, k)]
  <2>1. Copied(p, q) = {y(c, k) : c \in vfs_create(t, q), k \in 0 .. Len(t[s].data)}
    BY DEF Copied
  <2> HIDE DEF y
  <2>2. \E c \in vfs_create(t, q), k \in 0 .. Len(t[s].data) : v = y(c, k)
    BY <2>1
  <2> QED BY <2>2 DEF y
<1> DEFINE x == SubSeq(t[s].data, 1, k)
           gone == vfs_resolve(v, p)
<1>4. Wrote(c, x, v)
  BY <1>2 DEF Wrote
<1>b. \/ u = v /\ UNCHANGED fsPaths
      \/ CanRemove(v, gone) /\ u = DropNode(v, gone) /\ Forget(p)
  BY <1>a
<1> HIDE DEF t, u, s
<1>5. s \in Nodes /\ s \in LiveIn(t) /\ p \in AllPaths
  BY <1>1, PathResolves DEF AllPaths
<1>6. x \in Contents
  <2>1. t[s].data \in Contents
    BY <1>1, <1>5 DEF DataOk
  <2> QED BY <2>1, PartOf
<1>8. Extends(t, v)
  <2> HIDE DEF x
  <2>1. LET w == [c.tree EXCEPT ![c.node].data = x] IN Extends(t, w)
    BY <1>1, PutStep
  <2> QED BY <1>4, <2>1 DEF Wrote
<1> HIDE DEF x
<1>9. Moves(t, v, {}) /\ PutAt(t, v, q, x)
  BY <1>1, <1>4, <1>6, WroteSeen
<1>10. DataOk(v) /\ Sound(v) /\ Kept(t, v, {})
  BY <1>9 DEF Moves
<1>11. gone = s
  BY <1>1, <1>8, <1>10, PathParts, ResolveKept
<1> HIDE DEF gone
<1>12. CASE u = v /\ UNCHANGED fsPaths
  <2>1. MovedAt(t, u, p, q)
    BY <1>1, <1>9, <1>12 DEF MovedAt, x
  <2> QED BY <1>9, <1>12, <2>1, MovedSeen DEF t, u
<1>13. CASE CanRemove(v, gone) /\ u = DropNode(v, gone) /\ Forget(p)
  <2>1. u = DropNode(v, s) /\ CanRemove(v, s) /\ vfs_resolve(v, p) = s
    BY <1>11, <1>13 DEF gone
  <2>2. s \in LiveIn(v)
    BY <1>5, <1>8 DEF Extends
  <2>3. DataOk(u)
    BY <1>10, <2>1, <2>2, DroppedData
  <2>4. Sound(u) /\ OnlyAt(v, u, p) /\ vfs_resolve(u, p) = NoNode /\ Kept(v, u, {p})
    BY <1>1, <1>10, <2>1, DropOnly
  <2>5. MovedAt(t, u, p, q)
    BY <1>1, <1>9, <2>4 DEF MovedAt, x
  <2>6. Moves(t, u, {p})
    BY <1>10, <2>3, <2>4, KeptTwice DEF Moves
  <2> QED BY <1>13, <2>5, <2>6, MovedSeen DEF t, u
<1> QED BY <1>b, <1>12, <1>13

\* A file made by vfs_create is there with no contents.
LEMMA CreatedSeen ==
  ASSUME NEW t, Sound(t), DataOk(t), NEW p \in Paths, NEW c \in vfs_create(t, p)
  PROVE  /\ Moves(t, c.tree, {}) /\ c.node \in NodeSlots /\ vfs_resolve(c.tree, p) = c.node
         /\ vfs_resolve(t, p) = NoNode =>
              Ns!Put(EntriesOf(t), EntriesOf(c.tree), p, <<>>)
<1>1. DataOk(c.tree) /\ c.node \in NodeSlots /\ Sound(c.tree)
  BY CreatedData
<1>2. /\ vfs_resolve(c.tree, p) = c.node /\ c.node # NoNode
      /\ c.tree = t \/ (vfs_resolve(t, p) = NoNode /\ PutAt(t, c.tree, p, <<>>))
  BY CreatedIs
<1>3. Kept(t, c.tree, {})
  BY <1>1, Created, KeptBy
<1>4. vfs_resolve(t, p) = NoNode => PutAt(t, c.tree, p, <<>>)
  BY <1>2
<1> QED BY <1>1, <1>2, <1>3, <1>4, PutSeen DEF Moves

LEMMA OpenNoFdSeen ==
  ASSUME Sound(vnode), DataOk(vnode), NEW p \in Paths, OpenNoFd(p)
  PROVE  Moves(vnode, vnode', {}) /\ Ns!MakeFile(EntriesOf(vnode), EntriesOf(vnode'), p)
<1> DEFINE t == vnode
           u == vnode'
<1>1. PICK c \in vfs_create(t, p) : u = c.tree
  BY DEF OpenNoFd
<1>2. Sound(t) /\ DataOk(t) /\ vfs_resolve(t, p) = NoNode /\ p \in AllPaths
  BY DEF OpenNoFd, AllPaths
<1> HIDE DEF t, u
<1>3. Moves(t, u, {}) /\ Ns!Put(EntriesOf(t), EntriesOf(u), p, <<>>)
  BY <1>1, <1>2, CreatedSeen
<1>4. Ns!At(EntriesOf(t), p) = {}
  BY <1>2, AtIs
<1> QED BY <1>3, <1>4 DEF Ns!MakeFile, t, u

-----------------------------------------------------------------------------
(* Tables of references. *)

FdShape(r) == r = [used |-> r.used, node |-> r.node, pos |-> r.pos, owner_pid |-> r.owner_pid]
DhShape(r) == r = [node |-> r.node, idx |-> r.idx]

FdsOk(k, L) ==
  /\ k = [f \in Fds |-> k[f]]
  /\ \A f \in Fds : FdShape(k[f]) /\ (k[f].used => k[f].node \in L)
DhsOk(d, L) ==
  /\ d = [h \in Handles |-> d[h]]
  /\ \A h \in Handles : DhShape(d[h]) /\ (d[h].node # NoNode => d[h].node \in L)

LEMMA FdSet ==
  ASSUME NEW k, NEW L, FdsOk(k, L), NEW f, NEW r, FdShape(r), r.used => r.node \in L
  PROVE  FdsOk([k EXCEPT ![f] = r], L)
<1> DEFINE g == [k EXCEPT ![f] = r]
<1>1. k = [e \in Fds |-> k[e]]
  BY DEF FdsOk
<1>2. g = [e \in Fds |-> g[e]] /\ \A e \in Fds : g[e] = IF e = f THEN r ELSE k[e]
  BY <1>1
<1> HIDE DEF g
<1>3. \A e \in Fds : FdShape(g[e]) /\ (g[e].used => g[e].node \in L)
  BY <1>2 DEF FdsOk
<1> QED BY <1>2, <1>3 DEF FdsOk, g

LEMMA FdField ==
  ASSUME NEW r, FdShape(r), NEW x
  PROVE  LET a == [r EXCEPT !.pos = x]
             b == [r EXCEPT !.used = FALSE]
             c == [r EXCEPT !.used = FALSE, !.node = NoNode, !.owner_pid = NoNode]
         IN  /\ FdShape(a) /\ a.used = r.used /\ a.node = r.node
             /\ FdShape(b) /\ b.used = FALSE
             /\ FdShape(c) /\ c.used = FALSE
<1> DEFINE a == [r EXCEPT !.pos = x]
           b == [r EXCEPT !.used = FALSE]
           c1 == [b EXCEPT !.node = NoNode]
           c == [c1 EXCEPT !.owner_pid = NoNode]
<1>1. r = [used |-> r.used, node |-> r.node, pos |-> r.pos, owner_pid |-> r.owner_pid]
  BY DEF FdShape
<1>2. /\ a = [r EXCEPT !.pos = x] /\ b = [r EXCEPT !.used = FALSE]
      /\ c1 = [b EXCEPT !.node = NoNode] /\ c = [c1 EXCEPT !.owner_pid = NoNode]
  OBVIOUS
<1>3. c = [r EXCEPT !.used = FALSE, !.node = NoNode, !.owner_pid = NoNode]
  OBVIOUS
<1> HIDE DEF a, b, c1, c
<1>4. a = [used |-> r.used, node |-> r.node, pos |-> x, owner_pid |-> r.owner_pid]
  BY <1>1, <1>2
<1>5. b = [used |-> FALSE, node |-> r.node, pos |-> r.pos, owner_pid |-> r.owner_pid]
  BY <1>1, <1>2
<1>6. c1 = [used |-> FALSE, node |-> NoNode, pos |-> r.pos, owner_pid |-> r.owner_pid]
  BY <1>2, <1>5
<1>7. c = [used |-> FALSE, node |-> NoNode, pos |-> r.pos, owner_pid |-> NoNode]
  BY <1>2, <1>6
<1>8. FdShape(a) /\ a.used = r.used /\ a.node = r.node
  BY <1>4 DEF FdShape
<1>9. FdShape(b) /\ b.used = FALSE
  BY <1>5 DEF FdShape
<1>10. FdShape(c) /\ c.used = FALSE
  BY <1>7 DEF FdShape
<1> QED BY <1>3, <1>8, <1>9, <1>10 DEF a, b

LEMMA DhSet ==
  ASSUME NEW d, NEW L, DhsOk(d, L), NEW h, NEW r, DhShape(r), r.node # NoNode => r.node \in L
  PROVE  DhsOk([d EXCEPT ![h] = r], L)
<1> DEFINE g == [d EXCEPT ![h] = r]
<1>1. d = [e \in Handles |-> d[e]]
  BY DEF DhsOk
<1>2. g = [e \in Handles |-> g[e]] /\ \A e \in Handles : g[e] = IF e = h THEN r ELSE d[e]
  BY <1>1
<1> HIDE DEF g
<1>3. \A e \in Handles : DhShape(g[e]) /\ (g[e].node # NoNode => g[e].node \in L)
  BY <1>2 DEF DhsOk
<1> QED BY <1>2, <1>3 DEF DhsOk, g

\* The tree SYS_FILE_OPEN leaves, and the descriptor it gives.
Opened(pid, p) ==
  \E f \in Fds, n \in NodeSlots, k \in Nat :
    /\ kfds' = [kfds EXCEPT ![f] = [used |-> TRUE, node |-> n, owner_pid |-> pid, pos |-> k]]
    /\ fd_path' = [fd_path EXCEPT ![f] = {p}]
    /\ vfs_resolve(vnode', p) = n

LEMMA OpenSeen ==
  ASSUME Sound(vnode), DataOk(vnode), NEW pid, NEW p \in Paths, NEW creat \in BOOLEAN,
         NEW trunc \in BOOLEAN, NEW append \in BOOLEAN, Open(pid, p, creat, trunc, append)
  PROVE  /\ Moves(vnode, vnode', {}) /\ Opened(pid, p)
         /\ Ns!OpenAt(EntriesOf(vnode), EntriesOf(vnode'), p, creat, trunc)
<1> DEFINE t == vnode
           u == vnode'
           n0 == vfs_resolve(vnode, p)
           found == IF n0 # NoNode THEN {[tree |-> t, node |-> n0]}
                    ELSE IF creat THEN vfs_create(t, p) ELSE {}
<1>a. PICK f \in {f \in Fds : ~kfds[f].used} :
        /\ fd_path' = [fd_path EXCEPT ![f] = {p}]
        /\ \E c \in found :
             /\ kfds' = [kfds EXCEPT ![f] =
                           [used |-> TRUE, node |-> c.node, owner_pid |-> pid,
                            pos |-> IF append THEN Len(c.tree[c.node].data) ELSE 0]]
             /\ u = IF trunc THEN [c.tree EXCEPT ![c.node].data = <<>>] ELSE c.tree
  BY DEF Open, SetFd
<1>1. PICK c \in found :
        /\ kfds' = [kfds EXCEPT ![f] =
                      [used |-> TRUE, node |-> c.node, owner_pid |-> pid,
                       pos |-> IF append THEN Len(c.tree[c.node].data) ELSE 0]]
        /\ u = IF trunc THEN [c.tree EXCEPT ![c.node].data = <<>>] ELSE c.tree
  BY <1>a
<1> DEFINE v == c.tree
           m == c.node
           k == IF append THEN Len(c.tree[c.node].data) ELSE 0
<1>2. /\ kfds' = [kfds EXCEPT ![f] = [used |-> TRUE, node |-> m, owner_pid |-> pid, pos |-> k]]
      /\ u = IF trunc THEN [v EXCEPT ![m].data = <<>>] ELSE v
      /\ trunc => Wrote(c, <<>>, u)
      /\ f \in Fds /\ k = IF append THEN Len(v[m].data) ELSE 0
  BY <1>1 DEF Wrote
<1>3. Sound(t) /\ DataOk(t) /\ vfs_resolve(t, p) = n0 /\ p \in AllPaths
  BY DEF AllPaths
<1>4. \/ n0 # NoNode /\ v = t /\ m = n0
      \/ n0 = NoNode /\ creat /\ c \in vfs_create(t, p)
  <2>1. CASE n0 # NoNode
    <3>1. c \in {[tree |-> t, node |-> n0]}
      BY <2>1
    <3> HIDE DEF t, n0
    <3>2. v = t /\ m = n0
      BY <3>1
    <3> QED BY <2>1, <3>2
  <2>2. CASE n0 = NoNode
    <3>1. c \in (IF creat THEN vfs_create(t, p) ELSE {})
      BY <2>2
    <3> QED BY <2>2, <3>1
  <2> QED BY <2>1, <2>2
<1> HIDE DEF t, u, n0, found, v, m, k
<1> DEFINE F == EntriesOf(t)
           G == EntriesOf(u)
<1>5. /\ m \in NodeSlots /\ Sound(v) /\ DataOk(v) /\ Moves(t, u, {})
      /\ vfs_resolve(v, p) = m /\ vfs_resolve(u, p) = m
      /\ Ns!OpenAt(F, G, p, creat, trunc)
  <2>1. CASE n0 # NoNode /\ v = t /\ m = n0
    <3>1. n0 \in LiveIn(t) \ {Root} /\ InDir(t, p)
      <4>1. vfs_resolve(t, Front(p)) # NoNode
        BY <1>3, <2>1, ResolvedChild, NodeFacts DEF LiveIn
      <4>2. n0 \in LiveIn(t) \ {Root}
        BY <1>3, <2>1, ResolvedChild
      <4>3. t[vfs_resolve(t, Front(p))].type = "VFS_DIRECTORY"
        BY <1>3, <2>1, ResolvedChild
      <4> QED BY <4>1, <4>2, <4>3 DEF InDir
    <3>2. m \in NodeSlots
      BY <2>1, <3>1 DEF LiveIn, Nodes
    <3>0. Ns!At(F, p) # {}
      BY <1>3, <2>1, AtIs
    <3>3. CASE trunc
      <4>1. u = [t EXCEPT ![n0].data = <<>>]
        BY <1>2, <2>1, <3>3
      <4>2. PutAt(t, u, p, <<>>)
        BY <1>3, <2>1, <3>1, <4>1, RewritePut
      <4>3. DataOk(u)
        BY <1>3, <4>1, RewrittenData, ContentsFacts
      <4>4. Rewritten(t, u, n0, <<>>)
        BY <1>3, <4>1, DataSeen
      <4>5. Moves(t, u, {}) /\ vfs_resolve(u, p) = vfs_resolve(t, p)
        BY <1>3, <4>3, <4>4 DEF Moves, Kept, Rewritten
      <4>6. Ns!Put(F, G, p, <<>>)
        BY <4>2, PutSeen
      <4>7. Ns!OpenAt(F, G, p, creat, trunc)
        <5> HIDE DEF F, G
        <5> QED BY <3>0, <3>3, <4>6 DEF Ns!OpenAt
      <4> QED BY <1>3, <2>1, <3>2, <4>5, <4>7
    <3>4. CASE ~trunc
      <4>1. u = t
        BY <1>2, <2>1, <3>4
      <4>2. G = F
        BY <4>1
      <4>3. Ns!OpenAt(F, G, p, creat, trunc)
        <5> HIDE DEF F, G
        <5> QED BY <3>0, <3>4, <4>2 DEF Ns!OpenAt
      <4> QED BY <1>3, <2>1, <3>2, <4>1, <4>3 DEF Moves, Kept
    <3> QED BY <3>3, <3>4
  <2>2. CASE n0 = NoNode /\ creat /\ c \in vfs_create(t, p)
    <3>1. /\ Moves(t, v, {}) /\ DataOk(v) /\ m \in NodeSlots /\ Sound(v)
          /\ Ns!Put(F, EntriesOf(v), p, <<>>) /\ vfs_resolve(v, p) = m
      BY <1>3, <2>2, CreatedSeen DEF v, m, Moves
    <3>0. Ns!At(F, p) = {}
      BY <1>3, <2>2, AtIs
    <3>2. CASE trunc
      <4>1. u = [v EXCEPT ![m].data = <<>>] /\ Wrote(c, <<>>, u)
        BY <1>2, <3>2
      <4>2. Moves(t, u, {}) /\ Ns!Put(F, G, p, <<>>)
        BY <1>3, <2>2, <4>1, WroteSeen, ContentsFacts
      <4>3. vfs_resolve(u, p) = vfs_resolve(v, p)
        <5>1. Rewritten(v, u, m, <<>>)
          BY <3>1, <4>1, DataSeen
        <5> QED BY <1>3, <5>1 DEF Rewritten
      <4>4. Ns!OpenAt(F, G, p, creat, trunc)
        <5> HIDE DEF F, G
        <5> QED BY <2>2, <3>0, <4>2 DEF Ns!OpenAt
      <4> QED BY <3>1, <4>2, <4>3, <4>4
    <3>3. CASE ~trunc
      <4>1. u = v
        BY <1>2, <3>3
      <4>2. Ns!Put(F, G, p, <<>>)
        BY <3>1, <4>1
      <4>3. Ns!OpenAt(F, G, p, creat, trunc)
        <5> HIDE DEF F, G
        <5> QED BY <2>2, <3>0, <4>2 DEF Ns!OpenAt
      <4> QED BY <3>1, <4>1, <4>3
    <3> QED BY <3>2, <3>3
  <2> QED BY <1>4, <2>1, <2>2
<1>6. k \in Nat
  <2>1. v[m].data \in Contents
    BY <1>5, NodeFacts DEF DataOk
  <2>2. Len(v[m].data) \in Nat
    BY <2>1, ContentsFacts
  <2> QED BY <1>2, <2>2
<1>7. \E g \in Fds, n \in NodeSlots, j \in Nat :
        /\ kfds' = [kfds EXCEPT ![g] = [used |-> TRUE, node |-> n, owner_pid |-> pid, pos |-> j]]
        /\ fd_path' = [fd_path EXCEPT ![g] = {p}]
        /\ vfs_resolve(u, p) = n
  BY <1>a, <1>2, <1>5, <1>6
<1> QED BY <1>5, <1>7 DEF Opened, t, u

-----------------------------------------------------------------------------
(* The inductive invariant. *)

FdsNumbered(k) == FdsOk(k, NodeSlots) /\ \A f \in Fds : k[f].pos \in Nat

PathsOk ==
  /\ fd_path = [f \in Fds |-> fd_path[f]] /\ \A f \in Fds : fd_path[f] \subseteq AllPaths
  /\ dh_path = [h \in Handles |-> dh_path[h]] /\ \A h \in Handles : dh_path[h] \subseteq AllPaths
  /\ cwd_path \subseteq AllPaths

RefsOk == FdsNumbered(kfds) /\ DhsOk(dh_table, Nodes) /\ fs_cwd \in Nodes

FsInv == Sound(vnode) /\ DataOk(vnode) /\ RefsOk /\ PathsOk /\ ReferencesFollowPaths

\* Where a tree changes, references still have the nodes of their paths.
LEMMA Followed ==
  ASSUME FsInv, NEW P, Moves(vnode, vnode', P)
  PROVE  /\ \A f \in Fds : kfds[f].used =>
              \A p \in fd_path[f] \ P : vfs_resolve(vnode', p) = kfds[f].node
         /\ \A h \in Handles : dh_table[h].node # NoNode =>
              \A p \in dh_path[h] \ P : vfs_resolve(vnode', p) = dh_table[h].node
         /\ \A p \in cwd_path \ P : vfs_resolve(vnode', p) = fs_cwd
<1>1. ASSUME NEW n \in Nodes, NEW p \in AllPaths \ P, vfs_resolve(vnode, p) = n
      PROVE  vfs_resolve(vnode', p) = n
  BY <1>1, NodeFacts DEF Moves, Kept
<1>2. ASSUME NEW f \in Fds, kfds[f].used, NEW p \in fd_path[f] \ P
      PROVE  vfs_resolve(vnode', p) = kfds[f].node
  <2>1. kfds[f].node \in Nodes /\ p \in AllPaths \ P
    BY <1>2, NodeFacts DEF FsInv, RefsOk, PathsOk, FdsNumbered, FdsOk
  <2>2. vfs_resolve(vnode, p) = kfds[f].node
    BY <1>2 DEF FsInv, ReferencesFollowPaths
  <2> QED BY <1>1, <2>1, <2>2
<1>3. ASSUME NEW h \in Handles, dh_table[h].node # NoNode, NEW p \in dh_path[h] \ P
      PROVE  vfs_resolve(vnode', p) = dh_table[h].node
  <2>1. dh_table[h].node \in Nodes /\ p \in AllPaths \ P
    BY <1>3 DEF FsInv, RefsOk, PathsOk, DhsOk
  <2>2. vfs_resolve(vnode, p) = dh_table[h].node
    BY <1>3 DEF FsInv, ReferencesFollowPaths
  <2> QED BY <1>1, <2>1, <2>2
<1>4. ASSUME NEW p \in cwd_path \ P PROVE vfs_resolve(vnode', p) = fs_cwd
  <2>1. fs_cwd \in Nodes /\ p \in AllPaths \ P
    BY DEF FsInv, RefsOk, PathsOk
  <2>2. vfs_resolve(vnode, p) = fs_cwd
    BY DEF FsInv, ReferencesFollowPaths
  <2> QED BY <1>1, <2>1, <2>2
<1> QED BY <1>2, <1>3, <1>4

\* Path calls leave the references alone.
LEMMA PathCallStep ==
  ASSUME FsInv, Moves(vnode, vnode', {}), UNCHANGED <<fsRefs, fsPaths>>
  PROVE  FsInv'
<1>1. UNCHANGED <<kfds, dh_table, fs_cwd, fd_path, dh_path, cwd_path>>
  BY DEF fsRefs, fsPaths
<1>2. /\ \A f \in Fds : kfds[f].used =>
           \A p \in fd_path[f] : vfs_resolve(vnode', p) = kfds[f].node
      /\ \A h \in Handles : dh_table[h].node # NoNode =>
           \A p \in dh_path[h] : vfs_resolve(vnode', p) = dh_table[h].node
      /\ \A p \in cwd_path : vfs_resolve(vnode', p) = fs_cwd
  <2>1. \A S : S \ {} = S
    OBVIOUS
  <2> QED BY <2>1, Followed
<1>3. ReferencesFollowPaths'
  BY <1>1, <1>2 DEF ReferencesFollowPaths
<1>4. RefsOk' /\ PathsOk'
  BY <1>1 DEF FsInv, RefsOk, PathsOk
<1>5. Sound(vnode') /\ DataOk(vnode')
  BY DEF Moves
<1> QED BY <1>3, <1>4, <1>5 DEF FsInv, DataOk

\* A deletion makes what was opened there forget its path.
LEMMA ForgetStep ==
  ASSUME FsInv, NEW p, Moves(vnode, vnode', {p}), Forget(p), UNCHANGED fsRefs
  PROVE  FsInv'
<1>1. UNCHANGED <<kfds, dh_table, fs_cwd>>
  BY DEF fsRefs
<1>2. /\ fd_path' = [f \in Fds |-> fd_path'[f]]
      /\ \A f \in Fds : fd_path'[f] = fd_path[f] \ {p}
      /\ dh_path' = [h \in Handles |-> dh_path'[h]]
      /\ \A h \in Handles : dh_path'[h] = dh_path[h] \ {p}
      /\ cwd_path' = cwd_path \ {p}
  BY DEF Forget
<1>3. ReferencesFollowPaths'
  BY <1>1, <1>2, Followed DEF ReferencesFollowPaths
<1>4. RefsOk'
  BY <1>1 DEF FsInv, RefsOk
<1>5. PathsOk'
  BY <1>2 DEF FsInv, PathsOk
<1>6. Sound(vnode') /\ DataOk(vnode')
  BY DEF Moves
<1> QED BY <1>3, <1>4, <1>5, <1>6 DEF FsInv, DataOk

LEMMA FdNumbered ==
  ASSUME NEW k, FdsNumbered(k), NEW f, NEW r, FdShape(r), r.used => r.node \in NodeSlots,
         r.pos \in Nat, NEW g, g = [k EXCEPT ![f] = r]
  PROVE  FdsNumbered(g)
<1>1. FdsOk(g, NodeSlots)
  BY FdSet DEF FdsNumbered
<1>2. k = [e \in Fds |-> k[e]]
  BY DEF FdsNumbered, FdsOk
<1>3. \A e \in Fds : g[e] = IF e = f THEN r ELSE k[e]
  BY <1>2
<1> QED BY <1>1, <1>3 DEF FdsNumbered

LEMMA FdFieldPos ==
  ASSUME NEW r, FdShape(r), NEW x
  PROVE  LET a == [r EXCEPT !.pos = x]
             b == [r EXCEPT !.used = FALSE]
             c == [r EXCEPT !.used = FALSE, !.node = NoNode, !.owner_pid = NoNode]
         IN  a.pos = x /\ b.pos = r.pos /\ c.pos = r.pos
<1> DEFINE a == [r EXCEPT !.pos = x]
           b == [r EXCEPT !.used = FALSE]
           c1 == [b EXCEPT !.node = NoNode]
           c == [c1 EXCEPT !.owner_pid = NoNode]
<1>1. r = [used |-> r.used, node |-> r.node, pos |-> r.pos, owner_pid |-> r.owner_pid]
  BY DEF FdShape
<1>2. /\ a = [r EXCEPT !.pos = x] /\ b = [r EXCEPT !.used = FALSE]
      /\ c1 = [b EXCEPT !.node = NoNode] /\ c = [c1 EXCEPT !.owner_pid = NoNode]
  OBVIOUS
<1>3. c = [r EXCEPT !.used = FALSE, !.node = NoNode, !.owner_pid = NoNode]
  OBVIOUS
<1> HIDE DEF a, b, c1, c
<1>4. a = [used |-> r.used, node |-> r.node, pos |-> x, owner_pid |-> r.owner_pid]
  BY <1>1, <1>2
<1>5. b = [used |-> FALSE, node |-> r.node, pos |-> r.pos, owner_pid |-> r.owner_pid]
  BY <1>1, <1>2
<1>6. c1 = [used |-> FALSE, node |-> NoNode, pos |-> r.pos, owner_pid |-> r.owner_pid]
  BY <1>2, <1>5
<1>7. c = [used |-> FALSE, node |-> NoNode, pos |-> r.pos, owner_pid |-> NoNode]
  BY <1>2, <1>6
<1>8. a.pos = x /\ b.pos = r.pos /\ c.pos = r.pos
  BY <1>4, <1>5, <1>7
<1> QED BY <1>3, <1>8 DEF a, b

\* References other than f follow their paths into a tree that moved.
LEMMA FdCallStep ==
  ASSUME FsInv, Moves(vnode, vnode', {}), NEW f \in Fds, NEW r, FdShape(r),
         r.used => r.node \in NodeSlots, r.pos \in Nat, kfds' = [kfds EXCEPT ![f] = r],
         NEW P, P \subseteq AllPaths, fd_path' = [fd_path EXCEPT ![f] = P],
         r.used => \A p \in P : vfs_resolve(vnode', p) = r.node,
         UNCHANGED <<dh_table, fs_cwd, dh_path, cwd_path>>
  PROVE  FsInv'
<1>1. FdsNumbered(kfds')
  BY FdNumbered DEF FsInv, RefsOk
<1>2. /\ kfds' = [e \in Fds |-> kfds'[e]]
      /\ \A e \in Fds : kfds'[e] = IF e = f THEN r ELSE kfds[e]
  <2>1. kfds = [e \in Fds |-> kfds[e]]
    BY DEF FsInv, RefsOk, FdsNumbered, FdsOk
  <2> QED BY <2>1
<1>3. /\ fd_path' = [e \in Fds |-> fd_path'[e]]
      /\ \A e \in Fds : fd_path'[e] = IF e = f THEN P ELSE fd_path[e]
  <2>1. fd_path = [e \in Fds |-> fd_path[e]]
    BY DEF FsInv, PathsOk
  <2> QED BY <2>1
<1>4. /\ \A e \in Fds : kfds[e].used =>
           \A p \in fd_path[e] : vfs_resolve(vnode', p) = kfds[e].node
      /\ \A h \in Handles : dh_table[h].node # NoNode =>
           \A p \in dh_path[h] : vfs_resolve(vnode', p) = dh_table[h].node
      /\ \A p \in cwd_path : vfs_resolve(vnode', p) = fs_cwd
  <2>1. \A S : S \ {} = S
    OBVIOUS
  <2> QED BY <2>1, Followed
<1>5. ReferencesFollowPaths'
  <2>1. \A e \in Fds : kfds'[e].used =>
          \A p \in fd_path'[e] : vfs_resolve(vnode', p) = kfds'[e].node
    BY <1>2, <1>3, <1>4
  <2> QED BY <1>4, <2>1 DEF ReferencesFollowPaths
<1>6. RefsOk'
  BY <1>1 DEF FsInv, RefsOk, FdsNumbered, FdsOk
<1>7. PathsOk'
  <2>1. \A e \in Fds : fd_path'[e] \subseteq AllPaths
    BY <1>3 DEF FsInv, PathsOk
  <2> QED BY <1>3, <2>1 DEF FsInv, PathsOk
<1>8. Sound(vnode') /\ DataOk(vnode')
  BY DEF Moves
<1> QED BY <1>5, <1>6, <1>7, <1>8 DEF FsInv, DataOk

LEMMA SameMoves == ASSUME FsInv, vnode' = vnode PROVE Moves(vnode, vnode', {})
  BY DEF FsInv, Moves, Kept, DataOk

LEMMA OpenStep ==
  ASSUME FsInv, NEW pid \in FsProcs, NEW p \in Paths, NEW creat \in BOOLEAN,
         NEW trunc \in BOOLEAN, NEW append \in BOOLEAN, Open(pid, p, creat, trunc, append)
  PROVE  FsInv'
<1>1. Moves(vnode, vnode', {}) /\ Opened(pid, p)
  BY OpenSeen DEF FsInv
<1>2. PICK f \in Fds, n \in NodeSlots, k \in Nat :
        /\ kfds' = [kfds EXCEPT ![f] = [used |-> TRUE, node |-> n, owner_pid |-> pid, pos |-> k]]
        /\ fd_path' = [fd_path EXCEPT ![f] = {p}]
        /\ vfs_resolve(vnode', p) = n
  BY <1>1 DEF Opened
<1> DEFINE r == [used |-> TRUE, node |-> n, owner_pid |-> pid, pos |-> k]
<1>3. /\ FdShape(r) /\ r.node \in NodeSlots /\ r.pos \in Nat /\ kfds' = [kfds EXCEPT ![f] = r]
      /\ r.node = n
  BY <1>2 DEF FdShape
<1> HIDE DEF r
<1> DEFINE P == {p}
<1>4. /\ P \subseteq AllPaths /\ fd_path' = [fd_path EXCEPT ![f] = P]
      /\ \A q \in P : vfs_resolve(vnode', q) = r.node
  BY <1>2, <1>3 DEF AllPaths
<1>5. UNCHANGED <<dh_table, fs_cwd, dh_path, cwd_path>>
  BY DEF Open
<1> HIDE DEF P
<1> QED BY <1>1, <1>2, <1>3, <1>4, <1>5, FdCallStep

\* A new position, for a descriptor whose file may have been written.
LEMMA PosStep ==
  ASSUME FsInv, Moves(vnode, vnode', {}), NEW f \in Fds, NEW x \in Nat,
         kfds' = [kfds EXCEPT ![f] = [kfds[f] EXCEPT !.pos = x]],
         UNCHANGED <<dh_table, fs_cwd, fd_path, dh_path, cwd_path>>
  PROVE  FsInv'
<1> DEFINE r == kfds[f]
           a == [r EXCEPT !.pos = x]
<1>1. FdShape(r) /\ (r.used => r.node \in NodeSlots) /\ kfds' = [kfds EXCEPT ![f] = a]
  BY DEF FsInv, RefsOk, FdsNumbered, FdsOk
<1> HIDE DEF r
<1>2. FdShape(a) /\ a.used = r.used /\ a.node = r.node /\ a.pos = x
  <2>1. FdShape(a) /\ a.used = r.used /\ a.node = r.node
    BY <1>1, FdField
  <2>2. a.pos = x
    BY <1>1, FdFieldPos
  <2> QED BY <2>1, <2>2
<1> HIDE DEF a
<1>3. fd_path' = [fd_path EXCEPT ![f] = fd_path[f]]
  <2>1. fd_path = [e \in Fds |-> fd_path[e]]
    BY DEF FsInv, PathsOk
  <2> QED BY <2>1
<1>4. fd_path[f] \subseteq AllPaths
  BY DEF FsInv, PathsOk
<1>5. a.used => \A p \in fd_path[f] : vfs_resolve(vnode', p) = a.node
  <2>1. r.used => \A p \in fd_path[f] \ {} : vfs_resolve(vnode', p) = r.node
    BY Followed DEF r
  <2> QED BY <1>2, <2>1
<1> QED BY <1>1, <1>2, <1>3, <1>4, <1>5, FdCallStep

LEMMA ReadStep ==
  ASSUME FsInv, NEW f \in Fds, NEW len \in 0 .. MaxSize, Read(f, len) PROVE FsInv'
<1>1. PICK got \in 0 .. len : kfds' = [kfds EXCEPT ![f] = [kfds[f] EXCEPT !.pos = kfds[f].pos + got]]
  BY DEF Read, SetFd
<1> DEFINE x == kfds[f].pos + got
<1>2. x \in Nat
  <2>1. kfds[f].pos \in Nat
    BY DEF FsInv, RefsOk, FdsNumbered
  <2> QED BY <2>1, FilesConstants
<1>3. kfds' = [kfds EXCEPT ![f] = [kfds[f] EXCEPT !.pos = x]]
  BY <1>1
<1>4. UNCHANGED <<vnode, dh_table, fs_cwd, fd_path, dh_path, cwd_path>>
  BY DEF Read, fsPaths
<1> HIDE DEF x
<1> QED BY <1>2, <1>3, <1>4, SameMoves, PosStep

LEMMA SeekStep ==
  ASSUME FsInv, NEW f \in Fds, NEW k \in 0 .. MaxSize, Seek(f, k) PROVE FsInv'
<1>1. k \in Nat /\ kfds' = [kfds EXCEPT ![f] = [kfds[f] EXCEPT !.pos = k]]
  BY FilesConstants DEF Seek, SetFd
<1>2. UNCHANGED <<vnode, dh_table, fs_cwd, fd_path, dh_path, cwd_path>>
  BY DEF Seek, fsPaths
<1> QED BY <1>1, <1>2, SameMoves, PosStep

LEMMA CloseStep == ASSUME FsInv, NEW f \in Fds, Close(f) PROVE FsInv'
<1> DEFINE r == kfds[f]
           b == [r EXCEPT !.used = FALSE]
<1>1. FdShape(r) /\ r.pos \in Nat /\ kfds' = [kfds EXCEPT ![f] = b]
  BY DEF FsInv, RefsOk, FdsNumbered, FdsOk, Close, SetFd
<1> HIDE DEF r
<1>2. FdShape(b) /\ b.used = FALSE /\ b.pos = r.pos
  BY <1>1, FdField, FdFieldPos
<1> HIDE DEF b
<1>3. /\ fd_path' = [fd_path EXCEPT ![f] = {}]
      /\ UNCHANGED <<vnode, dh_table, fs_cwd, dh_path, cwd_path>>
  BY DEF Close
<1> QED BY <1>1, <1>2, <1>3, SameMoves, FdCallStep

-----------------------------------------------------------------------------
(* Writes through a descriptor. *)

RewroteIn(t, u, n, off, buf, k, gap) ==
  u = [t EXCEPT ![n].data = Overwritten(t[n].data, off, buf, k, gap)]

\* A write is seen at the path of the node, if it has one.
LEMMA RewroteSeen ==
  ASSUME NEW t, Sound(t), DataOk(t), NEW n \in NodeSlots, NEW off \in Nat, NEW buf \in Contents,
         off + Len(buf) <= MaxSize, NEW k \in 0 .. Len(buf), NEW gap \in Bytes,
         NEW u, RewroteIn(t, u, n, off, buf, k, gap)
  PROVE  /\ Moves(t, u, {})
         /\ \A p \in AllPaths : vfs_resolve(t, p) = n =>
              p \in Paths /\ Ns!WriteAt(EntriesOf(t), EntriesOf(u), p, off, Len(buf))
         /\ (\A p \in AllPaths : vfs_resolve(t, p) # n) => EntriesOf(u) = EntriesOf(t)
<1> DEFINE old == t[n].data
           x == Overwritten(old, off, buf, k, gap)
<1>3. u = [t EXCEPT ![n].data = x]
  BY DEF RewroteIn
<1>4. n \in Nodes /\ n # NoNode /\ n # Root
  BY NodeFacts
<1>5. /\ x \in Contents /\ Len(x) >= Len(old)
      /\ \A i \in 1 .. Len(old) : i <= off \/ i > off + Len(buf) => x[i] = old[i]
  <2>1. old \in Contents
    BY <1>4 DEF DataOk
  <2> HIDE DEF old
  <2> QED BY <2>1, OverwriteOf
<1> HIDE DEF x
<1>6. DataOk(u)
  <2>1. x \in Contents
    BY <1>5
  <2> QED BY <1>3, <2>1, RewrittenData
<1>7. Rewritten(t, u, n, x)
  BY <1>3, <1>4, DataSeen
<1>8. Moves(t, u, {})
  BY <1>6, <1>7 DEF Moves, Kept, Rewritten
<1>9. ASSUME NEW p \in AllPaths, vfs_resolve(t, p) = n
      PROVE  p \in Paths /\ Ns!WriteAt(EntriesOf(t), EntriesOf(u), p, off, Len(buf))
  <2> DEFINE F == EntriesOf(t)
             G == EntriesOf(u)
             e == EntryAt(t, p)
  <2>1. p \in Paths
    BY <1>4, <1>9, PathLen, ResolveRoot
  <2>2. InDir(t, p)
    BY <1>4, <1>9, <2>1, ResolvedChild, NodeFacts DEF InDir, LiveIn
  <2>3. PutAt(t, u, p, x)
    BY <1>3, <1>4, <1>9, <2>1, <2>2, RewritePut
  <2>4. G = Ns!Holding(F, p, x)
    BY <2>1, <2>3, PutSeen DEF Ns!Put
  <2>5. Ns!At(F, p) = {e}
    BY <1>4, <1>9, AtIs
  <2>6. e.data = old
    BY <1>9, EntryFields
  <2> HIDE DEF F, G, e, old
  <2>7. e \in Ns!At(F, p) /\ x \in Contents
    BY <1>5, <2>5
  <2>8. Ns!WriteAt(F, G, p, off, Len(buf))
    BY <1>5, <2>4, <2>6, <2>7 DEF Ns!WriteAt
  <2> QED BY <2>1, <2>8 DEF F, G
<1>10. ASSUME \A p \in AllPaths : vfs_resolve(t, p) # n PROVE EntriesOf(u) = EntriesOf(t)
  <2>2. ASSUME NEW p \in AllPaths
        PROVE  /\ vfs_resolve(u, p) = vfs_resolve(t, p)
               /\ vfs_resolve(t, p) # NoNode => EntryAt(u, p) = EntryAt(t, p)
    <3>1. vfs_resolve(t, p) # NoNode => vfs_resolve(t, p) \in Nodes /\ vfs_resolve(t, p) # n
      BY <1>10, PathResolves
    <3> QED BY <1>7, <3>1 DEF Rewritten, EntryAt
  <2>3. ASSUME NEW e PROVE e \in EntriesOf(u) <=> e \in EntriesOf(t)
    <3>1. e \in EntriesOf(u) <=> /\ e.path \in AllPaths /\ vfs_resolve(u, e.path) # NoNode
                                 /\ e = EntryAt(u, e.path)
      BY EntryIn
    <3>2. e \in EntriesOf(t) <=> /\ e.path \in AllPaths /\ vfs_resolve(t, e.path) # NoNode
                                 /\ e = EntryAt(t, e.path)
      BY EntryIn
    <3>3. e.path \in AllPaths =>
            /\ vfs_resolve(u, e.path) = vfs_resolve(t, e.path)
            /\ vfs_resolve(t, e.path) # NoNode => EntryAt(u, e.path) = EntryAt(t, e.path)
      BY <2>2
    <3> QED BY <3>1, <3>2, <3>3
  <2> QED BY <2>3
<1> QED BY <1>8, <1>9, <1>10

\* What Writes says of the descriptor fd and the buffer buf.
WriteNamed(f, g, fd, buf) ==
  \/ g = f
  \/ \E p \in fd_path[fd] : Ns!WriteAt(f, g, p, kfds[fd].pos, Len(buf))
  \/ fd_path[fd] = {} /\ \E p \in Paths : Ns!WriteAt(f, g, p, kfds[fd].pos, Len(buf))

LEMMA WriteSeen ==
  ASSUME FsInv, NEW f \in Fds, NEW buf \in Contents, Write(f, buf)
  PROVE  Moves(vnode, vnode', {}) /\ WriteNamed(EntriesOf(vnode), EntriesOf(vnode'), f, buf)
<1> DEFINE n == kfds[f].node
           off == kfds[f].pos
<1>1. /\ Sound(vnode) /\ DataOk(vnode) /\ n \in NodeSlots /\ off \in Nat
      /\ off + Len(buf) <= MaxSize
  BY DEF FsInv, RefsOk, FdsNumbered, FdsOk, Write
<1>2. CASE vnode' = vnode
  BY <1>2, SameMoves DEF WriteNamed
<1>3. CASE vnode' # vnode
  <2>1. PICK k \in 0 .. Len(buf), gap \in Bytes :
          RewroteIn(vnode, vnode', n, off, buf, k, gap)
    BY <1>3 DEF Write, RewroteIn
  <2> HIDE DEF n, off
  <2> DEFINE F == EntriesOf(vnode)
             G == EntriesOf(vnode')
  <2>2. /\ Moves(vnode, vnode', {})
        /\ \A p \in AllPaths : vfs_resolve(vnode, p) = n =>
             p \in Paths /\ Ns!WriteAt(F, G, p, off, Len(buf))
        /\ (\A p \in AllPaths : vfs_resolve(vnode, p) # n) => G = F
    BY <1>1, <2>1, RewroteSeen
  <2> HIDE DEF F, G
  <2>3. CASE fd_path[f] # {}
    <3>1. PICK p \in fd_path[f] : TRUE
      BY <2>3
    <3>2. p \in AllPaths /\ vfs_resolve(vnode, p) = n
      BY DEF FsInv, PathsOk, ReferencesFollowPaths, Write, n
    <3> QED BY <2>2, <3>1, <3>2 DEF WriteNamed, off, F, G
  <2>4. CASE fd_path[f] = {}
    BY <2>2, <2>4 DEF WriteNamed, off, F, G
  <2> QED BY <2>2, <2>3, <2>4
<1> QED BY <1>2, <1>3

LEMMA WriteStep ==
  ASSUME FsInv, NEW f \in Fds, NEW buf \in Contents, Write(f, buf) PROVE FsInv'
<1>1. PICK k \in 0 .. Len(buf) : kfds' = [kfds EXCEPT ![f] = [kfds[f] EXCEPT !.pos = kfds[f].pos + k]]
  BY DEF Write, SetFd
<1> DEFINE x == kfds[f].pos + k
<1>2. x \in Nat
  <2>1. kfds[f].pos \in Nat
    BY DEF FsInv, RefsOk, FdsNumbered
  <2> QED BY <2>1, ContentsFacts
<1>3. kfds' = [kfds EXCEPT ![f] = [kfds[f] EXCEPT !.pos = x]]
  BY <1>1
<1>4. UNCHANGED <<dh_table, fs_cwd, fd_path, dh_path, cwd_path>>
  BY DEF Write, fsPaths
<1> HIDE DEF x
<1> QED BY <1>2, <1>3, <1>4, WriteSeen, PosStep

-----------------------------------------------------------------------------
(* The other calls. *)

LEMMA CleanupStep == ASSUME FsInv, NEW pid, fd_cleanup_process(pid) PROVE FsInv'
<1> DEFINE c(f) == [kfds[f] EXCEPT !.used = FALSE, !.node = NoNode, !.owner_pid = NoNode]
<1>1. /\ kfds' = [f \in Fds |-> kfds'[f]]
      /\ \A f \in Fds : kfds'[f] = kfds[f] \/ kfds'[f] = c(f)
      /\ fd_path' = [f \in Fds |-> fd_path'[f]]
      /\ \A f \in Fds : fd_path'[f] = fd_path[f] \/ fd_path'[f] = {}
      /\ UNCHANGED <<vnode, dh_table, fs_cwd, dh_path, cwd_path>>
  BY DEF fd_cleanup_process
<1>2. \A f \in Fds : FdShape(kfds[f]) /\ (kfds[f].used => kfds[f].node \in NodeSlots)
                     /\ kfds[f].pos \in Nat
  BY DEF FsInv, RefsOk, FdsNumbered, FdsOk
<1>3. ASSUME NEW f \in Fds PROVE FdShape(c(f)) /\ c(f).used = FALSE /\ c(f).pos \in Nat
  <2> DEFINE r == kfds[f]
  <2>1. FdShape(r) /\ r.pos \in Nat
    BY <1>2
  <2> HIDE DEF r
  <2>2. LET d == [r EXCEPT !.used = FALSE, !.node = NoNode, !.owner_pid = NoNode]
        IN  FdShape(d) /\ d.used = FALSE /\ d.pos \in Nat
    BY <2>1, FdField, FdFieldPos
  <2> QED BY <2>2 DEF r
<1> HIDE DEF c
<1>4. \A f \in Fds : FdShape(kfds'[f]) /\ (kfds'[f].used => kfds'[f].node \in NodeSlots)
                     /\ kfds'[f].pos \in Nat
  BY <1>1, <1>2, <1>3
<1>5. RefsOk'
  BY <1>1, <1>4 DEF FsInv, RefsOk, FdsNumbered, FdsOk
<1>6. PathsOk'
  BY <1>1 DEF FsInv, PathsOk
<1>7. ReferencesFollowPaths'
  <2>1. ASSUME NEW f \in Fds, kfds'[f].used, NEW p \in fd_path'[f]
        PROVE  vfs_resolve(vnode', p) = kfds'[f].node
    <3>1. kfds'[f] = kfds[f] /\ fd_path'[f] = fd_path[f]
      BY <1>1, <1>3, <2>1
    <3> QED BY <1>1, <2>1, <3>1 DEF FsInv, ReferencesFollowPaths
  <2> QED BY <1>1, <2>1 DEF FsInv, ReferencesFollowPaths
<1> QED BY <1>1, <1>5, <1>6, <1>7 DEF FsInv, DataOk

\* Opendir and Chdir keep a node that was just resolved.
LEMMA ChdirStep == ASSUME FsInv, NEW p \in AllPaths, Chdir(p) PROVE FsInv'
<1>1. /\ vfs_resolve(vnode, p) # NoNode /\ fs_cwd' = vfs_resolve(vnode, p) /\ cwd_path' = {p}
      /\ UNCHANGED <<vnode, kfds, dh_table, fd_path, dh_path>>
  BY DEF Chdir
<1>2. fs_cwd' \in Nodes
  BY <1>1, PathResolves DEF FsInv
<1>3. RefsOk' /\ PathsOk'
  BY <1>1, <1>2 DEF FsInv, RefsOk, PathsOk
<1>4. ReferencesFollowPaths'
  BY <1>1 DEF FsInv, ReferencesFollowPaths
<1> QED BY <1>1, <1>3, <1>4 DEF FsInv, DataOk

\* A change of one handle.
LEMMA HandleStep ==
  ASSUME FsInv, NEW h \in Handles, NEW r, DhShape(r), r.node # NoNode => r.node \in Nodes,
         dh_table' = [dh_table EXCEPT ![h] = r], NEW P, P \subseteq AllPaths,
         dh_path' = [dh_path EXCEPT ![h] = P],
         r.node # NoNode => \A p \in P : vfs_resolve(vnode, p) = r.node,
         UNCHANGED <<vnode, kfds, fs_cwd, fd_path, cwd_path>>
  PROVE  FsInv'
<1>1. DhsOk(dh_table', Nodes)
  BY DhSet DEF FsInv, RefsOk
<1>2. \A e \in Handles : dh_table'[e] = IF e = h THEN r ELSE dh_table[e]
  <2>1. dh_table = [e \in Handles |-> dh_table[e]]
    BY DEF FsInv, RefsOk, DhsOk
  <2> QED BY <2>1
<1>3. /\ dh_path' = [e \in Handles |-> dh_path'[e]]
      /\ \A e \in Handles : dh_path'[e] = IF e = h THEN P ELSE dh_path[e]
  <2>1. dh_path = [e \in Handles |-> dh_path[e]]
    BY DEF FsInv, PathsOk
  <2> QED BY <2>1
<1>4. RefsOk' /\ PathsOk'
  <2>1. \A e \in Handles : dh_path'[e] \subseteq AllPaths
    BY <1>3 DEF FsInv, PathsOk
  <2> QED BY <1>1, <1>3, <2>1 DEF FsInv, RefsOk, PathsOk
<1>5. ReferencesFollowPaths'
  <2>1. \A e \in Handles : dh_table'[e].node # NoNode =>
          \A p \in dh_path'[e] : vfs_resolve(vnode, p) = dh_table'[e].node
    BY <1>2, <1>3 DEF FsInv, ReferencesFollowPaths
  <2> QED BY <2>1 DEF FsInv, ReferencesFollowPaths
<1> QED BY <1>4, <1>5 DEF FsInv, DataOk

LEMMA OpendirStep == ASSUME FsInv, NEW p \in AllPaths, Opendir(p) PROVE FsInv'
<1> DEFINE n == vfs_resolve(vnode, p)
           r == [node |-> n, idx |-> 0]
<1>1. /\ n # NoNode
      /\ \E h \in Handles : /\ dh_table' = [dh_table EXCEPT ![h] = r]
                            /\ dh_path' = [dh_path EXCEPT ![h] = {p}]
      /\ UNCHANGED <<vnode, kfds, fs_cwd, fd_path, cwd_path>>
  BY DEF Opendir
<1>2. PICK h \in Handles : /\ dh_table' = [dh_table EXCEPT ![h] = r]
                           /\ dh_path' = [dh_path EXCEPT ![h] = {p}]
  BY <1>1
<1> DEFINE P == {p}
<1>3. n \in Nodes /\ \A q \in P : vfs_resolve(vnode, q) = n
  BY <1>1, PathResolves DEF FsInv
<1> HIDE DEF n
<1>4. DhShape(r) /\ r.node = n
  BY DEF DhShape
<1>5. P \subseteq AllPaths /\ dh_path' = [dh_path EXCEPT ![h] = P]
  BY <1>2
<1> HIDE DEF r, P
<1>6. r.node # NoNode => r.node \in Nodes /\ \A q \in P : vfs_resolve(vnode, q) = r.node
  BY <1>3, <1>4
<1> QED BY <1>1, <1>2, <1>4, <1>5, <1>6, HandleStep

LEMMA ReaddirStep == ASSUME FsInv, NEW h \in Handles, Readdir(h) \/ Closedir(h) PROVE FsInv'
<1> DEFINE d == dh_table[h]
<1>1. DhShape(d) /\ (d.node # NoNode => d.node \in Nodes)
  BY DEF FsInv, RefsOk, DhsOk
<1>2. UNCHANGED <<vnode, kfds, fs_cwd, fd_path, cwd_path>>
  BY DEF Readdir, Closedir, fsPaths
<1>3. CASE Closedir(h)
  <2>1. DhShape(NoHandle) /\ NoHandle.node = NoNode
    BY DEF DhShape, NoHandle
  <2>2. dh_table' = [dh_table EXCEPT ![h] = NoHandle] /\ dh_path' = [dh_path EXCEPT ![h] = {}]
    BY <1>3 DEF Closedir
  <2> QED BY <1>2, <2>1, <2>2, HandleStep
<1>4. CASE Readdir(h)
  <2> DEFINE i == d.idx + 1
             r == [d EXCEPT !.idx = i]
  <2>1. dh_table' = [dh_table EXCEPT ![h] = r] /\ dh_path' = dh_path
    BY <1>4 DEF Readdir, fsPaths
  <2>a. dh_path' = [dh_path EXCEPT ![h] = dh_path[h]]
    <3>1. dh_path = [e \in Handles |-> dh_path[e]]
      BY DEF FsInv, PathsOk
    <3> QED BY <2>1, <3>1
  <2>b. /\ dh_path[h] \subseteq AllPaths
        /\ d.node # NoNode => \A p \in dh_path[h] : vfs_resolve(vnode, p) = d.node
    BY DEF FsInv, PathsOk, ReferencesFollowPaths
  <2>2. r = [d EXCEPT !.idx = i] /\ d = [node |-> d.node, idx |-> d.idx]
    BY <1>1 DEF DhShape
  <2> HIDE DEF i, r, d
  <2>3. r = [node |-> d.node, idx |-> i]
    BY <2>2
  <2>4. DhShape(r) /\ r.node = d.node
    BY <2>3 DEF DhShape
  <2> QED BY <1>1, <1>2, <2>1, <2>a, <2>b, <2>4, HandleStep
<1> QED BY <1>3, <1>4

LEMMA FsStep == FsInv /\ [FsNext]_fsVars => FsInv'
<1> SUFFICES ASSUME FsInv, [FsNext]_fsVars PROVE FsInv'
  OBVIOUS
<1>1. Sound(vnode) /\ DataOk(vnode)
  BY DEF FsInv
<1>2. CASE \E p \in Paths : Mkdir(p)
  <2>1. PICK p \in Paths : Mkdir(p)
    BY <1>2
  <2>2. Moves(vnode, vnode', {}) /\ UNCHANGED <<fsRefs, fsPaths>>
    BY <1>1, <2>1, MkdirSeen DEF Mkdir
  <2> QED BY <2>2, PathCallStep
<1>3. CASE \E p \in Paths : OpenNoFd(p)
  <2>1. PICK p \in Paths : OpenNoFd(p)
    BY <1>3
  <2>2. Moves(vnode, vnode', {}) /\ UNCHANGED <<fsRefs, fsPaths>>
    BY <1>1, <2>1, OpenNoFdSeen DEF OpenNoFd
  <2> QED BY <2>2, PathCallStep
<1>4. CASE \E p \in Paths, buf \in Contents : WriteFile(p, buf)
  <2>1. PICK p \in Paths, buf \in Contents : WriteFile(p, buf)
    BY <1>4
  <2>2. Moves(vnode, vnode', {}) /\ UNCHANGED <<fsRefs, fsPaths>>
    BY <1>1, <2>1, WriteFileSeen DEF WriteFile
  <2> QED BY <2>2, PathCallStep
<1>5. CASE \E p \in Paths : Delete(p)
  <2>1. PICK p \in Paths : Delete(p)
    BY <1>5
  <2>2. Moves(vnode, vnode', {p}) /\ Forget(p) /\ UNCHANGED fsRefs
    BY <1>1, <2>1, DeleteSeen DEF Delete
  <2> QED BY <2>2, ForgetStep
<1>6. CASE \E p, q \in Paths : Rename(p, q)
  <2>1. PICK p \in Paths, q \in Paths : Rename(p, q)
    BY <1>6
  <2>2. UNCHANGED fsRefs
    BY <2>1 DEF Rename
  <2>3. \/ Moves(vnode, vnode', {}) /\ UNCHANGED fsPaths
        \/ Moves(vnode, vnode', {p}) /\ Forget(p)
    BY <1>1, <2>1, RenameSeen
  <2> QED BY <2>2, <2>3, PathCallStep, ForgetStep
<1>7. CASE \E pid \in FsProcs, p \in Paths, creat, trunc, append \in BOOLEAN :
             Open(pid, p, creat, trunc, append)
  BY <1>7, OpenStep
<1>8. CASE \E f \in Fds : Close(f) \/ \E k \in 0 .. MaxSize : Read(f, k) \/ Seek(f, k)
  BY <1>8, CloseStep, ReadStep, SeekStep
<1>9. CASE \E f \in Fds, buf \in Contents : Write(f, buf)
  BY <1>9, WriteStep
<1>10. CASE \E pid \in FsProcs : fd_cleanup_process(pid)
  BY <1>10, CleanupStep
<1>11. CASE \E p \in Paths \cup {<<>>} : Opendir(p) \/ Chdir(p)
  BY <1>11, OpendirStep, ChdirStep DEF AllPaths
<1>12. CASE \E h \in Handles : Readdir(h) \/ Closedir(h)
  BY <1>12, ReaddirStep
<1>13. CASE UNCHANGED fsVars
  BY <1>13, SameMoves, PathCallStep DEF fsVars
<1> QED BY <1>2, <1>3, <1>4, <1>5, <1>6, <1>7, <1>8, <1>9, <1>10, <1>11, <1>12, <1>13
        DEF FsNext

LEMMA FsInitially == FsInit => FsInv
<1> SUFFICES ASSUME FsInit PROVE FsInv
  OBVIOUS
<1>1. vnode = [n \in Nodes |-> IF n = Root THEN RootNode ELSE FreeNode]
  BY DEF FsInit
<1>2. NodeShape(FreeNode) /\ FreeNode.type = "free" /\ FreeNode.children = <<>>
  BY DEF NodeShape, FreeNode
<1>3. NodeShape(RootNode) /\ RootNode.type = "VFS_DIRECTORY" /\ RootNode.children = <<>>
  <2> DEFINE f == FreeNode
             r == RootNode
             x == "VFS_DIRECTORY"
  <2>1. /\ f = [type |-> f.type, name |-> f.name, parent |-> f.parent,
                children |-> f.children, data |-> f.data] /\ f.children = <<>>
        /\ r = [f EXCEPT !.type = x] /\ x = "VFS_DIRECTORY"
    BY <1>2 DEF NodeShape, RootNode
  <2> HIDE DEF f, r, x
  <2>2. r = [type |-> x, name |-> f.name, parent |-> f.parent,
             children |-> f.children, data |-> f.data]
    BY <2>1, ZenonT(40)
  <2>3. NodeShape(r) /\ r.type = "VFS_DIRECTORY" /\ r.children = <<>>
    BY <2>1, <2>2 DEF NodeShape
  <2> QED BY <2>3 DEF r
<1>4. /\ vnode = [n \in Nodes |-> vnode[n]] /\ vnode[Root] = RootNode
      /\ \A n \in Nodes : n # Root => vnode[n] = FreeNode
  BY <1>1, NodeFacts
<1>5. LiveIn(vnode) = {Root}
  BY <1>2, <1>3, <1>4, NodeFacts DEF LiveIn
<1>6. \A n \in Nodes : NodeShape(vnode[n]) /\ vnode[n].children = <<>>
  BY <1>2, <1>3, <1>4
<1>7. <<>> \in Seq(NodeSlots) /\ DOMAIN <<>> = {}
  OBVIOUS
<1>8. Shaped(vnode)
  BY <1>3, <1>4, <1>6, <1>7 DEF Shaped
<1>9. Down(vnode) /\ Once(vnode) /\ Up(vnode)
  BY <1>5, <1>6, <1>7, NodeFacts DEF Down, Once, Up
<1>10. RefsOk
  <2>1. FdShape(NoFd) /\ NoFd.used = FALSE /\ NoFd.pos = 0
    BY DEF FdShape, NoFd
  <2>2. DhShape(NoHandle) /\ NoHandle.node = NoNode
    BY DEF DhShape, NoHandle
  <2>3. /\ kfds = [f \in Fds |-> NoFd] /\ dh_table = [h \in Handles |-> NoHandle]
        /\ fs_cwd = Root
    BY DEF FsInit
  <2> QED BY <2>1, <2>2, <2>3, NodeFacts DEF RefsOk, FdsNumbered, FdsOk, DhsOk
<1>11. DataOk(vnode)
  <2>1. FreeNode.data = <<>> /\ RootNode.data = <<>>
    BY DEF FreeNode, RootNode
  <2>2. \A m \in Nodes : vnode[m] = RootNode \/ vnode[m] = FreeNode
    BY DEF FsInit
  <2> QED BY <2>1, <2>2, ContentsFacts DEF DataOk
<1>12. PathsOk /\ ReferencesFollowPaths
  <2>1. /\ fd_path = [f \in Fds |-> {}] /\ dh_path = [h \in Handles |-> {}]
        /\ cwd_path = {<<>>} /\ fs_cwd = Root
    BY DEF FsInit
  <2>2. PathsOk
    BY <2>1 DEF PathsOk, AllPaths
  <2>3. ReferencesFollowPaths
    BY <2>1, ResolveRoot DEF ReferencesFollowPaths
  <2> QED BY <2>2, <2>3
<1> QED BY <1>5, <1>8, <1>9, <1>10, <1>11, <1>12 DEF FsInv, Sound

LEMMA FsAlways == FsSpec => []FsInv
<1> QED BY FsInitially, FsStep, PTL DEF FsSpec

\* At boot there is the root and nothing else.
LEMMA RootAlone == FsInit => Entries = {Ns!EmptyDir(<<>>)}
<1> SUFFICES ASSUME FsInit PROVE Entries = {Ns!EmptyDir(<<>>)}
  OBVIOUS
<1> DEFINE t == vnode
<1>1. Sound(t)
  BY FsInitially DEF FsInv
<1>2. t[Root] = RootNode /\ t[Root].children = <<>>
  <2>1. t[Root] = RootNode
    BY NodeFacts DEF FsInit
  <2>2. RootNode.children = <<>>
    BY DEF RootNode, FreeNode
  <2> QED BY <2>1, <2>2
<1>3. LiveIn(t) = {Root}
  <2>1. \A m \in Nodes \ {Root} : t[m].type = "free"
    BY DEF FsInit, FreeNode
  <2>2. t[Root].type # "free"
    BY <1>1 DEF Sound, Shaped
  <2> HIDE DEF t
  <2>3. \A m : m \in LiveIn(t) <=> m = Root
    BY <2>1, <2>2, NodeFacts DEF LiveIn
  <2> QED BY <2>3
<1>4. EntryAt(t, <<>>) = Ns!EmptyDir(<<>>)
  <2>1. RootNode.type = "VFS_DIRECTORY" /\ RootNode.data = <<>>
    BY DEF RootNode, FreeNode
  <2> QED BY <1>2, <2>1, ResolveRoot DEF EntryAt, Ns!EmptyDir, Ns!Entry
<1> HIDE DEF t
<1>5. ASSUME NEW p \in AllPaths, vfs_resolve(t, p) # NoNode PROVE p = <<>>
  <2>1. CASE p \in Paths
    <3>1. vfs_resolve(t, p) \in LiveIn(t) \ {Root}
      BY <1>1, <1>5, <2>1, ResolvedChild
    <3> QED BY <1>3, <3>1
  <2>2. CASE p \notin Paths
    BY <2>2, PathLen
  <2> QED BY <2>1, <2>2
<1>6. <<>> \in AllPaths /\ vfs_resolve(t, <<>>) # NoNode
  BY ResolveRoot, NodeFacts DEF AllPaths
<1>7. EntriesOf(t) = {EntryAt(t, <<>>)}
  <2>1. ASSUME NEW e PROVE e \in EntriesOf(t) <=> e = EntryAt(t, <<>>)
    BY <1>5, <1>6, EntryIn, EntryFields
  <2> QED BY <2>1
<1> QED BY <1>4, <1>7, EntriesAre DEF t

-----------------------------------------------------------------------------
(* Theorems. *)

\* In every tree that the calls of fs/vfs.c and fs/ramfs.c build, over any
\* number of nodes, names and path lengths and with any reuse of freed nodes,
\* parents and child arrays agree in both directions, siblings have different
\* names and no freed node is in an array; also when programs delete what is
\* open.
THEOREM TreeStaysSound == FsSpec => []TreeSound
<1>1. FsInv => TreeSound
  <2> SUFFICES ASSUME FsInv PROVE TreeSound
    OBVIOUS
  <2>1. LiveIn(vnode) = Live
    BY DEF LiveIn, Live
  <2>2. Down(vnode) /\ Once(vnode) /\ Up(vnode)
    BY DEF FsInv, Sound
  <2> QED BY <2>1, <2>2 DEF TreeSound, Down, Once, Up, Range
<1> QED BY <1>1, FsAlways, PTL

\* A descriptor of kfds, a handle of dh_table and the working directory have
\* the node that the path they were opened on leads to, until that very entry
\* is unlinked, removed or renamed: no other creation, deletion, rename or
\* reuse of a node's memory by fs/ramfs.c takes it from under them.
THEOREM ReferencesKeepFollowing == FsSpec => []ReferencesFollowPaths
<1>1. FsInv => ReferencesFollowPaths
  BY DEF FsInv
<1> QED BY <1>1, FsAlways, PTL

\* Seen through paths, the nodes, child arrays, descriptors and reused memory
\* of fs/ramfs.c, fs/vfs.c and the file calls of cpu/syscall.c are the map of
\* module Namespace, for any number of nodes, descriptors and names and any
\* depth: a call that names a path makes, fills, moves or removes the entry at
\* that path and no other, a write through a descriptor fills the entry the
\* descriptor was opened on, or at most one other once that was deleted, and
\* every other call changes no entry.
THEOREM TreeIsNamespace == FsSpec => ImplementsNamespace
<1>1. FsInit => Ns!NsInit(Entries)
  BY RootAlone DEF Ns!NsInit
<1>2. FsInv /\ [FsNext]_fsVars => [CallsDoAsNamed]_fsVars
  <2> SUFFICES ASSUME FsInv PROVE CallsDoAsNamed
    OBVIOUS
  <2> DEFINE F == EntriesOf(vnode)
             G == EntriesOf(vnode')
  <2>0. Entries = F /\ Entries' = G
    BY EntriesAre
  <2>1. Sound(vnode) /\ DataOk(vnode)
    BY DEF FsInv
  <2>2. ASSUME NEW p \in Paths
        PROVE  /\ Mkdir(p) => Ns!MakeDir(F, G, p)
               /\ Delete(p) => Ns!Remove(F, G, p)
               /\ OpenNoFd(p) => Ns!MakeFile(F, G, p)
               /\ \A buf \in Contents : WriteFile(p, buf) => Ns!Fill(F, G, p, buf)
               /\ \A q \in Paths : Rename(p, q) => Ns!Move(F, G, p, q)
               /\ \A pid \in FsProcs, creat, trunc, append \in BOOLEAN :
                    Open(pid, p, creat, trunc, append) => Ns!OpenAt(F, G, p, creat, trunc)
    <3>1. Mkdir(p) => Ns!MakeDir(F, G, p)
      BY <2>1, MkdirSeen
    <3>2. Delete(p) => Ns!Remove(F, G, p)
      BY <2>1, DeleteSeen
    <3>3. OpenNoFd(p) => Ns!MakeFile(F, G, p)
      BY <2>1, OpenNoFdSeen
    <3>4. \A buf \in Contents : WriteFile(p, buf) => Ns!Fill(F, G, p, buf)
      BY <2>1, WriteFileSeen
    <3>5. \A q \in Paths : Rename(p, q) => Ns!Move(F, G, p, q)
      BY <2>1, RenameSeen
    <3>6. \A pid \in FsProcs, creat, trunc, append \in BOOLEAN :
            Open(pid, p, creat, trunc, append) => Ns!OpenAt(F, G, p, creat, trunc)
      BY <2>1, OpenSeen
    <3> QED BY <3>1, <3>2, <3>3, <3>4, <3>5, <3>6
  <2>3. ASSUME NEW fd \in Fds, NEW buf \in Contents, Write(fd, buf)
        PROVE  WriteNamed(F, G, fd, buf)
    BY <2>3, WriteSeen
  <2>4. ASSUME \/ \E fd \in Fds : Close(fd) \/ \E k \in 0 .. MaxSize : Read(fd, k) \/ Seek(fd, k)
               \/ \E p \in Paths \cup {<<>>} : Opendir(p) \/ Chdir(p)
               \/ \E pid \in FsProcs : fd_cleanup_process(pid)
               \/ \E h \in Handles : Readdir(h) \/ Closedir(h)
        PROVE  G = F
    <3>1. vnode' = vnode
      BY <2>4 DEF Opendir, Chdir, Close, Read, Seek, fd_cleanup_process, Readdir, Closedir
    <3> QED BY <3>1
  <2> HIDE DEF F, G
  <2>5. PathCalls(F, G)
    BY <2>2 DEF PathCalls
  <2>6. Writes(F, G)
    BY <2>3 DEF Writes, WriteNamed
  <2>7. OtherCalls(F, G)
    BY <2>4 DEF OtherCalls
  <2> QED BY <2>0, <2>5, <2>6, <2>7 DEF CallsDoAsNamed
<1> QED BY <1>1, <1>2, FsAlways, PTL DEF FsSpec, ImplementsNamespace
=============================================================================
