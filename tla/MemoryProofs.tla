---------------------------- MODULE MemoryProofs ----------------------------
(***************************************************************************)
(* Proofs about the two allocators of mm/.                                 *)
(*                                                                         *)
(* AddressSpace, for every number of frames, slots, forks and pages: the   *)
(* bitmap of mm/pmm.c holds exactly what somebody owns.                    *)
(*                                                                         *)
(* Kheap, for every size of the arena and of the headers and every set of  *)
(* request sizes: the block list of mm/kheap.c is the arena, and every     *)
(* pointer handed out has its block.  A call of the heap changes the list in *)
(* several steps (split, claim, merge), so the invariant is stated of a table *)
(* of blocks and followed from one table to the next; it adds to the       *)
(* properties that the free list is merged except at most where the call is *)
(* at work.                                                                *)
(***************************************************************************)
EXTENDS AddressSpace, Kheap, FiniteSetTheorems, WellFoundedInduction, TLAPS

-----------------------------------------------------------------------------
(* The page allocator. *)

\* A frame number as the set of frames it names: 0 names none.
Some(f) == {f} \ {0}

DirsOf(pd) == {pd[s] : s \in Slots} \ {0}

\* The bitmap bm is accounted for by directories pd and lost frames ff.
Accounted(bm, pd, ff) ==
  /\ bm = Reserved \cup DirsOf(pd) \cup ff
  /\ \A s, t \in Slots : pd[s] # 0 /\ pd[s] = pd[t] => s = t
  /\ DirsOf(pd) \cap (Reserved \cup ff) = {}

\* A bitmap and its counter as pmm.c keeps them.
GoodPmm(m) ==
  /\ m = [bm |-> m.bm, n |-> m.n]
  /\ m.bm \subseteq Frames /\ Reserved \subseteq m.bm
  /\ m.n = Cardinality(m.bm)

AsInv == AsTypeOK /\ FramesCounted /\ FramesAccounted /\ DirsUnshared

-----------------------------------------------------------------------------
(* The constants, and searches for the lowest. *)

LEMMA FrameFacts ==
  /\ total_frames \in Nat /\ reserved \in 1 .. total_frames
  /\ IsFiniteSet(Frames) /\ Frames \subseteq Nat
  /\ Reserved \subseteq Frames /\ 0 \in Reserved /\ 0 \in Frames
  /\ Slots \subseteq Nat /\ 0 \notin Slots
<1>1. total_frames \in Nat /\ reserved \in 1 .. total_frames /\ AsSlots \in Nat
  BY AddressSpaceConstants
<1>2. total_frames - 1 \in Int /\ 0 \in Int
  BY <1>1
<1>3. IsFiniteSet(Frames)
  BY <1>2, FS_Interval DEF Frames
<1> QED BY <1>1, <1>3 DEF Frames, Reserved, Slots

LEMMA LeastOf ==
  ASSUME NEW S \in SUBSET Nat, S # {}
  PROVE  \E x \in S : \A y \in S : x <= y
<1> DEFINE R == {ss \in Nat \X Nat : ss[1] < ss[2]}
<1>1. IsWellFoundedOn(R, Nat)
  BY NatLessThanWellFounded DEF OpToRel
<1>2. \E x \in S : \A y \in S : <<y, x>> \notin R
  <2> HIDE DEF R
  <2> QED BY <1>1, WFMin
<1>3. \A x, y \in S : <<y, x>> \notin R => x <= y
  OBVIOUS
<1> QED BY <1>2, <1>3

LEMMA NewSlotFacts == NewSlot \in Slots \cup {0}
<1>1. ASSUME NEW S \in SUBSET Slots, S # {} PROVE FirstOf(S) \in Slots
  <2>1. S \in SUBSET Nat
    BY FrameFacts
  <2>2. \E x \in S : \A y \in S : x <= y
    BY <1>1, <2>1, LeastOf
  <2> QED BY <2>2 DEF FirstOf
<1>2. Zombies \in SUBSET Slots /\ Unused \in SUBSET Slots
  BY DEF Zombies, Unused
<1> QED BY <1>1, <1>2 DEF NewSlot

\* What the search of pmm_alloc_frame finds is free, or the zero of failure.
LEMMA NextFrameFacts ==
  ASSUME NEW m, GoodPmm(m)
  PROVE  /\ NextFrame(m) \in Frames
         /\ NextFrame(m) # 0 => NextFrame(m) \notin m.bm
         /\ NextFrame(m) = 0 <=> FreeFrames(m) = {}
<1>1. FreeFrames(m) \in SUBSET Nat /\ 0 \notin FreeFrames(m)
  BY FrameFacts DEF FreeFrames, GoodPmm
<1>2. CASE FreeFrames(m) = {}
  BY <1>2, FrameFacts DEF NextFrame
<1>3. CASE FreeFrames(m) # {}
  <2>1. \E f \in FreeFrames(m) : \A g \in FreeFrames(m) : f <= g
    BY <1>1, <1>3, LeastOf
  <2>2. NextFrame(m) \in FreeFrames(m)
    BY <1>3, <2>1 DEF NextFrame
  <2> QED BY <1>1, <1>3, <2>2 DEF FreeFrames
<1> QED BY <1>2, <1>3

-----------------------------------------------------------------------------
(* pmm.c keeps a good bitmap good. *)

LEMMA GoodPmmOf ==
  ASSUME NEW b, NEW k, b \subseteq Frames, Reserved \subseteq b, k = Cardinality(b)
  PROVE  GoodPmm([bm |-> b, n |-> k])
  BY DEF GoodPmm

LEMMA AllocFacts ==
  ASSUME NEW m, GoodPmm(m)
  PROVE  /\ GoodPmm(pmm_alloc_frame(m))
         /\ pmm_alloc_frame(m).bm = m.bm \cup Some(NextFrame(m))
<1> DEFINE f == NextFrame(m)
<1>1. f \in Frames /\ (f # 0 => f \notin m.bm) /\ (f = 0 <=> FreeFrames(m) = {})
  BY NextFrameFacts
<1>2. CASE f = 0
  <2>1. pmm_alloc_frame(m) = m
    BY <1>1, <1>2 DEF pmm_alloc_frame
  <2> QED BY <1>2, <2>1 DEF Some
<1>3. CASE f # 0
  <2>1. pmm_alloc_frame(m) = [bm |-> m.bm \cup {f}, n |-> m.n + 1]
    BY <1>1, <1>3 DEF pmm_alloc_frame
  <2>2. IsFiniteSet(m.bm)
    BY FrameFacts, FS_Subset DEF GoodPmm
  <2>3. Cardinality(m.bm \cup {f}) = m.n + 1
    BY <1>1, <1>3, <2>2, FS_AddElement DEF GoodPmm
  <2>4. {f} = Some(f)
    BY <1>3 DEF Some
  <2> HIDE DEF f
  <2>5. m.bm \cup {f} \subseteq Frames /\ Reserved \subseteq m.bm \cup {f}
    BY <1>1 DEF GoodPmm
  <2>6. GoodPmm([bm |-> m.bm \cup {f}, n |-> m.n + 1])
    BY <2>3, <2>5, GoodPmmOf
  <2> QED BY <2>1, <2>4, <2>6 DEF f
<1> QED BY <1>2, <1>3

LEMMA FreeFacts ==
  ASSUME NEW m, GoodPmm(m), NEW f \in Frames, f \notin Reserved
  PROVE  /\ GoodPmm(pmm_free_frame(m, f))
         /\ pmm_free_frame(m, f).bm = m.bm \ {f}
<1>1. CASE f \notin m.bm
  <2>1. pmm_free_frame(m, f) = m /\ m.bm \ {f} = m.bm
    BY <1>1 DEF pmm_free_frame
  <2> QED BY <2>1
<1>2. CASE f \in m.bm
  <2>1. IsFiniteSet(m.bm)
    BY FrameFacts, FS_Subset DEF GoodPmm
  <2>2. Cardinality(m.bm) \in Nat
    BY <2>1, FS_CardinalityType
  <2>3. Cardinality(m.bm) # 0
    BY <1>2, <2>1, FS_EmptySet
  <2>4. Cardinality(m.bm \ {f}) = Cardinality(m.bm) - 1
    BY <1>2, <2>1, FS_RemoveElement
  <2>5. m.n > 0 /\ m.n - 1 = Cardinality(m.bm \ {f})
    BY <2>2, <2>3, <2>4 DEF GoodPmm
  <2>6. pmm_free_frame(m, f) = [bm |-> m.bm \ {f}, n |-> m.n - 1]
    BY <1>2, <2>5 DEF pmm_free_frame
  <2> QED BY <2>5, <2>6 DEF GoodPmm
<1> QED BY <1>1, <1>2

LEMMA FreeDirFacts ==
  ASSUME NEW m, GoodPmm(m), NEW pd \in Frames, pd # 0 => pd \notin Reserved
  PROVE  /\ GoodPmm(FreeDir(m, pd))
         /\ FreeDir(m, pd).bm = m.bm \ Some(pd)
<1>1. CASE pd = 0
  BY <1>1 DEF FreeDir, Some
<1>2. CASE pd # 0
  <2>1. Some(pd) = {pd} /\ FreeDir(m, pd) = pmm_free_frame(m, pd)
    BY <1>2 DEF Some, FreeDir
  <2> QED BY <1>2, <2>1, FreeFacts
<1> QED BY <1>1, <1>2

LEMMA CopyFacts ==
  ASSUME NEW m, GoodPmm(m), NEW t \in [Pages -> Frames]
  PROVE  /\ GoodPmm(vmm_copy_region(m, t).m)
         /\ vmm_copy_region(m, t).m.bm = m.bm \cup Copies(m)
         /\ vmm_copy_region(m, t).t \in [Pages -> Frames]
         /\ Copies(m) \subseteq Frames /\ Copies(m) \cap m.bm = {}
<1>1. Copies(m) \subseteq Frames /\ Copies(m) \cap m.bm = {}
  BY DEF Copies, FreeFrames
<1>2. IsFiniteSet(m.bm) /\ IsFiniteSet(Copies(m))
  BY <1>1, FrameFacts, FS_Subset DEF GoodPmm
<1>3. Cardinality(m.bm \cup Copies(m)) = Cardinality(m.bm) + Cardinality(Copies(m))
  <2>1. m.bm \cap Copies(m) = {}
    BY <1>1
  <2>2. /\ Cardinality(m.bm) \in Nat /\ Cardinality(Copies(m)) \in Nat
        /\ Cardinality({}) = 0
    BY <1>2, FS_CardinalityType, FS_EmptySet
  <2>3. Cardinality(m.bm \cup Copies(m)) =
          Cardinality(m.bm) + Cardinality(Copies(m)) - Cardinality(m.bm \cap Copies(m))
    BY <1>2, FS_Union
  <2>4. Cardinality(m.bm \cap Copies(m)) = 0
    BY <2>1, <2>2
  <2> QED BY <2>2, <2>3, <2>4
<1>4. vmm_copy_region(m, t).m
        = [bm |-> m.bm \cup Copies(m), n |-> m.n + Cardinality(Copies(m))]
  BY DEF vmm_copy_region
<1>5. GoodPmm(vmm_copy_region(m, t).m)
  BY <1>1, <1>3, <1>4 DEF GoodPmm
<1>6. ASSUME NEW v \in Pages
      PROVE  (IF CopyOf(m, v) = {} THEN t[v] ELSE CHOOSE f \in CopyOf(m, v) : TRUE)
               \in Frames
  BY <1>1 DEF CopyOf
<1>7. vmm_copy_region(m, t).t \in [Pages -> Frames]
  BY <1>6 DEF vmm_copy_region
<1> QED BY <1>1, <1>4, <1>5, <1>7

-----------------------------------------------------------------------------
(* Who owns what. *)

LEMMA DropDir ==
  ASSUME NEW bm, NEW pd \in [Slots -> Frames], NEW ff, NEW s \in Slots,
         Accounted(bm, pd, ff)
  PROVE  /\ Accounted(bm \ Some(pd[s]), [pd EXCEPT ![s] = 0], ff)
         /\ pd[s] # 0 => pd[s] \in bm /\ pd[s] \notin Reserved
<1> DEFINE qd == [pd EXCEPT ![s] = 0]
<1>1. qd[s] = 0 /\ \A t \in Slots : t # s => qd[t] = pd[t]
  OBVIOUS
<1>2. DirsOf(qd) = DirsOf(pd) \ Some(pd[s])
  <2> HIDE DEF qd
  <2> QED BY <1>1 DEF DirsOf, Some, Accounted
<1>3. Some(pd[s]) \subseteq DirsOf(pd)
  BY DEF Some, DirsOf
<1>4. \A a, b \in Slots : qd[a] # 0 /\ qd[a] = qd[b] => a = b
  <2> HIDE DEF qd
  <2> QED BY <1>1 DEF Accounted
<1> HIDE DEF qd
<1>5. Accounted(bm \ Some(pd[s]), qd, ff)
  BY <1>2, <1>3, <1>4 DEF Accounted
<1>6. pd[s] # 0 => pd[s] \in DirsOf(pd)
  BY DEF DirsOf
<1>7. pd[s] # 0 => pd[s] \in bm /\ pd[s] \notin Reserved
  BY <1>6 DEF Accounted
<1> QED BY <1>5, <1>7 DEF qd

LEMMA PutDir ==
  ASSUME NEW bm, NEW pd \in [Slots -> Frames], NEW ff, NEW s \in Slots,
         Accounted(bm, pd, ff), pd[s] = 0, NEW f \in Frames, f # 0 => f \notin bm
  PROVE  Accounted(bm \cup Some(f), [pd EXCEPT ![s] = f], ff)
<1> DEFINE qd == [pd EXCEPT ![s] = f]
<1>1. qd[s] = f /\ \A t \in Slots : t # s => qd[t] = pd[t]
  OBVIOUS
<1> HIDE DEF qd
<1>2. DirsOf(qd) = DirsOf(pd) \cup Some(f)
  BY <1>1 DEF DirsOf, Some
<1>3. \A t \in Slots : pd[t] # 0 => pd[t] \in bm
  BY DEF DirsOf, Accounted
<1>4. \A a, b \in Slots : qd[a] # 0 /\ qd[a] = qd[b] => a = b
  BY <1>1, <1>3 DEF Accounted
<1>5. Some(f) \cap (Reserved \cup ff) = {}
  BY DEF Accounted, Some
<1>6. Accounted(bm \cup Some(f), qd, ff)
  BY <1>2, <1>4, <1>5 DEF Accounted
<1> QED BY <1>6 DEF qd

LEMMA LoseFrames ==
  ASSUME NEW bm, NEW pd, NEW ff, NEW F, Accounted(bm, pd, ff), F \cap bm = {}
  PROVE  Accounted(bm \cup F, pd, ff \cup F)
<1>1. DirsOf(pd) \subseteq bm
  BY DEF Accounted
<1> QED BY <1>1 DEF Accounted

\* process_create: the old directory of the slot is given back, a new one taken.
LEMMA CreatedFacts ==
  ASSUME NEW m, GoodPmm(m), AsTypeOK, NewSlot # 0,
         page_dir[NewSlot] # 0 => page_dir[NewSlot] \notin Reserved
  PROVE  /\ NewSlot \in Slots /\ GoodPmm(Created(m).m)
         /\ Created(m).m.bm =
              (m.bm \ Some(page_dir[NewSlot])) \cup Some(Created(m).pd)
         /\ Created(m).pd \in Frames
         /\ Created(m).pd # 0 => Created(m).pd \notin m.bm \ Some(page_dir[NewSlot])
<1> DEFINE m1 == FreeDir(m, page_dir[NewSlot])
<1>1. NewSlot \in Slots
  BY NewSlotFacts
<1>2. page_dir[NewSlot] \in Frames
  BY <1>1 DEF AsTypeOK
<1>3. GoodPmm(m1) /\ m1.bm = m.bm \ Some(page_dir[NewSlot])
  BY <1>2, FreeDirFacts
<1>4. Created(m) = [m |-> pmm_alloc_frame(m1), pd |-> NextFrame(m1)]
  BY DEF Created
<1> HIDE DEF m1
<1>5. /\ NextFrame(m1) \in Frames
      /\ NextFrame(m1) # 0 => NextFrame(m1) \notin m1.bm
  BY <1>3, NextFrameFacts
<1>6. GoodPmm(pmm_alloc_frame(m1)) /\ pmm_alloc_frame(m1).bm = m1.bm \cup Some(NextFrame(m1))
  BY <1>3, AllocFacts
<1> QED BY <1>1, <1>3, <1>4, <1>5, <1>6

-----------------------------------------------------------------------------
(* The invariant in the form of these lemmas. *)

LEMMA AsInvParts ==
  ASSUME AsInv
  PROVE  /\ AsTypeOK /\ GoodPmm(pmm)
         /\ pmm.bm = frame_bitmap /\ page_dir \in [Slots -> Frames]
         /\ Accounted(frame_bitmap, page_dir, fork_frames)
<1>1. pmm.bm = frame_bitmap /\ pmm.n = used_frames /\ pmm = [bm |-> pmm.bm, n |-> pmm.n]
  BY DEF pmm
<1>2. Accounted(frame_bitmap, page_dir, fork_frames)
  BY DEF AsInv, FramesAccounted, DirsUnshared, Dirs, DirsOf, Accounted
<1>3. Reserved \subseteq frame_bitmap
  BY <1>2 DEF Accounted
<1> QED BY <1>1, <1>2, <1>3 DEF AsInv, AsTypeOK, FramesCounted, GoodPmm

LEMMA AsInvFrom ==
  ASSUME NEW m, GoodPmm(m), frame_bitmap' = m.bm, used_frames' = m.n,
         Accounted(m.bm, page_dir', fork_frames'),
         page_tables' \in [Pages -> Frames], page_dir' \in [Slots -> Frames],
         as_state' \in [Slots -> {"none", "live", "zombie"}],
         as_cur' \in Slots \cup {0}, forks' \in 0 .. MaxForks
  PROVE  AsInv'
<1>1. fork_frames' \subseteq Frames
  BY DEF Accounted, GoodPmm
<1>2. used_frames' = Cardinality(frame_bitmap') /\ frame_bitmap' \subseteq Frames
  BY DEF GoodPmm
<1>3. used_frames' \in Nat
  <2>1. IsFiniteSet(frame_bitmap')
    BY <1>2, FrameFacts, FS_Subset
  <2> QED BY <1>2, <2>1, FS_CardinalityType
<1>4. AsTypeOK'
  BY <1>1, <1>2, <1>3 DEF AsTypeOK
<1>5. FramesAccounted' /\ DirsUnshared'
  BY DEF FramesAccounted, DirsUnshared, Dirs, DirsOf, Accounted
<1> QED BY <1>2, <1>4, <1>5 DEF AsInv, FramesCounted

LEMMA AsInvInit == AsInit => AsInv
<1> SUFFICES ASSUME AsInit PROVE AsInv
  OBVIOUS
<1>1. total_frames \in Nat /\ reserved \in 1 .. total_frames
  BY FrameFacts
<1>2. Cardinality(Reserved) = reserved /\ reserved \in Nat
  <2>1. 0 \in Int /\ reserved - 1 \in Int /\ ~(0 > reserved - 1)
    BY <1>1
  <2>2. Cardinality(0 .. (reserved - 1)) = reserved - 1 - 0 + 1
    BY <2>1, FS_Interval
  <2> QED BY <1>1, <2>2 DEF Reserved
<1>3. Pages \subseteq Frames
  <2>1. UserPages \in Seq(Frames)
    BY AddressSpaceConstants DEF Frames
  <2> QED BY <2>1 DEF Pages
<1>4. Dirs = {}
  BY DEF AsInit, Dirs
<1>5. MaxForks \in Nat
  BY AddressSpaceConstants
<1>6. AsTypeOK
  BY <1>2, <1>3, <1>5, FrameFacts DEF AsInit, AsTypeOK
<1>7. FramesCounted
  BY <1>2 DEF AsInit, FramesCounted
<1>8. FramesAccounted
  BY <1>4 DEF AsInit, FramesAccounted
<1>9. DirsUnshared
  BY <1>4 DEF AsInit, DirsUnshared
<1> QED BY <1>6, <1>7, <1>8, <1>9 DEF AsInv

-----------------------------------------------------------------------------
(* The steps. *)

LEMMA ProcessCreateInv ==
  ASSUME AsInv, ProcessCreate
  PROVE  AsInv'
<1> DEFINE s == NewSlot
           old == page_dir[s]
           new == Created(pmm)
<1>1. /\ AsTypeOK /\ GoodPmm(pmm) /\ pmm.bm = frame_bitmap
      /\ page_dir \in [Slots -> Frames]
      /\ Accounted(frame_bitmap, page_dir, fork_frames)
  BY AsInvParts
<1>2. s # 0 /\ s \in Slots
  BY NewSlotFacts DEF ProcessCreate
<1>3. /\ Accounted(frame_bitmap \ Some(old), [page_dir EXCEPT ![s] = 0], fork_frames)
      /\ old # 0 => old \notin Reserved
  BY <1>1, <1>2, DropDir
<1>4. /\ GoodPmm(new.m) /\ new.pd \in Frames
      /\ new.m.bm = (frame_bitmap \ Some(old)) \cup Some(new.pd)
      /\ new.pd # 0 => new.pd \notin frame_bitmap \ Some(old)
  BY <1>1, <1>2, <1>3, CreatedFacts
<1>5. /\ frame_bitmap' = new.m.bm /\ used_frames' = new.m.n
      /\ page_dir' = [page_dir EXCEPT ![s] = new.pd]
      /\ as_state' = [as_state EXCEPT ![s] = "live"]
      /\ UNCHANGED <<page_tables, as_cur, forks, fork_frames>>
  BY DEF ProcessCreate, SetPmm
<1> HIDE DEF s, new, old
<1>6. Accounted(new.m.bm, page_dir', fork_frames)
  <2> DEFINE qd == [page_dir EXCEPT ![s] = 0]
  <2>1. qd \in [Slots -> Frames] /\ qd[s] = 0 /\ [qd EXCEPT ![s] = new.pd] = page_dir'
    BY <1>1, <1>2, <1>5, FrameFacts
  <2>2. Accounted(frame_bitmap \ Some(old), qd, fork_frames)
    BY <1>3
  <2> HIDE DEF qd
  <2>3. Accounted((frame_bitmap \ Some(old)) \cup Some(new.pd),
                  [qd EXCEPT ![s] = new.pd], fork_frames)
    BY <1>2, <1>4, <2>1, <2>2, PutDir
  <2> QED BY <1>4, <2>1, <2>3
<1>7. /\ page_dir' \in [Slots -> Frames]
      /\ as_state' \in [Slots -> {"none", "live", "zombie"}]
      /\ page_tables' \in [Pages -> Frames] /\ as_cur' \in Slots \cup {0}
      /\ forks' \in 0 .. MaxForks
  BY <1>1, <1>4, <1>5 DEF AsTypeOK
<1> QED BY <1>4, <1>5, <1>6, <1>7, AsInvFrom

LEMMA ProcessExitInv ==
  ASSUME AsInv, NEW t \in Slots \cup {0}, ProcessExit(t)
  PROVE  AsInv'
<1> DEFINE s == as_cur
           m == FreeDir(pmm, page_dir[s])
<1>1. /\ AsTypeOK /\ GoodPmm(pmm) /\ pmm.bm = frame_bitmap
      /\ page_dir \in [Slots -> Frames]
      /\ Accounted(frame_bitmap, page_dir, fork_frames)
  BY AsInvParts
<1>2. s \in Slots
  BY <1>1 DEF AsTypeOK, ProcessExit
<1>3. /\ Accounted(frame_bitmap \ Some(page_dir[s]), [page_dir EXCEPT ![s] = 0],
                   fork_frames)
      /\ page_dir[s] # 0 => page_dir[s] \notin Reserved
  BY <1>1, <1>2, DropDir
<1>4. page_dir[s] \in Frames
  BY <1>1, <1>2
<1>5. GoodPmm(m) /\ m.bm = frame_bitmap \ Some(page_dir[s])
  BY <1>1, <1>3, <1>4, FreeDirFacts
<1>6. /\ frame_bitmap' = m.bm /\ used_frames' = m.n
      /\ page_dir' = [page_dir EXCEPT ![s] = 0]
      /\ as_state' = [as_state EXCEPT ![s] = "zombie"] /\ as_cur' = t
      /\ UNCHANGED <<page_tables, forks, fork_frames>>
  BY DEF ProcessExit, SetPmm
<1>7. /\ page_dir' \in [Slots -> Frames]
      /\ as_state' \in [Slots -> {"none", "live", "zombie"}]
      /\ page_tables' \in [Pages -> Frames] /\ as_cur' \in Slots \cup {0}
      /\ forks' \in 0 .. MaxForks
  BY <1>1, <1>6, FrameFacts DEF AsTypeOK
<1>8. Accounted(m.bm, page_dir', fork_frames')
  BY <1>3, <1>5, <1>6
<1> HIDE DEF m, s
<1> QED BY <1>5, <1>6, <1>7, <1>8, AsInvFrom

\* Steps that change no frame and no directory.
LEMMA SameFramesInv ==
  ASSUME AsInv, UNCHANGED <<frame_bitmap, used_frames, page_dir, fork_frames>>,
         page_tables' \in [Pages -> Frames],
         as_state' \in [Slots -> {"none", "live", "zombie"}],
         as_cur' \in Slots \cup {0}, forks' \in 0 .. MaxForks
  PROVE  AsInv'
<1>1. /\ GoodPmm(pmm) /\ pmm.bm = frame_bitmap /\ page_dir \in [Slots -> Frames]
      /\ Accounted(frame_bitmap, page_dir, fork_frames)
  BY AsInvParts
<1>2. frame_bitmap' = pmm.bm /\ used_frames' = pmm.n
  BY DEF pmm
<1>3. Accounted(pmm.bm, page_dir', fork_frames') /\ page_dir' \in [Slots -> Frames]
  BY <1>1
<1> QED BY <1>1, <1>2, <1>3, AsInvFrom

\* fork with and without a slot for the child.
LEMMA ProcessForkInv ==
  ASSUME AsInv, ProcessFork
  PROVE  AsInv'
<1> DEFINE s == NewSlot
           dir == NextFrame(pmm)
           m1 == pmm_alloc_frame(pmm)
           c == vmm_copy_region(m1, page_tables)
           F == Copies(m1)
           new == Created(c.m)
           old == page_dir[s]
<1>1. /\ AsTypeOK /\ GoodPmm(pmm) /\ pmm.bm = frame_bitmap
      /\ page_dir \in [Slots -> Frames]
      /\ Accounted(frame_bitmap, page_dir, fork_frames)
  BY AsInvParts
<1>2. /\ dir # 0 /\ forks < MaxForks /\ forks' = forks + 1 /\ page_tables' = c.t
      /\ as_cur' = as_cur
      /\ s = 0 => /\ frame_bitmap' = pmm_free_frame(c.m, dir).bm
                  /\ used_frames' = pmm_free_frame(c.m, dir).n
                  /\ fork_frames' = fork_frames \cup F
                  /\ page_dir' = page_dir /\ as_state' = as_state
      /\ s # 0 => /\ frame_bitmap' = new.m.bm /\ used_frames' = new.m.n
                  /\ fork_frames' = fork_frames \cup F
                                      \cup (IF new.pd = 0 THEN {} ELSE {new.pd})
                  /\ page_dir' = [page_dir EXCEPT ![s] = dir]
                  /\ as_state' = [as_state EXCEPT ![s] = "live"]
  BY DEF ProcessFork, SetPmm, ChildDir
<1>3. dir \in Frames /\ dir \notin frame_bitmap
  BY <1>1, <1>2, NextFrameFacts
<1>4. GoodPmm(m1) /\ m1.bm = frame_bitmap \cup {dir}
  BY <1>1, <1>2, AllocFacts DEF Some
<1>5. page_tables \in [Pages -> Frames]
  BY <1>1 DEF AsTypeOK
<1> HIDE DEF m1, dir, s
<1>6. /\ GoodPmm(c.m) /\ c.m.bm = m1.bm \cup F /\ c.t \in [Pages -> Frames]
      /\ F \subseteq Frames /\ F \cap m1.bm = {}
  BY <1>4, <1>5, CopyFacts
<1> HIDE DEF c, F
<1>7. /\ page_tables' \in [Pages -> Frames] /\ as_cur' \in Slots \cup {0}
      /\ forks' \in 0 .. MaxForks
  <2>1. forks' \in 0 .. MaxForks
    BY <1>1, <1>2, AddressSpaceConstants DEF AsTypeOK
  <2> QED BY <1>1, <1>2, <1>6, <2>1 DEF AsTypeOK
<1>8. F \cap frame_bitmap = {} /\ dir \notin F
  BY <1>4, <1>6
<1>9. Accounted(frame_bitmap \cup F, page_dir, fork_frames \cup F)
  BY <1>1, <1>8, LoseFrames
<1>10. CASE s = 0
  <2> DEFINE m2 == pmm_free_frame(c.m, dir)
  <2>1. dir \notin Reserved
    BY <1>1, <1>3 DEF Accounted
  <2>2. GoodPmm(m2) /\ m2.bm = c.m.bm \ {dir}
    BY <1>3, <1>6, <2>1, FreeFacts
  <2>3. m2.bm = frame_bitmap \cup F
    BY <1>3, <1>4, <1>6, <1>8, <2>2
  <2>4. Accounted(m2.bm, page_dir', fork_frames')
    BY <1>2, <1>9, <1>10, <2>3
  <2>5. /\ page_dir' \in [Slots -> Frames]
        /\ as_state' \in [Slots -> {"none", "live", "zombie"}]
        /\ frame_bitmap' = m2.bm /\ used_frames' = m2.n
    BY <1>1, <1>2, <1>10 DEF AsTypeOK
  <2> HIDE DEF m2
  <2> QED BY <1>7, <2>2, <2>4, <2>5, AsInvFrom
<1>11. CASE s # 0
  <2>1. s \in Slots
    BY <1>11, NewSlotFacts DEF s
  <2>2. old \in Frames /\ (old # 0 => old \in frame_bitmap /\ old \notin Reserved)
    BY <1>1, <2>1, DropDir
  <2>3. /\ GoodPmm(new.m) /\ new.pd \in Frames
        /\ new.m.bm = (c.m.bm \ Some(old)) \cup Some(new.pd)
        /\ new.pd # 0 => new.pd \notin c.m.bm \ Some(old)
    BY <1>1, <1>6, <1>11, <2>2, CreatedFacts DEF s
  <2>4. Some(new.pd) = IF new.pd = 0 THEN {} ELSE {new.pd}
    BY DEF Some
  <2> DEFINE qd == [page_dir EXCEPT ![s] = 0]
             bm == (frame_bitmap \cup F) \ Some(old)
  <2>5. Accounted(bm, qd, fork_frames \cup F)
    BY <1>1, <1>9, <2>1, DropDir
  <2>6. /\ qd \in [Slots -> Frames] /\ qd[s] = 0
        /\ [qd EXCEPT ![s] = dir] = page_dir'
    BY <1>1, <1>2, <1>11, <2>1, FrameFacts
  <2>7. dir \notin bm /\ Some(dir) = {dir}
    BY <1>2, <1>3, <1>8 DEF Some
  <2>8. bm \cup Some(dir) = c.m.bm \ Some(old)
    <3>1. Some(old) \subseteq frame_bitmap
      BY <2>2 DEF Some
    <3> QED BY <1>3, <1>4, <1>6, <2>7, <3>1
  <2> HIDE DEF qd, bm, new, old
  <2>9. Accounted(bm \cup Some(dir), page_dir', fork_frames \cup F)
    BY <1>3, <2>1, <2>5, <2>6, <2>7, PutDir
  <2>10. Some(new.pd) \cap (c.m.bm \ Some(old)) = {}
    BY <2>3 DEF Some
  <2>11. Accounted((c.m.bm \ Some(old)) \cup Some(new.pd), page_dir',
                   (fork_frames \cup F) \cup Some(new.pd))
    BY <2>8, <2>9, <2>10, LoseFrames
  <2>12. Accounted(new.m.bm, page_dir', fork_frames')
    BY <1>2, <1>11, <2>3, <2>4, <2>11
  <2>13. /\ page_dir' \in [Slots -> Frames]
         /\ as_state' \in [Slots -> {"none", "live", "zombie"}]
    BY <1>1, <1>2, <1>3, <1>11, <2>1 DEF AsTypeOK
  <2> QED BY <1>2, <1>7, <1>11, <2>3, <2>12, <2>13, AsInvFrom
<1> QED BY <1>10, <1>11

LEMMA AsInvInductive == AsInv /\ [AsNext]_asVars => AsInv'
<1> SUFFICES ASSUME AsInv, [AsNext]_asVars PROVE AsInv'
  OBVIOUS
<1>0. AsTypeOK
  BY DEF AsInv
<1>1. CASE ProcessCreate
  BY <1>1, ProcessCreateInv
<1>2. CASE ProcessFork
  BY <1>2, ProcessForkInv
<1>3. ASSUME NEW t \in Slots \cup {0}, ProcessExit(t) PROVE AsInv'
  BY <1>3, ProcessExitInv
<1>4. ASSUME NEW s \in Slots, ProcessKill(s) PROVE AsInv'
  BY <1>0, <1>4, SameFramesInv DEF ProcessKill, AsTypeOK
<1>5. ASSUME NEW s \in Slots, Switch(s) PROVE AsInv'
  BY <1>0, <1>5, SameFramesInv DEF Switch, AsTypeOK
<1>6. ASSUME NEW v \in Pages, MapPage(v) PROVE AsInv'
  <2>1. v \in Frames
    <3>1. UserPages \in Seq(Frames)
      BY AddressSpaceConstants DEF Frames
    <3> QED BY <3>1 DEF Pages
  <2> QED BY <1>0, <1>6, <2>1, SameFramesInv DEF MapPage, AsTypeOK
<1>7. CASE UNCHANGED asVars
  BY <1>0, <1>7, SameFramesInv DEF asVars, AsTypeOK
<1> QED BY <1>1, <1>2, <1>3, <1>4, <1>5, <1>6, <1>7 DEF AsNext

LEMMA AsInvAlways == AsSpec => []AsInv
  BY AsInvInit, AsInvInductive, PTL DEF AsSpec

\* Whatever processes are created, forked, killed, ended and reused, also when
\* memory runs out half-way, mm/pmm.c hands out and vmm.c enters frames of the
\* machine only.
THEOREM AddressSpaceTypes == AsSpec => []AsTypeOK
<1>1. AsInv => AsTypeOK
  BY DEF AsInv
<1> QED BY <1>1, AsInvAlways, PTL

\* The counter used_frames of mm/pmm.c is the number of bits set in its bitmap.
THEOREM FramesAreCounted == AsSpec => []FramesCounted
<1>1. AsInv => FramesCounted
  BY DEF AsInv
<1> QED BY <1>1, AsInvAlways, PTL

\* No frame is lost outside of fork and none is free while it is a directory:
\* what process_create, process_exit, process_kill and slot reuse allocate and
\* release balances.
THEOREM FramesAreAccounted == AsSpec => []FramesAccounted
<1>1. AsInv => FramesAccounted
  BY DEF AsInv
<1> QED BY <1>1, AsInvAlways, PTL

\* No two processes share a page directory, and no directory is mapped as a
\* page fork copied to.
THEOREM DirectoriesUnshared == AsSpec => []DirsUnshared
<1>1. AsInv => DirsUnshared
  BY DEF AsInv
<1> QED BY <1>1, AsInvAlways, PTL

-----------------------------------------------------------------------------
(***************************************************************************)
(* The invariant.  Its parts speak of a table of blocks f, so that they    *)
(* can be stated of the tables between two steps of one call.              *)
(***************************************************************************)
Ends(f, b) == b + HDR + f[b].size
Used(f) == {b \in DOMAIN f : ~f[b].free}

\* The blocks tile the arena, and prev is the inverse of next: also a block
\* that is not the head has a predecessor.
Tiled(f) ==
  /\ DOMAIN f \subseteq Addr /\ 0 \in DOMAIN f
  /\ f \in [DOMAIN f -> BlockT]
  /\ f[0].prev = NULL
  /\ \A b \in DOMAIN f : f[b].next = NULL => Ends(f, b) = HEAP_SIZE
  /\ \A b \in DOMAIN f : f[b].next # NULL =>
       /\ f[b].next = Ends(f, b) /\ f[b].next \in DOMAIN f
       /\ f[f[b].next].prev = b
  /\ \A b \in DOMAIN f : b # 0 => f[b].prev \in DOMAIN f /\ f[f[b].prev].next = b
  /\ \A b, c \in DOMAIN f : b < c => Ends(f, b) <= c

\* Free blocks are merged, except where the pair (b, next of b) has b = q.
MergedBut(f, q) ==
  \A b \in DOMAIN f : b # q /\ f[b].free /\ f[b].next # NULL => ~f[f[b].next].free

-----------------------------------------------------------------------------
(* Arithmetic. *)

LEMMA AlignUp ==
  ASSUME NEW n \in Nat, NEW a \in Nat \ {0}
  PROVE  /\ align_up(n, a) \in Nat
         /\ n <= align_up(n, a) /\ align_up(n, a) <= n + a - 1
<1>1. \A x, m \in Nat : m # 0 => x % m \in 0 .. (m - 1)
  OBVIOUS
<1> DEFINE r == n % a
<1>2. r \in 0 .. (a - 1)
  BY <1>1
<1> HIDE DEF r
<1>3. a - r \in Nat
  BY <1>2
<1> DEFINE s == (a - r) % a
<1>4. s \in 0 .. (a - 1)
  BY <1>1, <1>3
<1> HIDE DEF s
<1>5. align_up(n, a) = n + s
  BY DEF align_up, r, s
<1> QED BY <1>4, <1>5

\* What Tiled says of single blocks.
LEMMA BlockFacts ==
  ASSUME NEW f, Tiled(f), NEW b \in DOMAIN f
  PROVE  /\ b \in Nat /\ b < HEAP_SIZE /\ f[b] \in BlockT
         /\ f[b].size \in Nat /\ f[b].free \in BOOLEAN
         /\ f[b].next \in Addr \cup {NULL} /\ f[b].prev \in Addr \cup {NULL}
         /\ Ends(f, b) \in Nat /\ b < Ends(f, b) /\ Ends(f, b) <= HEAP_SIZE
         /\ HDR \in Nat \ {0} /\ HEAP_SIZE \in Nat
<1>1. b \in Nat /\ b < HEAP_SIZE /\ HDR \in Nat \ {0} /\ HEAP_SIZE \in Nat
  BY KheapConstants DEF Tiled, Addr
<1>2. f[b] \in BlockT
  BY DEF Tiled
<1>3. /\ f[b].size \in Nat /\ f[b].free \in BOOLEAN
      /\ f[b].next \in Addr \cup {NULL} /\ f[b].prev \in Addr \cup {NULL}
  BY <1>2 DEF BlockT
<1>4. Ends(f, b) \in Nat /\ b < Ends(f, b)
  BY <1>1, <1>3 DEF Ends
<1>5. Ends(f, b) <= HEAP_SIZE
  <2>1. CASE f[b].next = NULL
    BY <1>1, <2>1 DEF Tiled
  <2>2. CASE f[b].next # NULL
    <3>1. Ends(f, b) \in Addr
      BY <2>2 DEF Tiled
    <3> QED BY <1>1, <3>1 DEF Addr
  <2> QED BY <2>1, <2>2
<1> QED BY <1>1, <1>2, <1>3, <1>4, <1>5

\* A header written as a record, or changed in one field.
LEMMA MkBlock ==
  ASSUME NEW s \in Nat, NEW fr \in BOOLEAN, NEW nx \in Addr \cup {NULL},
         NEW pv \in Addr \cup {NULL}
  PROVE  [size |-> s, free |-> fr, next |-> nx, prev |-> pv] \in BlockT
  BY DEF BlockT

LEMMA PutBlock ==
  ASSUME NEW r \in BlockT
  PROVE  /\ r = [size |-> r.size, free |-> r.free, next |-> r.next, prev |-> r.prev]
         /\ r.size \in Nat /\ r.free \in BOOLEAN
         /\ r.next \in Addr \cup {NULL} /\ r.prev \in Addr \cup {NULL}
  BY DEF BlockT

\* Between the start and the end of a block no other block starts.
LEMMA Inside ==
  ASSUME NEW f, Tiled(f), NEW b \in DOMAIN f, NEW c \in DOMAIN f,
         b <= c, c < Ends(f, b)
  PROVE  c = b
<1>1. b \in Nat /\ c \in Nat /\ Ends(f, b) \in Nat
  BY BlockFacts
<1>2. b < c => Ends(f, b) <= c
  BY DEF Tiled
<1> QED BY <1>1, <1>2

-----------------------------------------------------------------------------
(* Taking a block. *)

\* The table after a split, field by field.
SplitTable(f, b, n, g) ==
  LET nb == b + HDR + n
  IN  /\ g \in [DOMAIN f \cup {nb} -> BlockT]
      /\ g[nb].size = f[b].size - n - HDR /\ g[nb].free = TRUE
      /\ g[nb].next = f[b].next /\ g[nb].prev = b
      /\ g[b].size = n /\ g[b].next = nb /\ g[b].prev = f[b].prev
      /\ g[b].free = FALSE
      /\ \A x \in DOMAIN f : x # b =>
           /\ g[x].size = f[x].size /\ g[x].free = f[x].free
           /\ g[x].next = f[x].next
           /\ g[x].prev = IF x = f[b].next THEN nb ELSE f[x].prev

LEMMA SplitTiles ==
  ASSUME NEW f, Tiled(f), NEW b \in DOMAIN f, NEW n \in Nat,
         f[b].size >= n + HDR + ALIGN, f[b].free, MergedBut(f, NULL),
         NEW g, SplitTable(f, b, n, g)
  PROVE  /\ Tiled(g) /\ MergedBut(g, NULL)
         /\ b + HDR + n \in Addr /\ b + HDR + n \notin DOMAIN f
<1> DEFINE nb == b + HDR + n
<1>1. /\ b \in Nat /\ f[b].size \in Nat /\ Ends(f, b) = b + HDR + f[b].size
      /\ Ends(f, b) \in Nat /\ Ends(f, b) <= HEAP_SIZE /\ HDR \in Nat \ {0}
      /\ ALIGN \in Nat \ {0} /\ HEAP_SIZE \in Nat
  BY BlockFacts, KheapConstants DEF Ends
<1>2. /\ nb \in Nat /\ b < nb /\ nb < Ends(f, b) /\ nb + HDR <= Ends(f, b)
      /\ nb < HEAP_SIZE /\ nb # 0
  BY <1>1
<1>3. nb \in Addr
  BY <1>1, <1>2 DEF Addr
<1>4. \A x \in DOMAIN f : x \in Nat /\ Ends(f, x) \in Nat /\ x < Ends(f, x)
  BY BlockFacts
<1>5. \A x \in DOMAIN f : x # b => (x < b /\ Ends(f, x) <= b) \/ (b < x /\ Ends(f, b) <= x)
  BY <1>1, <1>4 DEF Tiled
<1>6. nb \notin DOMAIN f
  BY <1>1, <1>2, <1>5
<1> HIDE DEF nb
<1>7. /\ g \in [DOMAIN f \cup {nb} -> BlockT] /\ DOMAIN g = DOMAIN f \cup {nb}
      /\ g[nb].size = f[b].size - n - HDR /\ g[nb].free = TRUE
      /\ g[nb].next = f[b].next /\ g[nb].prev = b
      /\ g[b].size = n /\ g[b].next = nb /\ g[b].prev = f[b].prev
      /\ g[b].free = FALSE
  BY DEF SplitTable, nb
<1>8. \A x \in DOMAIN f : x # b =>
        /\ g[x].size = f[x].size /\ g[x].free = f[x].free
        /\ g[x].next = f[x].next
        /\ g[x].prev = IF x = f[b].next THEN nb ELSE f[x].prev
  BY DEF SplitTable, nb
<1>9. /\ Ends(g, b) = nb /\ Ends(g, nb) = Ends(f, b)
      /\ \A x \in DOMAIN f : x # b => Ends(g, x) = Ends(f, x)
  <2>1. Ends(g, b) = nb
    BY <1>7 DEF Ends, nb
  <2>2. Ends(g, nb) = Ends(f, b)
    BY <1>1, <1>7 DEF Ends, nb
  <2>3. \A x \in DOMAIN f : x # b => Ends(g, x) = Ends(f, x)
    BY <1>8 DEF Ends
  <2> QED BY <2>1, <2>2, <2>3
<1>10. \A x \in DOMAIN f : f[x].next # NULL =>
         /\ f[x].next = Ends(f, x) /\ f[x].next \in DOMAIN f
         /\ f[f[x].next].prev = x
  BY DEF Tiled
<1>11. NULL \notin DOMAIN f /\ NULL # nb
  BY <1>2, <1>4 DEF NULL
<1>12. Tiled(g)
  <2>1. DOMAIN g \subseteq Addr /\ 0 \in DOMAIN g /\ g \in [DOMAIN g -> BlockT]
    BY <1>3, <1>7 DEF Tiled
  <2>2. g[0].prev = NULL
    <3>1. 0 \in DOMAIN f /\ f[0].prev = NULL
      BY DEF Tiled
    <3>2. f[b].next # 0
      BY <1>1, <1>4, <1>10 DEF NULL
    <3> QED BY <1>7, <1>8, <3>1, <3>2
  <2>3. ASSUME NEW x \in DOMAIN g, g[x].next = NULL PROVE Ends(g, x) = HEAP_SIZE
    <3>1. CASE x = nb
      BY <1>7, <1>9, <2>3, <3>1 DEF Tiled
    <3>2. CASE x = b
      BY <1>7, <1>11, <2>3, <3>2
    <3>3. CASE x \in DOMAIN f /\ x # b
      BY <1>8, <1>9, <2>3, <3>3 DEF Tiled
    <3> QED BY <1>7, <3>1, <3>2, <3>3
  <2>4. ASSUME NEW x \in DOMAIN g, g[x].next # NULL
        PROVE  g[x].next = Ends(g, x) /\ g[x].next \in DOMAIN g /\ g[g[x].next].prev = x
    <3>1. CASE x = nb
      <4>1. f[b].next = Ends(f, b) /\ f[b].next \in DOMAIN f /\ f[b].next # b
        BY <1>1, <1>4, <1>7, <1>10, <2>4, <3>1
      <4> QED BY <1>7, <1>8, <1>9, <3>1, <4>1
    <3>2. CASE x = b
      BY <1>7, <1>9, <3>2
    <3>3. CASE x \in DOMAIN f /\ x # b
      <4>1. /\ f[x].next = Ends(f, x) /\ f[x].next \in DOMAIN f /\ f[f[x].next].prev = x
            /\ g[x].next = f[x].next
        BY <1>8, <1>10, <2>4, <3>3
      <4>2. f[x].next # f[b].next
        BY <1>10, <1>11, <3>3, <4>1
      <4>3. g[f[x].next].prev = x
        BY <1>7, <1>8, <4>1, <4>2
      <4> QED BY <1>7, <1>9, <3>3, <4>1, <4>3
    <3> QED BY <1>7, <3>1, <3>2, <3>3
  <2>5. ASSUME NEW x \in DOMAIN g, x # 0
        PROVE  g[x].prev \in DOMAIN g /\ g[g[x].prev].next = x
    <3>1. CASE x = nb
      BY <1>7, <3>1
    <3>2. CASE x \in DOMAIN f /\ x = f[b].next
      <4>1. x # b
        BY <1>1, <1>4, <1>10, <1>11, <3>2
      <4> QED BY <1>7, <1>8, <3>2, <4>1
    <3>3. CASE x \in DOMAIN f /\ x # f[b].next
      <4>1. f[x].prev \in DOMAIN f /\ f[f[x].prev].next = x /\ g[x].prev = f[x].prev
        BY <1>7, <1>8, <2>5, <3>3 DEF Tiled
      <4>2. f[x].prev # b
        BY <3>3, <4>1
      <4> QED BY <1>7, <1>8, <4>1, <4>2
    <3> QED BY <1>7, <3>1, <3>2, <3>3
  <2>6. ASSUME NEW x \in DOMAIN g, NEW y \in DOMAIN g, x < y PROVE Ends(g, x) <= y
    <3>1. CASE x \in DOMAIN f /\ x # b /\ y \in DOMAIN f
      BY <1>9, <2>6, <3>1 DEF Tiled
    <3>2. CASE x \in DOMAIN f /\ x # b /\ y = nb
      BY <1>1, <1>2, <1>4, <1>5, <1>9, <2>6, <3>2
    <3>3. CASE x = b
      BY <1>1, <1>2, <1>4, <1>5, <1>7, <1>9, <2>6, <3>3
    <3>4. CASE x = nb
      BY <1>1, <1>2, <1>4, <1>5, <1>7, <1>9, <2>6, <3>4
    <3> QED BY <1>7, <3>1, <3>2, <3>3, <3>4
  <2> QED BY <2>1, <2>2, <2>3, <2>4, <2>5, <2>6 DEF Tiled
<1>13. MergedBut(g, NULL)
  <2> SUFFICES ASSUME NEW x \in DOMAIN g, g[x].free, g[x].next # NULL
               PROVE  ~g[g[x].next].free
    BY DEF MergedBut
  <2>1. CASE x = nb
    <3>1. f[b].next \in DOMAIN f /\ ~f[f[b].next].free /\ f[b].next # b
      BY <1>1, <1>4, <1>7, <1>10, <1>11, <2>1 DEF MergedBut
    <3> QED BY <1>7, <1>8, <2>1, <3>1
  <2>2. CASE x \in DOMAIN f /\ x # b
    <3>1. f[x].next \in DOMAIN f /\ ~f[f[x].next].free /\ g[x].next = f[x].next
      BY <1>8, <1>10, <1>11, <2>2 DEF MergedBut
    <3> QED BY <1>7, <1>8, <3>1
  <2> QED BY <1>7, <2>1, <2>2
<1> QED BY <1>3, <1>6, <1>12, <1>13 DEF nb

\* A table with the same sizes and links is as good.
LEMMA SameTiles ==
  ASSUME NEW f, Tiled(f), NEW g \in [DOMAIN f -> BlockT],
         \A x \in DOMAIN f : /\ g[x].size = f[x].size /\ g[x].next = f[x].next
                              /\ g[x].prev = f[x].prev
  PROVE  Tiled(g)
<1>1. \A x \in DOMAIN f : Ends(g, x) = Ends(f, x)
  BY DEF Ends
<1>2. /\ DOMAIN f \subseteq Addr /\ 0 \in DOMAIN f /\ f[0].prev = NULL
      /\ \A x \in DOMAIN f : f[x].next = NULL => Ends(f, x) = HEAP_SIZE
      /\ \A x \in DOMAIN f : f[x].next # NULL =>
             /\ f[x].next = Ends(f, x) /\ f[x].next \in DOMAIN f
             /\ f[f[x].next].prev = x
      /\ \A x \in DOMAIN f : x # 0 => f[x].prev \in DOMAIN f /\ f[f[x].prev].next = x
      /\ \A x, c \in DOMAIN f : x < c => Ends(f, x) <= c
  BY DEF Tiled
<1>3. DOMAIN g = DOMAIN f
  OBVIOUS
<1> QED BY <1>1, <1>2, <1>3 DEF Tiled

\* The flag of one block.
LEMMA SetFree ==
  ASSUME NEW f, Tiled(f), NEW b \in DOMAIN f, NEW fr \in BOOLEAN
  PROVE  LET g == [f EXCEPT ![b].free = fr]
         IN  /\ Tiled(g) /\ DOMAIN g = DOMAIN f /\ g[b].free = fr
             /\ \A x \in DOMAIN f : /\ g[x].size = f[x].size /\ g[x].next = f[x].next
                                    /\ g[x].prev = f[x].prev
                                    /\ x # b => g[x] = f[x]
<1> DEFINE r == [f[b] EXCEPT !.free = fr]
           g == [f EXCEPT ![b].free = fr]
<1>1. \A x \in DOMAIN f : f[x] \in BlockT
  BY DEF Tiled
<1>2. r \in BlockT /\ r.size = f[b].size /\ r.next = f[b].next /\ r.prev = f[b].prev
      /\ r.free = fr
  BY <1>1 DEF BlockT
<1>3. /\ DOMAIN g = DOMAIN f /\ g[b] = r
      /\ \A x \in DOMAIN f : x # b => g[x] = f[x]
      /\ g = [x \in DOMAIN f |-> g[x]]
  BY DEF Tiled
<1> HIDE DEF r, g
<1>4. g \in [DOMAIN f -> BlockT]
  BY <1>1, <1>2, <1>3
<1>5. \A x \in DOMAIN f : /\ g[x].size = f[x].size /\ g[x].next = f[x].next
                           /\ g[x].prev = f[x].prev
  BY <1>2, <1>3
<1>6. Tiled(g)
  BY <1>4, <1>5, SameTiles
<1> QED BY <1>2, <1>3, <1>5, <1>6 DEF g

\* TakeBlock on a heap: the block is used, has room for n, and every block
\* that was in use is untouched.
HeapOk(h) == Tiled(h.blk) /\ MergedBut(h.blk, NULL) /\ h.magic = Used(h.blk)

LEMMA TakeOk ==
  ASSUME NEW h, h = [blk |-> h.blk, magic |-> h.magic, hidden |-> h.hidden],
         HeapOk(h), NEW n \in Nat, NEW b \in Candidates(h, n)
  PROVE  LET t == TakeBlock(h, b, n)
         IN  /\ t = [blk |-> t.blk, magic |-> t.magic, hidden |-> t.hidden]
             /\ HeapOk(t)
             /\ b \in DOMAIN h.blk /\ h.blk[b].free
             /\ Used(t.blk) = Used(h.blk) \cup {b}
             /\ t.blk[b].size >= n
             /\ \A c \in Used(h.blk) : c # b /\ t.blk[c].size = h.blk[c].size
             /\ DOMAIN t.hidden \subseteq DOMAIN h.hidden
             /\ \A a \in DOMAIN h.hidden :
                  a \notin b .. (Ends(h.blk, b) - 1) =>
                    a \in DOMAIN t.hidden /\ t.hidden[a] = h.hidden[a]
<1> DEFINE f == h.blk
           s == split_block(h, b, n)
           t == TakeBlock(h, b, n)
           nb == b + HDR + n
<1>1. /\ b \in DOMAIN f /\ f[b].free /\ f[b].size >= n
      /\ Tiled(f) /\ MergedBut(f, NULL) /\ h.magic = Used(f)
  BY DEF Candidates, HeapOk
<1>2. /\ b \in Nat /\ f[b].size \in Nat /\ Ends(f, b) = b + HDR + f[b].size
      /\ Ends(f, b) \in Nat /\ HDR \in Nat \ {0} /\ ALIGN \in Nat \ {0}
      /\ f[b] \in BlockT
  BY <1>1, BlockFacts, KheapConstants DEF Ends
<1>3. \A c \in Used(f) : c # b /\ c \in DOMAIN f
  BY <1>1 DEF Used
<1>4. CASE ~Splits(h, b, n)
  <2>1. t = [h EXCEPT !.blk = [f EXCEPT ![b].free = FALSE], !.magic = h.magic \cup {b}]
    BY <1>4 DEF TakeBlock, split_block
  <2>2. /\ t.blk = [f EXCEPT ![b].free = FALSE] /\ t.magic = h.magic \cup {b}
        /\ t.hidden = h.hidden
        /\ t = [blk |-> t.blk, magic |-> t.magic, hidden |-> t.hidden]
    BY <2>1
  <2> DEFINE g == t.blk
  <2> HIDE DEF t, f
  <2>3. /\ Tiled(g) /\ DOMAIN g = DOMAIN f /\ g[b].free = FALSE
        /\ \A x \in DOMAIN f : /\ g[x].size = f[x].size /\ g[x].next = f[x].next
                               /\ x # b => g[x] = f[x]
    <3>1. g = [f EXCEPT ![b].free = FALSE] /\ FALSE \in BOOLEAN
      BY <2>2
    <3> HIDE DEF g
    <3> QED BY <1>1, <3>1, SetFree, Zenon
  <2>4. MergedBut(g, NULL)
    BY <1>1, <2>3 DEF MergedBut, Tiled
  <2>5. Used(g) = Used(f) \cup {b}
    BY <1>1, <2>3 DEF Used
  <2> QED BY <1>1, <1>3, <2>2, <2>3, <2>4, <2>5 DEF HeapOk, f, t
<1>5. CASE Splits(h, b, n)
  <2>1. f[b].size >= n + HDR + ALIGN
    BY <1>5 DEF Splits
  <2> DEFINE g == t.blk
             nx == f[b].next
             sb == [x \in DOMAIN f \cup {nb} |->
                       CASE x = nb -> [size |-> f[b].size - n - HDR,
                                       free |-> TRUE, next |-> nx, prev |-> b]
                         [] x = b  -> [f[b] EXCEPT !.size = n, !.next = nb]
                         [] x = nx /\ x # nb /\ x # b ->
                              [f[x] EXCEPT !.prev = nb]
                         [] OTHER  -> f[x]]
  <2>2. s = [blk |-> sb, magic |-> h.magic \ {nb},
             hidden |-> [a \in DOMAIN h.hidden \ (nb .. (nb + HDR - 1)) |-> h.hidden[a]]]
    BY <1>5 DEF split_block
  <2>3. t = [s EXCEPT !.blk[b].free = FALSE, !.magic = s.magic \cup {b}]
    BY DEF TakeBlock
  <2> HIDE DEF sb, t, s
  <2>4. /\ t.blk = [sb EXCEPT ![b].free = FALSE]
        /\ t.magic = (h.magic \ {nb}) \cup {b}
        /\ t.hidden = [a \in DOMAIN h.hidden \ (nb .. (nb + HDR - 1)) |-> h.hidden[a]]
        /\ t = [blk |-> t.blk, magic |-> t.magic, hidden |-> t.hidden]
    BY <2>2, <2>3
  <2>5. nb # b /\ nb \in Nat /\ nb < HEAP_SIZE /\ nb \in Addr
        /\ b < nb /\ nb + HDR <= Ends(f, b)
    <3>1. Ends(f, b) <= HEAP_SIZE /\ HEAP_SIZE \in Nat
      BY <1>1, BlockFacts
    <3> QED BY <1>2, <2>1, <3>1 DEF Addr
  <2>6. SplitTable(f, b, n, g)
    <3>1. \A x \in DOMAIN f : f[x] \in BlockT
      BY <1>1 DEF Tiled
    <3>2. nb \notin DOMAIN f
      <4>1. nb < Ends(f, b) /\ b <= nb
        BY <1>2, <2>5
      <4> HIDE DEF nb, f
      <4> QED BY <1>1, <2>5, <4>1, Inside
    <3>3. f[b].size - n - HDR \in Nat /\ nx \in Addr \cup {NULL} /\ b \in Addr
      BY <1>1, <1>2, <2>1, BlockFacts DEF Tiled
    <3> HIDE DEF f, nb
    <3>4. sb[nb] = [size |-> f[b].size - n - HDR, free |-> TRUE, next |-> nx, prev |-> b]
      BY <2>5 DEF sb
    <3>5. sb[b] = [f[b] EXCEPT !.size = n, !.next = nb]
      BY <1>1, <2>5 DEF sb
    <3>6. \A x \in DOMAIN f : x # b =>
            sb[x] = IF x = nx THEN [f[x] EXCEPT !.prev = nb] ELSE f[x]
      BY <3>2 DEF sb
    <3>7. DOMAIN sb = DOMAIN f \cup {nb} /\ sb = [x \in DOMAIN f \cup {nb} |-> sb[x]]
      BY DEF sb
    <3> HIDE DEF sb
    <3>8. /\ g = [x \in DOMAIN f \cup {nb} |-> g[x]]
          /\ g[b] = [sb[b] EXCEPT !.free = FALSE]
          /\ \A x \in DOMAIN f \cup {nb} : x # b => g[x] = sb[x]
      <4>1. g = [sb EXCEPT ![b] = [sb[b] EXCEPT !.free = FALSE]]
        BY <2>4
      <4>2. b \in DOMAIN sb
        BY <1>1, <3>7
      <4> HIDE DEF g
      <4> QED BY <3>7, <4>1, <4>2
    <3> HIDE DEF g
    <3>9. /\ g[nb] \in BlockT
          /\ g[nb].size = f[b].size - n - HDR /\ g[nb].free = TRUE
          /\ g[nb].next = nx /\ g[nb].prev = b
      <4>1. g[nb] = [size |-> f[b].size - n - HDR, free |-> TRUE, next |-> nx, prev |-> b]
        BY <2>5, <3>4, <3>8
      <4>2. g[nb] \in BlockT
        BY <3>3, <4>1, MkBlock
      <4> QED BY <4>1, <4>2
    <3>10. /\ g[b] \in BlockT
           /\ g[b].size = n /\ g[b].next = nb /\ g[b].prev = f[b].prev
           /\ g[b].free = FALSE
      <4>1. g[b] = [[f[b] EXCEPT !.size = n, !.next = nb] EXCEPT !.free = FALSE]
        BY <3>5, <3>8
      <4>2. g[b] = [size |-> n, free |-> FALSE, next |-> nb, prev |-> f[b].prev]
        <5>1. f[b] = [size |-> f[b].size, free |-> f[b].free, next |-> f[b].next,
                      prev |-> f[b].prev]
          BY <1>2, PutBlock
        <5> QED BY <4>1, <5>1
      <4>3. g[b] \in BlockT
        <5>1. f[b].prev \in Addr \cup {NULL} /\ nb \in Addr \cup {NULL} /\ FALSE \in BOOLEAN
          BY <1>2, <2>5, PutBlock
        <5> QED BY <4>2, <5>1, MkBlock, Zenon
      <4> QED BY <4>2, <4>3
    <3>11. ASSUME NEW x \in DOMAIN f, x # b
           PROVE  /\ g[x] \in BlockT
                  /\ g[x].size = f[x].size /\ g[x].free = f[x].free
                  /\ g[x].next = f[x].next
                  /\ g[x].prev = IF x = nx THEN nb ELSE f[x].prev
      <4>1. g[x] = IF x = nx THEN [f[x] EXCEPT !.prev = nb] ELSE f[x]
        BY <3>6, <3>8, <3>11
      <4>2. f[x] \in BlockT
        BY <3>1
      <4> QED BY <2>5, <4>1, <4>2 DEF BlockT
    <3>12. g \in [DOMAIN f \cup {nb} -> BlockT]
      BY <3>8, <3>9, <3>10, <3>11
    <3> QED BY <3>9, <3>10, <3>11, <3>12 DEF SplitTable, nb
  <2>7. Tiled(g) /\ MergedBut(g, NULL) /\ nb \notin DOMAIN f
    <3> HIDE DEF g, f
    <3> QED BY <1>1, <2>1, <2>6, SplitTiles
  <2>8. /\ DOMAIN g = DOMAIN f \cup {nb} /\ g[nb].free = TRUE /\ g[b].free = FALSE
        /\ g[b].size = n
        /\ \A x \in DOMAIN f : x # b => g[x].free = f[x].free /\ g[x].size = f[x].size
    BY <2>6 DEF SplitTable
  <2>9. Used(g) = Used(f) \cup {b} /\ nb \notin Used(f)
    <3> HIDE DEF g, f, nb
    <3> QED BY <1>1, <2>7, <2>8 DEF Used
  <2>10. \A a \in DOMAIN h.hidden : a \notin b .. (Ends(f, b) - 1) =>
           a \in DOMAIN t.hidden /\ t.hidden[a] = h.hidden[a]
    <3>1. \A a : a \in nb .. (nb + HDR - 1) => a \in b .. (Ends(f, b) - 1)
      BY <1>2, <2>5
    <3> HIDE DEF nb, f
    <3> QED BY <2>4, <3>1
  <2> HIDE DEF g, f, nb
  <2>11. DOMAIN t.hidden \subseteq DOMAIN h.hidden /\ t.magic = Used(g)
    <3>1. h.magic = Used(f) /\ t.magic = (h.magic \ {nb}) \cup {b}
      BY <1>1, <2>4
    <3>2. DOMAIN t.hidden = DOMAIN h.hidden \ (nb .. (nb + HDR - 1))
      BY <2>4
    <3> QED BY <2>9, <3>1, <3>2
  <2>12. HeapOk(t)
    BY <2>7, <2>11 DEF HeapOk, g
  <2>13. g[b].size >= n
    BY <2>8
  <2>14. \A c \in Used(f) : c # b /\ g[c].size = f[c].size
    BY <1>3, <2>8
  <2> QED BY <1>1, <2>4, <2>9, <2>10, <2>11, <2>12, <2>13, <2>14 DEF g, f, t
<1> QED BY <1>4, <1>5 DEF t, f

-----------------------------------------------------------------------------
(* Releasing a block. *)

\* Two free neighbours.
BadPair(f, y) == f[y].free /\ f[y].next # NULL /\ f[f[y].next].free

\* The table after block b took in its neighbour x, field by field.
MergeTable(f, b, x, g) ==
  /\ g \in [DOMAIN f \ {x} -> BlockT]
  /\ g[b].size = f[b].size + HDR + f[x].size /\ g[b].free = f[b].free
  /\ g[b].next = f[x].next /\ g[b].prev = f[b].prev
  /\ \A y \in DOMAIN f : y # b /\ y # x =>
       /\ g[y].size = f[y].size /\ g[y].free = f[y].free
       /\ g[y].next = f[y].next
       /\ g[y].prev = IF y = f[x].next THEN b ELSE f[y].prev

LEMMA MergeTiles ==
  ASSUME NEW f, Tiled(f), NEW b \in DOMAIN f, NEW x \in DOMAIN f, f[b].next = x,
         f[x].free, NEW g, MergeTable(f, b, x, g)
  PROVE  /\ Tiled(g)
         /\ \A y \in DOMAIN g : BadPair(g, y) =>
              IF y = b THEN BadPair(f, x) ELSE BadPair(f, y)
<1>1. /\ DOMAIN g = DOMAIN f \ {x} /\ g \in [DOMAIN f \ {x} -> BlockT]
      /\ g[b].size = f[b].size + HDR + f[x].size /\ g[b].free = f[b].free
      /\ g[b].next = f[x].next /\ g[b].prev = f[b].prev
  BY DEF MergeTable
<1>2. \A y \in DOMAIN f : y # b /\ y # x =>
       /\ g[y].size = f[y].size /\ g[y].free = f[y].free
       /\ g[y].next = f[y].next
       /\ g[y].prev = IF y = f[x].next THEN b ELSE f[y].prev
  BY DEF MergeTable
<1>3. \A y \in DOMAIN f :
        /\ y \in Nat /\ Ends(f, y) \in Nat /\ y < Ends(f, y)
        /\ f[y].size \in Nat /\ Ends(f, y) = y + HDR + f[y].size
  BY BlockFacts DEF Ends
<1>4. \A y \in DOMAIN f : f[y].next # NULL =>
        /\ f[y].next = Ends(f, y) /\ f[y].next \in DOMAIN f
        /\ f[f[y].next].prev = y
  BY DEF Tiled
<1>5. NULL \notin DOMAIN f
  BY <1>3 DEF NULL
<1>6. HDR \in Nat \ {0}
  BY KheapConstants
<1>7. x = Ends(f, b) /\ b < x /\ b # x /\ f[x].prev = b /\ x # 0
  BY <1>3, <1>4, <1>5
<1>8. /\ Ends(g, b) = Ends(f, x)
      /\ \A y \in DOMAIN f : y # b /\ y # x => Ends(g, y) = Ends(f, y)
  <2>1. Ends(g, b) = Ends(f, x)
    <3>1. Ends(g, b) = b + HDR + (f[b].size + HDR + f[x].size)
      BY <1>1 DEF Ends
    <3>2. Ends(f, x) = (b + HDR + f[b].size) + HDR + f[x].size
      BY <1>3, <1>7
    <3>3. b \in Nat /\ f[b].size \in Nat /\ f[x].size \in Nat
      BY <1>3
    <3> QED BY <1>6, <3>1, <3>2, <3>3
  <2>2. \A y \in DOMAIN f : y # b /\ y # x => Ends(g, y) = Ends(f, y)
    BY <1>2 DEF Ends
  <2> QED BY <2>1, <2>2
<1>9. b \in DOMAIN g /\ \A y \in DOMAIN g : y = b \/ (y \in DOMAIN f /\ y # b /\ y # x)
  BY <1>1, <1>7
<1>10. f[x].next # NULL => f[x].next # x /\ f[x].next # b /\ f[x].next \in DOMAIN g
  BY <1>1, <1>3, <1>4, <1>7
<1>11. \A y \in DOMAIN f : y # b /\ f[y].next # NULL => f[y].next # x
  BY <1>4, <1>7
<1>12. Tiled(g)
  <2>1. DOMAIN g \subseteq Addr /\ 0 \in DOMAIN g /\ g \in [DOMAIN g -> BlockT]
    BY <1>1, <1>7 DEF Tiled
  <2>2. g[0].prev = NULL
    <3>1. 0 \in DOMAIN f /\ f[0].prev = NULL
      BY DEF Tiled
    <3>2. f[x].next # 0
      BY <1>3, <1>4 DEF NULL
    <3> QED BY <1>1, <1>2, <1>7, <3>1, <3>2
  <2>3. ASSUME NEW y \in DOMAIN g, g[y].next = NULL PROVE Ends(g, y) = HEAP_SIZE
    <3>1. CASE y = b
      BY <1>1, <1>8, <2>3, <3>1 DEF Tiled
    <3>2. CASE y \in DOMAIN f /\ y # b /\ y # x
      BY <1>2, <1>8, <2>3, <3>2 DEF Tiled
    <3> QED BY <1>9, <3>1, <3>2
  <2>4. ASSUME NEW y \in DOMAIN g, g[y].next # NULL
        PROVE  g[y].next = Ends(g, y) /\ g[y].next \in DOMAIN g /\ g[g[y].next].prev = y
    <3>1. CASE y = b
      <4>1. f[x].next = Ends(f, x) /\ f[x].next \in DOMAIN f
        BY <1>1, <1>4, <2>4, <3>1
      <4>2. f[x].next # x /\ f[x].next # b /\ f[x].next \in DOMAIN g
        BY <1>1, <1>10, <2>4, <3>1
      <4> QED BY <1>1, <1>2, <1>8, <3>1, <4>1, <4>2
    <3>2. CASE y \in DOMAIN f /\ y # b /\ y # x
      <4> DEFINE z == f[y].next
      <4>1. /\ z = Ends(f, y) /\ z \in DOMAIN f /\ f[z].prev = y /\ g[y].next = z
            /\ z # x
        BY <1>2, <1>4, <1>11, <2>4, <3>2
      <4>2. z # f[x].next
        BY <1>4, <1>5, <3>2, <4>1
      <4> HIDE DEF z
      <4>3. g[z].prev = y
        <5>1. CASE z = b
          BY <1>1, <4>1, <5>1
        <5>2. CASE z # b
          BY <1>2, <4>1, <4>2, <5>2
        <5> QED BY <5>1, <5>2
      <4> QED BY <1>1, <1>8, <3>2, <4>1, <4>3
    <3> QED BY <1>9, <3>1, <3>2
  <2>5. ASSUME NEW y \in DOMAIN g, y # 0
        PROVE  g[y].prev \in DOMAIN g /\ g[g[y].prev].next = y
    <3> DEFINE p == f[y].prev
    <3>0. y \in DOMAIN f /\ p \in DOMAIN f /\ f[p].next = y
      BY <1>1, <2>5 DEF Tiled
    <3>1. CASE y = b
      <4>1. g[y].prev = p /\ p # x /\ p # b
        BY <1>1, <1>3, <1>4, <1>5, <1>7, <3>0, <3>1
      <4> HIDE DEF p
      <4> QED BY <1>1, <1>2, <3>0, <4>1
    <3>2. CASE y # b /\ y = f[x].next
      <4>1. y # x /\ g[y].prev = b
        BY <1>1, <1>2, <3>0, <3>2
      <4> QED BY <1>1, <1>9, <3>2, <4>1
    <3>3. CASE y # b /\ y # f[x].next
      <4>1. y # x /\ g[y].prev = p /\ p # x /\ p # b
        BY <1>1, <1>2, <3>0, <3>3
      <4> HIDE DEF p
      <4> QED BY <1>1, <1>2, <3>0, <4>1
    <3> QED BY <3>1, <3>2, <3>3
  <2>6. ASSUME NEW y \in DOMAIN g, NEW z \in DOMAIN g, y < z PROVE Ends(g, y) <= z
    <3>0. \A u, v \in DOMAIN f : u < v => Ends(f, u) <= v
      BY DEF Tiled
    <3>1. CASE y = b
      <4>1. z \in DOMAIN f /\ z # x /\ x <= z
        BY <1>1, <1>7, <2>6, <3>0, <3>1
      <4>2. x < z
        BY <1>3, <4>1
      <4> QED BY <1>8, <3>0, <3>1, <4>1, <4>2
    <3>2. CASE y \in DOMAIN f /\ y # b /\ y # x
      BY <1>1, <1>8, <2>6, <3>0, <3>2
    <3> QED BY <1>9, <3>1, <3>2
  <2> QED BY <2>1, <2>2, <2>3, <2>4, <2>5, <2>6 DEF Tiled
<1>13. ASSUME NEW y \in DOMAIN g, BadPair(g, y)
       PROVE  IF y = b THEN BadPair(f, x) ELSE BadPair(f, y)
  <2>1. CASE y = b
    <3>1. f[x].next # NULL /\ g[f[x].next].free
      BY <1>1, <1>13, <2>1 DEF BadPair
    <3>2. f[x].next # x /\ f[x].next # b /\ f[x].next \in DOMAIN f
      BY <1>1, <1>10, <3>1
    <3>3. f[f[x].next].free
      BY <1>2, <3>1, <3>2
    <3> QED BY <2>1, <3>1, <3>3 DEF BadPair
  <2>2. CASE y \in DOMAIN f /\ y # b /\ y # x
    <3> DEFINE z == f[y].next
    <3>1. g[y].next = z /\ g[z].free /\ z # NULL /\ f[y].free
      BY <1>2, <1>13, <2>2 DEF BadPair
    <3>2. z \in DOMAIN f /\ z # x
      BY <1>4, <1>11, <2>2, <3>1
    <3> HIDE DEF z
    <3>3. f[z].free
      BY <1>1, <1>2, <3>1, <3>2
    <3> QED BY <2>2, <3>1, <3>3 DEF BadPair, z
  <2> QED BY <1>9, <2>1, <2>2
<1> QED BY <1>12, <1>13

LEMMA MergeNextIs ==
  ASSUME NEW f, Tiled(f), NEW b \in DOMAIN f, f[b].next # NULL, f[f[b].next].free
  PROVE  MergeTable(f, b, f[b].next, MergeNext(f, b))
<1> DEFINE x == f[b].next
           nx == f[x].next
           sz == f[b].size + HDR + f[x].size
           g == MergeNext(f, b)
<1>1. x \in DOMAIN f /\ x = Ends(f, b)
  BY DEF Tiled
<1>2. /\ f[b] \in BlockT /\ f[x] \in BlockT /\ b \in Nat /\ b < x
      /\ f[b].size \in Nat /\ f[x].size \in Nat /\ HDR \in Nat
      /\ nx \in Addr \cup {NULL} /\ b \in Addr
  BY <1>1, BlockFacts, KheapConstants DEF Tiled
<1>3. \A y \in DOMAIN f : f[y] \in BlockT
  BY DEF Tiled
<1>4. sz \in Nat /\ x # b /\ nx # b
  <2>1. sz \in Nat /\ x # b
    BY <1>1, <1>2
  <2>2. nx # NULL => x < nx /\ nx \in Nat /\ x \in Nat
    BY <1>1, BlockFacts DEF Tiled
  <2>3. NULL # b
    BY <1>2 DEF NULL
  <2> HIDE DEF nx, x
  <2> QED BY <1>2, <2>1, <2>2, <2>3
<1>5. g = [y \in DOMAIN f \ {x} |->
              CASE y = b -> [f[b] EXCEPT !.size = @ + HDR + f[x].size, !.next = nx]
                [] y = nx /\ y # b -> [f[y] EXCEPT !.prev = b]
                [] OTHER -> f[y]]
  BY DEF MergeNext
<1> HIDE DEF g, x, nx
<1>6. g = [y \in DOMAIN f \ {x} |-> g[y]] /\ b \in DOMAIN f \ {x}
  BY <1>4, <1>5
<1>7. g[b] = [f[b] EXCEPT !.size = @ + HDR + f[x].size, !.next = nx]
  BY <1>5, <1>6
<1>8. g[b] = [size |-> sz, free |-> f[b].free, next |-> nx, prev |-> f[b].prev]
  <2>1. f[b] = [size |-> f[b].size, free |-> f[b].free, next |-> f[b].next,
                prev |-> f[b].prev]
    BY <1>2, PutBlock
  <2> QED BY <1>7, <2>1, ZenonT(60)
<1>9. g[b] \in BlockT
  <2>1. f[b].free \in BOOLEAN /\ f[b].prev \in Addr \cup {NULL}
    BY <1>2, PutBlock
  <2> DEFINE fr == f[b].free
             pv == f[b].prev
  <2>2. fr \in BOOLEAN /\ pv \in Addr \cup {NULL} /\ nx \in Addr \cup {NULL} /\ sz \in Nat
    BY <1>2, <1>4, <2>1
  <2>3. g[b] = [size |-> sz, free |-> fr, next |-> nx, prev |-> pv]
    BY <1>8
  <2> HIDE DEF sz, fr, pv
  <2>4. [size |-> sz, free |-> fr, next |-> nx, prev |-> pv] \in BlockT
    BY <2>2, MkBlock
  <2> QED BY <2>3, <2>4
<1>10. ASSUME NEW y \in DOMAIN f, y # b, y # x
       PROVE  /\ g[y] \in BlockT
              /\ g[y].size = f[y].size /\ g[y].free = f[y].free
              /\ g[y].next = f[y].next
              /\ g[y].prev = IF y = nx THEN b ELSE f[y].prev
  <2>1. g[y] = IF y = nx THEN [f[y] EXCEPT !.prev = b] ELSE f[y]
    BY <1>5, <1>10
  <2>2. f[y] \in BlockT
    BY <1>3
  <2> QED BY <1>2, <2>1, <2>2 DEF BlockT
<1>11. g \in [DOMAIN f \ {x} -> BlockT]
  BY <1>6, <1>9, <1>10
<1> QED BY <1>8, <1>10, <1>11 DEF MergeTable, g, x, nx

\* coalesce on a table in which b has just become free.
LEMMA CoalesceOk ==
  ASSUME NEW f, Tiled(f), NEW b \in DOMAIN f, f[b].free,
         \A y \in DOMAIN f : BadPair(f, y) => y = b \/ y = f[b].prev
  PROVE  LET g == coalesce(f, b)
         IN  /\ Tiled(g) /\ MergedBut(g, NULL)
             /\ Used(g) = Used(f)
             /\ \A c \in Used(f) : g[c].size = f[c].size
<1> DEFINE m == MergeNext(f, b)
           x == f[b].next
           q == f[b].prev
           g == coalesce(f, b)
<1>1. /\ Tiled(m) /\ b \in DOMAIN m /\ m[b].free /\ m[b].prev = q
      /\ Used(m) = Used(f) /\ \A c \in Used(f) : m[c].size = f[c].size
      /\ \A y \in DOMAIN m : BadPair(m, y) => y = q
  <2>1. CASE x = NULL \/ ~f[x].free
    <3>1. m = f
      BY <2>1 DEF MergeNext
    <3>2. ~BadPair(f, b)
      BY <2>1 DEF BadPair
    <3> HIDE DEF m
    <3> QED BY <3>1, <3>2
  <2>2. CASE x # NULL /\ f[x].free
    <3>1. MergeTable(f, b, x, m)
      BY <2>2, MergeNextIs
    <3>2. x \in DOMAIN f /\ f[x].prev = b /\ x = Ends(f, b) /\ b < Ends(f, b)
          /\ b \in Nat
      BY <2>2, BlockFacts DEF Tiled
    <3>3. x # b
      BY <3>2
    <3>4. q # x /\ x # q
      <4>1. CASE b = 0
        BY <3>2, <4>1 DEF Tiled, NULL
      <4>2. CASE b # 0
        <5>1. f[q].next = b /\ q \in DOMAIN f
          BY <4>2 DEF Tiled
        <5>2. q < Ends(f, q) /\ q \in Nat /\ Ends(f, q) = b
          <6>1. b # NULL
            BY <3>2 DEF NULL
          <6> QED BY <5>1, <6>1, BlockFacts DEF Tiled
        <5> QED BY <3>2, <5>2
      <4> QED BY <4>1, <4>2
    <3> HIDE DEF m, x, q
    <3>5. /\ Tiled(m)
          /\ \A y \in DOMAIN m : BadPair(m, y) =>
               IF y = b THEN BadPair(f, x) ELSE BadPair(f, y)
      BY <2>2, <3>1, <3>2, MergeTiles DEF x
    <3>6. /\ DOMAIN m = DOMAIN f \ {x} /\ m[b].free /\ m[b].prev = q
          /\ \A y \in DOMAIN f : y # b /\ y # x =>
                m[y].size = f[y].size /\ m[y].free = f[y].free
      BY <3>1 DEF MergeTable, q
    <3>7. ~BadPair(f, x)
      BY <3>2, <3>3, <3>4 DEF q
    <3>8. \A y \in DOMAIN m : BadPair(m, y) => y = q
      BY <3>5, <3>6, <3>7 DEF q
    <3>9. Used(m) = Used(f) /\ \A c \in Used(f) : m[c].size = f[c].size
      BY <2>2, <3>3, <3>6 DEF Used
    <3> QED BY <3>3, <3>5, <3>6, <3>8, <3>9
  <2> QED BY <2>1, <2>2
<1>2. g = MergePrev(m, b)
  BY DEF coalesce
<1> HIDE DEF m, x, q, g
<1>3. CASE q = NULL \/ ~m[q].free
  <2>1. g = m
    BY <1>1, <1>2, <1>3 DEF MergePrev
  <2>2. \A y \in DOMAIN m : ~BadPair(m, y)
    <3>1. NULL \notin DOMAIN m
      BY <1>1, BlockFacts DEF NULL
    <3>2. ~m[q].free => ~BadPair(m, q)
      BY DEF BadPair
    <3> QED BY <1>1, <1>3, <3>1, <3>2
  <2>3. MergedBut(m, NULL)
    BY <2>2 DEF MergedBut, BadPair
  <2> QED BY <1>1, <2>1, <2>3 DEF g
<1>4. CASE q # NULL /\ m[q].free
  <2>1. b # 0 /\ q \in DOMAIN m /\ m[q].next = b
    BY <1>1, <1>4 DEF Tiled
  <2>2. g = MergeNext(m, q) /\ b # NULL
    <3>1. b # NULL
      BY <1>1, BlockFacts DEF NULL
    <3>2. g = [y \in DOMAIN m \ {b} |->
              CASE y = q -> [m[q] EXCEPT !.size = @ + HDR + m[b].size,
                                         !.next = m[b].next]
                [] y = m[b].next /\ y # q -> [m[y] EXCEPT !.prev = q]
                [] OTHER -> m[y]]
      BY <1>1, <1>2, <1>4 DEF MergePrev
    <3> QED BY <1>1, <2>1, <3>1, <3>2 DEF MergeNext
  <2>3. MergeTable(m, q, b, g)
    BY <1>1, <2>1, <2>2, MergeNextIs
  <2>4. /\ Tiled(g)
        /\ \A y \in DOMAIN g : BadPair(g, y) =>
             IF y = q THEN BadPair(m, b) ELSE BadPair(m, y)
    BY <1>1, <2>1, <2>3, MergeTiles
  <2>5. /\ DOMAIN g = DOMAIN m \ {b}
        /\ \A y \in DOMAIN m : y # q /\ y # b =>
             g[y].size = m[y].size /\ g[y].free = m[y].free
        /\ g[q].free = m[q].free
    BY <2>3 DEF MergeTable
  <2>6. q # b
    <3>1. q < Ends(m, q) /\ q \in Nat /\ Ends(m, q) = b
      BY <1>1, <2>1, <2>2, BlockFacts DEF Tiled
    <3> QED BY <3>1
  <2>7. \A y \in DOMAIN g : ~BadPair(g, y)
    BY <1>1, <2>4, <2>5, <2>6
  <2>8. MergedBut(g, NULL)
    BY <2>7 DEF MergedBut, BadPair
  <2>9. Used(g) = Used(m)
    BY <1>1, <1>4, <2>5, <2>6 DEF Used
  <2>10. \A c \in Used(m) : g[c].size = m[c].size
    BY <1>1, <1>4, <2>5 DEF Used
  <2> QED BY <1>1, <2>4, <2>8, <2>9, <2>10 DEF g
<1> QED BY <1>3, <1>4

\* A used block becomes free and is merged; every other block in use is
\* untouched.
LEMMA FreedTable ==
  ASSUME NEW k, Tiled(k), MergedBut(k, NULL), NEW b \in Used(k)
  PROVE  LET g == coalesce([k EXCEPT ![b].free = TRUE], b)
         IN  /\ Tiled(g) /\ MergedBut(g, NULL)
             /\ Used(g) = Used(k) \ {b}
             /\ \A c \in Used(k) \ {b} : g[c].size = k[c].size
<1> DEFINE f == [k EXCEPT ![b].free = TRUE]
           g == coalesce(f, b)
<1>1. b \in DOMAIN k /\ ~k[b].free
  BY DEF Used
<1>3. /\ Tiled(f) /\ DOMAIN f = DOMAIN k /\ f[b].free = TRUE
      /\ \A y \in DOMAIN k : /\ f[y].size = k[y].size /\ f[y].next = k[y].next
                             /\ f[y].prev = k[y].prev
                             /\ y # b => f[y] = k[y]
  <2>1. TRUE \in BOOLEAN
    OBVIOUS
  <2> QED BY <1>1, <2>1, SetFree, Zenon
<1> HIDE DEF f
<1>4. \A y \in DOMAIN f : BadPair(f, y) => y = b \/ y = f[b].prev
  <2> SUFFICES ASSUME NEW y \in DOMAIN f, BadPair(f, y), y # b PROVE y = f[b].prev
    OBVIOUS
  <2>0. y \in DOMAIN k /\ f[y] = k[y]
    BY <1>3
  <2>1. k[y].free /\ k[y].next # NULL /\ f[k[y].next].free
    BY <2>0 DEF BadPair
  <2>2. k[y].next \in DOMAIN k /\ ~k[k[y].next].free /\ k[k[y].next].prev = y
    <3>1. y # NULL
      BY <2>0, BlockFacts DEF NULL
    <3> QED BY <2>0, <2>1, <3>1 DEF MergedBut, Tiled
  <2>3. k[y].next = b
    BY <1>3, <2>1, <2>2
  <2> QED BY <1>3, <2>2, <2>3
<1>5. /\ Tiled(g) /\ MergedBut(g, NULL) /\ Used(g) = Used(f)
      /\ \A c \in Used(f) : g[c].size = f[c].size
  BY <1>1, <1>3, <1>4, CoalesceOk
<1> HIDE DEF g
<1>6. Used(f) = Used(k) \ {b}
  <2>1. \A y \in DOMAIN k : y # b => f[y].free = k[y].free
    BY <1>3
  <2> QED BY <1>1, <1>3, <2>1 DEF Used
<1>7. \A c \in Used(k) \ {b} : g[c].size = k[c].size
  BY <1>3, <1>5, <1>6 DEF Used
<1> QED BY <1>5, <1>6, <1>7 DEF g, f

LEMMA ReleaseOk ==
  ASSUME NEW h, h = [blk |-> h.blk, magic |-> h.magic, hidden |-> h.hidden],
         HeapOk(h), NEW b \in Used(h.blk)
  PROVE  LET r == ReleaseBlock(h, b)
         IN  /\ r = [blk |-> r.blk, magic |-> r.magic, hidden |-> r.hidden]
             /\ HeapOk(r) /\ r.hidden = h.hidden
             /\ Used(r.blk) = Used(h.blk) \ {b}
             /\ \A c \in Used(h.blk) \ {b} : r.blk[c].size = h.blk[c].size
<1> DEFINE g == coalesce([h.blk EXCEPT ![b].free = TRUE], b)
           r == ReleaseBlock(h, b)
<1>1. /\ Tiled(h.blk) /\ MergedBut(h.blk, NULL) /\ h.magic = Used(h.blk)
  BY DEF HeapOk
<1>2. /\ Tiled(g) /\ MergedBut(g, NULL)
      /\ Used(g) = Used(h.blk) \ {b}
      /\ \A c \in Used(h.blk) \ {b} : g[c].size = h.blk[c].size
  BY <1>1, FreedTable
<1>3. /\ r.blk = g /\ r.magic = h.magic \ {b} /\ r.hidden = h.hidden
      /\ r = [blk |-> r.blk, magic |-> r.magic, hidden |-> r.hidden]
  <2> HIDE DEF g
  <2>1. r = [h EXCEPT !.blk = g, !.magic = h.magic \ {b}]
    BY DEF ReleaseBlock, g
  <2> QED BY <2>1
<1> HIDE DEF g, r
<1>4. HeapOk(r)
  BY <1>1, <1>2, <1>3 DEF HeapOk
<1> QED BY <1>2, <1>3, <1>4 DEF r

-----------------------------------------------------------------------------
(***************************************************************************)
(* Pointers.  The heap h and the pointers hs that callers hold.            *)
(***************************************************************************)
HeapR(h) == h = [blk |-> h.blk, magic |-> h.magic, hidden |-> h.hidden]
HandT == [n : Nat, aligned : BOOLEAN]

OwnsIn(h, hs, p, b) ==
  /\ b \in Used(h.blk)
  /\ IF hs[p].aligned THEN p = align_up(b + HDR, PAGE) ELSE p = b + HDR
  /\ p + hs[p].n <= Ends(h.blk, b)

Owns(h, hs) ==
  /\ hs \in [DOMAIN hs -> HandT]
  /\ \A p \in DOMAIN hs : OwnsIn(h, hs, p, FreeTarget(h, p))
  /\ \A p, q \in DOMAIN hs : FreeTarget(h, p) = FreeTarget(h, q) => p = q
  /\ \A b \in Used(h.blk) : \E p \in DOMAIN hs : FreeTarget(h, p) = b

\* Where a pointer lies in its block.
LEMMA Within ==
  ASSUME NEW h, HeapOk(h), NEW hs, NEW p, NEW b, hs[p] \in HandT, OwnsIn(h, hs, p, b)
  PROVE  /\ b \in Nat /\ p \in Nat /\ Ends(h.blk, b) \in Nat /\ HDR \in Nat \ {0}
         /\ b + HDR <= p /\ p <= Ends(h.blk, b) /\ b \in DOMAIN h.blk /\ Tiled(h.blk)
<1>1. Tiled(h.blk) /\ b \in DOMAIN h.blk
  BY DEF HeapOk, OwnsIn, Used
<1>2. /\ b \in Nat /\ Ends(h.blk, b) \in Nat /\ HDR \in Nat \ {0} /\ PAGE \in Nat \ {0}
  BY <1>1, BlockFacts, KheapConstants
<1>3. hs[p].n \in Nat
  BY DEF HandT
<1>4. b + HDR \in Nat
  BY <1>2
<1>5. p \in Nat /\ b + HDR <= p
  <2>1. CASE hs[p].aligned
    BY <1>2, <1>4, <2>1, AlignUp DEF OwnsIn
  <2>2. CASE ~hs[p].aligned
    BY <1>4, <2>2 DEF OwnsIn
  <2> QED BY <2>1, <2>2
<1>6. p <= Ends(h.blk, b)
  BY <1>2, <1>3, <1>5 DEF OwnsIn
<1> QED BY <1>1, <1>2, <1>5, <1>6

\* kfree still finds the block of a pointer in a heap in which the block is in
\* use and as long as before, and the word before the pointer was not touched.
LEMMA TargetKept ==
  ASSUME NEW h, HeapOk(h), NEW t, HeapOk(t), NEW hs, NEW p, hs[p] \in HandT,
         NEW b, b = FreeTarget(h, p), OwnsIn(h, hs, p, b),
         b \in Used(t.blk), t.blk[b].size = h.blk[b].size,
         p - 1 \in b .. (Ends(h.blk, b) - 1) /\ p - 1 \in DOMAIN h.hidden =>
           p - 1 \in DOMAIN t.hidden /\ t.hidden[p - 1] = h.hidden[p - 1]
  PROVE  FreeTarget(t, p) = b /\ OwnsIn(t, hs, p, b)
<1>1. /\ b \in Nat /\ p \in Nat /\ Ends(h.blk, b) \in Nat /\ HDR \in Nat \ {0}
      /\ b + HDR <= p /\ p <= Ends(h.blk, b)
  BY Within
<1>2. Ends(t.blk, b) = Ends(h.blk, b)
  BY DEF Ends
<1>3. OwnsIn(t, hs, p, b)
  BY <1>2 DEF OwnsIn
<1>4. t.magic = Used(t.blk) /\ h.magic = Used(h.blk) /\ Tiled(t.blk) /\ b # NULL
  BY <1>1 DEF HeapOk, NULL
<1>5. CASE p - HDR = b
  BY <1>3, <1>4, <1>5 DEF FreeTarget
<1>6. CASE p - HDR # b
  <2>1. p - HDR \notin h.magic
    BY <1>6 DEF FreeTarget
  <2>2. p - 1 \in DOMAIN h.hidden /\ h.hidden[p - 1] - HDR = b
    BY <1>4, <2>1 DEF FreeTarget
  <2>3. p - 1 \in b .. (Ends(h.blk, b) - 1)
    BY <1>1
  <2>4. p - HDR \notin t.magic
    <3> SUFFICES ASSUME p - HDR \in Used(t.blk) PROVE FALSE
      BY <1>4
    <3>1. p - HDR \in DOMAIN t.blk /\ b \in DOMAIN t.blk
      BY DEF Used
    <3>2. b <= p - HDR /\ p - HDR < Ends(t.blk, b)
      BY <1>1, <1>2
    <3> QED BY <1>4, <1>6, <3>1, <3>2, Inside
  <2>5. p - 1 \in DOMAIN t.hidden /\ t.hidden[p - 1] = h.hidden[p - 1]
    BY <2>2, <2>3
  <2> QED BY <1>3, <1>4, <2>2, <2>4, <2>5 DEF FreeTarget
<1> QED BY <1>5, <1>6

\* The pointers after a new one was handed out.
With(hs, p, n, al) ==
  [q \in DOMAIN hs \cup {p} |-> IF q = p THEN [n |-> n, aligned |-> al] ELSE hs[q]]

\* A block more is in use, with a pointer to it.
LEMMA NewOwner ==
  ASSUME NEW h, HeapOk(h), NEW t, HeapOk(t), NEW hs, Owns(h, hs),
         NEW b, b \notin Used(h.blk), Used(t.blk) = Used(h.blk) \cup {b},
         \A c \in Used(h.blk) : t.blk[c].size = h.blk[c].size,
         \A c \in Used(h.blk) : \A a \in DOMAIN h.hidden : a \in c .. (Ends(h.blk, c) - 1) =>
           a \in DOMAIN t.hidden /\ t.hidden[a] = h.hidden[a],
         NEW p, NEW n \in Nat, NEW al \in BOOLEAN,
         FreeTarget(t, p) = b, OwnsIn(t, With(hs, p, n, al), p, b)
  PROVE  Owns(t, With(hs, p, n, al)) /\ p \notin DOMAIN hs
<1> DEFINE w == With(hs, p, n, al)
<1>1. /\ w \in [DOMAIN hs \cup {p} -> HandT] /\ DOMAIN w = DOMAIN hs \cup {p}
      /\ \A q \in DOMAIN hs : q # p => w[q] = hs[q]
  <2>1. \A q \in DOMAIN hs : hs[q] \in HandT
    BY DEF Owns
  <2>2. [n |-> n, aligned |-> al] \in HandT
    BY DEF HandT
  <2> QED BY <2>1, <2>2 DEF With
<1> HIDE DEF w
<1>2. ASSUME NEW q \in DOMAIN hs
      PROVE  /\ FreeTarget(t, q) = FreeTarget(h, q) /\ FreeTarget(h, q) \in Used(h.blk)
             /\ OwnsIn(t, hs, q, FreeTarget(h, q))
  <2> DEFINE c == FreeTarget(h, q)
  <2>1. OwnsIn(h, hs, q, c) /\ hs[q] \in HandT
    BY DEF Owns
  <2>2. c \in Used(h.blk) /\ c \in Used(t.blk) /\ t.blk[c].size = h.blk[c].size
    BY <2>1 DEF OwnsIn
  <2>3. q - 1 \in c .. (Ends(h.blk, c) - 1) /\ q - 1 \in DOMAIN h.hidden =>
          q - 1 \in DOMAIN t.hidden /\ t.hidden[q - 1] = h.hidden[q - 1]
    BY <2>2
  <2> HIDE DEF c
  <2> QED BY <2>1, <2>2, <2>3, TargetKept DEF c
<1>3. p \notin DOMAIN hs
  BY <1>2
<1>4. ASSUME NEW q \in DOMAIN w PROVE OwnsIn(t, w, q, FreeTarget(t, q))
  <2>1. CASE q = p
    BY <2>1 DEF w
  <2>2. CASE q # p
    <3>1. q \in DOMAIN hs /\ w[q] = hs[q]
      BY <1>1, <2>2
    <3> QED BY <1>2, <3>1 DEF OwnsIn
  <2> QED BY <2>1, <2>2
<1>5. \A q, r \in DOMAIN w : FreeTarget(t, q) = FreeTarget(t, r) => q = r
  <2>1. \A q, r \in DOMAIN hs : FreeTarget(h, q) = FreeTarget(h, r) => q = r
    BY DEF Owns
  <2> QED BY <1>1, <1>2, <2>1
<1>6. \A c \in Used(t.blk) : \E q \in DOMAIN w : FreeTarget(t, q) = c
  <2>1. \A c \in Used(h.blk) : \E q \in DOMAIN hs : FreeTarget(h, q) = c
    BY DEF Owns
  <2> QED BY <1>1, <1>2, <2>1
<1>7. w \in [DOMAIN w -> HandT]
  BY <1>1
<1> QED BY <1>3, <1>4, <1>5, <1>6, <1>7 DEF Owns, w

\* kfree of a pointer that a caller holds.
LEMMA FreeOwns ==
  ASSUME NEW h, HeapR(h), HeapOk(h), NEW hs, Owns(h, hs), NEW p \in DOMAIN hs
  PROVE  /\ HeapR(KfreeFrom(h, p)) /\ HeapOk(KfreeFrom(h, p))
         /\ Owns(KfreeFrom(h, p), [q \in DOMAIN hs \ {p} |-> hs[q]])
<1> DEFINE b == FreeTarget(h, p)
           t == KfreeFrom(h, p)
           w == [q \in DOMAIN hs \ {p} |-> hs[q]]
<1>1. b \in Used(h.blk) /\ b # NULL
  <2>1. OwnsIn(h, hs, p, b) /\ hs[p] \in HandT
    BY DEF Owns
  <2>2. b \in Nat
    BY <2>1, Within
  <2> QED BY <2>1, <2>2 DEF OwnsIn, NULL
<1>2. t = ReleaseBlock(h, b)
  BY <1>1 DEF KfreeFrom
<1> HIDE DEF t
<1>3. /\ HeapR(t) /\ HeapOk(t) /\ t.hidden = h.hidden
      /\ Used(t.blk) = Used(h.blk) \ {b}
      /\ \A c \in Used(h.blk) \ {b} : t.blk[c].size = h.blk[c].size
  BY <1>1, <1>2, ReleaseOk DEF HeapR
<1>4. /\ w \in [DOMAIN hs \ {p} -> HandT] /\ DOMAIN w = DOMAIN hs \ {p}
      /\ \A q \in DOMAIN w : q \in DOMAIN hs /\ q # p /\ w[q] = hs[q]
  BY DEF Owns
<1> HIDE DEF w
<1>5. \A q, r \in DOMAIN hs : FreeTarget(h, q) = FreeTarget(h, r) => q = r
  BY DEF Owns
<1>6. ASSUME NEW q \in DOMAIN w
      PROVE  FreeTarget(t, q) = FreeTarget(h, q) /\ OwnsIn(t, hs, q, FreeTarget(h, q))
  <2> DEFINE c == FreeTarget(h, q)
  <2>1. OwnsIn(h, hs, q, c) /\ hs[q] \in HandT /\ c # b
    BY <1>4, <1>5 DEF Owns
  <2>2. c \in Used(t.blk) /\ t.blk[c].size = h.blk[c].size
    BY <1>3, <2>1 DEF OwnsIn
  <2> HIDE DEF c
  <2> QED BY <1>3, <2>1, <2>2, TargetKept DEF c
<1>7. \A q \in DOMAIN w : OwnsIn(t, w, q, FreeTarget(t, q))
  BY <1>4, <1>6 DEF OwnsIn
<1>8. \A q, r \in DOMAIN w : FreeTarget(t, q) = FreeTarget(t, r) => q = r
  BY <1>4, <1>5, <1>6
<1>9. \A c \in Used(t.blk) : \E q \in DOMAIN w : FreeTarget(t, q) = c
  <2>1. \A c \in Used(h.blk) : \E q \in DOMAIN hs : FreeTarget(h, q) = c
    BY DEF Owns
  <2> QED BY <1>3, <1>4, <1>6, <2>1
<1>10. w \in [DOMAIN w -> HandT]
  BY <1>4
<1> QED BY <1>3, <1>7, <1>8, <1>9, <1>10 DEF Owns, w, t

\* What a used block keeps when the free block b is taken.
LEMMA DisjointBlocks ==
  ASSUME NEW f, Tiled(f), NEW b \in DOMAIN f, NEW c \in DOMAIN f, b # c,
         NEW a \in c .. (Ends(f, c) - 1)
  PROVE  a \notin b .. (Ends(f, b) - 1)
<1>1. /\ b \in Nat /\ c \in Nat /\ Ends(f, b) \in Nat /\ Ends(f, c) \in Nat
  BY BlockFacts
<1>2. (b < c => Ends(f, b) <= c) /\ (c < b => Ends(f, c) <= b)
  BY DEF Tiled
<1> QED BY <1>1, <1>2

\* Taking a block of a heap with owners: what NewOwner asks for.
\* What claiming block b for m bytes makes of heap h.
TakenAs(h, b, m, t) ==
  /\ HeapR(t) /\ HeapOk(t)
  /\ b \notin Used(h.blk) /\ Used(t.blk) = Used(h.blk) \cup {b}
  /\ \A c \in Used(h.blk) : t.blk[c].size = h.blk[c].size
  /\ \A c \in Used(h.blk) : \A a \in DOMAIN h.hidden :
       a \in c .. (Ends(h.blk, c) - 1) =>
         a \in DOMAIN t.hidden /\ t.hidden[a] = h.hidden[a]
  /\ b \in Nat /\ t.blk[b].size \in Nat /\ t.blk[b].size >= m
  /\ b \in DOMAIN t.blk /\ Ends(t.blk, b) = b + HDR + t.blk[b].size
  /\ \A c \in Used(h.blk) : \A a \in b .. (Ends(t.blk, b) - 1) :
       a \notin c .. (Ends(t.blk, c) - 1)

LEMMA TakenFor ==
  ASSUME NEW h, HeapR(h), HeapOk(h), NEW m \in Nat, NEW b \in Candidates(h, m)
  PROVE  TakenAs(h, b, m, TakeBlock(h, b, m))
<1> DEFINE t == TakeBlock(h, b, m)
<1>1. /\ HeapR(t) /\ HeapOk(t) /\ b \in DOMAIN h.blk /\ h.blk[b].free
      /\ Used(t.blk) = Used(h.blk) \cup {b} /\ t.blk[b].size >= m
      /\ \A c \in Used(h.blk) : c # b /\ t.blk[c].size = h.blk[c].size
      /\ \A a \in DOMAIN h.hidden :
           a \notin b .. (Ends(h.blk, b) - 1) =>
             a \in DOMAIN t.hidden /\ t.hidden[a] = h.hidden[a]
  BY TakeOk, SMTT(40) DEF HeapR
<1> HIDE DEF t
<1>2. Tiled(h.blk) /\ Tiled(t.blk)
  BY <1>1 DEF HeapOk
<1>3. b \in DOMAIN t.blk /\ \A c \in Used(h.blk) : c \in DOMAIN h.blk /\ c \in DOMAIN t.blk
  BY <1>1 DEF Used
<1>4. b \notin Used(h.blk)
  BY <1>1
<1>5. \A c \in Used(h.blk) : \A a \in DOMAIN h.hidden :
        a \in c .. (Ends(h.blk, c) - 1) =>
          a \in DOMAIN t.hidden /\ t.hidden[a] = h.hidden[a]
  BY <1>1, <1>2, <1>3, DisjointBlocks
<1>6. b \in Nat /\ t.blk[b].size \in Nat
  BY <1>2, <1>3, BlockFacts
<1>7. \A c \in Used(h.blk) : \A a \in b .. (Ends(t.blk, b) - 1) :
        a \notin c .. (Ends(t.blk, c) - 1)
  BY <1>1, <1>2, <1>3, DisjointBlocks
<1>8. Ends(t.blk, b) = b + HDR + t.blk[b].size
  BY DEF Ends
<1>9. TakenAs(h, b, m, t)
  BY <1>1, <1>3, <1>4, <1>5, <1>6, <1>7, <1>8 DEF TakenAs
<1> QED BY <1>9 DEF t

LEMMA MallocOwns ==
  ASSUME NEW h, HeapR(h), HeapOk(h), NEW hs, Owns(h, hs), NEW n \in Nat,
         NEW b \in Candidates(h, align_up(n, ALIGN))
  PROVE  LET t == TakeBlock(h, b, align_up(n, ALIGN))
         IN  /\ HeapR(t) /\ HeapOk(t)
             /\ Owns(t, With(hs, b + HDR, n, FALSE)) /\ b + HDR \notin DOMAIN hs
<1> DEFINE m == align_up(n, ALIGN)
           t == TakeBlock(h, b, m)
           p == b + HDR
           w == With(hs, p, n, FALSE)
<1>1. m \in Nat /\ n <= m /\ b \in Candidates(h, m)
  BY AlignUp, KheapConstants
<1> HIDE DEF m
<1>2. /\ HeapR(t) /\ HeapOk(t)
      /\ b \notin Used(h.blk) /\ Used(t.blk) = Used(h.blk) \cup {b}
      /\ \A c \in Used(h.blk) : t.blk[c].size = h.blk[c].size
      /\ \A c \in Used(h.blk) : \A a \in DOMAIN h.hidden :
           a \in c .. (Ends(h.blk, c) - 1) =>
             a \in DOMAIN t.hidden /\ t.hidden[a] = h.hidden[a]
      /\ b \in Nat /\ t.blk[b].size \in Nat /\ t.blk[b].size >= m
      /\ Ends(t.blk, b) = b + HDR + t.blk[b].size
  <2>1. TakenAs(h, b, m, t)
    BY <1>1, TakenFor
  <2> HIDE DEF t
  <2> QED BY <2>1 DEF TakenAs
<1> HIDE DEF t
<1>3. HDR \in Nat /\ p - HDR = b
  BY <1>2, KheapConstants
<1>4. FreeTarget(t, p) = b
  BY <1>2, <1>3 DEF FreeTarget, HeapOk
<1>5. w[p] = [n |-> n, aligned |-> FALSE]
  BY DEF With
<1>6. OwnsIn(t, w, p, b)
  <2>1. p + n <= Ends(t.blk, b)
    BY <1>1, <1>2, <1>3
  <2>2. b \in Used(t.blk)
    BY <1>2
  <2> HIDE DEF w
  <2> QED BY <1>5, <2>1, <2>2 DEF OwnsIn
<1>7. FALSE \in BOOLEAN
  OBVIOUS
<1>8. Owns(t, w) /\ p \notin DOMAIN hs
  <2> HIDE DEF p
  <2> QED BY <1>2, <1>4, <1>6, <1>7, NewOwner
<1> QED BY <1>2, <1>8 DEF t, m

\* kmalloc_aligned, with the heap it leaves.
AlignedHeap(h, b, n) ==
  LET t == TakeBlock(h, b, align_up(align_up(n, ALIGN) + PAGE + HDR, ALIGN))
      raw == b + HDR
      p == align_up(raw, PAGE)
  IN  [blk |-> t.blk, magic |-> t.magic,
       hidden |-> IF p = raw THEN t.hidden
                  ELSE [a \in DOMAIN t.hidden \cup {p - 1} |->
                          IF a = p - 1 THEN raw ELSE t.hidden[a]]]

LEMMA AlignedOwns ==
  ASSUME NEW h, HeapR(h), HeapOk(h), NEW hs, Owns(h, hs), NEW n \in Nat,
         NEW b \in Candidates(h, align_up(align_up(n, ALIGN) + PAGE + HDR, ALIGN))
  PROVE  /\ HeapOk(AlignedHeap(h, b, n))
         /\ Owns(AlignedHeap(h, b, n), With(hs, align_up(b + HDR, PAGE), n, TRUE))
<1> DEFINE m == align_up(align_up(n, ALIGN) + PAGE + HDR, ALIGN)
           t == TakeBlock(h, b, m)
           raw == b + HDR
           p == align_up(raw, PAGE)
           w == With(hs, p, n, TRUE)
           z == IF p = raw THEN t.hidden
                ELSE [a \in DOMAIN t.hidden \cup {p - 1} |->
                        IF a = p - 1 THEN raw ELSE t.hidden[a]]
           k == AlignedHeap(h, b, n)
<1>1. m \in Nat /\ n + PAGE + HDR <= m /\ PAGE \in Nat \ {0} /\ HDR \in Nat \ {0}
  <2>1. /\ align_up(n, ALIGN) \in Nat /\ n <= align_up(n, ALIGN)
        /\ ALIGN \in Nat \ {0} /\ PAGE \in Nat \ {0} /\ HDR \in Nat \ {0}
    BY AlignUp, KheapConstants
  <2> DEFINE e == align_up(n, ALIGN) + PAGE + HDR
  <2>2. e \in Nat /\ n + PAGE + HDR <= e
    BY <2>1
  <2> HIDE DEF e
  <2>3. align_up(e, ALIGN) \in Nat /\ e <= align_up(e, ALIGN)
    BY <2>1, <2>2, AlignUp
  <2>4. m = align_up(e, ALIGN)
    BY DEF e
  <2> HIDE DEF m
  <2> QED BY <2>1, <2>2, <2>3, <2>4
<1> HIDE DEF m
<1>2. /\ HeapR(t) /\ HeapOk(t)
      /\ b \notin Used(h.blk) /\ Used(t.blk) = Used(h.blk) \cup {b}
      /\ \A c \in Used(h.blk) : t.blk[c].size = h.blk[c].size
      /\ \A c \in Used(h.blk) : \A a \in DOMAIN h.hidden :
           a \in c .. (Ends(h.blk, c) - 1) =>
             a \in DOMAIN t.hidden /\ t.hidden[a] = h.hidden[a]
      /\ b \in Nat /\ t.blk[b].size \in Nat /\ t.blk[b].size >= m
      /\ b \in DOMAIN t.blk /\ Ends(t.blk, b) = b + HDR + t.blk[b].size
      /\ \A c \in Used(h.blk) : \A a \in b .. (Ends(t.blk, b) - 1) :
           a \notin c .. (Ends(t.blk, c) - 1)
  <2>1. TakenAs(h, b, m, t)
    <3>1. b \in Candidates(h, m)
      BY DEF m
    <3> QED BY <1>1, <3>1, TakenFor
  <2> HIDE DEF t
  <2> QED BY <2>1 DEF TakenAs
<1>3. k.blk = t.blk /\ k.magic = t.magic /\ k.hidden = z
  BY DEF AlignedHeap, m
<1> HIDE DEF t, k
<1>4. raw \in Nat /\ p \in Nat /\ raw <= p /\ p <= raw + PAGE - 1
  <2>1. raw \in Nat /\ PAGE \in Nat \ {0}
    BY <1>1, <1>2
  <2> HIDE DEF raw
  <2> QED BY <2>1, AlignUp
<1>5. p + n <= Ends(t.blk, b) /\ p < Ends(t.blk, b) /\ Ends(t.blk, b) \in Nat
  <2> HIDE DEF p
  <2> QED BY <1>1, <1>2, <1>4
<1>6. HeapOk(k) /\ k.magic = Used(k.blk)
  BY <1>2, <1>3 DEF HeapOk
<1>7. FreeTarget(k, p) = b
  <2>1. CASE p = raw
    <3>1. p - HDR = b
      BY <1>1, <1>2, <2>1
    <3> HIDE DEF p
    <3> QED BY <1>2, <1>3, <1>6, <3>1 DEF FreeTarget
  <2>2. CASE p # raw
    <3>1. p - HDR \notin k.magic
      <4> SUFFICES ASSUME p - HDR \in Used(t.blk) PROVE FALSE
        BY <1>3, <1>6
      <4>1. p - HDR \in DOMAIN t.blk /\ Tiled(t.blk)
        BY <1>2 DEF Used, HeapOk
      <4>2. b <= p - HDR /\ p - HDR < Ends(t.blk, b) /\ p - HDR # b
        <5> HIDE DEF p
        <5> QED BY <1>1, <1>2, <1>4, <1>5, <2>2
      <4> HIDE DEF p
      <4> QED BY <1>2, <4>1, <4>2, Inside
    <3>2. p - 1 \in DOMAIN k.hidden /\ k.hidden[p - 1] = raw
      <4> HIDE DEF p, raw
      <4> QED BY <1>3, <2>2
    <3>3. raw - HDR = b
      BY <1>1, <1>2
    <3> HIDE DEF p, raw
    <3> QED BY <1>2, <1>3, <1>6, <3>1, <3>2, <3>3 DEF FreeTarget
  <2> QED BY <2>1, <2>2
<1>8. w[p] = [n |-> n, aligned |-> TRUE]
  BY DEF With
<1>9. OwnsIn(k, w, p, b)
  <2>1. b \in Used(k.blk)
    BY <1>2, <1>3
  <2> HIDE DEF w
  <2> QED BY <1>3, <1>5, <1>8, <2>1 DEF OwnsIn
<1>10. ASSUME NEW c \in Used(h.blk), NEW a \in DOMAIN h.hidden, a \in c .. (Ends(h.blk, c) - 1)
       PROVE  a \in DOMAIN k.hidden /\ k.hidden[a] = h.hidden[a]
  <2>1. a \in DOMAIN t.hidden /\ t.hidden[a] = h.hidden[a]
    BY <1>2, <1>10
  <2>2. p # raw => a # p - 1
    <3>1. p # raw => p - 1 \in b .. (Ends(t.blk, b) - 1)
      <4> HIDE DEF p
      <4> QED BY <1>1, <1>2, <1>4, <1>5
    <3>2. Ends(t.blk, c) = Ends(h.blk, c)
      BY <1>2 DEF Ends
    <3> HIDE DEF p, raw
    <3> QED BY <1>2, <1>10, <3>1, <3>2
  <2> HIDE DEF p, raw
  <2> QED BY <1>3, <2>1, <2>2
<1>11. TRUE \in BOOLEAN
  OBVIOUS
<1>12. Owns(k, w)
  <2>1. /\ Used(k.blk) = Used(h.blk) \cup {b}
        /\ \A c \in Used(h.blk) : k.blk[c].size = h.blk[c].size
    BY <1>2, <1>3
  <2> HIDE DEF p
  <2> QED BY <1>2, <1>6, <1>7, <1>9, <1>10, <1>11, <2>1, NewOwner
<1> QED BY <1>6, <1>12 DEF k

-----------------------------------------------------------------------------
(***************************************************************************)
(* The inductive invariant: the blocks tile the arena, no two free ones    *)
(* are neighbours, exactly the used ones carry the magic word, and the     *)
(* pointers of callers and the used blocks correspond one to one.          *)
(***************************************************************************)
KhInv == HeapOk(Heap) /\ Owns(Heap, handed)

LEMMA HeapFields ==
  /\ HeapR(Heap) /\ Heap.blk = blk /\ Heap.magic = magic /\ Heap.hidden = hidden
  BY DEF Heap, HeapR

\* The heap after a call that sets it.
LEMMA HeapSet ==
  ASSUME NEW h, HeapR(h), blk' = h.blk, magic' = h.magic, hidden' = h.hidden
  PROVE  Heap' = h
  BY DEF Heap, HeapR

LEMMA KhInitially == KhInit => KhInv
<1> SUFFICES ASSUME KhInit PROVE KhInv
  OBVIOUS
<1> DEFINE d == HEAP_SIZE - HDR
           r == [size |-> d, free |-> TRUE, next |-> NULL, prev |-> NULL]
<1>1. HDR \in Nat \ {0} /\ HEAP_SIZE \in Nat /\ d \in Nat /\ HDR + d = HEAP_SIZE
  BY KheapConstants
<1>2. blk = [b \in {0} |-> r] /\ magic = {} /\ handed = [p \in {} |-> [n |-> 0, aligned |-> FALSE]]
  BY DEF KhInit, kheap_init
<1> HIDE DEF d
<1>3. TRUE \in BOOLEAN /\ NULL \in Addr \cup {NULL}
  OBVIOUS
<1>4. r \in BlockT
  BY <1>1, <1>3, MkBlock
<1>5. r.size = d /\ r.free /\ r.next = NULL /\ r.prev = NULL
  OBVIOUS
<1> HIDE DEF r
<1>6. DOMAIN blk = {0} /\ blk[0] = r /\ blk \in [{0} -> BlockT]
  BY <1>2, <1>4
<1>7. 0 \in Addr /\ Ends(blk, 0) = HEAP_SIZE
  BY <1>1, <1>5, <1>6, KheapConstants DEF Addr, Ends
<1>8. Tiled(blk)
  BY <1>5, <1>6, <1>7 DEF Tiled
<1>9. MergedBut(blk, NULL)
  BY <1>5, <1>6 DEF MergedBut
<1>10. Used(blk) = {}
  BY <1>5, <1>6 DEF Used
<1>11. HeapOk(Heap)
  BY <1>2, <1>8, <1>9, <1>10, HeapFields DEF HeapOk
<1>12. Owns(Heap, handed)
  BY <1>2, <1>10, HeapFields DEF Owns
<1> QED BY <1>11, <1>12 DEF KhInv

LEMMA KmallocKeeps ==
  ASSUME KhInv, NEW n \in Requests, NEW b \in DOMAIN blk, Kmalloc(n, b)
  PROVE  KhInv'
<1> DEFINE t == TakeBlock(Heap, b, align_up(n, ALIGN))
<1>1. n \in Nat /\ b \in Candidates(Heap, align_up(n, ALIGN))
  BY KheapConstants DEF Kmalloc, IsFirstFit
<1>2. HeapR(t) /\ HeapOk(t) /\ Owns(t, With(handed, b + HDR, n, FALSE))
  BY <1>1, HeapFields, MallocOwns DEF KhInv
<1>3. /\ blk' = t.blk /\ magic' = t.magic /\ hidden' = t.hidden
      /\ handed' = With(handed, b + HDR, n, FALSE)
  BY DEF Kmalloc, SetHeap, Hand, With
<1> HIDE DEF t
<1>4. Heap' = t
  BY <1>2, <1>3, HeapSet
<1> QED BY <1>2, <1>3, <1>4 DEF KhInv

LEMMA KmallocAlignedKeeps ==
  ASSUME KhInv, NEW n \in Requests, NEW b \in DOMAIN blk, KmallocAligned(n, b)
  PROVE  KhInv'
<1> DEFINE k == AlignedHeap(Heap, b, n)
<1>1. n \in Nat
  BY KheapConstants
<1>2. b \in Candidates(Heap, align_up(align_up(n, ALIGN) + PAGE + HDR, ALIGN))
  BY DEF KmallocAligned, IsFirstFit
<1>3. HeapOk(k) /\ Owns(k, With(handed, align_up(b + HDR, PAGE), n, TRUE))
  BY <1>1, <1>2, HeapFields, AlignedOwns DEF KhInv
<1>4. /\ blk' = k.blk /\ magic' = k.magic /\ hidden' = k.hidden
      /\ handed' = With(handed, align_up(b + HDR, PAGE), n, TRUE)
  BY DEF KmallocAligned, AlignedHeap, Hand, With
<1>5. HeapR(k)
  BY DEF AlignedHeap, HeapR
<1> HIDE DEF k
<1>6. Heap' = k
  BY <1>4, <1>5, HeapSet
<1> QED BY <1>3, <1>4, <1>6 DEF KhInv

LEMMA KfreeKeeps ==
  ASSUME KhInv, NEW p \in DOMAIN handed, Kfree(p)
  PROVE  KhInv'
<1> DEFINE t == KfreeFrom(Heap, p)
<1>1. HeapR(t) /\ HeapOk(t) /\ Owns(t, Without(p))
  BY HeapFields, FreeOwns DEF KhInv, Without
<1>2. blk' = t.blk /\ magic' = t.magic /\ hidden' = t.hidden /\ handed' = Without(p)
  BY DEF Kfree, SetHeap
<1> HIDE DEF t
<1>3. Heap' = t
  BY <1>1, <1>2, HeapSet
<1> QED BY <1>1, <1>2, <1>3 DEF KhInv

\* krealloc in place: the header right before the pointer is the one that
\* kfree will find, and it was just seen to have room.
LEMMA KreallocInPlaceKeeps ==
  ASSUME KhInv, NEW p \in DOMAIN handed, NEW n \in Requests, KreallocInPlace(p, n)
  PROVE  KhInv'
<1>1. /\ p - HDR \in magic /\ blk[p - HDR].size >= n /\ ~handed[p].aligned
      /\ blk' = blk /\ magic' = magic /\ hidden' = hidden /\ n \in Nat
  BY KheapConstants DEF KreallocInPlace
<1>2. Heap' = Heap /\ Heap.blk = blk /\ Heap.magic = magic
  BY <1>1 DEF Heap
<1>3. FreeTarget(Heap, p) = p - HDR
  BY <1>1, <1>2 DEF FreeTarget
<1>4. /\ OwnsIn(Heap, handed, p, p - HDR) /\ handed[p] \in HandT
      /\ handed \in [DOMAIN handed -> HandT]
  BY <1>3 DEF KhInv, Owns
<1>5. handed[p] = [n |-> handed[p].n, aligned |-> handed[p].aligned]
  BY <1>4 DEF HandT
<1>6. /\ DOMAIN handed' = DOMAIN handed
      /\ \A q \in DOMAIN handed : q # p => handed'[q] = handed[q]
      /\ handed'[p].n = n /\ handed'[p].aligned = handed[p].aligned
      /\ handed'[p] \in HandT /\ handed' \in [DOMAIN handed' -> HandT]
  <2>1. handed' = [handed EXCEPT ![p] = [n |-> n, aligned |-> handed[p].aligned]]
    <3> DEFINE r == handed[p]
               s == [r EXCEPT !.n = n]
    <3>1. handed' = [handed EXCEPT ![p] = s]
      BY DEF KreallocInPlace
    <3>2. r = [n |-> r.n, aligned |-> r.aligned]
      BY <1>5
    <3> HIDE DEF r
    <3>3. s = [n |-> n, aligned |-> r.aligned]
      BY <3>2
    <3> HIDE DEF s
    <3> QED BY <3>1, <3>3 DEF r
  <2>2. [n |-> n, aligned |-> handed[p].aligned] \in HandT
    BY <1>1, <1>4 DEF HandT
  <2> QED BY <1>4, <2>1, <2>2
<1>7. OwnsIn(Heap, handed', p, p - HDR)
  <2>1. /\ p - HDR \in Used(blk) /\ p = p - HDR + HDR
    BY <1>1, <1>2, <1>4 DEF OwnsIn
  <2>2. p \in Nat /\ HDR \in Nat /\ p - HDR \in Nat
    BY <1>4, Within DEF KhInv
  <2>3. blk[p - HDR].size \in Nat
    BY <1>2, <2>1, BlockFacts DEF KhInv, HeapOk, Used
  <2>4. p + n <= Ends(blk, p - HDR)
    BY <1>1, <2>2, <2>3 DEF Ends
  <2> QED BY <1>1, <1>2, <1>6, <2>1, <2>4 DEF OwnsIn
<1>8. \A q \in DOMAIN handed' : OwnsIn(Heap, handed', q, FreeTarget(Heap, q))
  <2> SUFFICES ASSUME NEW q \in DOMAIN handed PROVE OwnsIn(Heap, handed', q, FreeTarget(Heap, q))
    BY <1>6
  <2>1. CASE q = p
    BY <1>3, <1>7, <2>1
  <2>2. CASE q # p
    <3>1. OwnsIn(Heap, handed, q, FreeTarget(Heap, q)) /\ handed'[q] = handed[q]
      BY <1>6, <2>2 DEF KhInv, Owns
    <3> QED BY <3>1 DEF OwnsIn
  <2> QED BY <2>1, <2>2
<1>9. Owns(Heap, handed')
  BY <1>6, <1>8 DEF KhInv, Owns
<1> QED BY <1>2, <1>9 DEF KhInv

LEMMA KreallocMoveKeeps ==
  ASSUME KhInv, NEW p \in DOMAIN handed, NEW n \in Requests, NEW b \in DOMAIN blk,
         KreallocMove(p, n, b)
  PROVE  KhInv'
<1> DEFINE t == TakeBlock(Heap, b, align_up(n, ALIGN))
           r == b + HDR
           w == With(handed, r, n, FALSE)
           k == KfreeFrom(t, p)
<1>1. n \in Nat /\ b \in Candidates(Heap, align_up(n, ALIGN))
  BY KheapConstants DEF KreallocMove, IsFirstFit
<1>2. HeapR(t) /\ HeapOk(t) /\ Owns(t, w) /\ r \notin DOMAIN handed
  BY <1>1, HeapFields, MallocOwns DEF KhInv
<1>3. /\ blk' = k.blk /\ magic' = k.magic /\ hidden' = k.hidden
      /\ handed' = [q \in DOMAIN Without(p) \cup {r} |->
                      IF q = r THEN [n |-> n, aligned |-> FALSE] ELSE Without(p)[q]]
  BY DEF KreallocMove, SetHeap, Hand
<1> HIDE DEF t, r
<1>4. DOMAIN w = DOMAIN handed \cup {r} /\ p \in DOMAIN w /\ p # r
  BY <1>2 DEF With
<1>5. handed' = [q \in DOMAIN w \ {p} |-> w[q]]
  <2>1. DOMAIN Without(p) = DOMAIN handed \ {p} /\ \A q \in DOMAIN handed \ {p} : Without(p)[q] = handed[q]
    BY DEF Without
  <2>2. /\ (DOMAIN handed \ {p}) \cup {r} = DOMAIN w \ {p}
        /\ \A q \in DOMAIN w : w[q] = IF q = r THEN [n |-> n, aligned |-> FALSE] ELSE handed[q]
    BY <1>4 DEF With
  <2> HIDE DEF w
  <2> QED BY <1>3, <1>4, <2>1, <2>2
<1> HIDE DEF w
<1>6. HeapR(k) /\ HeapOk(k) /\ Owns(k, handed')
  BY <1>2, <1>4, <1>5, FreeOwns
<1> HIDE DEF k
<1>7. Heap' = k
  BY <1>3, <1>6, HeapSet
<1> QED BY <1>6, <1>7 DEF KhInv

LEMMA KhStep == KhInv /\ [KhNext]_khVars => KhInv'
<1> SUFFICES ASSUME KhInv, [KhNext]_khVars PROVE KhInv'
  OBVIOUS
<1>1. CASE \E n \in Requests, b \in DOMAIN blk : Kmalloc(n, b) \/ KmallocAligned(n, b)
  BY <1>1, KmallocKeeps, KmallocAlignedKeeps
<1>2. CASE \E p \in DOMAIN handed : Kfree(p) \/ KreallocToZero(p)
  BY <1>2, KfreeKeeps DEF KreallocToZero
<1>3. CASE \E p \in DOMAIN handed, n \in Requests : KreallocInPlace(p, n)
  BY <1>3, KreallocInPlaceKeeps
<1>4. CASE \E p \in DOMAIN handed, n \in Requests, b \in DOMAIN blk : KreallocMove(p, n, b)
  BY <1>4, KreallocMoveKeeps
<1>5. CASE UNCHANGED khVars
  <2>1. Heap' = Heap /\ handed' = handed
    BY <1>5 DEF khVars, Heap
  <2> QED BY <2>1 DEF KhInv
<1> QED BY <1>1, <1>2, <1>3, <1>4, <1>5 DEF KhNext

LEMMA KhAlways == KhSpec => []KhInv
<1> QED BY KhInitially, KhStep, PTL DEF KhSpec

-----------------------------------------------------------------------------
(* Theorems. *)

\* Headers lie in the arena and have sizes and links of their types, through
\* every split of split_block and every merge of coalesce (mm/kheap.c), and
\* nothing but block headers carries the magic word.
THEOREM HeapTypes == KhSpec => []KhTypeOK
<1>1. KhInv => KhTypeOK
  <2> SUFFICES ASSUME KhInv PROVE KhTypeOK
    OBVIOUS
  <2>1. Tiled(blk) /\ magic = Used(blk) /\ handed \in [DOMAIN handed -> HandT]
    BY HeapFields DEF KhInv, HeapOk, Owns
  <2> QED BY <2>1 DEF KhTypeOK, Tiled, Used, HandT
<1> QED BY <1>1, KhAlways, PTL

\* Whatever callers allocate, resize and release, in any order, the block list
\* of mm/kheap.c is the whole arena: no gap, no overlap, prev the inverse of
\* next.
THEOREM ListTilesArena == KhSpec => []ListTilesHeap
<1>1. KhInv => ListTilesHeap
  <2> SUFFICES ASSUME KhInv PROVE ListTilesHeap
    OBVIOUS
  <2>1. Tiled(blk)
    BY HeapFields DEF KhInv, HeapOk
  <2> QED BY <2>1 DEF ListTilesHeap, Tiled, End, Ends
<1> QED BY <1>1, KhAlways, PTL

\* One call of coalesce per kfree is enough: two free blocks are never
\* neighbours.
THEOREM FreeBlocksMerged == KhSpec => []NoFreeNeighbours
<1>1. KhInv => NoFreeNeighbours
  <2> SUFFICES ASSUME KhInv PROVE NoFreeNeighbours
    OBVIOUS
  <2>1. Tiled(blk) /\ MergedBut(blk, NULL)
    BY HeapFields DEF KhInv, HeapOk
  <2>2. \A b \in DOMAIN blk : b # NULL
    BY <2>1, BlockFacts DEF NULL
  <2> QED BY <2>1, <2>2 DEF NoFreeNeighbours, MergedBut
<1> QED BY <1>1, KhAlways, PTL

\* Every pointer that kmalloc, kmalloc_aligned or krealloc handed out has a
\* used block of its own with room for what was asked, kfree finds that block
\* from the pointer, and no used block is without a pointer.
THEOREM EveryPointerOwnsItsBlock == KhSpec => []PointersOwnBlocks
<1>1. KhInv => PointersOwnBlocks
  <2> SUFFICES ASSUME KhInv PROVE PointersOwnBlocks
    OBVIOUS
  <2>1. /\ \A p \in DOMAIN handed : OwnsIn(Heap, handed, p, FreeTarget(Heap, p))
        /\ \A p, q \in DOMAIN handed : FreeTarget(Heap, p) = FreeTarget(Heap, q) => p = q
        /\ \A b \in Used(blk) : \E p \in DOMAIN handed : FreeTarget(Heap, p) = b
    BY HeapFields DEF KhInv, Owns
  <2>2. \A p, b : OwnsIn(Heap, handed, p, b) => OwnerOf(p, b)
    BY HeapFields DEF OwnsIn, OwnerOf, Used, End, Ends
  <2>3. \A b \in DOMAIN blk : ~blk[b].free => b \in Used(blk)
    BY DEF Used
  <2> QED BY <2>1, <2>2, <2>3 DEF PointersOwnBlocks
<1> QED BY <1>1, KhAlways, PTL
=============================================================================
