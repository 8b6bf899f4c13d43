--------------------------- MODULE StorageProofs ---------------------------
(***************************************************************************)
(* Proofs about Storage, for every set of files, disk size, contents and   *)
(* bound on the length of a file.                                          *)
(***************************************************************************)
EXTENDS Storage, TLAPS

\* The two halves of Sound.
Apart(T) ==
  \A f, g \in Files : \A i \in DOMAIN T[f].blocks, j \in DOMAIN T[g].blocks :
    T[f].blocks[i] = T[g].blocks[j] => f = g /\ i = j

Marked(T, B) == B = UNION {BlocksOf(T[f]) : f \in Files}

(***************************************************************************)
(* The properties are not inductive by themselves.  While a save runs, the *)
(* records it wrote are those of the tree, and the disk is not sound; and  *)
(* as long as the disk is sound, a file nobody touched since the last      *)
(* complete save is the same in the tree and in the image, which is why    *)
(* nobody else writes its blocks.                                          *)
(***************************************************************************)
SaveInv ==
  /\ phase \in {"image", "bitmap"} => \A f \in Files \ unsaved : image[f] = tree[f]
  /\ phase = "bitmap" => unsaved = {} /\ ~disk_sound

\* What is not there has no blocks.
NoGhosts ==
  \A f \in Files :
    /\ tree[f].type = "none" => DOMAIN tree[f].blocks = {}
    /\ image[f].type = "none" => DOMAIN image[f].blocks = {}

CleanInv ==
  phase # "off" /\ live_sound /\ disk_sound =>
    \A f \in Files \ dirty : tree[f] = image[f]

StorageInv == TypeOK /\ BlocksAccounted /\ SavedFilesSurvive /\ SaveInv /\ CleanInv /\ NoGhosts

-----------------------------------------------------------------------------
LEMMA SoundParts ==
  ASSUME NEW T, NEW B
  PROVE  Sound(T, B) <=> Apart(T) /\ Marked(T, B)
  BY DEF Sound, Apart, Marked

LEMMA NoFileEmpty == DOMAIN NoFile.blocks = {}
  BY DEF NoFile

LEMMA EmptySound == Sound(EmptyTree, {})
<1>1. \A f \in Files : EmptyTree[f].blocks = << >>
  BY DEF EmptyTree, NoFile
<1>2. DOMAIN << >> = {}
  OBVIOUS
<1>3. \A f \in Files : BlocksOf(EmptyTree[f]) = {}
  BY <1>1, <1>2 DEF BlocksOf
<1> QED BY <1>1, <1>2, <1>3 DEF Sound

\* The empty list is a list, and so the empty tree is a tree.
LEMMA EmptyTypes == NoFile \in NodeT /\ EmptyTree \in [Files -> NodeT] /\ << >> \in Lists
<1>1. << >> \in [1 .. 0 -> Blocks]
  OBVIOUS
<1>2. 0 \in 0 .. MaxLen
  BY StorageConstants
<1>3. << >> \in Lists
  BY <1>1, <1>2 DEF Lists
<1> QED BY <1>3 DEF NoFile, NodeT, EmptyTree

\* A file grew by free blocks.
LEMMA GrownSound ==
  ASSUME NEW f \in Files, tree \in [Files -> NodeT], Sound(tree, bitmap),
         NEW new, new \cap bitmap = {}, NEW longer \in Lists, new \subseteq Blocks,
         Grown(tree[f].blocks, new, longer)
  PROVE  Sound([tree EXCEPT ![f].blocks = longer], bitmap \cup new)
<1> DEFINE T == [tree EXCEPT ![f].blocks = longer]
           list == tree[f].blocks
           added == DOMAIN longer \ DOMAIN list
<1>1. \A g \in Files : T[g].blocks = IF g = f THEN longer ELSE tree[g].blocks
  BY DEF NodeT
<1>2. /\ \A i \in DOMAIN list : i \in DOMAIN longer /\ longer[i] = list[i]
      /\ new = {longer[i] : i \in added}
      /\ \A i, j \in added : i < j => longer[i] < longer[j]
  BY DEF Grown
<1>3. PICK n \in 0 .. MaxLen : longer \in [1 .. n -> Blocks]
  BY DEF Lists
<1>4. DOMAIN longer \subseteq Nat /\ \A i \in DOMAIN longer : longer[i] \in Int
  BY <1>3 DEF Blocks
<1>5. Apart(tree) /\ Marked(tree, bitmap)
  BY SoundParts
<1>6. \A g \in Files : \A i \in DOMAIN tree[g].blocks : tree[g].blocks[i] \in bitmap
  BY <1>5 DEF Marked, BlocksOf
<1> HIDE DEF T
<1>7. Apart(T)
  <2> SUFFICES ASSUME NEW g \in Files, NEW h \in Files,
                      NEW i \in DOMAIN T[g].blocks, NEW j \in DOMAIN T[h].blocks,
                      T[g].blocks[i] = T[h].blocks[j]
               PROVE  g = h /\ i = j
    BY DEF Apart
  <2> DEFINE Old(g1, i1) == i1 \in DOMAIN tree[g1].blocks
                            /\ T[g1].blocks[i1] = tree[g1].blocks[i1]
             New(g1, i1) == g1 = f /\ i1 \in added /\ T[g1].blocks[i1] = longer[i1]
                            /\ longer[i1] \in new
  <2>1. ASSUME NEW g1 \in Files, NEW i1 \in DOMAIN T[g1].blocks
        PROVE  Old(g1, i1) \/ New(g1, i1)
    <3>1. CASE g1 # f
      BY <1>1, <2>1, <3>1
    <3>2. CASE g1 = f /\ i1 \in DOMAIN list
      BY <1>1, <1>2, <2>1, <3>2
    <3>3. CASE g1 = f /\ i1 \notin DOMAIN list
      <4>1. i1 \in added /\ T[g1].blocks[i1] = longer[i1]
        BY <1>1, <2>1, <3>3
      <4> QED BY <1>2, <3>3, <4>1
    <3> QED BY <3>1, <3>2, <3>3
  <2>2. CASE Old(g, i) /\ Old(h, j)
    <3>1. /\ i \in DOMAIN tree[g].blocks /\ j \in DOMAIN tree[h].blocks
          /\ tree[g].blocks[i] = tree[h].blocks[j]
      BY <2>2
    <3> QED BY <1>5, <3>1 DEF Apart
  <2>3. CASE Old(g, i) /\ New(h, j)
    BY <1>6, <2>3
  <2>4. CASE New(g, i) /\ Old(h, j)
    BY <1>6, <2>4
  <2>5. CASE New(g, i) /\ New(h, j)
    <3>1. longer[i] = longer[j] /\ i \in added /\ j \in added
      BY <2>5
    <3>2. ~(i < j) /\ ~(j < i)
      BY <1>2, <1>4, <3>1
    <3>3. i \in Nat /\ j \in Nat
      BY <1>4, <3>1
    <3> QED BY <2>5, <3>2, <3>3
  <2> QED BY <2>1, <2>2, <2>3, <2>4, <2>5
<1>8. Marked(T, bitmap \cup new)
  <2>1. BlocksOf(T[f]) = BlocksOf(tree[f]) \cup new
    BY <1>1, <1>2 DEF BlocksOf
  <2>2. \A g \in Files \ {f} : BlocksOf(T[g]) = BlocksOf(tree[g])
    BY <1>1 DEF BlocksOf
  <2> QED BY <1>5, <2>1, <2>2 DEF Marked
<1> QED BY <1>7, <1>8, SoundParts DEF T

\* A file was removed and its blocks given back.
LEMMA RemovedSound ==
  ASSUME NEW f \in Files, tree \in [Files -> NodeT], Sound(tree, bitmap)
  PROVE  Sound([tree EXCEPT ![f] = NoFile], bitmap \ BlocksOf(tree[f]))
<1> DEFINE T == [tree EXCEPT ![f] = NoFile]
<1>1. \A g \in Files : T[g] = IF g = f THEN NoFile ELSE tree[g]
  OBVIOUS
<1>2. DOMAIN NoFile.blocks = {} /\ BlocksOf(NoFile) = {}
  BY DEF NoFile, BlocksOf
<1>3. Apart(tree) /\ Marked(tree, bitmap)
  BY SoundParts
<1> HIDE DEF T
<1>4. Apart(T)
  BY <1>1, <1>2, <1>3 DEF Apart
<1>5. Marked(T, bitmap \ BlocksOf(tree[f]))
  <2>1. \A g \in Files \ {f} : BlocksOf(tree[g]) \cap BlocksOf(tree[f]) = {}
    BY <1>3 DEF Apart, BlocksOf
  <2>2. BlocksOf(T[f]) = {} /\ \A g \in Files \ {f} : BlocksOf(T[g]) = BlocksOf(tree[g])
    BY <1>1, <1>2
  <2> QED BY <1>3, <2>1, <2>2 DEF Marked
<1> QED BY <1>4, <1>5, SoundParts DEF T

\* A file was created.
LEMMA CreatedSound ==
  ASSUME NEW f \in Files, tree \in [Files -> NodeT], Sound(tree, bitmap),
         DOMAIN tree[f].blocks = {}
  PROVE  Sound([tree EXCEPT ![f] = [type |-> "VFS_FILE", blocks |-> <<>>]], bitmap)
<1> DEFINE T == [tree EXCEPT ![f] = [type |-> "VFS_FILE", blocks |-> <<>>]]
<1>1. /\ T[f].blocks = << >>
      /\ \A g \in Files \ {f} : T[g] = tree[g]
  OBVIOUS
<1>2. DOMAIN << >> = {}
  OBVIOUS
<1> HIDE DEF T
<1>3. BlocksOf(T[f]) = {} /\ BlocksOf(tree[f]) = {}
  BY <1>1, <1>2 DEF BlocksOf
<1>4. \A g \in Files : BlocksOf(T[g]) = BlocksOf(tree[g])
  BY <1>1, <1>3
<1>5. Apart(tree) /\ Marked(tree, bitmap)
  BY SoundParts
<1>6. Apart(T)
  <2>1. \A g \in Files : \A i \in DOMAIN T[g].blocks : g # f
    BY <1>1, <1>2
  <2> QED BY <1>1, <1>5, <2>1 DEF Apart
<1>7. Marked(T, bitmap)
  BY <1>4, <1>5 DEF Marked
<1> QED BY <1>6, <1>7, SoundParts DEF T

-----------------------------------------------------------------------------
LEMMA StorageInvInit == Init => StorageInv
<1> SUFFICES ASSUME Init PROVE StorageInv
  OBVIOUS
<1>1. TypeOK
  BY EmptyTypes DEF Init, TypeOK
<1>2. BlocksAccounted
  BY EmptySound DEF Init, BlocksAccounted
<1>3. SavedFilesSurvive
  BY DEF Init, SavedFilesSurvive
<1>4. SaveInv /\ CleanInv
  BY DEF Init, SaveInv, CleanInv
<1>5. NoGhosts
  BY DEF Init, NoGhosts, EmptyTree, NoFile
<1> QED BY <1>1, <1>2, <1>3, <1>4, <1>5 DEF StorageInv

LEMMA CreateInv ==
  ASSUME StorageInv, NEW f \in Files, ramfs_create_node(f)
  PROVE  StorageInv'
<1> USE DEF StorageInv
<1>1. /\ tree \in [Files -> NodeT] /\ phase = "up" /\ tree[f].type = "none"
      /\ tree' = [tree EXCEPT ![f] = [type |-> "VFS_FILE", blocks |-> <<>>]]
      /\ dirty' = dirty \cup {f}
      /\ UNCHANGED <<bitmap, phase, unsaved, image, disk_bitmap, content, live_sound,
                     disk_sound, snapshot>>
  BY DEF ramfs_create_node, NewNode, TypeOK, disk
<1>2. [type |-> "VFS_FILE", blocks |-> <<>>] \in NodeT
  BY EmptyTypes DEF NodeT
<1>3. TypeOK'
  BY <1>1, <1>2 DEF TypeOK
<1>4. DOMAIN tree[f].blocks = {}
  BY <1>1 DEF NoGhosts
<1>5. live_sound => Sound(tree', bitmap)
  BY <1>1, <1>4, CreatedSound DEF BlocksAccounted
<1>6. BlocksAccounted'
  BY <1>1, <1>5 DEF BlocksAccounted, Sound
<1>7. SavedFilesSurvive'
  BY <1>1 DEF SavedFilesSurvive
<1>8. SaveInv' /\ CleanInv'
  BY <1>1 DEF SaveInv, CleanInv
<1>9. NoGhosts'
  <2>1. \A g \in Files : (g = f /\ tree'[g].type = "VFS_FILE") \/ tree'[g] = tree[g]
    BY <1>1
  <2> QED BY <1>1, <2>1 DEF NoGhosts
<1> QED BY <1>3, <1>6, <1>7, <1>8, <1>9

LEMMA RemoveInv ==
  ASSUME StorageInv, NEW f \in Files, ramfs_remove_node(f)
  PROVE  StorageInv'
<1> USE DEF StorageInv
<1>1. /\ tree \in [Files -> NodeT] /\ phase = "up"
      /\ tree' = [tree EXCEPT ![f] = NoFile]
      /\ bitmap' = bitmap \ BlocksOf(tree[f])
      /\ dirty' = dirty \cup {f}
      /\ UNCHANGED <<phase, unsaved, image, disk_bitmap, content, live_sound,
                     disk_sound, snapshot>>
  BY DEF ramfs_remove_node, blockfs_free, TypeOK, disk
<1>2. TypeOK'
  BY <1>1, EmptyTypes DEF TypeOK
<1>3. live_sound => Sound(tree', bitmap')
  BY <1>1, RemovedSound DEF BlocksAccounted
<1>4. BlocksAccounted'
  BY <1>1, <1>3 DEF BlocksAccounted, Sound
<1>5. SavedFilesSurvive'
  BY <1>1 DEF SavedFilesSurvive
<1>6. SaveInv' /\ CleanInv'
  BY <1>1 DEF SaveInv, CleanInv
<1>7. NoGhosts'
  <2>1. \A g \in Files : tree'[g] = NoFile \/ tree'[g] = tree[g]
    BY <1>1
  <2> QED BY <1>1, <2>1, NoFileEmpty DEF NoGhosts
<1> QED BY <1>2, <1>4, <1>5, <1>6, <1>7

\* A write goes to blocks of the file itself or to free ones, so the blocks of
\* a file nobody touched keep what they held.
LEMMA WriteInv ==
  ASSUME StorageInv, NEW f \in Files, NEW k \in 1 .. MaxLen, NEW d \in Data,
         NEW works \in BOOLEAN, diskfile_write(f, k, d, works)
  PROVE  StorageInv'
<1> USE DEF StorageInv
<1> DEFINE n == IF k > Len(tree[f].blocks) THEN k - Len(tree[f].blocks) ELSE 0
           new == blockfs_alloc(n)
<1>1. PICK longer \in Lists, zeroed \in SUBSET new :
        /\ Grown(tree[f].blocks, new, longer)
        /\ tree' = [tree EXCEPT ![f].blocks = longer]
        /\ content' = [b \in Blocks |->
             IF works /\ b \in Written(longer, k) THEN d
             ELSE IF b \in zeroed THEN Zero
             ELSE content[b]]
  BY DEF diskfile_write
<1>2. /\ tree \in [Files -> NodeT] /\ phase = "up" /\ tree[f].type = "VFS_FILE"
      /\ bitmap' = bitmap \cup new
      /\ dirty' = dirty \cup {f}
      /\ disk_sound' = (disk_sound /\ live_sound)
      /\ UNCHANGED <<phase, unsaved, image, disk_bitmap, live_sound, snapshot>>
  BY DEF diskfile_write, TypeOK
<1>3. new \subseteq Blocks /\ new \cap bitmap = {}
  BY DEF blockfs_alloc, FreeBlocks
<1> HIDE DEF new, n
<1>4. \A g \in Files : tree'[g] = IF g = f THEN [tree[f] EXCEPT !.blocks = longer] ELSE tree[g]
  BY <1>1, <1>2
<1>5. TypeOK'
  <2>1. tree' \in [Files -> NodeT]
    BY <1>1, <1>2 DEF NodeT
  <2>2. content' \in [Blocks -> Data \cup {Zero}]
    BY <1>1 DEF TypeOK
  <2>3. disk_sound' \in BOOLEAN
    BY <1>2
  <2> QED BY <1>2, <1>3, <2>1, <2>2, <2>3 DEF TypeOK
<1>6. live_sound => Sound(tree', bitmap')
  BY <1>1, <1>2, <1>3, GrownSound DEF BlocksAccounted
<1>7. BlocksAccounted'
  <2>1. disk_sound' => Sound(image, disk_bitmap)
    BY <1>2 DEF BlocksAccounted
  <2>2. live_sound' => Sound(tree', bitmap')
    BY <1>2, <1>6
  <2> QED BY <1>2, <2>1, <2>2 DEF BlocksAccounted
<1>8. SavedFilesSurvive'
  <2>1. SUFFICES ASSUME live_sound, NEW g \in Files \ dirty, g # f,
                        NEW b \in BlocksOf(tree[g])
                 PROVE  content'[b] = snapshot[b]
    <3>1. disk_sound' /\ live_sound => \A g \in Files \ dirty : tree[g] = image[g]
      BY <1>2 DEF CleanInv
    <3>2. \A g \in Files \ dirty' : g # f /\ g \in Files \ dirty /\ tree'[g] = tree[g]
      BY <1>2, <1>4
    <3> QED BY <1>2, <3>1, <3>2 DEF SavedFilesSurvive
  <2>2. Sound(tree, bitmap) /\ content[b] = snapshot[b]
    BY <1>2, <2>1 DEF BlocksAccounted, SavedFilesSurvive
  <2>3. PICK i \in DOMAIN tree[g].blocks : b = tree[g].blocks[i]
    BY DEF BlocksOf
  <2>4. b \in bitmap /\ b \in Blocks
    BY <2>2, <2>3 DEF Sound, BlocksOf, TypeOK
  <2>5. b \notin new
    BY <1>3, <2>4
  <2>6. k \in DOMAIN longer => b # longer[k]
    <3>1. CASE k \in DOMAIN tree[f].blocks
      <4>1. longer[k] = tree[f].blocks[k]
        BY <1>1, <3>1 DEF Grown
      <4> QED BY <2>1, <2>2, <2>3, <3>1, <4>1 DEF Sound
    <3>2. CASE k \in DOMAIN longer \ DOMAIN tree[f].blocks
      <4>1. longer[k] \in new
        BY <1>1, <3>2 DEF Grown
      <4> QED BY <2>5, <4>1
    <3> QED BY <3>1, <3>2
  <2>7. b \notin Written(longer, k)
    BY <2>6 DEF Written
  <2> QED BY <1>1, <2>2, <2>4, <2>5, <2>7
<1>9. SaveInv'
  BY <1>2 DEF SaveInv
<1>10. CleanInv'
  BY <1>2, <1>4 DEF CleanInv
<1>11. NoGhosts'
  <2>1. tree'[f].type = "VFS_FILE"
    BY <1>2, <1>4 DEF NodeT
  <2> QED BY <1>2, <1>4, <2>1 DEF NoGhosts
<1> QED BY <1>5, <1>7, <1>8, <1>9, <1>10, <1>11

LEMMA SaveRecordInv ==
  ASSUME StorageInv, NEW f \in Files, SaveRecord(f)
  PROVE  StorageInv'
<1> USE DEF StorageInv
<1>1. /\ tree \in [Files -> NodeT] /\ image \in [Files -> NodeT]
      /\ phase = "image" /\ f \in unsaved /\ unsaved \subseteq Files
      /\ image' = [image EXCEPT ![f] = tree[f]]
      /\ unsaved' = unsaved \ {f}
      /\ phase' = IF unsaved = {f} THEN "bitmap" ELSE "image"
      /\ disk_sound' = FALSE
      /\ UNCHANGED <<tree, bitmap, disk_bitmap, content, live_sound, dirty, snapshot>>
  BY DEF SaveRecord, TypeOK
<1>2. TypeOK'
  BY <1>1 DEF TypeOK
<1>3. BlocksAccounted'
  BY <1>1 DEF BlocksAccounted, Sound
<1>4. SavedFilesSurvive' /\ CleanInv'
  BY <1>1 DEF SavedFilesSurvive, CleanInv
<1>5. SaveInv'
  BY <1>1 DEF SaveInv
<1>6. NoGhosts'
  BY <1>1 DEF NoGhosts
<1> QED BY <1>2, <1>3, <1>4, <1>5, <1>6

\* The last write of a complete save makes the disk what the RAM is.
LEMMA FlushInv ==
  ASSUME StorageInv, NEW k \in 0 .. total_blocks, blockfs_flush_bitmap(k)
  PROVE  StorageInv'
<1> USE DEF StorageInv
<1>1. /\ tree \in [Files -> NodeT] /\ image \in [Files -> NodeT]
      /\ bitmap \subseteq Blocks /\ disk_bitmap \subseteq Blocks
      /\ phase = "bitmap" /\ phase' = "up" /\ disk_bitmap' = Flushed(k)
      /\ UNCHANGED <<tree, bitmap, unsaved, image, content, live_sound>>
      /\ ~disk_sound /\ unsaved = {}
  BY DEF blockfs_flush_bitmap, TypeOK, SaveInv
<1>2. Flushed(k) \subseteq Blocks
  BY DEF Flushed
<1>3. CASE k = total_blocks
  <2>1. disk_sound' = live_sound /\ dirty' = {} /\ snapshot' = content
    BY <1>3 DEF blockfs_flush_bitmap
  <2>2. disk_bitmap' = bitmap
    <3>1. \A b \in Blocks : b < k
      BY <1>3, StorageConstants DEF Blocks
    <3>2. Flushed(k) = bitmap
      BY <1>1, <3>1 DEF Flushed
    <3> QED BY <1>1, <3>2
  <2>3. image = tree
    BY <1>1 DEF SaveInv
  <2>4. TypeOK'
    BY <1>1, <1>2, <2>1 DEF TypeOK
  <2>5. BlocksAccounted'
    BY <1>1, <2>1, <2>2, <2>3 DEF BlocksAccounted
  <2>6. SavedFilesSurvive'
    <3>1. content' = snapshot'
      BY <1>1, <2>1
    <3> QED BY <3>1 DEF SavedFilesSurvive
  <2>7. SaveInv' /\ CleanInv' /\ NoGhosts'
    BY <1>1, <2>3 DEF SaveInv, CleanInv, NoGhosts
  <2> QED BY <2>4, <2>5, <2>6, <2>7
<1>4. CASE k # total_blocks
  <2>1. UNCHANGED <<disk_sound, dirty, snapshot>>
    BY <1>4 DEF blockfs_flush_bitmap
  <2>2. TypeOK'
    BY <1>1, <1>2, <2>1 DEF TypeOK
  <2>3. BlocksAccounted' /\ SavedFilesSurvive'
    BY <1>1, <2>1 DEF BlocksAccounted, SavedFilesSurvive, Sound
  <2>4. SaveInv' /\ CleanInv' /\ NoGhosts'
    BY <1>1, <2>1 DEF SaveInv, CleanInv, NoGhosts
  <2> QED BY <2>2, <2>3, <2>4
<1> QED BY <1>3, <1>4

\* Booting without an error brings back what the disk has.
LEMMA BootInv ==
  ASSUME StorageInv, Boot \/ BootBadly
  PROVE  StorageInv'
<1> USE DEF StorageInv
<1>1. /\ image \in [Files -> NodeT] /\ disk_bitmap \subseteq Blocks
      /\ phase' = "up"
      /\ UNCHANGED <<unsaved, image, disk_bitmap, content, disk_sound, dirty, snapshot>>
  BY DEF Boot, BootBadly, disk, TypeOK
<1>2. SaveInv'
  BY <1>1 DEF SaveInv
<1>3. CASE Boot
  <2>1. bitmap' = disk_bitmap /\ tree' = image /\ live_sound' = disk_sound
    BY <1>3 DEF Boot, blockfs_init, diskfs_load
  <2>2. TypeOK'
    BY <1>1, <2>1 DEF TypeOK
  <2>3. BlocksAccounted'
    BY <1>1, <2>1 DEF BlocksAccounted
  <2>4. CleanInv' /\ NoGhosts'
    BY <1>1, <2>1 DEF CleanInv, NoGhosts
  <2>5. SavedFilesSurvive'
    BY <1>1, <2>1 DEF SavedFilesSurvive
  <2> QED BY <1>2, <2>2, <2>3, <2>4, <2>5
<1>4. CASE BootBadly
  <2>1. bitmap' \subseteq Blocks /\ live_sound' = FALSE
    BY <1>1, <1>4 DEF BootBadly
  <2>2. PICK got \in SUBSET Files :
          tree' = [f \in Files |-> IF f \in got THEN image[f] ELSE NoFile]
    BY <1>4 DEF BootBadly
  <2>3. TypeOK'
    BY <1>1, <2>1, <2>2, EmptyTypes DEF TypeOK
  <2>4. BlocksAccounted' /\ CleanInv' /\ SavedFilesSurvive'
    BY <1>1, <2>1 DEF BlocksAccounted, Sound, CleanInv, SavedFilesSurvive
  <2>5. NoGhosts'
    <3>1. \A g \in Files : tree'[g] = NoFile \/ tree'[g] = image[g]
      BY <2>2
    <3> QED BY <1>1, <3>1, NoFileEmpty DEF NoGhosts
  <2> QED BY <1>2, <2>3, <2>4, <2>5
<1> QED BY <1>3, <1>4

LEMMA StorageInvInductive == StorageInv /\ [Next]_vars => StorageInv'
<1> SUFFICES ASSUME StorageInv, [Next]_vars PROVE StorageInv'
  OBVIOUS
<1>1. CASE \E f \in Files : \/ ramfs_create_node(f)
                            \/ ramfs_remove_node(f)
                            \/ SaveRecord(f)
  BY <1>1, CreateInv, RemoveInv, SaveRecordInv
<1>2. CASE \E f \in Files, k \in 1 .. MaxLen, d \in Data, works \in BOOLEAN :
             diskfile_write(f, k, d, works)
  BY <1>2, WriteInv
<1>3. CASE SaveBegin
  <2> USE DEF StorageInv
  <2>1. /\ phase = "up" /\ phase' = "image" /\ unsaved' = Files
        /\ UNCHANGED <<tree, bitmap, image, disk_bitmap, content, live_sound, disk_sound,
                       dirty, snapshot>>
    BY <1>3 DEF SaveBegin, disk, history
  <2>2. TypeOK' /\ BlocksAccounted' /\ SavedFilesSurvive'
    BY <2>1 DEF TypeOK, BlocksAccounted, SavedFilesSurvive, Sound
  <2>3. SaveInv' /\ CleanInv' /\ NoGhosts'
    BY <2>1 DEF SaveInv, CleanInv, NoGhosts
  <2> QED BY <2>2, <2>3
<1>4. CASE SaveStops
  <2> USE DEF StorageInv
  <2>1. /\ phase # "off" /\ phase' = "up" /\ unsaved' = {}
        /\ UNCHANGED <<tree, bitmap, image, disk_bitmap, content, live_sound, disk_sound,
                       dirty, snapshot>>
    BY <1>4 DEF SaveStops, disk, history
  <2>2. TypeOK' /\ BlocksAccounted' /\ SavedFilesSurvive'
    BY <2>1 DEF TypeOK, BlocksAccounted, SavedFilesSurvive, Sound
  <2>3. SaveInv' /\ CleanInv' /\ NoGhosts'
    BY <2>1 DEF SaveInv, CleanInv, NoGhosts
  <2> QED BY <2>2, <2>3
<1>5. CASE \E k \in 0 .. total_blocks : blockfs_flush_bitmap(k)
  BY <1>5, FlushInv
<1>6. CASE PowerOff
  <2> USE DEF StorageInv
  <2>1. /\ phase' = "off" /\ tree' = EmptyTree /\ bitmap' = {} /\ unsaved' = {}
        /\ UNCHANGED <<image, disk_bitmap, content, live_sound, disk_sound, dirty, snapshot>>
    BY <1>6 DEF PowerOff, disk, history
  <2>2. TypeOK'
    BY <2>1, EmptyTypes DEF TypeOK
  <2>3. BlocksAccounted' /\ SavedFilesSurvive'
    BY <2>1 DEF BlocksAccounted, SavedFilesSurvive, Sound
  <2>4. SaveInv' /\ CleanInv'
    BY <2>1 DEF SaveInv, CleanInv
  <2>5. NoGhosts'
    <3>1. \A g \in Files : tree'[g] = NoFile
      BY <2>1 DEF EmptyTree
    <3> QED BY <2>1, <3>1, NoFileEmpty DEF NoGhosts
  <2> QED BY <2>2, <2>3, <2>4, <2>5
<1>7. CASE Boot \/ BootBadly
  BY <1>7, BootInv
<1>8. CASE UNCHANGED vars
  <2> USE DEF StorageInv
  <2>1. UNCHANGED <<tree, bitmap, phase, unsaved, image, disk_bitmap, content, live_sound,
                    disk_sound, dirty, snapshot>>
    BY <1>8 DEF vars, disk, history
  <2>2. TypeOK' /\ BlocksAccounted' /\ SavedFilesSurvive'
    BY <2>1 DEF TypeOK, BlocksAccounted, SavedFilesSurvive, Sound
  <2>3. SaveInv' /\ CleanInv' /\ NoGhosts'
    BY <2>1 DEF SaveInv, CleanInv, NoGhosts
  <2> QED BY <2>2, <2>3
<1> QED BY <1>1, <1>2, <1>3, <1>4, <1>5, <1>6, <1>7, <1>8 DEF Next

\* For every number of files and blocks and any order of writes, removals,
\* saves that end or stop half-way, power cuts and boots: blocks are neither
\* shared nor lost as long as no half save is loaded, and files left alone
\* since the last complete save keep their contents where SavedFilesSurvive
\* says so (fs/blockfs.c, fs/ramfs.c, fs/diskfs.c).
THEOREM StorageSafe == Spec => [](TypeOK /\ BlocksAccounted /\ SavedFilesSurvive)
<1>1. StorageInv => TypeOK /\ BlocksAccounted /\ SavedFilesSurvive
  BY DEF StorageInv
<1> QED BY <1>1, StorageInvInit, StorageInvInductive, PTL DEF Spec

\* Block lists, contents and the saved image stay well-typed for every number
\* of files and blocks (fs/ramfs.c, fs/blockfs.c, fs/diskfs.c).
THEOREM StorageTypes == Spec => []TypeOK
BY StorageSafe, PTL

\* A file that nobody touched since the last complete save keeps its contents:
\* in the running system whatever else is written, removed or not saved, and
\* across power cuts until a later save begins to overwrite the image and does
\* not end (fs/blockfs.c, fs/diskfs.c).
THEOREM SavedFilesKept == Spec => []SavedFilesSurvive
BY StorageSafe, PTL
============================================================================
