------------------------------ MODULE Storage ------------------------------
(***************************************************************************)
(* Files on disk: the block allocator of fs/blockfs.c, the disk-backed     *)
(* files of fs/ramfs.c and the saved image of fs/diskfs.c, under power     *)
(* cuts, disk errors and saves that stop half-way.                         *)
(*                                                                         *)
(* The tree and the block bitmap live in RAM and reach the disk only in    *)
(* diskfs_save, the image record by record and then the bitmap; the        *)
(* contents of files are written through at once.  A directory of files    *)
(* stands for the tree; sizes, owners and permissions are left out, and so *)
(* are small files kept in RAM, which are part of their record.  A system  *)
(* call runs to its end, but diskfs_save may be left at any chunk, by an   *)
(* error of the disk or because the shell that called it lost the CPU.     *)
(***************************************************************************)
EXTENDS Integers, FiniteSets, Sequences

CONSTANTS
  Files,          \* names
  total_blocks,   \* data blocks of the disk
  Data,           \* what a write can put into a block
  MaxLen          \* bound: blocks of one file

ASSUME StorageConstants ==
  total_blocks \in Nat /\ MaxLen \in Nat /\ 0 \notin Data

VARIABLES
  tree,          \* RAM: the files and their block lists
  bitmap,        \* RAM: blocks in use
  phase,         \* "up", "off", or inside diskfs_save: "image", "bitmap"
  unsaved,       \* records the save in progress has still to write
  image,         \* disk: the saved tree
  disk_bitmap,   \* disk: the saved bitmap
  content,       \* disk: the data blocks
  live_sound,    \* history: the tree came from a sound disk, read without error
  disk_sound,    \* history: the last save was complete, of a sound tree
  dirty,         \* history: files touched since the last complete save
  snapshot       \* history: the data blocks at the last complete save

disk == <<image, disk_bitmap, content>>
history == <<live_sound, disk_sound, dirty, snapshot>>
vars == <<tree, bitmap, phase, unsaved, disk, history>>

Blocks == 0 .. (total_blocks - 1)
Zero == 0
Lists == UNION {[1 .. n -> Blocks] : n \in 0 .. MaxLen}

NodeT == [type : {"none", "VFS_FILE"}, blocks : Lists]
NoFile == [type |-> "none", blocks |-> <<>>]
EmptyTree == [f \in Files |-> NoFile]

BlocksOf(node) == {node.blocks[i] : i \in DOMAIN node.blocks}

Init ==
  /\ tree = EmptyTree /\ image = EmptyTree
  /\ bitmap = {} /\ disk_bitmap = {}
  /\ phase = "up" /\ unsaved = {}
  /\ content = [b \in Blocks |-> Zero] /\ snapshot = [b \in Blocks |-> Zero]
  /\ live_sound = TRUE /\ disk_sound = TRUE
  /\ dirty = {}

-----------------------------------------------------------------------------
(***************************************************************************)
(* Running: creating, writing and removing files.                          *)
(***************************************************************************)

FreeBlocks == Blocks \ bitmap

\* n calls of blockfs_alloc: the first free blocks, fewer when the disk is full.
blockfs_alloc(n) ==
  {b \in FreeBlocks : Cardinality({c \in FreeBlocks : c < b}) < n}

\* The list of a file that ensure_blocks grew by the blocks of new, in order.
Grown(list, new, longer) ==
  LET added == DOMAIN longer \ DOMAIN list
  IN  /\ \A i \in DOMAIN list : i \in DOMAIN longer /\ longer[i] = list[i]
      /\ new = {longer[i] : i \in added}
      /\ \A i, j \in added : i < j => longer[i] < longer[j]

NewNode == [type |-> "VFS_FILE", blocks |-> <<>>]

\* ramfs_create_node for a name that is not there.
ramfs_create_node(f) ==
  /\ phase = "up"
  /\ tree[f].type = "none"
  /\ tree' = [tree EXCEPT ![f] = NewNode]
  /\ dirty' = dirty \cup {f}
  /\ UNCHANGED <<bitmap, phase, unsaved, disk, live_sound, disk_sound, snapshot>>

\* The number of the block in the file taken for its place on the disk.
WrittenInPlace(list, k) == {k - 1}

\* Where block number k of a file goes; nowhere if the file has not grown so far.
Written(list, k) == {list[i] : i \in DOMAIN list \cap {k}}

\* diskfile_write into block number k of the file.  Each new block is zeroed or
\* not, the answer of the disk to that is ignored; on a full disk nothing is
\* written but the blocks found stay with the file.  The disk takes the data
\* when it works then.
diskfile_write(f, k, d, works) ==
  LET n   == IF k > Len(tree[f].blocks) THEN k - Len(tree[f].blocks) ELSE 0
      new == blockfs_alloc(n)
  IN  /\ phase = "up"
      /\ tree[f].type = "VFS_FILE"
      /\ \E longer \in Lists, zeroed \in SUBSET new :
           /\ Grown(tree[f].blocks, new, longer)
           /\ tree' = [tree EXCEPT ![f].blocks = longer]
           /\ content' = [b \in Blocks |->
                IF works /\ b \in Written(longer, k) THEN d
                ELSE IF b \in zeroed THEN Zero
                ELSE content[b]]
      /\ bitmap' = bitmap \cup new
      /\ dirty' = dirty \cup {f}
      /\ disk_sound' = (disk_sound /\ live_sound)
      /\ UNCHANGED <<phase, unsaved, image, disk_bitmap, live_sound, snapshot>>

\* The blocks are not given back.
blockfs_free_none(B) == bitmap

blockfs_free(B) == bitmap \ B

ramfs_remove_node(f) ==
  /\ phase = "up"
  /\ tree[f].type = "VFS_FILE"
  /\ tree' = [tree EXCEPT ![f] = NoFile]
  /\ bitmap' = blockfs_free(BlocksOf(tree[f]))
  /\ dirty' = dirty \cup {f}
  /\ UNCHANGED <<phase, unsaved, disk, live_sound, disk_sound, snapshot>>

-----------------------------------------------------------------------------
(***************************************************************************)
(* diskfs_save: the image is overwritten in place, then the bitmap.        *)
(***************************************************************************)
SaveBegin ==
  /\ phase = "up"
  /\ phase' = "image"
  /\ unsaved' = Files
  /\ UNCHANGED <<tree, bitmap, disk, history>>

SaveRecord(f) ==
  /\ phase = "image"
  /\ f \in unsaved
  /\ image' = [image EXCEPT ![f] = tree[f]]
  /\ unsaved' = unsaved \ {f}
  /\ phase' = IF unsaved = {f} THEN "bitmap" ELSE "image"
  /\ disk_sound' = FALSE
  /\ UNCHANGED <<tree, bitmap, disk_bitmap, content, live_sound, dirty, snapshot>>

\* A write of the image failed, or the shell that saves lost the CPU for good.
SaveStops ==
  /\ phase \in {"image", "bitmap"}
  /\ phase' = "up"
  /\ unsaved' = {}
  /\ UNCHANGED <<tree, bitmap, disk, history>>

\* blockfs_flush_bitmap up to block k, where the disk may stop answering; the
\* result is not looked at.
Flushed(k) == {b \in Blocks : IF b < k THEN b \in bitmap ELSE b \in disk_bitmap}

blockfs_flush_bitmap(k) ==
  /\ phase = "bitmap"
  /\ disk_bitmap' = Flushed(k)
  /\ IF k = total_blocks
     THEN disk_sound' = live_sound /\ dirty' = {} /\ snapshot' = content
     ELSE UNCHANGED <<disk_sound, dirty, snapshot>>
  /\ phase' = "up"
  /\ UNCHANGED <<tree, bitmap, unsaved, image, content, live_sound>>

-----------------------------------------------------------------------------
(***************************************************************************)
(* Power cuts at any point, and booting.                                   *)
(***************************************************************************)
PowerOff ==
  /\ phase # "off"
  /\ phase' = "off"
  /\ tree' = EmptyTree /\ bitmap' = {} /\ unsaved' = {}
  /\ UNCHANGED <<disk, history>>

blockfs_init == disk_bitmap

diskfs_load == image

Boot ==
  /\ phase = "off"
  /\ phase' = "up"
  /\ bitmap' = blockfs_init
  /\ tree' = diskfs_load
  /\ live_sound' = disk_sound
  /\ UNCHANGED <<unsaved, disk, disk_sound, dirty, snapshot>>

\* With read errors or out of memory: an unreadable bitmap counts as blank,
\* and diskfs_load leaves the files it got to.
BootBadly ==
  /\ phase = "off"
  /\ phase' = "up"
  /\ bitmap' \in {disk_bitmap, {}}
  /\ \E got \in SUBSET Files :
       tree' = [f \in Files |-> IF f \in got THEN image[f] ELSE NoFile]
  /\ live_sound' = FALSE
  /\ UNCHANGED <<unsaved, disk, disk_sound, dirty, snapshot>>

Next ==
  \/ \E f \in Files : \/ ramfs_create_node(f)
                      \/ ramfs_remove_node(f)
                      \/ SaveRecord(f)
  \/ \E f \in Files, k \in 1 .. MaxLen, d \in Data, works \in BOOLEAN :
       diskfile_write(f, k, d, works)
  \/ SaveBegin
  \/ SaveStops
  \/ \E k \in 0 .. total_blocks : blockfs_flush_bitmap(k)
  \/ PowerOff
  \/ Boot
  \/ BootBadly

Spec == Init /\ [][Next]_vars

-----------------------------------------------------------------------------
(***************************************************************************)
(* Properties.                                                             *)
(***************************************************************************)

\* Trees and bitmaps, in RAM and on the disk, only ever name blocks of the disk,
\* through full disks, torn saves and bad boots (fs/blockfs.c, fs/diskfs.c).
TypeOK ==
  /\ tree \in [Files -> NodeT] /\ image \in [Files -> NodeT]
  /\ bitmap \subseteq Blocks /\ disk_bitmap \subseteq Blocks
  /\ phase \in {"up", "off", "image", "bitmap"}
  /\ unsaved \subseteq Files
  /\ content \in [Blocks -> Data \cup {Zero}]
  /\ live_sound \in BOOLEAN /\ disk_sound \in BOOLEAN
  /\ dirty \subseteq Files
  /\ snapshot \in [Blocks -> Data \cup {Zero}]

\* No block is in two places, and the bitmap B has exactly the blocks of T.
Sound(T, B) ==
  /\ \A f, g \in Files : \A i \in DOMAIN T[f].blocks, j \in DOMAIN T[g].blocks :
       T[f].blocks[i] = T[g].blocks[j] => f = g /\ i = j
  /\ B = UNION {BlocksOf(T[f]) : f \in Files}

\* Allocation, removal, full disks, failed writes and power cuts outside a
\* save leave no block shared, none lost and none in use but marked free, in
\* RAM and on the disk: only a save that stopped half-way or errors at boot can.
BlocksAccounted ==
  /\ phase # "off" /\ live_sound => Sound(tree, bitmap)
  /\ disk_sound => Sound(image, disk_bitmap)

\* A file that was not touched after the last complete save keeps what it had
\* then, whatever happens to the others.  In the running system: also after a
\* save that failed.  On the disk, however often the power goes: as long as no
\* later save began to write its image and did not complete.
SavedFilesSurvive ==
  /\ phase # "off" /\ live_sound =>
       \A f \in Files \ dirty : \A b \in BlocksOf(tree[f]) : content[b] = snapshot[b]
  /\ disk_sound =>
       \A f \in Files \ dirty : \A b \in BlocksOf(image[f]) : content[b] = snapshot[b]
=============================================================================
