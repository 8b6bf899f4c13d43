--------------------------- MODULE AddressSpace ---------------------------
(***************************************************************************)
(* Physical frames and page directories: the frame bitmap of mm/pmm.c, the *)
(* directories of mm/vmm.c, fork of mm/fork.c, and what process_create,    *)
(* process_exit and context_switch do with them.                           *)
(*                                                                         *)
(* A directory copies the kernel's entries for the first GiB, so all       *)
(* directories share the page tables there, and every mapping a program or *)
(* fork asks for lies there: a mapping in one directory is a mapping in    *)
(* all.  Frames are numbered; frame 0 stands for pmm_alloc_frame's "out of *)
(* memory".  Left out: page flags, the contents of pages, and the tables   *)
(* for device registers above the first GiB.                               *)
(***************************************************************************)
EXTENDS Integers, FiniteSets, Sequences

CONSTANTS
  total_frames,   \* frames of the machine
  reserved,       \* frames below 128 MiB, never allocated
  UserPages,      \* the pages fork copies, in order
  AsSlots,        \* slots of the process table, 1 .. AsSlots
  MaxForks        \* bound: forks

ASSUME AddressSpaceConstants ==
  /\ total_frames \in Nat /\ reserved \in 1 .. total_frames
  /\ UserPages \in Seq(0 .. (total_frames - 1))
  /\ \A i, j \in DOMAIN UserPages : UserPages[i] = UserPages[j] => i = j
  /\ AsSlots \in Nat /\ MaxForks \in Nat

VARIABLES
  frame_bitmap,   \* frames in use
  used_frames,    \* pmm.c: their number
  page_tables,    \* the shared tables: frame a user page is mapped to
  page_dir,       \* directory of a slot, 0 for none
  as_state,       \* "none", "live" or "zombie"
  as_cur,         \* slot of the running process, 0 for the boot flow
  forks,          \* forks so far
  fork_frames     \* history: frames forks took and nobody gives back

asVars == <<frame_bitmap, used_frames, page_tables, page_dir, as_state, as_cur,
            forks, fork_frames>>

Frames == 0 .. (total_frames - 1)
Reserved == 0 .. (reserved - 1)
Slots == 1 .. AsSlots
Pages == {UserPages[i] : i \in DOMAIN UserPages}

AsInit ==
  /\ frame_bitmap = Reserved /\ used_frames = reserved
  /\ page_tables = [v \in Pages |-> v]
  /\ page_dir = [s \in Slots |-> 0]
  /\ as_state = [s \in Slots |-> "none"]
  /\ as_cur = 0 /\ forks = 0 /\ fork_frames = {}
----------------------------------------------------------------------------
(* pmm.c, on a record [bm, n] of the bitmap and the counter. *)

pmm == [bm |-> frame_bitmap, n |-> used_frames]
FreeFrames(m) == Frames \ m.bm

\* The lowest free frame, 0 when there is none.
NextFrame(m) ==
  IF FreeFrames(m) = {} THEN 0
  ELSE CHOOSE f \in FreeFrames(m) : \A g \in FreeFrames(m) : f <= g

pmm_alloc_frame(m) ==
  IF FreeFrames(m) = {} THEN m
  ELSE [bm |-> m.bm \cup {NextFrame(m)}, n |-> m.n + 1]

\* The counter is forgotten.
pmm_free_frame_uncounted(m, f) == [m EXCEPT !.bm = @ \ {f}]

pmm_free_frame(m, f) ==
  IF f \notin m.bm THEN m
  ELSE [bm |-> m.bm \ {f}, n |-> IF m.n > 0 THEN m.n - 1 ELSE 0]

\* "No directory" is given back too.
FreeDirUnchecked(m, pd) == pmm_free_frame(m, pd)

\* vmm_free_address_space: no directory of a process has entries above the
\* first GiB, so only the directory itself is given back.
FreeDir(m, pd) == IF pd = 0 THEN m ELSE pmm_free_frame(m, pd)

SetPmm(m) == frame_bitmap' = m.bm /\ used_frames' = m.n
----------------------------------------------------------------------------
(* process.c *)

\* The slot process_create takes: the first zombie, or else the next unused.
Zombies == {s \in Slots : as_state[s] = "zombie"}
Unused == {s \in Slots : as_state[s] = "none"}
FirstOf(S) == CHOOSE s \in S : \A t \in S : s <= t
NewSlot ==
  IF Zombies # {} THEN FirstOf(Zombies)
  ELSE IF Unused # {} THEN FirstOf(Unused) ELSE 0

\* process_create on frames m: the zombie's directory goes back, a new one is
\* taken, and the process is made even without one.
Created(m) == LET m1 == FreeDir(m, page_dir[NewSlot])
              IN  [m |-> pmm_alloc_frame(m1), pd |-> NextFrame(m1)]

ProcessCreate ==
  /\ NewSlot # 0
  /\ SetPmm(Created(pmm).m)
  /\ page_dir' = [page_dir EXCEPT ![NewSlot] = Created(pmm).pd]
  /\ as_state' = [as_state EXCEPT ![NewSlot] = "live"]
  /\ UNCHANGED <<page_tables, as_cur, forks, fork_frames>>

\* process_exit of the running process gives its directory back at once, and
\* schedule() goes to another one (or on with the boot flow).
ProcessExit(t) ==
  /\ as_cur # 0
  /\ t # as_cur /\ (t # 0 => as_state[t] = "live")
  /\ SetPmm(FreeDir(pmm, page_dir[as_cur]))
  /\ page_dir' = [page_dir EXCEPT ![as_cur] = 0]
  /\ as_state' = [as_state EXCEPT ![as_cur] = "zombie"]
  /\ as_cur' = t
  /\ UNCHANGED <<page_tables, forks, fork_frames>>

\* process_kill leaves the directory until the slot is taken again.
ProcessKill(s) ==
  /\ as_state[s] = "live" /\ s # 1
  /\ as_state' = [as_state EXCEPT ![s] = "zombie"]
  /\ UNCHANGED <<frame_bitmap, used_frames, page_tables, page_dir, as_cur,
                 forks, fork_frames>>

Switch(t) ==
  /\ t # as_cur /\ as_state[t] = "live"
  /\ as_cur' = t
  /\ UNCHANGED <<frame_bitmap, used_frames, page_tables, page_dir, as_state,
                 forks, fork_frames>>

\* The ELF loader and SYS_BRK map a page of the running process to itself.
MapPage(v) ==
  /\ as_cur # 0 /\ page_dir[as_cur] # 0
  /\ page_tables' = [page_tables EXCEPT ![v] = v]
  /\ UNCHANGED <<frame_bitmap, used_frames, page_dir, as_state, as_cur, forks,
                 fork_frames>>
----------------------------------------------------------------------------
(* fork.c *)

\* The number of free frames below f: fork takes them in this order.
Rank(m, f) == Cardinality({g \in FreeFrames(m) : g < f})

\* vmm_copy_region: page by page a frame is taken and mapped in the shared
\* tables; a page that gets no frame is skipped.
Copies(m) == {f \in FreeFrames(m) : Rank(m, f) < Len(UserPages)}
CopyOf(m, v) == {f \in Copies(m) : UserPages[Rank(m, f) + 1] = v}

vmm_copy_region(m, t) ==
  [m |-> [bm |-> m.bm \cup Copies(m), n |-> m.n + Cardinality(Copies(m))],
   t |-> [v \in Pages |-> IF CopyOf(m, v) = {} THEN t[v]
                          ELSE CHOOSE f \in CopyOf(m, v) : TRUE]]

\* The child goes on with the parent's directory.
ParentDir(pd) == IF as_cur = 0 THEN pd ELSE page_dir[as_cur]

\* The directory of the child.
ChildDir(pd) == pd

\* The child's directory, the copies, and then process_create, which takes a
\* directory of its own that the child's replaces.  Without a slot for the
\* child only the directory is given back.
ProcessFork ==
  LET dir == NextFrame(pmm)
      m1  == pmm_alloc_frame(pmm)
      c   == vmm_copy_region(m1, page_tables)
      new == Created(c.m)
  IN  /\ forks < MaxForks /\ forks' = forks + 1
      /\ dir # 0
      /\ page_tables' = c.t
      /\ IF NewSlot = 0
         THEN /\ SetPmm(pmm_free_frame(c.m, dir))
              /\ fork_frames' = fork_frames \cup Copies(m1)
              /\ UNCHANGED <<page_dir, as_state>>
         ELSE /\ SetPmm(new.m)
              /\ fork_frames' = fork_frames \cup Copies(m1)
                                  \cup (IF new.pd = 0 THEN {} ELSE {new.pd})
              /\ page_dir' = [page_dir EXCEPT ![NewSlot] = ChildDir(dir)]
              /\ as_state' = [as_state EXCEPT ![NewSlot] = "live"]
      /\ UNCHANGED as_cur

AsNext ==
  \/ ProcessCreate \/ ProcessFork
  \/ \E t \in Slots \cup {0} : ProcessExit(t)
  \/ \E s \in Slots : ProcessKill(s) \/ Switch(s)
  \/ \E v \in Pages : MapPage(v)

AsSpec == AsInit /\ [][AsNext]_asVars
----------------------------------------------------------------------------
(* Properties. *)

Dirs == {page_dir[s] : s \in Slots} \ {0}

\* Frames that pmm.c hands out, directories and table entries are frames of
\* the machine, also when it runs out of them.
AsTypeOK ==
  /\ frame_bitmap \subseteq Frames /\ used_frames \in Nat
  /\ page_tables \in [Pages -> Frames]
  /\ page_dir \in [Slots -> Frames]
  /\ as_state \in [Slots -> {"none", "live", "zombie"}]
  /\ as_cur \in Slots \cup {0} /\ forks \in 0 .. MaxForks
  /\ fork_frames \subseteq Frames

\* pmm.c counts what the bitmap holds, whatever was freed twice or not at all.
FramesCounted == used_frames = Cardinality(frame_bitmap)

\* Creation, exit, kill and slot reuse never lose a frame and never give one
\* back that is still somebody's directory: what is allocated is the reserved
\* region, the directories of the slots, and what forks took, fork's failures
\* half-way included.
FramesAccounted == frame_bitmap = Reserved \cup Dirs \cup fork_frames

\* A directory belongs to one slot, and no fork maps it as a user page.
DirsUnshared ==
  /\ \A s, t \in Slots : page_dir[s] # 0 /\ page_dir[s] = page_dir[t] => s = t
  /\ Dirs \cap (Reserved \cup fork_frames) = {}
=============================================================================
