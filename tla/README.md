# Trinux in TLA+

Trinux is a hobby kernel for x86: one CPU, ring-3 programs, a priority
scheduler with feedback, fork / waitpid / signals, pipes, a RAM file tree that
can be saved to disk, a shell and a small compiler. This directory holds TLA+
models of the parts of the kernel that carry its state, the TLC configurations
that check them on small instances, and TLAPS proofs for any instance.

| module | models | checked by | proofs |
|---|---|---|---|
| `Pipe`, `PipeFifo` | `fs/pipe.c` and the pipe calls of `cpu/syscall.c` | `Pipe_*.cfg` | `PipeProofs` |
| `Scheduler` | `process/scheduler.c` under ticks, keys and calls | `MCScheduler_*.cfg` | `SchedulerProofs` |
| `Process` | `process/process.c`, its use by `process_fork`, `elf_exec`, `usermode_run`, system calls and Ctrl-C | `MCProcess_any.cfg`, `Process_buffer.cfg` | `ProcessProofs` |
| `Kheap` | `mm/kheap.c` | `MCKernel_parts.cfg` | `MemoryProofs` |
| `Exec` | nested programs: `kernel/elf.c`, the exit buffer of `cpu/syscall.c` | `MCKernel_*.cfg` | `ExecProofs` |
| `AddressSpace` | `mm/pmm.c`, `mm/vmm.c`, `mm/fork.c` | `MCKernel_parts.cfg` | `MemoryProofs` |
| `KeyQueue` | the input ring of `drivers/keyboard.c` | `MCKernel_parts.cfg` | `DriverProofs` |
| `Files`, `Namespace` | `fs/vfs.c`, `fs/ramfs.c`, file calls of `cpu/syscall.c` | `MCKernel_parts.cfg`, `MCProcess_any.cfg` | `FilesProofs` |
| `Storage` | `fs/blockfs.c`, disk files of `fs/ramfs.c`, `fs/diskfs.c` | `MCDisk_parts.cfg` | `StorageProofs` |
| `Xhci` | USB mass storage of `drivers/xhci.c` | `MCDisk_*.cfg` | `DriverProofs` |

`tlc -config X.cfg M` runs a model, `tlapm M.tla` checks proofs, and
`PROJECT.json` lists runs, mutants, hazards, theorems and, under `map`, the
lines of source that each definition stands for.

## 1. Inventory

What the kernel consists of, what each part keeps, what changes it, and what
would make it correct.

| part | state | operations | hard behaviour | what correctness means |
|---|---|---|---|---|
| **pipes** `fs/pipe.c` | 16 slots: ring, head, tail, used, closed flags, refcount | create, read and write (yield while blocked), close, clean-up at any exit | a blocked call holds a pointer into a slot that others close and reuse | bytes in order, none lost; short transfers only at end of file or without a reader; slots freed exactly when unreferenced |
| **scheduler** `process/scheduler.c` | run queue, `current`, boost, quantum, sleep deadline, CPU time, kick flag | tick, `schedule`, yield, sleep, kick, add | every tick and call interleaves; counters wrap; the queue only grows | one RUNNING process, best priority picked, no starvation among equals, sleepers wake |
| **processes** `process/process.c` | table of 128, pids, parents, one pending signal, handlers, exit codes | create, exit, kill, signal, deliver, sigaction, waitpid | zombies' slots recycled before the parent looks; one slot for all signals | unique pids, no orphans, waitpid reports the right child and returns |
| **block store, disk image** `fs/blockfs.c`, `fs/diskfs.c` | block bitmap and tree in RAM; image, bitmap and data blocks on disk | alloc, free, flush, save, load | saved in two parts, in place, with ignored errors; power cuts | no block shared or lost; a saved file stays what it was |
| **ELF loader** `kernel/elf.c` | one global exit buffer, nesting depth, backups, stack areas | spawn (with redirections), execve, exit, fault | a nested program is loaded over its starter and arms the starter's exit buffer; loads fail half-way | a program finds memory, stack, input and output as it left them, and returns to its own starter |
| **VFS, ramfs, devfs** `fs/vfs.c`, `fs/ramfs.c` | tree of nodes, permissions, sticky bit | create, unlink, read, write, chmod | an open node can be unlinked and freed | no use of freed nodes; permission checks on every path |
| **descriptors** `cpu/syscall.c` | 64 global descriptors with offsets, directory handles, working directory | open, read, write, seek, close, opendir, readdir, chdir, rename | any process may pass any number; nodes go away under descriptors | a descriptor refers to what was opened; calls change what they name |
| **page allocator** `mm/pmm.c` | bitmap | alloc, free, ranges | exhaustion, double free | no page given twice |
| **address spaces, fork** `mm/vmm.c`, `mm/fork.c` | directories, tables shared by reference | map, clone, copy, destroy | copying into shared tables; failing half-way | parent and child do not see each other's writes |
| **kernel heap** `mm/kheap.c` | linked blocks | kmalloc, kfree, krealloc | splitting and coalescing at the edges | blocks disjoint, no space lost |
| **keyboard, serial** `drivers/keyboard.c` | ring, modifier state and its watchdog | interrupt push, pop | ring full; Ctrl-C against the running process | keys in order |
| **FAT16** `fs/fat16.c` | FAT, directory | read, write, delete | chains half-updated | chains disjoint and terminated |
| **users** `auth/users.c` | accounts, session | add, login, passwd | table against its file | the file can be read back |
| **drivers** `drivers/*` | device rings, bounce buffers | polled I/O with retries | an answer after the timeout; an error in one phase of three; a retry that finds other data | what is reported done is done |
| **boot, SMP, interrupts** `boot/`, `cpu/` | tables | set-up | - | straight-line |
| **shell, compiler, editor, user programs** `shell/`, `user/` | their own | - | clients of the above | - |

How they interact. Programs enter through `int 0x80`, an interrupt gate: a
system call runs with interrupts off and is interrupted only where it calls
`schedule()` itself. The timer interrupt calls `scheduler_tick`, which may
switch; the keyboard interrupt pushes a key, kicks the scheduler and, for
Ctrl-C, sets the pending signal of the running process. `process_exit` closes
pipes and descriptors through `fd_cleanup_process`. Blocking calls
(`pipe_read`, `pipe_write`, `process_waitpid`) are loops around `schedule()`.
File contents go to the disk at once; the tree and the block bitmap go there
only in `diskfs_save` (`sync`, `SYS_SYNC`).

So the atomic step of every model is *one stretch of kernel code between two
points where another process can run*, and everything hard happens between
such stretches: state read before a `schedule()` and used after it.

## 2. The models

### Pipe

`pipes[s]` is `pipe_t` with its `pipe_used` flag, `proc[q]` the call process q
is in (or its last one) and `gen` a history variable: how many pipes a slot has
hosted. `SysPipe`, `SysRead`, `SysWrite`, `SysPipeClose`, `SysExit` are the
system calls up to their first `schedule()`; `ReadResume` and `WriteResume` are
one more turn of the loop in `pipe_read` / `pipe_write`; `Killed` is a kill or
fatal signal, which cleans up nothing. A failed write leads to SIGPIPE and the
end of the process. The copy loops move n bytes at once (`TakeBytes`,
`PutBytes`). Descriptors are not owned, as in the code; any process may use any,
and close any as often as it likes. That several processes are inside pipe calls
at once is taken as given; how they come to share the CPU is `Process`'s and
`Scheduler`'s subject. (Programs of `elf_exec` share it only when their slot is
in the run queue from an earlier process, so today's user programs rarely meet
in a pipe.)

`PipeFifo` is the abstract specification: a bounded queue of bytes per slot,
with no ring. `Pipe` implements it (`ImplementsFifo`) under the mapping of a
ring to its contents, of the reader's buffer and of the writer's rest.

### Scheduler

`task[t]` holds the scheduling fields of `process_t`; the other variables are
the globals of `scheduler.c` under their names, plus `waiting` / `granted` for
processes inside a kernel yield loop and for those whose condition has come
true. `TimerTick` is the whole of `timer_callback` and `scheduler_tick`: decay,
wake-ups, billing, quantum, demotion, and `schedule()` where the code calls it.
`scheduler_kick`, `Yield`, `WaitBegin` / `WaitAgain` / `WaitEnd`, `Grant`,
`scheduler_sleep_current`, `Exit`, `process_kill`, `process_set_priority` and
`usermode_run` are what happens between ticks. While a waiting process holds
the CPU there are no ticks (`Interruptible`).

`quantum_used` is kept up to the first value above every quantum, because it is
only compared with quanta. A zombie that still has the CPU is followed through
ticks only. `sleep_block` has no caller in the tree; it is modelled because
`drivers/timer.h` offers it. init is not in the run queue, as in the code: once a
launched program is picked, the shell's flow does not get the CPU back.

`elf_exec` is outside this module. It makes its program current without
`schedule()` and leaves the starter RUNNING (`elf.c:160-161`), so while such a
program runs two slots are RUNNING, and `RunningIsCurrent` does not speak of
that time.

### Process

`processes` is the table, `call[s]` where a process is (in user mode, yielded,
in `elf_exec`, exited, or blocked in `waitpid` for a pid), `run_queue` the slots
that `scheduler_add` got, `g_elf_jmp` the one exit buffer with who armed it for
which program, `result` the last answer of `waitpid`. `last_words` and `exited`
(history) are the exit code each dead pid left and the pids that went through
`process_exit`. Every system call that comes back to user mode ends in `Return`,
which delivers the pending signal, and if that kills uses the exit buffer.
`Schedule` picks any live slot of the run queue, the current one included, and
nobody when there is none; `Scheduler` says which.

Processes come from three places. `Spawn` is `elf_exec`: the program becomes
current inside its starter's call and is not queued (unless its slot is from
an earlier process); the call ends in `UseBuffer`. `UsermodeRun` starts the two
programs built into the kernel (`user/userprog.c`), which print, sleep, exit or
fault, and make no other call. `SysFork` is `process_fork`: the child has no
entry and no copy of its parent's frame, so it starts at address 0 in ring 0.

Three things end a behaviour of the model, because what the CPU executes then is
no program of anybody: the CPU goes to a child of fork (`AtZero`); it goes to a
starter whose program has not ended, which resumes an older context; or
`process_create` frees the kernel stack of a call in progress, which it does when
it reuses the slot of a process that was killed but still runs
(`CreateOnStackInUse`). It follows that a `waitpid` which has called `schedule()`
never comes back with a child in this model: the children it can wait for are
those of fork. Whether `scheduler_add` drops a process because the queue is full
is left open.

Left out: names and directories (the auto-reaping pass of `process_exit` only
blanks names), signal numbers out of range, the placeholder entries without a
program, memory and redirections of nested programs (`Exec`). The parent of a
process created in the slot of its own dead creator is itself, because the slot
is cleared before `current->pid` is read (`process.c:132-135`).

### Storage

`tree` and `bitmap` are in RAM, `image`, `disk_bitmap` and `content` on the
disk; `phase` says whether the machine is on and where `diskfs_save` is.
`ramfs_create_node`, `diskfile_write` and `ramfs_remove_node` work while no save
is on; a save is `SaveBegin`, one `SaveRecord` per file, then
`blockfs_flush_bitmap(k)`, which may stop after k blocks without anybody
noticing; `SaveStops` is a failed write, or the shell losing the CPU.
`PowerOff` can come at any point. `Boot` reads bitmap and image; `BootBadly`
has read errors or no memory. History variables: `live_sound` and `disk_sound`
(only complete saves and clean boots led here), `dirty` and `snapshot` (what
changed since the last complete save). Growing a file zeroes each new block or
fails to, unnoticed, and the write of the data may fail by itself.

Abstractions: a flat set of names stands for the tree; sizes, owners and files
kept in RAM are left out; a write touches one block (a longer one is several),
and a torn image is a mixture of old and new records, which the properties
make no claim about except that block numbers stay in range (a record cut in
the middle could carry others, and `diskfs_load` does not check them). A disk
too small for blocks, where files stay in RAM, is not modelled. What
`install_builtin_apps` does after loading is ordinary writes.

### Exec

`frames` is the stack of `elf_exec_argv` calls in progress, innermost last:
each with its image, the copy of the starter's image it made, the process that
was current and the redirections of its `SYS_SPAWN_R`. `user_mem` is the image
in the one region all programs are linked to, `stacks` whose data each user
stack area holds, `g_elf_jmp` the exit buffer. `SpawnOk` and `SpawnFails` are a
whole call up to ring 3 or to its error, `Execve` replaces the innermost image
in place, `LeaveArmed` is an exit, fault or fatal signal that finds the buffer
armed, `LeaveUnarmed` one that does not: `SYS_EXIT` then makes the process a
zombie and gives the CPU away, with no way back into init's flow (`flow =
"gone"`). A backup that `kmalloc` refuses does not stop the code, and
`unsaved_any` remembers it. The header says where the jump lands: the slot of
`elf_arm_exit_jmp`'s return address is that of `usermode_save_and_enter` in
the code that the Makefile's flags produce.

### Kheap

`blk` holds the headers of the listed blocks, `magic` the addresses that hold
`MAGIC_USED`, `hidden` the words that lead from an aligned pointer back to its
block, `handed` (history) the pointers callers hold. One action per call:
`Kmalloc` (and kcalloc), `KmallocAligned`, `Kfree`, and the three ways of
`krealloc`. Addresses count words. Headers that land on old words erase them;
old `MAGIC_USED` words survive where the code leaves them.

### AddressSpace

`frame_bitmap` and `used_frames` are those of `pmm.c`; `page_tables` is one map
for all directories, because `vmm_create_address_space` copies the kernel's
entries and with them shares the tables of the first GiB, where all user pages
lie. `ProcessCreate`, `ProcessExit`, `ProcessKill`, `Switch` are the parts of
`process.c` and `scheduler.c` that touch directories; `ProcessFork` is the
whole of `process_fork` with `vmm_copy_region` page by page (`Copies`: the
lowest free frames, as many as there are). `fork_frames` (history) are the
frames forks took, which nobody gives back.

### KeyQueue

Interrupts push (`buf_push`, `OtherInterrupt`) between any two steps of the
reader, whose place in `keyboard_getchar` or `keyboard_try_getchar` is `kq_pc`:
look at the ring, read the key, advance `ktail`, or find it empty and `hlt`.
`queued` (history) is what was accepted and not handed over.

### Files and Namespace

`vnode[n]` is a node in memory slot n, freed by removal and reused by any later
creation; `kfds`, `dh_table` and `fs_cwd` are the tables of `cpu/syscall.c` that
point to nodes. One action per system call, with `vfs_create`, `vfs_resolve`
and `ramfs_finddir` as operators. How much of a write is taken, and whether
permissions allow a call, are free choices. Programs delete what they or others
still refer to, as in the code: a call through such a reference finds freed
memory, or the node that took it, and then works on that one (`Write`, `Read`,
`Readdir`). What a call does to other blocks of the heap through freed memory is
left out. `fd_path`, `dh_path` and `cwd_path` (history) are the paths the
references were opened on, until the entry there is deleted.

`Namespace` is the abstract specification: a set of entries by path, and for each
call, with its arguments, how the entries after it follow from those before.
`Files` implements it (`ImplementsNamespace`) under the mapping that resolves
every path: a step that is `Mkdir(p)` is `MakeDir` of p, one that is
`Rename(p, q)` a `Move` from p to q, a `Write` through a descriptor changes the
entry the descriptor was opened on, and calls that name no entry change none. For a
descriptor whose file was deleted the promise is what the code can keep: at most
one entry changes, and it may be another file's.

### Xhci

The driver's command (`drv`: stage, tries, nesting of `REQUEST SENSE`) against
an external stick (`StickCommand`, `StickOut`, `StickIn`, `StickStatus`,
`StickStalls`) and the controller's queues. `PollEvent` takes the next event,
whatever transfer it is for; `PollTimeout` gives up, and the late event is
still to come. Transfers name buffers (`static_cbw`, `static_csw`,
`xhci_dma_buf`), whose contents are taken when the controller gets there.
Only the `Stick*` actions are external.

### Composition

Modules that share no state are explored side by side in one run (`MCKernel`,
`MCProcess`, `MCDisk`): the initial state chooses the part. Where parts do interact, the
interaction is inside the module: descriptors and nodes in `Files`, frames,
directories, slots and fork in `AddressSpace`, nesting, memory, redirections
and the exit of processes in `Exec`, pipes with the calls and deaths of
processes in `Pipe`, driver and device in `Xhci`.

## 3. Runs

| run | instance | shows |
|---|---|---|
| `pipe_any` | 2 processes, 1 slot, ring of 2 bytes, 2 byte values, transfers of up to 2 bytes, 2 pipes per slot; one may exit, the other be killed; repeated closes; fair | `RingConsistent` (head, tail and used agree), `RefcountKeepsSlot`, `ShortReadOnlyAtEof`, `ShortWriteOnlyWhenFull`, `ImplementsFifo`, `ReaderSeesEof`, `WriterNotStuck` |
| `pipe_cleanup` | 3 processes, one exits | **violates** `TransferKeepsItsPipe`: a blocked transfer moves on to the next pipe in its slot |
| `pipe_eof` | 2 processes, one exits, fair | **violates** `ReaderEndsWithItsPipe`: the clean-up of an exit zeroes the slot with its closed flags, and the reader waits for ever |
| `sched_live` | init, idle, 2 programs of one priority that yield, sleep, compute; keys | `TypeOK`, `RunningIsCurrent`, `PicksBest`, `EqualPriorityProgress`, `SleeperWakes` |
| `sched_reuse` | 3 slots with exits, kills, renices, waits, reuse; CPU time modulo 2 | `TimeAddsUp`, `LaunchedIsQueued` |
| `sched_yieldloop` | a program in a kernel yield loop | **violates** `YieldLoopLetsOthersRun`: with credit it picks itself forever |
| `proc_names`, processes | 3 slots, 4 pids; spawns, forks, kills, signals with a handler, waits | `PidsUnique`, `OrphansAdopted`, `WaitReports` |
| `proc_names`, files | as in `kernel`, without directory handles | `ImplementsNamespace` |
| `proc_buffer` | as in `proc_names`, without kills and signals | **violates** `BufferIsOwn`: a program of `usermode_run` ends another program's `elf_exec` |
| `kernel`, heap | arena of 24 words, headers of 2, pages of 4, requests of 0, 1 and 4 words | `KhTypeOK`, `ListTilesHeap`, `NoFreeNeighbours`, `PointersOwnBlocks` (every pointer has a block of its own and kfree finds it, so nothing leaks) |
| `kernel`, exec | 4 nested programs, 5 images, 3 stack areas | `RunsAsItself`, `ExitUnwindsOneCall`, `StacksKept`, `RedirectionsEnd` |
| `kernel`, space | 10 frames of which 2 reserved, 3 slots, 2 user pages, 2 forks | `DirsUnshared`, `FramesCounted`, `FramesAccounted` |
| `kernel`, keys | ring of 3 cells, 2 keys, fair | `KeysInOrder`, `KeyReachesReader` |
| `kernel`, files | 2 names on 2 levels, 2 nodes beside the root, 1 descriptor, 1 handle, files of up to 1 byte | `TreeSound`, `ReferencesFollowPaths` |
| `exec_exit` | as `kernel` | **violates** `ExitReturnsToStarter`: the exit of a program that ran another finds the exit buffer used up |
| `disk`, blocks | 2 files, 2 blocks, files of up to 2 blocks; power cuts, errors, torn saves | `BlocksAccounted`, `SavedFilesSurvive` |
| `disk`, usb | 2 chunks, 3 tries, 4 commands, 1 error, late answers | `XhTypeOK` (tries are bounded), `ReadsAreTrue`, `WritesAreTrue` |
| `usb_write` | 1 error, no late answers | **violates** `WriteStored`: the retry of a write sends the sense data |

Deadlock is not checked: the kernel may stop for good (every process dead, the
machine off, init's flow gone), and the bounds on pipes, pids, images and
commands end behaviours too.

**Why the bounds are enough.** The constants of the code (128 processes, 4096
bytes, 500 ticks) are scaled down to the smallest values at which the case
distinctions of the code all occur.
Pipes: a ring of 2 with transfers of 2 fills, empties, wraps and splits
transfers, and two byte values tell order; a second pipe in the slot (`MaxGen`)
is reuse. Scheduler: the decay period (3) is longer than any quantum (1 or 2), so
a whole quantum fits between two decays and streaks, credit and demotion build up
across them; the tick counter wraps at 4, out of step with the decays, and lets
deadlines lie on both sides of the wrap; in `sched_reuse`, which is not about
priorities, CPU time wraps at 2 and credit is cut off.
Processes: 4 pids in 3 slots recycle a slot while another process lives or
waits, and hold a starter with its program beside a program of `usermode_run`.
Heap: 24 words hold an aligned block beside two others, so that exact fits,
splits, merges on either side and hidden pointers over old headers all occur.
Exec: four levels are one more than there are stack areas, and a fifth image is
an execve or a failed load at that depth. Address spaces: 8 free frames for 3
directories, two forks of two pages each with a directory that is thrown away,
run out in the middle of a copy. Keys: three cells wrap, fill and drop. Files:
two nodes are reused for other names, other types and other parents.
USB: four commands are a command, its REQUEST SENSE and the retry, with one
more to be confused by a late answer.
Storage: two blocks and two
files are a full disk, growth that stops half-way, and a block that changes
hands between saved and unsaved files. The theorems of section 5 drop the
bounds, except where they are limits of the model itself (`MaxGen`, `MaxPid`,
`MaxLen`), over which they quantify.

**Mutants.** For each property of a passing run `PROJECT.json` names a mutated
definition that stands for a plausible bug (dropped mask, missing reset, wrong
comparison, no decay...) and makes TLC find the property violated. The mutated
forms stand just before the definitions they mutate, and nothing uses them.

## 4. Fairness

* `Scheduler!FairSpec`: the timer ticks as long as interrupts are on (the PIT
  runs by itself), and the CPU goes on executing a kernel loop that can leave.
  Nothing is assumed about programs: they may compute, yield or sleep forever.
* `Pipe!FairSpec`: a process blocked in a transfer runs again *while no other
  process is in a yield loop* (`OnlySpinner`). Without this restriction the
  assumption would be wrong: `sched_yieldloop` shows that one loop can keep the
  CPU from everyone. It is also why `ReaderSeesEof` and `WriterNotStuck` speak
  of a lone waiter.
* `KqFairness`: the reader goes on and the timer keeps interrupting `hlt`;
  nobody has to type.
* The other modules have no liveness property: nothing forces a save, a spawn
  or a call. `Process` in particular promises no progress: a strict-priority
  scheduler whose yield loops may pick themselves (`sched_yieldloop`) does not
  justify that every live process gets the CPU.

## 5. Proofs

All theorems are about specifications without fairness, for every value of the
constants that satisfies the named assumptions (`PipeConstants`,
`SchedulerConstants`, `ProcessConstants`, `StorageConstants`, `ExecConstants`,
`KeyQueueConstants`, `AddressSpaceConstants`, `KheapConstants`,
`FilesConstants`, `XhciConstants`), which TLC evaluates on every run, and have no
other premise. `PowersOfTwo` (2^k >= 1 up to the table size) is the one arithmetical fact
taken as an assumption, because the provers know nothing of exponentiation.
Every invariant also has a theorem of its own (`TimeIsAccounted`,
`SavedFilesKept`, ...), listed in `PROJECT.json`. The type invariants are proved
too (`PipeTypes`, `ProcessTypes`, `StorageTypes`, `ExecTypes`, `KeyQueueTypes`,
`AddressSpaceTypes`, `SchedulerTypes`, `HeapTypes`, `UsbTypes`); the runs leave out those whose mutants
other properties catch.

* **`PipeProofs!PipeCorrect`**: `TypeOK`, `RingConsistent`, `RefcountKeepsSlot`.
  `PipeInv` is their conjunction and is inductive: the type gives the bounds on
  `used` that keep the masked sums in range. It splits into one condition per
  slot and one per call (`PipeInvParts`); `TakeBytesInv`, `PutBytesInv` and
  `PipeCloseInv` say that the three ways to change a slot keep its condition,
  for any ring size; each action then only has to name the slot and the call it
  changes. Since the condition holds for every slot, in use or not, it does
  not matter that a resumed call works on a slot that was given back.
* **`PipeProofs`**, actions and refinement: every step of the table is of one of
  four kinds (`Steps`): a stretch of `pipe_read`, a stretch of `pipe_write`, a
  reset of slots, or the end of a call. `ShortReadsEndFiles` and
  `ShortWritesFillRing` follow kind by kind, since only the two stretches end a
  call with a count. `TableIsFifo` is the refinement of `PipeFifo`: the queue of
  a slot is the contents of its ring (`QueueOf`), and a call contributes what it
  has read (`GotOf`) or has yet to write (`TodoOf`); a stretch takes the first n
  bytes of the queue or adds n behind it, whatever index the ring wraps at.
* **`SchedulerProofs!SchedulerSafe`**: `TypeOK`, `RunningIsCurrent`,
  `TimeAddsUp`. Every update of one process (credit, demotion, decay, wake-up,
  billing) `Keeps` it well-typed, does not make it RUNNING and preserves the sum
  of its times; so the table handed to `schedule()` is a `GoodTable`, and
  `schedule()` turns a good table into a state of the invariant. Decay divides
  by 2 as often as a slot is queued, hence the bound on `TimesQueued`.
* **`SchedulerProofs!LaunchedAreQueued`**: `LaunchedIsQueued` alone is not
  inductive, since a sleeping process becomes ready later. `QueueInv` says it of
  every launched process that is not a zombie (`LiveQueued`); no step but a
  launch makes a zombie live or a process launched (`Stays`), and a launch
  enters the queue unless that is full.
* **`SchedulerProofs!SwitchesToTheBest`**: `PicksBest` is about every step that
  changes the current process. All of them end in `schedule()` on a
  `GoodTable` (`SwitchIsSchedule`), where `pick_next` compared priorities; of
  what `schedule()` changes after that, only the credit of the process that
  leaves touches a priority, by one step at most (`CreditIsOneStep`), also where
  the range ends (`ClampStep`).
* **`ProcessProofs`**: `ProcessTypes`, `PidsStayUnique`, `NoOrphans` and
  `WaitsReportRight`, all from `Inv`. Most of it is `Good`, a condition on a
  table, the calls and the exit buffer that also holds in the middle of a step:
  pids are below `next_pid`; who went through `process_exit` is a zombie, is
  nobody's living child's parent, and makes no call any more; the starter in a
  valid exit buffer is in `elf_exec`, so its call cannot end twice. Steps are
  composed of updates that only let processes die (`Older`, `OlderGood`), of
  creations, and of three endings: `Return`, `Schedule` and `UseBuffer`.
  `Recorded` (what zombies left is what their slot says) gives `WaitReports`.
* **`StorageProofs!StorageSafe`**: `TypeOK`, `BlocksAccounted`,
  `SavedFilesSurvive`. `StorageInv` adds: during a save the records already
  written equal the tree (`SaveInv`), names that are absent have no blocks
  (`NoGhosts`), and a clean file is the same in the tree and in the image while
  the disk is sound (`CleanInv`). A clean file's blocks are in the *current*
  bitmap, so no allocation hands them out and no write reaches them: this keeps
  its contents in the running system, after failed saves too, and `CleanInv`
  carries them over a reboot. After a save that stopped half-way nothing is
  claimed of what the next boot finds.

* **`ExecProofs`**: all five properties of the nesting, from `ExInv`. It adds
  `Chained` (each call remembers the call below it as the process to go back
  to, and younger calls run younger images, so `execve`, which looks for the
  current process, changes one call only) and `Saved` (with every backup made,
  a call holds the image of its starter).
* **`MemoryProofs`**, page allocator: `AsInv`, the conjunction of the four
  properties, is inductive. `Accounted` says who owns the bitmap; `DropDir`,
  `PutDir` and `LoseFrames` are the three ways ownership changes, and a fork is
  a sequence of them. The counter needs the cardinality theorems, and that the
  search for the lowest free frame finds one needs that the naturals are well
  ordered.
* **`MemoryProofs`**, heap: `KhInv` has two parts. `HeapOk`: the blocks tile the
  arena, no two neighbours are free (`MergedBut`), and `MAGIC_USED` stands in the
  headers of the used blocks and nowhere else. `Owns`: the block `kfree` finds
  for a pointer (`FreeTarget`) is used and has room for what was asked, and
  pointers and used blocks correspond one to one. Within a call a block may be
  split off or freed and not merged yet, so `MergedBut` allows one exception
  and each call composes the lemmas about its steps. An aligned pointer is found
  through a word before it, inside its own block, that nobody else writes.
* **`FilesProofs`**, tree and references: `FsInv` is `Sound` (the shape of the
  tables, and parents and child arrays that agree downwards, upwards and without
  repetition) with the condition that references have the node of the path they
  were opened on. A call adds a leaf (`Grown`), removes one (`Shrunk`) or changes
  contents (`SameButData`); resolution of every other path survives each of them.
  `Rename` looks its source up again after it made the target: that the second
  lookup finds the same node needs that resolution survives growth
  (`ResolveKept`).
* **`FilesProofs!TreeIsNamespace`**: the refinement of `Namespace`. Different
  paths name different nodes (`ResolveInjective`), so a call that touches one
  node, adds it or drops it changes the entry of one path and of no other
  (`DataOnly`, `GrownOnly`, `DropOnly`), and that path is the one the call was
  given, or for a write the one its descriptor was opened on
  (`ReferencesFollowPaths`). A write through a reference whose entry was deleted
  changes the entry that has the node now, or none.
* **`DriverProofs`**, keyboard: `KqInv` (types and `KeysInOrder`). The steps are
  arithmetic around the ring: going d + 1 cells is going d cells and one more.
* **`DriverProofs`**, USB: `XhInv` ties what is under way to the command it
  belongs to: the stick's command and the status block have the current tag or an
  earlier one (`TagsInOrder`), the stick's phase fits its command (`PhaseOp`), a
  transfer for a status stands behind every one for data (`StatusFollows`), data
  that arrived for a tag is the sector's
  (`ReadArrived`). With them a status with the right tag is proof of a read,
  whatever came late. A write has no such tie, so `UsbWritesAreTrue` rests on
  `Synchronous` (nothing late, one transfer under way) and `WriteKept` (the
  buffer still holds what was to be written).

Induction. The provers cannot instantiate the library's induction rules, which
take a predicate; what they can use is that a non-empty set of naturals has a
least element (`NatLeast` in `FilesProofs`, from the library's theorem on well-founded
relations). So `vfs_resolve`, a recursive function over the path, is followed to
any depth by taking the shortest path that breaks a claim.

Model-checked only: the liveness properties `EqualPriorityProgress`,
`SleeperWakes`, `ReaderSeesEof`, `WriterNotStuck` and `KeyReachesReader`, which rest on fairness and `ENABLED`, out of the prover's
reach. Every other property of a passing run has a theorem. The properties of
the runs that expect a violation are false.

## 6. Where the code and its comments disagree

Shown by a run each (`findings` in `PROJECT.json`):

1. `fd_cleanup_process` closes every pipe when any process exits
   (`cpu/syscall.c:150`); a transfer blocked on one of them goes on with the next
   pipe in that slot.
2. A process in a kernel yield loop can pick itself forever
   (`process/scheduler.c:282`), with no tick to decay its credit.
3. The one exit buffer is disarmed by the exit of a nested program, so the
   program that ran it cannot return to its own starter and init's flow is lost
   (`cpu/syscall.c:184`).
4. `REQUEST SENSE` overwrites the data of the write that failed, and the retry
   stores the sense data with success (`drivers/xhci.c:404`).
5. An exit zeroes the slot under a blocked reader, closed flags included; the
   reader sees neither data nor end of file (`cpu/syscall.c:152`).
6. An exit uses the exit buffer whoever armed it: a program of `usermode_run`
   ends the `elf_exec` of another process (`cpu/syscall.c:183`).

Seen while modelling, in the models' behaviours, without a run of their own:

* A blocked write whose reader goes returns 0 rather than -1 (`fs/pipe.c:129`).
  An end closed twice frees the slot while the other end is open
  (`fs/pipe.c:160`).
* A child of fork starts at address 0 in ring 0, not in its parent's program
  (`fork.c:91`, `process.c:163-168`). Death by kill or signal reparents nobody
  (`process.c:246`), against `README.md:2998`.
* A save returns 0 although the bitmap was not written (`diskfs.c:280`): the saved
  tree has blocks that the saved bitmap calls free.
* Demotion is bounded, so a CPU-bound program of much better priority starves
  the others, against `scheduler.c:17-18`. A full run queue drops processes
  silently. A deadline that wraps to 0 is no deadline. The cached idle slot may
  be reused by another process. `quantum_for(19)` is 9 ticks where the comment
  above it says 12.
* A custom signal handler is never entered: its signal is re-armed at each return
  (`process.c:443-446`). `waitpid(pid)` waits on, as long as there is another
  living child, for a child whose slot was recycled (`process.c:395`), and loops
  with interrupts off when it picks itself. The slot of a killed process that
  still runs may be reused, and its kernel stack freed, by its own next call
  (`process.c:121`).
* An unreadable bitmap is taken for an empty one (`blockfs.c:94`). Blocks of a
  removed file can be reused before the removal is saved, so after a power cut
  the removed name shows another file's bytes.
* A process killed while it runs keeps the CPU until something else calls
  `schedule()`: ticks do not charge a zombie (`scheduler.c:232`). A pending
  SIGINT is lost to the SIGCHLD of an exiting child (`process.c:335`).
* fork maps its copies in the tables all directories share, so the parent goes
  on with the child's pages; neither the copies nor the directory that
  `process_create` made for the child are ever given back (`fork.c:53`,
  `fork.c:99`). A process that got no directory runs on the one loaded before.
  The pool of eight tables for device registers fails silently (`vmm.c:146`).
* A write through a descriptor of a deleted file lands in the file that took the
  node's memory, or in freed memory: no call counts references to a node
  (`ramfs.c:228`). `rename(a, a)` deletes the file; a short write and a refused deletion are
  reported as success (`syscall.c:343`). An entry that a directory handle has not
  reached is skipped when an earlier one is removed.
* An inner `SYS_SPAWN_R` ends the redirections of the outer one
  (`syscall.c:745`). Without memory for a backup the starter's image is
  lost (`elf.c:118`).
* After a timeout every later transfer is answered by the event of an earlier
  one (`xhci.c:314`); the transfer ring has no check for being full
  (`xhci.c:135`).
* Sizes near 2^32 wrap in `align_up` and in `kcalloc` (`kheap.c:34`), and
  `next_pid` wraps after 2^32 creations (`process.c:133`): beyond any instance.

## 7. Not modelled

The components with status `not_modelled` in `PROJECT.json`, with reasons:

* **Not reached.** Nothing calls `net_init` or `net_poll`. FAT16 nodes have no
  `finddir`, so no path leads below a mount point.
* **Straight-line or stateless.** Boot, descriptor tables, ACPI and RTC;
  interrupt stubs, whose effect (interrupts off in a system call) is the extent of the
  models' actions; start-up of other processors, which end in `hlt`.
* **Sequential text processing.** Accounts (one text file, parsed and rewritten
  by one flow), shells, compiler, assembler, editor, coreutils: clients of the
  system calls, without state that outlives a call or is shared.
* **Out of reach of a small instance.** Hashing, formatting, ELF parsing,
  terminal drawing, scancode and escape-sequence tables.
* **Parts of modelled components.** Permissions (a free choice in `Files`),
  chmod and chown, path strings, device nodes, the page fault handler, xHCI
  start-up and enumeration, ATA and AHCI polling.

By lines most of the repository is of this kind: some 33,000 lines are program
images written out as C arrays (`user/coreutils/hdrs`, `kernel/*_elf.h`), and
shells, compilers and programs make up most of the rest. The
models stand for the part where state is shared between flows, survives a
failure, or is reused.

## 8. Plan

Done: `Pipe` with `PipeFifo`, `Scheduler`, `Process`, `Storage`, `Exec`, `Kheap`,
`AddressSpace`, `KeyQueue`, `Files` with `Namespace`, `Xhci`, and the theorems of
section 5, which cover every property of the passing runs but liveness. Next:

1. The safety halves of the liveness properties, as lemmas that hold without
   fairness: a blocked reader whose writers are gone has nothing left to wait
   for, a sleeper past its deadline is woken by the next tick.
2. Permissions and the sticky bit in `Files`, so that a removal is shown to
   need the rights `vfs_check_access` asks for.
3. The memory and redirections of `Exec` under the processes of `Process`, so
   that a program that ends another one's `elf_exec` is followed into the images.

Related components share a run, so that each run stays one question.
