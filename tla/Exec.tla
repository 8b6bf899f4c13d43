-------------------------------- MODULE Exec --------------------------------
(***************************************************************************)
(* Programs that run programs: elf_exec_argv and elf_execve of             *)
(* kernel/elf.c, the exit buffer g_elf_jmp of cpu/syscall.c and the init   *)
(* loop of kernel/kernel.c.                                                *)
(*                                                                         *)
(* A program started by elf_exec runs inside the kernel call that started  *)
(* it: SYS_SPAWN nests another elf_exec_argv on the kernel stack, and all  *)
(* programs are linked at the same address, so the wrapper copies the      *)
(* starter's image away and back.  A program leaves through one global     *)
(* jump buffer.  One flow is modelled, the one of init; images are named   *)
(* by numbers, and the contents of an image, its arguments and the name of *)
(* its process are left out.  elf_arm_exit_jmp has returned when the jump  *)
(* is taken; built with the Makefile's flags the slot of its return        *)
(* address is then the one of usermode_save_and_enter, so the jump goes on *)
(* behind the latter in the elf_exec_argv_inner that armed the buffer.     *)
(***************************************************************************)
EXTENDS Integers, Sequences

CONSTANTS
  MaxNest,     \* bound: programs on the kernel stack
  MaxImages,   \* bound: images loaded in all
  StackLevels  \* user stack areas; deeper levels share the last one

ASSUME ExecConstants ==
  MaxNest \in Nat /\ MaxImages \in Nat /\ StackLevels \in Nat \ {0}

VARIABLES
  frames,       \* the nested elf_exec_argv calls, innermost last
  g_nest,       \* elf.c: nesting depth
  g_elf_jmp,    \* syscall.c: the exit buffer
  exec_cur,     \* process_get_current(): its image, 0 for init
  user_mem,     \* image in the region where programs are linked, 0 for none
  stacks,       \* image whose data the user stack area of a level holds
  stdin_over,   \* keyboard.c: stdin override set
  capture,      \* vga.c: output captured
  flow,         \* "init", "user", or "gone" (schedule() with no way back)
  loaded,       \* history: images loaded so far
  unsaved_any   \* history: some backup could not be allocated

exVars == <<frames, g_nest, g_elf_jmp, exec_cur, user_mem, stacks, stdin_over,
            capture, flow, loaded, unsaved_any>>

Images == 1 .. MaxImages
NoBackup == -1
\* Every level uses the first stack area.
LevelOne(nest) == 1

Level(nest) == IF nest < StackLevels THEN nest ELSE StackLevels

\* A call of elf_exec_argv: the image it runs, the image of the starter it
\* saved, the process that was current, and the redirections of SYS_SPAWN_R.
FrameT == [image : Images, backup : {NoBackup} \cup Images \cup {0},
           prev : Images \cup {0}, in : BOOLEAN, out : BOOLEAN]

ExInit ==
  /\ frames = <<>> /\ g_nest = 0
  /\ g_elf_jmp = [valid |-> FALSE, frame |-> 0]
  /\ exec_cur = 0 /\ user_mem = 0
  /\ stacks = [l \in 1 .. StackLevels |-> 0]
  /\ stdin_over = FALSE /\ capture = FALSE
  /\ flow = "init"
  /\ loaded = 0 /\ unsaved_any = FALSE

CanExec == flow \in {"init", "user"} /\ loaded < MaxImages
Nested == g_nest >= 1

\* The backup of the starter: none at the first level, and none either when
\* kmalloc fails, in which case the code goes on without one.
Backups == IF Nested THEN {user_mem, NoBackup} ELSE {NoBackup}

\* Nothing is copied back.
RestoreNever(b, mem) == mem

\* What memory holds once a backup b has been copied back.
Restore(b, mem) == IF b = NoBackup THEN mem ELSE b
----------------------------------------------------------------------------
(* elf_exec_argv *)

\* The ELF is loaded over the starter's image, its stack area cleared, the
\* exit buffer armed for this call, and ring 3 entered.  From init this is
\* the shell; from a program SYS_SPAWN, or SYS_SPAWN_R with redirections.
SpawnOk(in, out) ==
  /\ CanExec /\ Len(frames) < MaxNest
  /\ flow = "init" => ~in /\ ~out
  /\ \E b \in Backups :
       /\ frames' = Append(frames, [image |-> loaded + 1, backup |-> b,
                                    prev |-> exec_cur, in |-> in, out |-> out])
       /\ unsaved_any' = (unsaved_any \/ (Nested /\ b = NoBackup))
  /\ g_nest' = g_nest + 1
  /\ g_elf_jmp' = [valid |-> TRUE, frame |-> Len(frames) + 1]
  /\ exec_cur' = loaded + 1 /\ user_mem' = loaded + 1 /\ loaded' = loaded + 1
  /\ stacks' = [stacks EXCEPT ![Level(g_nest + 1)] = loaded + 1]
  /\ stdin_over' \in {stdin_over, stdin_over \/ in}  \* no such input file, or set
  /\ capture' = (capture \/ out)
  /\ flow' = "user"

\* The redirections of a failed call stay.
SpawnFailsRedirected(partly, in, out) ==
  /\ CanExec
  /\ flow = "init" => ~in /\ ~out
  /\ \E b \in Backups :
       /\ user_mem' = Restore(b, IF partly THEN loaded + 1 ELSE user_mem)
       /\ unsaved_any' = (unsaved_any \/ (Nested /\ b = NoBackup))
  /\ loaded' = IF partly THEN loaded + 1 ELSE loaded
  /\ stdin_over' = (stdin_over \/ in) /\ capture' = (capture \/ out)
  /\ UNCHANGED <<frames, g_nest, g_elf_jmp, exec_cur, stacks, flow>>

\* The call fails: no process slot, no such file, not an ELF, no memory, or a
\* segment that does not fit, found when earlier segments were loaded already.
\* The starter gets its image and its place as current process back.
SpawnFails(partly, in, out) ==
  /\ CanExec
  /\ flow = "init" => ~in /\ ~out
  /\ \E b \in Backups :
       /\ user_mem' = Restore(b, IF partly THEN loaded + 1 ELSE user_mem)
       /\ unsaved_any' = (unsaved_any \/ (Nested /\ b = NoBackup))
  /\ loaded' = IF partly THEN loaded + 1 ELSE loaded
  /\ stdin_over' = (stdin_over /\ ~in) /\ capture' = (capture /\ ~out)
  /\ UNCHANGED <<frames, g_nest, g_elf_jmp, exec_cur, stacks, flow>>
----------------------------------------------------------------------------
(* Leaving a program *)

\* The buffer stays armed.
Armed == g_elf_jmp

\* The exit buffer is used once.
Disarmed == [g_elf_jmp EXCEPT !.valid = FALSE]

\* longjmp to the armed call: elf_exec_argv_inner takes the exit code and
\* disarms, the wrapper restores the starter, SYS_SPAWN_R ends redirections.
ReturnTo(n) ==
  /\ frames' = SubSeq(frames, 1, n - 1)
  /\ g_nest' = g_nest - 1
  /\ g_elf_jmp' = Disarmed
  /\ user_mem' = Restore(frames[n].backup, user_mem)
  /\ exec_cur' = frames[n].prev
  /\ stdin_over' = (stdin_over /\ ~frames[n].in)
  /\ capture' = (capture /\ ~frames[n].out)
  /\ flow' = IF n = 1 THEN "init" ELSE "user"
  /\ UNCHANGED <<stacks, loaded, unsaved_any>>

\* SYS_EXIT, a CPU exception in ring 3 (usermode_fault_kill), or a fatal
\* signal found on the way out of a system call.
LeaveArmed == flow = "user" /\ g_elf_jmp.valid /\ ReturnTo(g_elf_jmp.frame)

\* The same with the buffer used up: after SYS_EXIT or an exception the
\* process is a zombie and schedule() takes the CPU away for good (after a
\* signal the program just goes on).
LeaveUnarmed ==
  /\ flow = "user" /\ ~g_elf_jmp.valid
  /\ flow' = "gone"
  /\ UNCHANGED <<frames, g_nest, g_elf_jmp, exec_cur, user_mem, stacks,
                 stdin_over, capture, loaded, unsaved_any>>
----------------------------------------------------------------------------
(* elf_execve *)

\* The image of the calling process is replaced in place, at its own level.
\* The process keeps its slot; its new image gets a name of its own here.
\* Every check is made before the first byte is written: a call that fails
\* changes nothing.
Execve ==
  /\ flow = "user" /\ loaded < MaxImages
  /\ frames' = [n \in DOMAIN frames |->
                 IF frames[n].image = exec_cur
                 THEN [frames[n] EXCEPT !.image = loaded + 1] ELSE frames[n]]
  /\ exec_cur' = loaded + 1 /\ user_mem' = loaded + 1 /\ loaded' = loaded + 1
  /\ stacks' = [stacks EXCEPT ![Level(g_nest)] = loaded + 1]
  /\ UNCHANGED <<g_nest, g_elf_jmp, stdin_over, capture, flow, unsaved_any>>

ExNext ==
  \/ \E in, out \in BOOLEAN : SpawnOk(in, out)
  \/ \E partly, in, out \in BOOLEAN : SpawnFails(partly, in, out)
  \/ LeaveArmed \/ LeaveUnarmed
  \/ Execve

ExSpec == ExInit /\ [][ExNext]_exVars
----------------------------------------------------------------------------
(* Properties. *)

\* Depth, buffer, process and memory stay in their types through nested
\* spawns, failed spawns, execves and exits.
ExTypeOK ==
  /\ frames \in Seq(FrameT) /\ Len(frames) <= MaxNest
  /\ g_nest \in Nat
  /\ g_elf_jmp \in [valid : BOOLEAN, frame : Nat]
  /\ exec_cur \in 0 .. MaxImages /\ user_mem \in 0 .. MaxImages
  /\ stacks \in [1 .. StackLevels -> 0 .. MaxImages]
  /\ stdin_over \in BOOLEAN /\ capture \in BOOLEAN
  /\ flow \in {"init", "user", "gone"}
  /\ loaded \in 0 .. MaxImages /\ unsaved_any \in BOOLEAN

\* After any nesting of spawns, failed spawns, execves and exits the program
\* that runs is the innermost one, it is the current process, and the memory
\* where it is linked holds its own image, as long as kmalloc had room for
\* every backup.
RunsAsItself ==
  flow = "user" /\ ~unsaved_any =>
    /\ frames # <<>>
    /\ exec_cur = frames[Len(frames)].image
    /\ user_mem = exec_cur

\* An armed exit buffer names the innermost call, so an exit never unwinds
\* the calls of other programs.
ExitUnwindsOneCall ==
  /\ g_nest = Len(frames)
  /\ g_elf_jmp.valid => frames # <<>> /\ g_elf_jmp.frame = Len(frames)

\* A program at a level with a stack area of its own finds its stack as it
\* left it when the programs it started are done.
StacksKept ==
  \A n \in DOMAIN frames : n < StackLevels => stacks[n] = frames[n].image

\* Redirections end with the SYS_SPAWN_R call that set them up.
RedirectionsEnd ==
  /\ capture => \E n \in DOMAIN frames : frames[n].out
  /\ stdin_over => \E n \in DOMAIN frames : frames[n].in

\* What the loader's header says of SYS_EXIT: control returns to the call
\* that started the program.
ExitReturnsToStarter == flow # "gone"
=============================================================================
