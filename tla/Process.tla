------------------------------ MODULE Process ------------------------------
(***************************************************************************)
(* The process table of process/process.c: creation and slot reuse, exit,  *)
(* kill, orphans, signals and waitpid, as the system calls of              *)
(* cpu/syscall.c, elf_exec, process_fork, usermode_run and the keyboard's  *)
(* Ctrl-C use them.                                                        *)
(*                                                                         *)
(* An action is one system call, run with interrupts disabled up to the    *)
(* next schedule() or to its return to user mode, where the pending signal *)
(* is looked at.  Which process of the run queue schedule() picks, if any, *)
(* is left open here (the module Scheduler decides it).                    *)
(*                                                                         *)
(* Programs are run by elf_exec inside the call of their starter, which    *)
(* comes back when g_elf_jmp is used; they and init are not in the run     *)
(* queue, unless their slot was put there for an earlier process.  In the  *)
(* queue are what usermode_run starts and the children of fork.            *)
(*                                                                         *)
(* A child of fork starts at address 0 in ring 0: process_create gets NULL *)
(* for its entry and nothing copies the parent's frame.  What runs there   *)
(* is nobody's program, so the step that gives it the CPU is the last one  *)
(* of a behaviour of this model.  So is one that frees the kernel stack of *)
(* a call in progress, and one that gives the CPU to a starter whose       *)
(* program has not ended, which goes on from an older context.             *)
(***************************************************************************)
EXTENDS Integers, FiniteSets

CONSTANTS
  MAX_PROCESSES,    \* slots of the table; slot 1 is init
  MaxPid,           \* bound: no process is created beyond this pid
  SIGCHLD,          \* the one signal whose default is to be ignored
  Sigs,             \* the other signals that go through signal_pending
  Codes,            \* exit codes of programs
  CanKill, CanSignal, CanWait,
  Handled           \* the pairs <<signal, handler>> programs ask for in SYS_SIGNAL

ASSUME ProcessConstants ==
  /\ MAX_PROCESSES \in Nat \ {0} /\ MaxPid \in Nat \ {0}
  /\ SIGCHLD \in Nat \ {0} /\ Sigs \subseteq Nat \ {0, SIGCHLD}
  /\ Codes \subseteq Nat
  /\ Handled \subseteq (Sigs \cup {SIGCHLD}) \X {"SIG_DFL", "SIG_IGN", "custom"}
  /\ \A b \in {CanKill, CanSignal, CanWait} : b \in BOOLEAN

VARIABLES
  processes,   \* the table
  next_pid,
  current,     \* the slot whose code the CPU executes
  call,        \* where the process of each slot is, or the pid it waits for
  run_queue,   \* the slots schedule() looks at
  g_elf_jmp,   \* the one exit buffer, with who armed it for whom
  result,      \* the last answer of waitpid
  \* History: by pid the exit code a dead process left, and the pids that went
  \* through process_exit.
  last_words, exited

history == <<last_words, exited>>
vars == <<processes, next_pid, current, call, run_queue, g_elf_jmp, result, history>>

Slots == 1 .. MAX_PROCESSES
InitSlot == 1

\* Values of call; a pid > 0 stands for waitpid(pid).
Lost     == -7    \* in a call whose kernel stack was freed
AtZero   == -6    \* a child of fork that has not run
Spawning == -5    \* in elf_exec, until the exit buffer is used
Exited   == -4
InUser   == -3
Yielded  == -2
AnyChild == -1

AllSigs  == Sigs \cup {SIGCHLD}
Handlers == {"SIG_DFL", "SIG_IGN", "custom"}

\* Exit codes: the program's, 0 for a process killed outright, 128 + signal,
\* one negative code for all failures of the loader.
LoadError == -1
ExitCodes == Codes \cup {0, LoadError} \cup {128 + sig : sig \in AllSigs}
Unknown == -2
Calls == {Lost, AtZero, Spawning, Exited, InUser, Yielded, AnyChild} \cup 1 .. MaxPid

ProcessT ==
  [pid : 0 .. MaxPid, parent_pid : 0 .. MaxPid, state : {"free", "alive", "zombie"},
   entry : {"NULL", "userprog"}, exit_code : ExitCodes, signal_pending : AllSigs \cup {0},
   sig_handlers : [AllSigs -> Handlers]]

\* A slot after memset; pid 0 marks those beyond proc_count.
Blank ==
  [pid |-> 0, parent_pid |-> 0, state |-> "free", entry |-> "NULL",
   exit_code |-> 0, signal_pending |-> 0, sig_handlers |-> [sig \in AllSigs |-> "SIG_DFL"]]

Init ==
  /\ processes = [s \in Slots |->
                    IF s = InitSlot THEN [Blank EXCEPT !.pid = 1, !.state = "alive"]
                    ELSE Blank]
  /\ next_pid = 2
  /\ current = InitSlot
  /\ call = [s \in Slots |-> InUser]
  /\ run_queue = {}
  /\ g_elf_jmp = [valid |-> FALSE, starter |-> InitSlot, child |-> InitSlot]
  /\ result = [asked |-> 0, pid |-> 0, status |-> 0]
  /\ last_words = [p \in 1 .. MaxPid |-> Unknown]
  /\ exited = {}

-----------------------------------------------------------------------------
(***************************************************************************)
(* Lookups in a table P.                                                   *)
(***************************************************************************)
Alive(P) == {s \in Slots : P[s].state = "alive"}

\* process_get: the live process with this pid, as a set of at most one slot.
process_get(P, pid) == {s \in Alive(P) : P[s].pid = pid}

\* The table is scanned from its first slot.
First(s, S) == s \in S /\ \A t \in S : s <= t

MyPid == processes[current].pid

(***************************************************************************)
(* Updates of a table P.                                                   *)
(***************************************************************************)
\* process_signal: one slot for all signals, so a newer one replaces it.
process_signal(P, pid, sig) ==
  [s \in Slots |-> IF s \in process_get(P, pid)
                   THEN [P[s] EXCEPT !.signal_pending = sig] ELSE P[s]]

\* No reparenting.
AdoptNobody(P, pid) == P

\* process_exit of the current process: zombie, orphans to init, SIGCHLD.
\* The auto-reaping pass that follows only blanks the names of zombies.
Adopt(P, pid) ==
  [s \in Slots |-> IF s \in Alive(P) /\ P[s].parent_pid = pid /\ P[s].pid # 1
                   THEN [P[s] EXCEPT !.parent_pid = 1] ELSE P[s]]

Notify(P, pid) == IF pid > 0 THEN process_signal(P, pid, SIGCHLD) ELSE P

process_exit(P, code) ==
  LET Dead == [P EXCEPT ![current].state = "zombie", ![current].exit_code = code]
  IN  Notify(Adopt(Dead, P[current].pid), P[current].parent_pid)

\* process_deliver_signal for the process p; the handler of the user never
\* runs, its signal is made pending again.
process_deliver_signal(p, sig) ==
  CASE p.sig_handlers[sig] = "SIG_IGN" -> p
    [] p.sig_handlers[sig] = "custom"  -> [p EXCEPT !.signal_pending = sig]
    [] p.sig_handlers[sig] = "SIG_DFL" ->
         IF sig = SIGCHLD THEN p
         ELSE [p EXCEPT !.state = "zombie", !.exit_code = 128 + sig]

\* process_check_signal, on the way back to user mode of the process in slot s,
\* and whether it kills.  The flow of init runs in ring 0 and looks at none.
process_check_signal(P, s) ==
  IF s = InitSlot \/ P[s].signal_pending = 0 THEN P
  ELSE [P EXCEPT ![s] =
          process_deliver_signal([P[s] EXCEPT !.signal_pending = 0], P[s].signal_pending)]

Terminates(P, s) ==
  /\ s # InitSlot
  /\ P[s].signal_pending \notin {0, SIGCHLD}
  /\ P[s].sig_handlers[P[s].signal_pending] = "SIG_DFL"

\* The table becomes P; what its dead leave behind.
SetTable(P) ==
  /\ processes' = P
  /\ last_words' = [pid \in 1 .. MaxPid |->
       IF \E s \in Slots : P[s].pid = pid /\ P[s].state = "zombie"
       THEN P[CHOOSE s \in Slots : P[s].pid = pid].exit_code
       ELSE last_words[pid]]

\* The exit buffer is used with the table P and the calls c: elf_exec goes on
\* where it was armed, buries the program it ran, gives the CPU back to the
\* starter, and the call of the starter returns.
UseBuffer(P, c, code) ==
  LET w == g_elf_jmp.starter
      Q == [P EXCEPT ![g_elf_jmp.child].state = "zombie",
                     ![g_elf_jmp.child].exit_code = code]
  IN  /\ SetTable(process_check_signal(Q, w))
      /\ current' = w
      /\ call' = [c EXCEPT ![current] = Exited, ![w] = InUser]
      /\ g_elf_jmp' = [g_elf_jmp EXCEPT !.valid = FALSE]

\* The end of a system call with the table P and the calls c.
Return(P, c) ==
  LET Q == process_check_signal(P, current)
  IN  IF Terminates(P, current) /\ g_elf_jmp.valid
      THEN UseBuffer(Q, c, Q[current].exit_code)
      ELSE /\ SetTable(Q)
           /\ call' = [c EXCEPT ![current] = InUser]
           /\ UNCHANGED <<current, g_elf_jmp>>

\* schedule(): the CPU goes to a process of the queue, maybe the current one,
\* and stays where it is when none can run.
Runnable(P) == Alive(P) \cap run_queue

Schedule(P, where) ==
  /\ SetTable(P)
  /\ current' \in IF Runnable(P) = {} THEN {current} ELSE Runnable(P)
  /\ call' = [call EXCEPT ![current] = where]
  /\ UNCHANGED g_elf_jmp

-----------------------------------------------------------------------------
(***************************************************************************)
(* The timer takes the CPU away from user mode and from the loop of init;  *)
(* it does not look at signals.                                            *)
(***************************************************************************)
Preempt ==
  /\ call[current] \in {InUser, Exited}
  /\ current' \in Runnable(processes) \ {current}
  /\ UNCHANGED <<processes, next_pid, call, run_queue, g_elf_jmp, result, history>>

\* User code that makes system calls, and programs, which make any of them;
\* what usermode_run starts only prints, sleeps and exits.
InUserMode == call[current] = InUser /\ current # InitSlot
InProgram == InUserMode /\ processes[current].entry = "NULL"
InInit == call[current] = InUser /\ current = InitSlot

(***************************************************************************)
(* New processes.  The first zombie slot is reused before a new one is     *)
(* taken.                                                                  *)
(***************************************************************************)
Zombies == {s \in Slots : processes[s].state = "zombie"}
Unused  == {s \in Slots : processes[s].state = "free"}

NewSlot(s) ==
  next_pid <= MaxPid /\ First(s, IF Zombies # {} THEN Zombies ELSE Unused)

process_create(s, entry) ==
  LET p == [Blank EXCEPT !.pid = next_pid, !.state = "alive", !.entry = entry]
  IN  [processes EXCEPT ![s] =
         [p EXCEPT !.parent_pid = IF s = current THEN next_pid ELSE MyPid]]

\* The pid counter stays behind.
SamePid(n) == n

NextPid(n) == n + 1

\* A killed process whose call still goes on is a zombie like others, so
\* process_create frees the kernel stack of that call.
StackInUse(s) == s = current \/ call[s] = Spawning

\* SYS_FORK (process_fork).  scheduler_add drops the child when the queue is
\* full, which is left open.
SysFork ==
  /\ InProgram
  /\ \E s \in Slots :
       /\ NewSlot(s) /\ ~StackInUse(s)
       /\ run_queue' \in {run_queue, run_queue \cup {s}}
       /\ Return(process_create(s, "NULL"), [call EXCEPT ![s] = AtZero])
  /\ next_pid' = NextPid(next_pid)
  /\ UNCHANGED <<result, exited>>

\* usermode_run, for the usertest command of the kernel's shell.
UsermodeRun ==
  /\ InInit
  /\ \E s \in Slots :
       /\ NewSlot(s) /\ ~StackInUse(s)
       /\ run_queue' \in {run_queue, run_queue \cup {s}}
       /\ Return(process_create(s, "userprog"), [call EXCEPT ![s] = InUser])
  /\ next_pid' = NextPid(next_pid)
  /\ UNCHANGED <<result, exited>>

\* elf_exec, for SYS_SPAWN and SYS_SPAWN_R or for init itself: the program
\* runs and the buffer is armed for it.
Spawn ==
  /\ InProgram \/ InInit
  /\ \E s \in Slots :
       /\ NewSlot(s) /\ ~StackInUse(s)
       /\ SetTable(process_create(s, "NULL"))
       /\ current' = s
       /\ call' = [call EXCEPT ![current] = Spawning, ![s] = InUser]
       /\ g_elf_jmp' = [valid |-> TRUE, starter |-> current, child |-> s]
  /\ next_pid' = NextPid(next_pid)
  /\ UNCHANGED <<run_queue, result, exited>>

\* The program cannot be loaded.
SpawnFails ==
  /\ InProgram \/ InInit
  /\ \E s \in Slots :
       /\ NewSlot(s) /\ ~StackInUse(s)
       /\ Return([process_create(s, "NULL") EXCEPT ![s].state = "zombie",
                                                  ![s].exit_code = LoadError],
                 [call EXCEPT ![s] = Exited])
  /\ next_pid' = NextPid(next_pid)
  /\ UNCHANGED <<run_queue, result, exited>>

\* Either of them in a slot whose kernel stack is still needed.
CreateOnStackInUse ==
  /\ InProgram
  /\ \E s \in Slots :
       /\ NewSlot(s) /\ StackInUse(s)
       /\ SetTable(process_create(s, "NULL"))
  /\ call' = [call EXCEPT ![current] = Lost]
  /\ next_pid' = NextPid(next_pid)
  /\ UNCHANGED <<current, run_queue, g_elf_jmp, result, exited>>

(***************************************************************************)
(* System calls.                                                           *)
(***************************************************************************)
\* SYS_EXIT, or a fault in user mode: process_exit, then the exit buffer if it
\* is valid, whoever armed it, else schedule().  When nobody else can run, the
\* call returns, and exit() of the user library spins.
SysExit(code) ==
  LET P == process_exit(processes, code)
  IN  /\ InUserMode
      /\ \/ g_elf_jmp.valid /\ UseBuffer(P, call, code)
         \/ /\ ~g_elf_jmp.valid
            /\ Schedule(IF Runnable(P) = {} THEN process_check_signal(P, current) ELSE P,
                        Exited)
      /\ exited' = exited \cup {MyPid}
      /\ UNCHANGED <<next_pid, run_queue, result>>

\* SYS_YIELD and SYS_SLEEP, and their return from schedule().
SysYield ==
  /\ InUserMode
  /\ Schedule(processes, Yielded)
  /\ UNCHANGED <<next_pid, run_queue, result, exited>>

YieldReturn ==
  /\ call[current] = Yielded
  /\ Return(processes, call)
  /\ UNCHANGED <<next_pid, run_queue, result, exited>>

\* Any system call that changes nothing here (SYS_GETPID, ...).
SysOther ==
  /\ InUserMode
  /\ Return(processes, call)
  /\ UNCHANGED <<next_pid, run_queue, result, exited>>

\* SYS_KILL with SIGKILL or SIGTERM, and the shell's kill: process_kill.
process_kill(pid) ==
  [s \in Slots |-> IF pid # 1 /\ s \in process_get(processes, pid)
                   THEN [processes[s] EXCEPT !.state = "zombie"] ELSE processes[s]]

SysKill(pid) ==
  /\ CanKill
  /\ InProgram \/ InInit
  /\ process_get(processes, pid) # {}
  /\ Return(process_kill(pid), call)
  /\ UNCHANGED <<next_pid, run_queue, result, exited>>

\* SYS_KILL with another signal.
SysSignal(pid, sig) ==
  /\ CanSignal
  /\ InProgram
  /\ process_get(processes, pid) # {}
  /\ Return(process_signal(processes, pid, sig), call)
  /\ UNCHANGED <<next_pid, run_queue, result, exited>>

\* The keyboard interrupt of Ctrl-C signals the current process; the kernel's
\* own ones are exempt.
CtrlC(sig) ==
  /\ CanSignal
  /\ InUserMode
  /\ processes' = process_signal(processes, MyPid, sig)
  /\ UNCHANGED <<next_pid, current, call, run_queue, g_elf_jmp, result, history>>

\* SYS_SIGNAL.
process_sigaction(sig, handler) ==
  /\ <<sig, handler>> \in Handled
  /\ InProgram
  /\ Return([processes EXCEPT ![current].sig_handlers =
               [@ EXCEPT ![sig] = handler]], call)
  /\ UNCHANGED <<next_pid, run_queue, result, exited>>

(***************************************************************************)
(* process_waitpid: the scan for a dead child, and what follows when there *)
(* is none.  A blocked process scans again whenever it gets the CPU.       *)
(***************************************************************************)
\* Any dead child, whichever pid was asked for.
DeadChildrenAny(pid) ==
  {s \in Zombies : processes[s].parent_pid = MyPid}

DeadChildren(pid) ==
  {s \in Zombies : /\ processes[s].parent_pid = MyPid
                   /\ pid > 0 => processes[s].pid = pid}

HasChildren == \E s \in Alive(processes) : processes[s].parent_pid = MyPid

WaitScan(pid, nohang) ==
  \/ /\ \E s \in Slots :
          /\ First(s, DeadChildren(pid))
          /\ result' = [asked |-> pid, pid |-> processes[s].pid,
                        status |-> processes[s].exit_code]
     /\ Return(processes, call)
  \/ /\ DeadChildren(pid) = {}
     /\ nohang \/ ~HasChildren
     /\ Return(processes, call)
     /\ UNCHANGED result
  \/ /\ DeadChildren(pid) = {}
     /\ ~nohang /\ HasChildren
     /\ Schedule(processes, pid)
     /\ UNCHANGED result

SysWaitpid(pid, nohang) ==
  /\ CanWait
  /\ InProgram
  /\ WaitScan(pid, nohang)
  /\ UNCHANGED <<next_pid, run_queue, exited>>

WaitRetry ==
  /\ call[current] \in {AnyChild} \cup 1 .. MaxPid
  /\ WaitScan(call[current], FALSE)
  /\ UNCHANGED <<next_pid, run_queue, exited>>

Pids == 1 .. MaxPid

Next ==
  \/ Preempt
  \/ SysFork
  \/ UsermodeRun
  \/ Spawn
  \/ SpawnFails
  \/ CreateOnStackInUse
  \/ \E code \in Codes : SysExit(code)
  \/ SysYield
  \/ YieldReturn
  \/ SysOther
  \/ \E pid \in Pids : SysKill(pid)
  \/ \E pid \in Pids, sig \in AllSigs : SysSignal(pid, sig)
  \/ \E sig \in Sigs : CtrlC(sig)
  \/ \E sig \in AllSigs, handler \in Handlers : process_sigaction(sig, handler)
  \/ \E pid \in Pids \cup {AnyChild}, nohang \in BOOLEAN : SysWaitpid(pid, nohang)
  \/ WaitRetry

Spec == Init /\ [][Next]_vars

-----------------------------------------------------------------------------
(***************************************************************************)
(* Properties.                                                             *)
(***************************************************************************)

\* Every field of process_t, the pid counter and the calls in progress stay in
\* their types through spawns, forks, exits, kills, signals and waits (process/process.c).
TypeOK ==
  /\ processes \in [Slots -> ProcessT]
  /\ next_pid \in 2 .. (MaxPid + 1)
  /\ current \in Slots
  /\ call \in [Slots -> Calls]
  /\ run_queue \subseteq Slots
  /\ g_elf_jmp \in [valid : BOOLEAN, starter : Slots, child : Slots]
  /\ result \in [asked : {AnyChild} \cup 0 .. MaxPid, pid : 0 .. MaxPid, status : ExitCodes]
  /\ last_words \in [Pids -> ExitCodes \cup {Unknown}]
  /\ exited \subseteq Pids

\* However slots are recycled, no two processes of the table, dead or alive,
\* have the same pid, and pids still to be given are in nobody's hands.
PidsUnique ==
  /\ \A s \in Slots : processes[s].pid < next_pid
  /\ \A s, t \in Slots :
       processes[s].pid = processes[t].pid /\ processes[s].pid # 0 => s = t

\* process_waitpid never mixes children up: the pid it returns is one that was
\* asked for, and the status is what that process left, although zombies stay
\* in the table, slots are recycled and codes are set on several paths.
WaitReports ==
  [][result' # result =>
       /\ result'.asked \in {AnyChild, result'.pid}
       /\ last_words[result'.pid] = result'.status]_vars

\* A process that goes through process_exit leaves no orphan behind: no live
\* process has a parent that exited, whatever order of exits, kills, spawns,
\* forks and reuse of slots led there.
OrphansAdopted ==
  \A s \in Alive(processes) \ {InitSlot} : processes[s].parent_pid \notin exited

(***************************************************************************)
(* What the documentation says, refuted by a run.                          *)
(***************************************************************************)

\* kernel/elf.c: the exit buffer was armed for the pid that calls SYS_EXIT; no
\* process comes back from elf_exec because another one than its program ended.
BufferIsOwn ==
  [][g_elf_jmp.valid /\ ~g_elf_jmp'.valid => current = g_elf_jmp.child]_vars
=============================================================================
