----------------------------- MODULE Scheduler -----------------------------
(***************************************************************************)
(* The priority scheduler with MLFQ feedback of process/scheduler.c, driven *)
(* by the timer interrupt (drivers/timer.c) and by the calls of the        *)
(* running process.                                                        *)
(*                                                                         *)
(* A task is a slot of the process table.  Slot 1 is init, the kernel flow *)
(* that runs the shell: it has no kernel stack of its own and is never in  *)
(* the run queue.  Slot 2 is the placeholder that idle time is billed to.  *)
(* The others host the processes that usermode_run and process_fork create *)
(* and hand to scheduler_add.  elf_exec is not here: it makes its program  *)
(* current without schedule(), while its starter stays marked RUNNING      *)
(* until the program has ended (kernel/elf.c:160-161).                     *)
(*                                                                         *)
(* An action is a stretch of kernel code with interrupts disabled.  A      *)
(* process in waiting is inside one of the kernel's yield loops            *)
(* (pipe_read, pipe_write, process_waitpid), entered through the interrupt *)
(* gate of int 0x80: while it holds the CPU no timer tick is delivered.    *)
(***************************************************************************)
EXTENDS Integers, Sequences, FiniteSets

CONSTANTS
  MAX_PROCESSES,       \* slots of the table, and length limit of the queue
  PRIO_MIN, PRIO_MAX, PRIO_IDLE,
  MLFQ_BOOST_MIN, MLFQ_BOOST_MAX, MLFQ_DEMOTE_AFTER, MLFQ_DECAY_TICKS,
  Q_BASE, Q_STEP, Q_LOW, Q_HIGH,  \* the numbers in quantum_for
  TickMod,             \* 2^w: the tick counter wraps around
  CountMod,            \* 2^w of the CPU time counters
  Nices,               \* priorities that new or reniced processes get
  SleepLens,           \* lengths of sleep_block, in ticks
  CanYield, CanWait, CanExit, CanKill, CanKick, CanRenice, CanSpawn

ASSUME SchedulerConstants ==
  /\ MAX_PROCESSES \in Nat /\ MAX_PROCESSES >= 2
  /\ PRIO_MIN \in Int /\ PRIO_MAX \in Int /\ PRIO_IDLE \in Int
  /\ PRIO_MIN <= 0 /\ 0 <= PRIO_MAX /\ PRIO_MAX < PRIO_IDLE
  /\ MLFQ_BOOST_MIN \in Int /\ MLFQ_BOOST_MAX \in Int
  /\ MLFQ_BOOST_MIN <= 0 /\ 0 <= MLFQ_BOOST_MAX
  /\ MLFQ_DEMOTE_AFTER \in Nat \ {0} /\ MLFQ_DECAY_TICKS \in Nat \ {0}
  /\ Q_BASE \in Nat /\ Q_STEP \in Nat \ {0}
  /\ Q_LOW \in Nat \ {0} /\ Q_HIGH \in Nat /\ Q_LOW <= Q_HIGH
  /\ TickMod \in Nat \ {0} /\ CountMod \in Nat \ {0}
  /\ Nices \subseteq PRIO_MIN .. PRIO_MAX
  /\ SleepLens \subseteq Nat
  /\ \A b \in {CanYield, CanWait, CanExit, CanKill, CanKick, CanRenice, CanSpawn} :
       b \in BOOLEAN

\* Arithmetic that the provers' theory of exponentiation does not cover.
ASSUME PowersOfTwo == \A k \in 0 .. MAX_PROCESSES : 2 ^ k >= 1

VARIABLES
  task,             \* the scheduling fields of every process_t
  run_queue,        \* pointers in the order of scheduler_add, never removed
  current,          \* the slot whose code the CPU executes
  last_picked_idx,  \* round-robin tie-breaker
  kick_flag,        \* reschedule at the next tick
  ticks,            \* timer ticks, modulo TickMod
  tick_count,       \* scheduler ticks, modulo the decay period
  cached_idle,      \* the slot find_idle_task remembers, 0 before the first use
  waiting,          \* processes inside a yield loop of the kernel
  granted           \* those whose awaited condition has come true

vars == <<task, run_queue, current, last_picked_idx, kick_flag, ticks,
          tick_count, cached_idle, waiting, granted>>

Tasks == 1 .. MAX_PROCESSES
Shell == 1
Idle  == 2

States == {"running", "ready", "sleeping", "zombie", "free"}

\* quantum_used is only ever compared with a cap of at most Q_HIGH, so it is
\* kept up to the first value above every cap.
QuantumTop == Q_HIGH + 1
Saturate(n) == IF n <= QuantumTop THEN n ELSE QuantumTop

TaskT ==
  [state : States, priority : (PRIO_MIN .. PRIO_MAX) \cup {PRIO_IDLE},
   dyn_boost : MLFQ_BOOST_MIN .. MLFQ_BOOST_MAX, quantum_used : 0 .. QuantumTop,
   consec_full : 0 .. (MLFQ_DEMOTE_AFTER - 1), sleep_until : 0 .. (TickMod - 1),
   kstack : BOOLEAN, is_idle : BOOLEAN,
   cpu_ticks : 0 .. (CountMod - 1), cpu_ticks_user : 0 .. (CountMod - 1),
   cpu_ticks_sys : 0 .. (CountMod - 1)]

Blank ==
  [state |-> "free", priority |-> 0, dyn_boost |-> 0, quantum_used |-> 0,
   consec_full |-> 0, sleep_until |-> 0, kstack |-> FALSE, is_idle |-> FALSE,
   cpu_ticks |-> 0, cpu_ticks_user |-> 0, cpu_ticks_sys |-> 0]

\* What scheduler_init and process_init leave behind (kthreadd and mysh, two
\* more placeholders that nothing ever touches, are left out).
Init ==
  /\ task = [t \in Tasks |->
               IF t = Shell THEN [Blank EXCEPT !.state = "running", !.priority = PRIO_IDLE]
               ELSE IF t = Idle
               THEN [Blank EXCEPT !.state = "ready", !.priority = PRIO_IDLE,
                                  !.is_idle = TRUE]
               ELSE Blank]
  /\ run_queue = <<>>
  /\ current = Shell
  /\ last_picked_idx = 0
  /\ kick_flag = FALSE
  /\ ticks = 0
  /\ tick_count = 0
  /\ cached_idle = 0
  /\ waiting = {}
  /\ granted = {}

-----------------------------------------------------------------------------
(***************************************************************************)
(* Effective priority and quantum.                                         *)
(***************************************************************************)
Clamp(n, lo, hi) == IF n < lo THEN lo ELSE IF n > hi THEN hi ELSE n

\* Division of C: truncates towards zero.
TruncDiv(a, b) == IF a >= 0 THEN a \div b ELSE -((-a) \div b)

eff_prio(p) ==
  IF p.priority >= PRIO_IDLE THEN p.priority
  ELSE Clamp(p.priority + p.dyn_boost, PRIO_MIN, PRIO_MAX)

quantum_for(prio) ==
  IF prio >= PRIO_IDLE THEN 1
  ELSE Clamp(Q_BASE + TruncDiv(prio, Q_STEP), Q_LOW, Q_HIGH)

(***************************************************************************)
(* MLFQ feedback on one process_t.                                         *)
(***************************************************************************)
mlfq_credit_release_unbounded(p) ==
  IF p.priority >= PRIO_IDLE \/ p.quantum_used >= quantum_for(eff_prio(p)) THEN p
  ELSE [p EXCEPT !.dyn_boost = @ - 1, !.consec_full = 0]

mlfq_credit_release(p) ==
  IF p.priority >= PRIO_IDLE \/ p.quantum_used >= quantum_for(eff_prio(p)) THEN p
  ELSE [p EXCEPT !.dyn_boost = IF @ > MLFQ_BOOST_MIN THEN @ - 1 ELSE @,
                 !.consec_full = 0]

mlfq_charge_quantum(p, cap) ==
  IF p.priority >= PRIO_IDLE \/ p.quantum_used < cap THEN p
  ELSE IF p.consec_full + 1 < MLFQ_DEMOTE_AFTER
  THEN [p EXCEPT !.consec_full = @ + 1]
  ELSE [p EXCEPT !.dyn_boost = IF @ < MLFQ_BOOST_MAX THEN @ + 1 ELSE @,
                 !.consec_full = 0]

(***************************************************************************)
(* The passes over the run queue.  A slot is met once for each time it was *)
(* added, and halving k times divides by 2^k.                              *)
(***************************************************************************)
Queued == {run_queue[i] : i \in 1 .. Len(run_queue)}
TimesQueued(t) == Cardinality({i \in 1 .. Len(run_queue) : run_queue[i] = t})

no_decay(t) == task[t]

mlfq_decay_all(t) ==
  IF (tick_count + 1) % MLFQ_DECAY_TICKS = 0
  THEN [task[t] EXCEPT !.dyn_boost = TruncDiv(task[t].dyn_boost, 2 ^ TimesQueued(t))]
  ELSE task[t]

ExpiredStrictly(p) ==
  p.state = "sleeping" /\ p.sleep_until # 0 /\ (ticks + 1) % TickMod > p.sleep_until

Expired(p) ==
  p.state = "sleeping" /\ p.sleep_until # 0 /\ (ticks + 1) % TickMod >= p.sleep_until

scheduler_wakeup_check(p, t) ==
  IF t \in Queued /\ Expired(p)
  THEN [p EXCEPT !.state = "ready", !.sleep_until = 0] ELSE p

(***************************************************************************)
(* pick_next: the runnable entry with the best effective priority, the     *)
(* first of them after last_picked_idx.  Queue positions count from 0.     *)
(***************************************************************************)
Positions == 0 .. (Len(run_queue) - 1)
At(i) == run_queue[i + 1]

ReadyAt(T) == {i \in Positions : T[At(i)].state \in {"ready", "running"}}

Turn(i) == (i + Len(run_queue) - ((last_picked_idx + 1) % Len(run_queue)))
             % Len(run_queue)

\* Every candidate counts, whatever its priority.
PicksAny(T, i) ==
  /\ i \in ReadyAt(T)
  /\ \A j \in ReadyAt(T) : Turn(i) <= Turn(j)

Picks(T, i) ==
  /\ i \in ReadyAt(T)
  /\ \A j \in ReadyAt(T) :
       \/ eff_prio(T[At(i)]) < eff_prio(T[At(j)])
       \/ eff_prio(T[At(i)]) = eff_prio(T[At(j)]) /\ Turn(i) <= Turn(j)

(***************************************************************************)
(* schedule(), started with the process fields T: nothing when no entry is *)
(* runnable, a fresh quantum when the current process is picked again,     *)
(* else a switch.  The CPU continues in the picked process.                *)
(***************************************************************************)
ReleasedStillRunning(p) == mlfq_credit_release(p)

Released(p) ==
  LET q == mlfq_credit_release(p)
  IN  [q EXCEPT !.state = IF @ = "running" THEN "ready" ELSE @]

SwitchTo(T, t) ==
  [u \in Tasks |->
     CASE u = current -> Released(T[u])
       [] u = t       -> [T[u] EXCEPT !.state = "running", !.quantum_used = 0]
       [] OTHER       -> T[u]]

KeepCpu(T) ==
  [u \in Tasks |-> IF u = current THEN [T[u] EXCEPT !.quantum_used = 0] ELSE T[u]]

schedule(T) ==
  \/ /\ ReadyAt(T) = {}
     /\ task' = T
     /\ UNCHANGED <<current, last_picked_idx>>
  \/ \E i \in Positions :
       /\ Picks(T, i)
       /\ At(i) = current
       /\ task' = KeepCpu(T)
       /\ UNCHANGED <<current, last_picked_idx>>
  \/ \E i \in Positions :
       /\ Picks(T, i)
       /\ At(i) # current
       /\ task' = SwitchTo(T, At(i))
       /\ current' = At(i)
       /\ last_picked_idx' = i

-----------------------------------------------------------------------------
(***************************************************************************)
(* The timer interrupt: timer_callback and scheduler_tick.                 *)
(***************************************************************************)
Interruptible == current \notin waiting

looks_like_idle_period(p) == p.priority >= PRIO_IDLE

\* The live slots named "idle": there is at most one.
FoundIdle == {t \in Tasks : task[t].is_idle /\ task[t].state \notin {"zombie", "free"}}

find_idle_task ==
  IF cached_idle # 0 THEN cached_idle
  ELSE IF FoundIdle # {} THEN CHOOSE t \in FoundIdle : TRUE ELSE 0

BilledTo ==
  IF looks_like_idle_period(task[current]) /\ find_idle_task # 0
  THEN find_idle_task ELSE current

BillSystemTwice(p, was_user) ==
  [p EXCEPT !.cpu_ticks = (@ + 1) % CountMod,
            !.cpu_ticks_user = IF was_user THEN (@ + 1) % CountMod ELSE @,
            !.cpu_ticks_sys = (@ + 1) % CountMod]

Bill(p, was_user) ==
  [p EXCEPT !.cpu_ticks = (@ + 1) % CountMod,
            !.cpu_ticks_user = IF was_user THEN (@ + 1) % CountMod ELSE @,
            !.cpu_ticks_sys = IF was_user THEN @ ELSE (@ + 1) % CountMod]

\* The tick's effect on one process, up to the call of schedule(): decay,
\* wake-up, billing, and for the current one its quantum and its demotion.
Awake(t) == scheduler_wakeup_check(mlfq_decay_all(t), t)

Accounted(t, was_user) ==
  LET w == Awake(t)
      b == IF t = BilledTo /\ w.state # "zombie" THEN Bill(w, was_user) ELSE w
  IN  IF t = current /\ b.state # "zombie"
      THEN [b EXCEPT !.quantum_used = Saturate(b.quantum_used + 1)] ELSE b

Charged(t, was_user, cap) ==
  LET a == Accounted(t, was_user)
  IN  IF t = current /\ a.state # "zombie" THEN mlfq_charge_quantum(a, cap) ELSE a

scheduler_tick(was_user) ==
  LET me     == Accounted(current, was_user)
      cap    == quantum_for(eff_prio(me))
      T      == [t \in Tasks |-> Charged(t, was_user, cap)]
      kicked == kick_flag \/ \E t \in Queued : Expired(task[t])
  IN  /\ cached_idle' = IF looks_like_idle_period(task[current])
                        THEN find_idle_task ELSE cached_idle
      /\ \/ /\ kicked \/ me.quantum_used >= cap
            /\ kick_flag' = FALSE
            /\ schedule(T)
         \/ /\ ~kicked /\ me.quantum_used < cap
            /\ task' = T
            /\ UNCHANGED <<current, last_picked_idx, kick_flag>>

TimerTick ==
  /\ Interruptible
  /\ ticks' = (ticks + 1) % TickMod
  /\ tick_count' = (tick_count + 1) % MLFQ_DECAY_TICKS
  /\ \E was_user \in BOOLEAN : scheduler_tick(was_user)
  /\ UNCHANGED <<run_queue, waiting, granted>>

(***************************************************************************)
(* The keyboard interrupt pushes a key and kicks the scheduler.            *)
(***************************************************************************)
scheduler_kick ==
  /\ CanKick
  /\ Interruptible
  /\ kick_flag' = TRUE
  /\ UNCHANGED <<task, run_queue, current, last_picked_idx, ticks, tick_count,
                 cached_idle, waiting, granted>>

-----------------------------------------------------------------------------
(***************************************************************************)
(* Calls of the running process.  A zombie that still has the CPU is only  *)
(* followed through timer ticks, and a sleeper that found nobody to switch *)
(* to halts in sleep_block until its deadline.                             *)
(***************************************************************************)
Running ==
  /\ current # Shell
  /\ current \notin waiting
  /\ task[current].state # "zombie"
  /\ ~(task[current].state = "sleeping" /\ task[current].sleep_until # 0)

timeUnchanged == UNCHANGED <<run_queue, kick_flag, ticks, tick_count, cached_idle>>

\* SYS_YIELD.
Yield ==
  /\ CanYield
  /\ Running
  /\ schedule(task)
  /\ timeUnchanged
  /\ UNCHANGED <<waiting, granted>>

\* The first schedule() of a yield loop.
WaitBegin ==
  /\ CanWait
  /\ Running
  /\ schedule(task)
  /\ waiting' = waiting \cup {current}
  /\ timeUnchanged
  /\ UNCHANGED granted

\* Back from schedule() with the condition still false: once more.
WaitAgain ==
  /\ current \in waiting \ granted
  /\ schedule(task)
  /\ timeUnchanged
  /\ UNCHANGED <<waiting, granted>>

\* The condition holds: the loop ends.
WaitEnd ==
  /\ current \in waiting \cap granted
  /\ waiting' = waiting \ {current}
  /\ granted' = granted \ {current}
  /\ timeUnchanged
  /\ UNCHANGED <<task, current, last_picked_idx>>

\* The running process makes the condition true that t waits for (it writes
\* to the pipe, exits, ...).
Grant(t) ==
  /\ CanWait
  /\ Running
  /\ t \in waiting \ granted
  /\ granted' = granted \cup {t}
  /\ timeUnchanged
  /\ UNCHANGED <<task, current, last_picked_idx, waiting>>

\* sleep_block: deadline, state, credit, fresh quantum, schedule().
scheduler_sleep_current(n) ==
  LET target == (ticks + n) % TickMod
  IN  /\ Running
      /\ task[current].kstack
      /\ LET p == [mlfq_credit_release(task[current]) EXCEPT
                      !.sleep_until = target, !.state = "sleeping",
                      !.quantum_used = 0]
         IN  schedule([task EXCEPT ![current] = p])
      /\ timeUnchanged
      /\ UNCHANGED <<waiting, granted>>

\* SYS_EXIT of a process that no elf_exec waits for.
Exit ==
  /\ CanExit
  /\ Running
  /\ schedule([task EXCEPT ![current].state = "zombie"])
  /\ timeUnchanged
  /\ UNCHANGED <<waiting, granted>>

\* process_kill, by the running process or by the shell, on any live slot but
\* init.  A victim inside a yield loop never runs again.
process_kill(t) ==
  /\ CanKill
  /\ Interruptible
  /\ t # Shell
  /\ task[t].state \notin {"zombie", "free"}
  /\ task' = [task EXCEPT ![t].state = "zombie"]
  /\ waiting' = waiting \ {t}
  /\ granted' = granted \ {t}
  /\ timeUnchanged
  /\ UNCHANGED <<current, last_picked_idx>>

\* process_set_priority.
process_set_priority(t, prio) ==
  /\ CanRenice
  /\ Interruptible
  /\ task[t].state \notin {"zombie", "free"}
  /\ task' = [task EXCEPT ![t].priority = prio]
  /\ timeUnchanged
  /\ UNCHANGED <<current, last_picked_idx, waiting, granted>>

\* usermode_run: process_create takes the first zombie slot, else a new one,
\* and scheduler_add appends it while there is room.
ZombieSlots == {t \in Tasks : task[t].state = "zombie"}
FreeTasks   == {t \in Tasks : task[t].state = "free"}
NewSlots    == IF ZombieSlots # {} THEN ZombieSlots ELSE FreeTasks

\* The last place of the queue stays unused.
scheduler_add_short(t) ==
  run_queue' = IF Len(run_queue) + 1 < MAX_PROCESSES THEN Append(run_queue, t)
                                                      ELSE run_queue

scheduler_add(t) ==
  run_queue' = IF Len(run_queue) < MAX_PROCESSES THEN Append(run_queue, t)
                                                  ELSE run_queue

usermode_run(prio) ==
  /\ CanSpawn
  /\ Interruptible
  /\ task[current].state # "zombie"
  /\ \E t \in NewSlots :
       /\ \A u \in NewSlots : t <= u
       /\ task' = [task EXCEPT ![t] = [Blank EXCEPT !.state = "ready", !.kstack = TRUE,
                                                    !.priority = prio]]
       /\ scheduler_add(t)
  /\ UNCHANGED <<current, last_picked_idx, kick_flag, ticks, tick_count,
                 cached_idle, waiting, granted>>

Next ==
  \/ TimerTick
  \/ scheduler_kick
  \/ Yield
  \/ WaitBegin
  \/ WaitAgain
  \/ WaitEnd
  \/ \E t \in Tasks : Grant(t)
  \/ \E n \in SleepLens : scheduler_sleep_current(n)
  \/ Exit
  \/ \E t \in Tasks : process_kill(t)
  \/ \E t \in Tasks, prio \in Nices : process_set_priority(t, prio)
  \/ \E prio \in Nices : usermode_run(prio)

Spec == Init /\ [][Next]_vars

(***************************************************************************)
(* Fairness.  The timer goes on ticking while interrupts are enabled: only *)
(* TimerTick changes ticks, so it is enough to be fair to the counter.     *)
(* The CPU goes on executing the loop of a waiting process, which leaves   *)
(* it when schedule() picks another one or when its condition holds.       *)
(***************************************************************************)
ClockAdvances == Interruptible /\ ticks' = (ticks + 1) % TickMod

LoopSwitches ==
  /\ current \in waiting \ granted
  /\ \E i \in Positions : Picks(task, i) /\ At(i) # current /\ current' = At(i)

FairSpec ==
  Spec /\ WF_ticks(ClockAdvances) /\ WF_current(LoopSwitches) /\ WF_waiting(WaitEnd)

-----------------------------------------------------------------------------
(***************************************************************************)
(* Properties.                                                             *)
(***************************************************************************)

\* Boosts, streaks, quanta, priorities and counters of every process_t stay in
\* their ranges through credit, demotion, decay and reuse, and the queue names
\* slots of the table only (process/scheduler.c).
TypeOK ==
  /\ task \in [Tasks -> TaskT]
  /\ run_queue \in Seq(Tasks) /\ Len(run_queue) <= MAX_PROCESSES
  /\ current \in Tasks
  /\ last_picked_idx \in Nat
  /\ kick_flag \in BOOLEAN
  /\ ticks \in 0 .. (TickMod - 1)
  /\ tick_count \in 0 .. (MLFQ_DECAY_TICKS - 1)
  /\ cached_idle \in 0 .. MAX_PROCESSES
  /\ waiting \subseteq Tasks /\ granted \subseteq waiting

\* Whatever ticks, yields, wake-ups, kills and slot reuse come between, no
\* slot other than the one the CPU executes is ever marked RUNNING, starters
\* whose program runs under elf_exec apart.
RunningIsCurrent ==
  \A t \in Tasks : task[t].state = "running" => t = current

\* A switch goes to a process that no other runnable entry of the queue beats
\* in effective priority; the process that leaves may be ahead by the one step
\* of credit it gets for leaving early, and by no more.
PicksBest ==
  [][current' # current =>
       \A t \in Queued \ {current'} :
         task'[t].state \in {"ready", "running"} =>
           eff_prio(task'[current']) <=
             eff_prio(task'[t]) + (IF t = current THEN 1 ELSE 0)]_vars

AddsUp(p) == p.cpu_ticks = (p.cpu_ticks_user + p.cpu_ticks_sys) % CountMod

\* CPU time adds up: what a process was billed is its user time plus its
\* system time, however often its counters wrap and its slot is reused.
TimeAddsUp == \A t \in Tasks : AddsUp(task[t])

\* A launched program is one the scheduler can pick: scheduler_add leaves it
\* out only when the queue, from which nothing is ever removed, is full.
LaunchedIsQueued ==
  \A t \in Tasks :
    task[t].kstack /\ task[t].state = "ready"
      => t \in Queued \/ Len(run_queue) = MAX_PROCESSES

\* A queued process that can run gets the CPU, sleeps, or dies in the end.
GetsCpu(t) ==
  (t \in Queued /\ task[t].state = "ready")
    ~> (current = t \/ task[t].state \notin {"ready", "running"})

\* Processes of the same base priority never starve each other, even when one
\* of them has collected credit and yields all the time: the decay of
\* dyn_boost brings the others back.
EqualPriorityProgress == \A t \in Tasks : GetsCpu(t)

\* A sleeper with a deadline is woken, also when the tick counter wraps
\* around in between.
SleeperWakes ==
  \A t \in Tasks :
    (t \in Queued /\ task[t].state = "sleeping" /\ task[t].sleep_until # 0)
      ~> task[t].state # "sleeping"

(***************************************************************************)
(* What comments of the source say, refuted by a run.                      *)
(***************************************************************************)

\* fs/pipe.c: "pipe_read() espera con yield si no hay datos y el escritor
\* sigue activo"; process/process.c, process_waitpid: "Bloquear: yield y
\* reintentar".  A yield loop lets the process it waits for run.
YieldLoopLetsOthersRun == \A t \in Tasks : GetsCpu(t)
=============================================================================
