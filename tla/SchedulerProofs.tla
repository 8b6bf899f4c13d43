-------------------------- MODULE SchedulerProofs --------------------------
(***************************************************************************)
(* Proofs about Scheduler, for every number of processes and every setting *)
(* of priorities, boosts, quanta and counter widths: types and billing,    *)
(* launched programs stay queued, and a switch goes to the best.           *)
(***************************************************************************)
EXTENDS Scheduler, TLAPS, FiniteSetTheorems

TableT == [Tasks -> TaskT]

\* What every update of a process_t by the scheduler preserves: its type, that
\* only a switch makes it RUNNING, that its CPU time adds up, its kernel stack,
\* and that the dead stay dead.
Keeps(p, q) ==
  /\ q \in TaskT
  /\ q.kstack = p.kstack
  /\ p.state = "zombie" => q.state = "zombie"
  /\ q.state = "running" => p.state = "running"
  /\ AddsUp(p) => AddsUp(q)

LEMMA KeepsTransitive ==
  ASSUME NEW p, NEW q, NEW r, Keeps(p, q), Keeps(q, r)
  PROVE  Keeps(p, r)
  BY DEF Keeps

-----------------------------------------------------------------------------
(***************************************************************************)
(* MLFQ feedback keeps dyn_boost and consec_full in range.                 *)
(***************************************************************************)
LEMMA CreditKeeps ==
  ASSUME NEW p \in TaskT
  PROVE  Keeps(p, mlfq_credit_release(p)) /\ mlfq_credit_release(p).state = p.state
<1>1. CASE p.priority >= PRIO_IDLE \/ p.quantum_used >= quantum_for(eff_prio(p))
  BY <1>1 DEF mlfq_credit_release, Keeps
<1>2. CASE ~(p.priority >= PRIO_IDLE \/ p.quantum_used >= quantum_for(eff_prio(p)))
  <2> DEFINE b == IF p.dyn_boost > MLFQ_BOOST_MIN THEN p.dyn_boost - 1 ELSE p.dyn_boost
  <2>1. mlfq_credit_release(p) = [p EXCEPT !.dyn_boost = b, !.consec_full = 0]
    BY <1>2 DEF mlfq_credit_release
  <2>2. b \in MLFQ_BOOST_MIN .. MLFQ_BOOST_MAX /\ 0 \in 0 .. (MLFQ_DEMOTE_AFTER - 1)
    BY SchedulerConstants DEF TaskT
  <2> HIDE DEF b
  <2> QED BY <2>1, <2>2 DEF TaskT, Keeps, AddsUp
<1> QED BY <1>1, <1>2

LEMMA ChargeKeeps ==
  ASSUME NEW p \in TaskT, NEW cap
  PROVE  Keeps(p, mlfq_charge_quantum(p, cap))
<1>1. CASE p.priority >= PRIO_IDLE \/ p.quantum_used < cap
  BY <1>1 DEF mlfq_charge_quantum, Keeps
<1>2. CASE ~(p.priority >= PRIO_IDLE \/ p.quantum_used < cap)
           /\ p.consec_full + 1 < MLFQ_DEMOTE_AFTER
  <2>1. mlfq_charge_quantum(p, cap) = [p EXCEPT !.consec_full = p.consec_full + 1]
    BY <1>2 DEF mlfq_charge_quantum
  <2>2. p.consec_full + 1 \in 0 .. (MLFQ_DEMOTE_AFTER - 1)
    BY <1>2, SchedulerConstants DEF TaskT
  <2> QED BY <2>1, <2>2 DEF TaskT, Keeps, AddsUp
<1>3. CASE ~(p.priority >= PRIO_IDLE \/ p.quantum_used < cap)
           /\ ~(p.consec_full + 1 < MLFQ_DEMOTE_AFTER)
  <2> DEFINE b == IF p.dyn_boost < MLFQ_BOOST_MAX THEN p.dyn_boost + 1 ELSE p.dyn_boost
  <2>1. mlfq_charge_quantum(p, cap) = [p EXCEPT !.dyn_boost = b, !.consec_full = 0]
    BY <1>3 DEF mlfq_charge_quantum
  <2>2. b \in MLFQ_BOOST_MIN .. MLFQ_BOOST_MAX /\ 0 \in 0 .. (MLFQ_DEMOTE_AFTER - 1)
    BY SchedulerConstants DEF TaskT
  <2> HIDE DEF b
  <2> QED BY <2>1, <2>2 DEF TaskT, Keeps, AddsUp
<1> QED BY <1>1, <1>2, <1>3

\* A slot has at most as many entries as the queue is long.
LEMMA EntriesBound ==
  ASSUME run_queue \in Seq(Tasks), Len(run_queue) <= MAX_PROCESSES, NEW t
  PROVE  TimesQueued(t) \in 0 .. MAX_PROCESSES
<1> DEFINE I == 1 .. Len(run_queue)
           E == {i \in I : run_queue[i] = t}
<1>1. Len(run_queue) \in Nat
  <2> HIDE DEF E, I
  <2> QED OBVIOUS
<1>2. IsFiniteSet(I) /\ Cardinality(I) = Len(run_queue)
  <2>0. 1 \in Int /\ Len(run_queue) \in Int
    BY <1>1
  <2>1. IsFiniteSet(I) /\ Cardinality(I) = IF 1 > Len(run_queue) THEN 0 ELSE Len(run_queue) - 1 + 1
    BY <2>0, FS_Interval, ZenonT(40)
  <2> QED BY <1>1, <2>1
<1>3. E \subseteq I
  OBVIOUS
<1>4. IsFiniteSet(E) /\ Cardinality(E) <= Cardinality(I)
  BY <1>2, <1>3, FS_Subset
<1>5. Cardinality(E) \in Nat
  BY <1>4, FS_CardinalityType
<1>6. TimesQueued(t) = Cardinality(E)
  BY DEF TimesQueued
<1> HIDE DEF E, I
<1> QED BY <1>1, <1>2, <1>4, <1>5, <1>6, SchedulerConstants

\* Division by a positive number brings a boost closer to zero.
LEMMA TruncDivRange ==
  ASSUME NEW b \in MLFQ_BOOST_MIN .. MLFQ_BOOST_MAX, NEW m \in Nat \ {0}
  PROVE  TruncDiv(b, m) \in MLFQ_BOOST_MIN .. MLFQ_BOOST_MAX
<1>1. MLFQ_BOOST_MIN \in Int /\ MLFQ_BOOST_MAX \in Int /\ MLFQ_BOOST_MIN <= 0
      /\ 0 <= MLFQ_BOOST_MAX /\ b \in Int
  BY SchedulerConstants
<1>2. \A a \in Nat : a \div m \in Nat /\ a \div m <= a
  OBVIOUS
<1>3. CASE b >= 0
  <2>1. b \div m \in Nat /\ b \div m <= b
    BY <1>1, <1>2, <1>3
  <2> QED BY <1>1, <1>3, <2>1 DEF TruncDiv
<1>4. CASE b < 0
  <2>1. (-b) \div m \in Nat /\ (-b) \div m <= -b
    BY <1>1, <1>2, <1>4
  <2> QED BY <1>1, <1>4, <2>1 DEF TruncDiv
<1> QED BY <1>1, <1>3, <1>4

LEMMA DecayKeeps ==
  ASSUME task \in TableT, run_queue \in Seq(Tasks), Len(run_queue) <= MAX_PROCESSES,
         NEW t \in Tasks
  PROVE  Keeps(task[t], mlfq_decay_all(t))
<1> DEFINE b == TruncDiv(task[t].dyn_boost, 2 ^ TimesQueued(t))
<1>1. task[t] \in TaskT
  BY DEF TableT
<1>2. b \in MLFQ_BOOST_MIN .. MLFQ_BOOST_MAX
  <2>1. TimesQueued(t) \in 0 .. MAX_PROCESSES
    BY EntriesBound
  <2>2. 2 ^ TimesQueued(t) >= 1
    BY <2>1, PowersOfTwo
  <2>3. 2 ^ TimesQueued(t) \in Int
    BY <2>1, SchedulerConstants
  <2>4. 2 ^ TimesQueued(t) \in Nat \ {0}
    BY <2>2, <2>3
  <2> QED BY <1>1, <2>4, TruncDivRange DEF TaskT
<1>3. mlfq_decay_all(t) \in {task[t], [task[t] EXCEPT !.dyn_boost = b]}
  BY DEF mlfq_decay_all
<1> HIDE DEF b
<1> QED BY <1>1, <1>2, <1>3 DEF TaskT, Keeps, AddsUp

-----------------------------------------------------------------------------
(***************************************************************************)
(* Accounting.                                                             *)
(***************************************************************************)

\* The remainder of a number below twice the modulus.
LEMMA WrapOnce ==
  ASSUME NEW M \in Int, NEW x \in Int, 0 < M, 0 <= x, x < M + M
  PROVE  x % M = IF x < M THEN x ELSE x - M
<1>1. CASE x < M
  BY <1>1
<1>2. CASE x >= M
  BY <1>2
<1> QED BY <1>1, <1>2

\* One tick more on both sides of a sum of wrapping counters.
LEMMA TickWrapped ==
  ASSUME NEW M \in Nat \ {0}, NEW u \in 0 .. (M - 1), NEW v \in 0 .. (M - 1),
         NEW a \in Int, NEW b \in Int,
         a = IF u + v < M THEN u + v ELSE u + v - M,
         b = IF u + 1 < M THEN u + 1 ELSE u + 1 - M
  PROVE  (a + 1) % M = (b + v) % M
<1>1. /\ M \in Int /\ 0 < M
      /\ a + 1 \in Int /\ 0 <= a + 1 /\ a + 1 < M + M
      /\ b + v \in Int /\ 0 <= b + v /\ b + v < M + M
  OBVIOUS
<1>2. (a + 1) % M = IF a + 1 < M THEN a + 1 ELSE a + 1 - M
  BY <1>1, WrapOnce
<1>3. (b + v) % M = IF b + v < M THEN b + v ELSE b + v - M
  BY <1>1, WrapOnce
<1>4. (IF a + 1 < M THEN a + 1 ELSE a + 1 - M)
        = (IF b + v < M THEN b + v ELSE b + v - M)
  OBVIOUS
<1> QED BY <1>2, <1>3, <1>4

LEMMA TickBothSides ==
  ASSUME NEW M \in Nat \ {0}, NEW u \in 0 .. (M - 1), NEW v \in 0 .. (M - 1)
  PROVE  (((u + v) % M) + 1) % M = (((u + 1) % M) + v) % M
<1>1. /\ M \in Int /\ 0 < M
      /\ u + v \in Int /\ 0 <= u + v /\ u + v < M + M
      /\ u + 1 \in Int /\ 0 <= u + 1 /\ u + 1 < M + M
  OBVIOUS
<1>2. (u + v) % M = IF u + v < M THEN u + v ELSE u + v - M
  BY <1>1, WrapOnce
<1>3. (u + 1) % M = IF u + 1 < M THEN u + 1 ELSE u + 1 - M
  BY <1>1, WrapOnce
<1>4. (u + v) % M \in Int /\ (u + 1) % M \in Int
  BY <1>1
<1> QED BY <1>2, <1>3, <1>4, TickWrapped

LEMMA BillKeeps ==
  ASSUME NEW p \in TaskT, NEW was_user \in BOOLEAN
  PROVE  Keeps(p, Bill(p, was_user)) /\ Bill(p, was_user).state = p.state
<1> DEFINE c == (p.cpu_ticks + 1) % CountMod
           u == (p.cpu_ticks_user + 1) % CountMod
           v == (p.cpu_ticks_sys + 1) % CountMod
<1>1. /\ CountMod \in Nat \ {0}
      /\ p.cpu_ticks \in 0 .. (CountMod - 1) /\ p.cpu_ticks_user \in 0 .. (CountMod - 1)
      /\ p.cpu_ticks_sys \in 0 .. (CountMod - 1)
  BY SchedulerConstants DEF TaskT
<1>2. \A n \in Nat : n % CountMod \in 0 .. (CountMod - 1)
  BY <1>1
<1>3. c \in 0 .. (CountMod - 1) /\ u \in 0 .. (CountMod - 1) /\ v \in 0 .. (CountMod - 1)
  BY <1>1, <1>2
<1>4. CASE was_user
  <2>1. Bill(p, was_user) = [p EXCEPT !.cpu_ticks = c, !.cpu_ticks_user = u,
                                      !.cpu_ticks_sys = p.cpu_ticks_sys]
    BY <1>4 DEF Bill
  <2>2. AddsUp(p) => c = (u + p.cpu_ticks_sys) % CountMod
    BY <1>1, TickBothSides DEF AddsUp
  <2> HIDE DEF c, u, v
  <2> QED BY <1>3, <2>1, <2>2 DEF TaskT, Keeps, AddsUp
<1>5. CASE ~was_user
  <2>1. Bill(p, was_user) = [p EXCEPT !.cpu_ticks = c,
                                      !.cpu_ticks_user = p.cpu_ticks_user,
                                      !.cpu_ticks_sys = v]
    BY <1>5 DEF Bill
  <2>2. p.cpu_ticks_user + p.cpu_ticks_sys = p.cpu_ticks_sys + p.cpu_ticks_user
        /\ p.cpu_ticks_user + v = v + p.cpu_ticks_user
    BY <1>1, <1>3
  <2>a. (((p.cpu_ticks_sys + p.cpu_ticks_user) % CountMod) + 1) % CountMod
          = (v + p.cpu_ticks_user) % CountMod
    BY <1>1, TickBothSides
  <2>3. AddsUp(p) => c = (p.cpu_ticks_user + v) % CountMod
    BY <2>2, <2>a DEF AddsUp
  <2> HIDE DEF c, u, v
  <2> QED BY <1>3, <2>1, <2>3 DEF TaskT, Keeps, AddsUp
<1> QED BY <1>4, <1>5

LEMMA WakeKeeps ==
  ASSUME NEW p \in TaskT, NEW t
  PROVE  Keeps(p, scheduler_wakeup_check(p, t))
<1>1. 0 \in 0 .. (TickMod - 1)
  BY SchedulerConstants
<1>2. scheduler_wakeup_check(p, t) \in
        {p, [p EXCEPT !.state = "ready", !.sleep_until = 0]}
  BY DEF scheduler_wakeup_check
<1>3. scheduler_wakeup_check(p, t) = p \/ p.state = "sleeping"
  BY DEF scheduler_wakeup_check, Expired
<1>4. CASE scheduler_wakeup_check(p, t) = p
  BY <1>4 DEF Keeps
<1>5. CASE /\ p.state = "sleeping"
           /\ scheduler_wakeup_check(p, t) = [p EXCEPT !.state = "ready", !.sleep_until = 0]
  BY <1>1, <1>5, ZenonT(40) DEF TaskT, Keeps, AddsUp, States
<1> QED BY <1>2, <1>3, <1>4, <1>5

LEMMA ChargedKeeps ==
  ASSUME task \in TableT, run_queue \in Seq(Tasks), Len(run_queue) <= MAX_PROCESSES,
         NEW t \in Tasks, NEW was_user \in BOOLEAN, NEW cap
  PROVE  Keeps(task[t], Charged(t, was_user, cap))
<1> DEFINE d == mlfq_decay_all(t)
           w == Awake(t)
           b == IF t = BilledTo /\ w.state # "zombie" THEN Bill(w, was_user) ELSE w
           a == Accounted(t, was_user)
<1>1. Keeps(task[t], d)
  BY DecayKeeps
<1>2. Keeps(d, w)
  BY <1>1, WakeKeeps DEF Awake, Keeps
<1>3. Keeps(task[t], w)
  BY <1>1, <1>2, KeepsTransitive
<1> HIDE DEF d, w
<1>4. Keeps(w, b)
  BY <1>3, BillKeeps DEF Keeps
<1>5. a \in {b, [b EXCEPT !.quantum_used = Saturate(b.quantum_used + 1)]}
  BY DEF Accounted, w
<1> HIDE DEF b, a
<1>6. Keeps(b, a)
  <2>1. b \in TaskT
    BY <1>4 DEF Keeps
  <2>2. Saturate(b.quantum_used + 1) \in 0 .. QuantumTop
    <3>1. b.quantum_used \in 0 .. QuantumTop
      BY <2>1 DEF TaskT
    <3>2. QuantumTop \in Nat
      BY SchedulerConstants DEF QuantumTop
    <3> QED BY <3>1, <3>2 DEF Saturate
  <2>3. CASE a = b
    BY <2>1, <2>3 DEF Keeps
  <2>4. CASE a = [b EXCEPT !.quantum_used = Saturate(b.quantum_used + 1)]
    BY <2>1, <2>2, <2>4, SMTT(40) DEF TaskT, Keeps, AddsUp
  <2> QED BY <1>5, <2>3, <2>4
<1>7. Keeps(task[t], a)
  BY <1>3, <1>4, <1>6, KeepsTransitive
<1>8. Charged(t, was_user, cap) \in {a, mlfq_charge_quantum(a, cap)}
  BY DEF Charged, a
<1>9. Keeps(a, mlfq_charge_quantum(a, cap))
  BY <1>7, ChargeKeeps DEF Keeps
<1> QED BY <1>7, <1>8, <1>9, KeepsTransitive

-----------------------------------------------------------------------------
(***************************************************************************)
(* The invariant, and what a table of processes must satisfy when          *)
(* schedule() starts for the invariant to hold when it returns.            *)
(***************************************************************************)
SchedInv == TypeOK /\ RunningIsCurrent /\ TimeAddsUp

GoodTable(T) ==
  /\ T \in TableT
  /\ \A t \in Tasks : T[t].state = "running" => t = current
  /\ \A t \in Tasks : AddsUp(T[t])

LEMMA InvGivesGood ==
  ASSUME SchedInv
  PROVE  /\ GoodTable(task) /\ current \in Tasks /\ last_picked_idx \in Nat
         /\ run_queue \in Seq(Tasks) /\ Len(run_queue) <= MAX_PROCESSES
  BY DEF SchedInv, TypeOK, RunningIsCurrent, TimeAddsUp, GoodTable, TableT

\* Updates that Keep every process keep the table good.
LEMMA KeepsGood ==
  ASSUME GoodTable(task), NEW T, T = [t \in Tasks |-> T[t]],
         \A t \in Tasks : Keeps(task[t], T[t])
  PROVE  GoodTable(T)
<1>1. T \in TableT
  BY DEF Keeps, TableT
<1> QED BY <1>1 DEF GoodTable, Keeps

\* The process that leaves the CPU.
LEMMA ReleasedKeeps ==
  ASSUME NEW p \in TaskT
  PROVE  Keeps(p, Released(p)) /\ Released(p).state # "running"
<1> DEFINE q == mlfq_credit_release(p)
<1>1. Keeps(p, q) /\ q \in TaskT
  BY CreditKeeps DEF Keeps
<1>2. Released(p) = [q EXCEPT !.state = IF q.state = "running" THEN "ready" ELSE q.state]
  BY DEF Released
<1> HIDE DEF q
<1>3. Keeps(q, Released(p)) /\ Released(p).state # "running"
  BY <1>1, <1>2 DEF TaskT, Keeps, AddsUp, States
<1> QED BY <1>1, <1>3, KeepsTransitive

LEMMA FreshQuantum ==
  ASSUME NEW p \in TaskT
  PROVE  Keeps(p, [p EXCEPT !.quantum_used = 0])
<1>1. 0 \in 0 .. QuantumTop
  BY SchedulerConstants DEF QuantumTop
<1> QED BY <1>1 DEF TaskT, Keeps, AddsUp

LEMMA MadeRunning ==
  ASSUME NEW p \in TaskT
  PROVE  LET q == [p EXCEPT !.state = "running", !.quantum_used = 0]
         IN  q \in TaskT /\ (AddsUp(p) => AddsUp(q))
<1>1. 0 \in 0 .. QuantumTop /\ "running" \in States
  BY SchedulerConstants DEF QuantumTop, States
<1> QED BY <1>1 DEF TaskT, AddsUp

LEMMA PickedIsTask ==
  ASSUME run_queue \in Seq(Tasks), NEW i \in Positions
  PROVE  At(i) \in Tasks /\ i \in Nat
<1>1. Len(run_queue) \in Nat
  OBVIOUS
<1>2. i \in Nat /\ i + 1 \in 1 .. Len(run_queue)
  BY <1>1 DEF Positions
<1> QED BY <1>2 DEF At

LEMMA ScheduleKeeps ==
  ASSUME NEW T, GoodTable(T), current \in Tasks, last_picked_idx \in Nat,
         run_queue \in Seq(Tasks), schedule(T)
  PROVE  /\ task' \in TableT /\ current' \in Tasks /\ last_picked_idx' \in Nat
         /\ RunningIsCurrent' /\ TimeAddsUp'
<1>0. T \in TableT /\ (\A t \in Tasks : T[t] \in TaskT)
  BY DEF GoodTable, TableT
<1>1. CASE task' = T /\ UNCHANGED <<current, last_picked_idx>>
  BY <1>0, <1>1 DEF GoodTable, RunningIsCurrent, TimeAddsUp, AddsUp
<1>2. CASE task' = KeepCpu(T) /\ UNCHANGED <<current, last_picked_idx>>
  <2>1. \A t \in Tasks : Keeps(T[t], task'[t])
    <3> TAKE t \in Tasks
    <3>1. CASE t = current
      BY <1>0, <1>2, <3>1, FreshQuantum DEF KeepCpu
    <3>2. CASE t # current
      BY <1>0, <1>2, <3>2 DEF KeepCpu, Keeps
    <3> QED BY <3>1, <3>2
  <2>2. task' = [t \in Tasks |-> task'[t]]
    BY <1>2 DEF KeepCpu
  <2>3. task' \in TableT
    BY <2>1, <2>2 DEF Keeps, TableT
  <2> QED BY <1>2, <2>1, <2>3 DEF GoodTable, Keeps, RunningIsCurrent, TimeAddsUp, AddsUp
<1>3. ASSUME NEW i \in Positions, At(i) # current, task' = SwitchTo(T, At(i)),
             current' = At(i), last_picked_idx' = i
      PROVE  /\ task' \in TableT /\ current' \in Tasks /\ last_picked_idx' \in Nat
             /\ RunningIsCurrent' /\ TimeAddsUp'
  <2>0. At(i) \in Tasks /\ i \in Nat
    BY PickedIsTask
  <2>1. /\ task'[current] = Released(T[current])
        /\ task'[At(i)] = [T[At(i)] EXCEPT !.state = "running", !.quantum_used = 0]
        /\ \A t \in Tasks \ {current, At(i)} : task'[t] = T[t]
    BY <1>3, <2>0 DEF SwitchTo
  <2>2. Keeps(T[current], task'[current]) /\ task'[current].state # "running"
    BY <1>0, <2>1, ReleasedKeeps
  <2>3. task'[At(i)] \in TaskT /\ (AddsUp(T[At(i)]) => AddsUp(task'[At(i)]))
    BY <1>0, <2>0, <2>1, MadeRunning
  <2>4. \A t \in Tasks : task'[t] \in TaskT /\ AddsUp(task'[t])
    <3> TAKE t \in Tasks
    <3>1. CASE t = current
      BY <2>2, <3>1 DEF GoodTable, Keeps
    <3>2. CASE t = At(i)
      BY <2>3, <3>2 DEF GoodTable
    <3>3. CASE t \notin {current, At(i)}
      BY <1>0, <2>1, <3>3 DEF GoodTable
    <3> QED BY <3>1, <3>2, <3>3
  <2>5. \A t \in Tasks : task'[t].state = "running" => t = At(i)
    BY <2>1, <2>2 DEF GoodTable
  <2>6. task' = [t \in Tasks |-> task'[t]]
    BY <1>3 DEF SwitchTo
  <2>7. task' \in TableT
    BY <2>4, <2>6 DEF TableT
  <2> QED BY <1>3, <2>0, <2>4, <2>5, <2>7 DEF RunningIsCurrent, TimeAddsUp, AddsUp
<1> QED BY <1>1, <1>2, <1>3 DEF schedule

-----------------------------------------------------------------------------
(***************************************************************************)
(* The actions.                                                            *)
(***************************************************************************)

\* One process replaced.
LEMMA OneUpdate ==
  ASSUME GoodTable(task), NEW t \in Tasks, NEW q \in TaskT,
         q.state = "running" => t = current, AddsUp(q)
  PROVE  GoodTable([task EXCEPT ![t] = q])
<1> DEFINE T == [task EXCEPT ![t] = q]
<1>1. T \in TableT
  BY DEF GoodTable, TableT
<1>2. T[t] = q /\ \A u \in Tasks \ {t} : T[u] = task[u]
  BY DEF GoodTable, TableT
<1> HIDE DEF T
<1>3. GoodTable(T)
  BY <1>1, <1>2 DEF GoodTable
<1> QED BY <1>3 DEF T

\* One process updated by an operation that Keeps it.
LEMMA OneKept ==
  ASSUME GoodTable(task), NEW t \in Tasks, NEW q, Keeps(task[t], q)
  PROVE  GoodTable([task EXCEPT ![t] = q])
<1>1. q \in TaskT /\ AddsUp(q) /\ (q.state = "running" => t = current)
  BY DEF Keeps, GoodTable
<1> QED BY <1>1, OneUpdate

LEMMA TickKeeps ==
  ASSUME SchedInv, TimerTick
  PROVE  SchedInv'
<1> PICK was_user \in BOOLEAN : scheduler_tick(was_user)
  BY DEF TimerTick
<1> DEFINE cap == quantum_for(eff_prio(Accounted(current, was_user)))
           T   == [t \in Tasks |-> Charged(t, was_user, cap)]
<1>1. /\ GoodTable(task) /\ current \in Tasks /\ last_picked_idx \in Nat
      /\ run_queue \in Seq(Tasks) /\ Len(run_queue) <= MAX_PROCESSES
  BY InvGivesGood
<1>2. GoodTable(T)
  <2>1. \A t \in Tasks : Keeps(task[t], Charged(t, was_user, cap))
    <3> HIDE DEF cap
    <3> QED BY <1>1, ChargedKeeps DEF GoodTable
  <2> HIDE DEF cap
  <2>2. \A t \in Tasks : Keeps(task[t], T[t])
    BY <2>1
  <2>3. T = [t \in Tasks |-> T[t]]
    OBVIOUS
  <2> HIDE DEF T
  <2> QED BY <1>1, <2>2, <2>3, KeepsGood
<1>3. /\ \/ schedule(T)
         \/ task' = T /\ UNCHANGED <<current, last_picked_idx>>
      /\ kick_flag' \in BOOLEAN
      /\ cached_idle' \in {find_idle_task, cached_idle}
  BY DEF scheduler_tick, SchedInv, TypeOK
<1> HIDE DEF T, cap
<1>4. /\ task' \in TableT /\ current' \in Tasks /\ last_picked_idx' \in Nat
      /\ RunningIsCurrent' /\ TimeAddsUp'
  <2>1. CASE schedule(T)
    BY <1>1, <1>2, <2>1, ScheduleKeeps
  <2>2. CASE task' = T /\ UNCHANGED <<current, last_picked_idx>>
    BY <1>1, <1>2, <2>2 DEF GoodTable, RunningIsCurrent, TimeAddsUp, AddsUp
  <2> QED BY <1>3, <2>1, <2>2
<1>5. cached_idle' \in 0 .. MAX_PROCESSES
  <2>1. cached_idle \in 0 .. MAX_PROCESSES
    BY DEF SchedInv, TypeOK
  <2>2. FoundIdle # {} => (CHOOSE t \in FoundIdle : TRUE) \in Tasks
    BY DEF FoundIdle
  <2>3. find_idle_task \in 0 .. MAX_PROCESSES
    BY <2>1, <2>2, SchedulerConstants DEF find_idle_task, Tasks
  <2> QED BY <1>3, <2>1, <2>3
<1>6. ticks' \in 0 .. (TickMod - 1) /\ tick_count' \in 0 .. (MLFQ_DECAY_TICKS - 1)
  <2>1. \A n, m \in Nat : m # 0 => n % m \in 0 .. (m - 1)
    OBVIOUS
  <2>2. ticks + 1 \in Nat /\ tick_count + 1 \in Nat
    BY SchedulerConstants DEF SchedInv, TypeOK
  <2>3. /\ (ticks + 1) % TickMod \in 0 .. (TickMod - 1)
        /\ (tick_count + 1) % MLFQ_DECAY_TICKS \in 0 .. (MLFQ_DECAY_TICKS - 1)
    BY <2>1, <2>2, SchedulerConstants
  <2> QED BY <2>3 DEF TimerTick
<1>7. UNCHANGED <<run_queue, waiting, granted>>
  BY DEF TimerTick
<1>8. TypeOK'
  BY <1>3, <1>4, <1>5, <1>6, <1>7 DEF SchedInv, TypeOK, TableT
<1> QED BY <1>4, <1>8 DEF SchedInv

\* A call of the running process that ends in schedule().
LEMMA CallKeeps ==
  ASSUME SchedInv, NEW T, GoodTable(T), schedule(T), timeUnchanged,
         waiting' \subseteq Tasks, granted' \subseteq waiting'
  PROVE  SchedInv'
<1>1. /\ task' \in TableT /\ current' \in Tasks /\ last_picked_idx' \in Nat
      /\ RunningIsCurrent' /\ TimeAddsUp'
  BY InvGivesGood, ScheduleKeeps
<1>2. TypeOK'
  BY <1>1 DEF SchedInv, TypeOK, TableT, timeUnchanged
<1> QED BY <1>1, <1>2 DEF SchedInv

\* A step that leaves the CPU where it is.
LEMMA StayKeeps ==
  ASSUME SchedInv, GoodTable(task'), UNCHANGED <<current, last_picked_idx>>,
         run_queue' \in Seq(Tasks), Len(run_queue') <= MAX_PROCESSES,
         kick_flag' \in BOOLEAN, UNCHANGED <<ticks, tick_count, cached_idle>>,
         waiting' \subseteq Tasks, granted' \subseteq waiting'
  PROVE  SchedInv'
<1>1. RunningIsCurrent' /\ TimeAddsUp'
  BY DEF GoodTable, RunningIsCurrent, TimeAddsUp, AddsUp
<1>2. TypeOK'
  BY DEF SchedInv, TypeOK, TableT, GoodTable
<1> QED BY <1>1, <1>2 DEF SchedInv

LEMMA WaitKeeps ==
  ASSUME SchedInv,
         \/ scheduler_kick \/ Yield \/ WaitBegin \/ WaitAgain \/ WaitEnd
         \/ \E t \in Tasks : Grant(t)
  PROVE  SchedInv'
<1>1. /\ GoodTable(task) /\ current \in Tasks
      /\ run_queue \in Seq(Tasks) /\ Len(run_queue) <= MAX_PROCESSES
  BY InvGivesGood
<1>2. kick_flag \in BOOLEAN /\ waiting \subseteq Tasks /\ granted \subseteq waiting
  BY DEF SchedInv, TypeOK
<1>3. CASE scheduler_kick
  <2>1. GoodTable(task')
    BY <1>1, <1>3 DEF scheduler_kick
  <2> QED BY <1>1, <1>2, <1>3, <2>1, StayKeeps DEF scheduler_kick
<1>4. CASE Yield
  BY <1>1, <1>2, <1>4, CallKeeps DEF Yield
<1>5. CASE WaitBegin
  <2>1. waiting' \subseteq Tasks /\ granted' \subseteq waiting'
    BY <1>1, <1>2, <1>5 DEF WaitBegin
  <2> QED BY <1>1, <1>5, <2>1, CallKeeps DEF WaitBegin
<1>6. CASE WaitAgain
  BY <1>1, <1>2, <1>6, CallKeeps DEF WaitAgain
<1>7. CASE WaitEnd \/ \E t \in Tasks : Grant(t)
  <2>1. waiting' \subseteq Tasks /\ granted' \subseteq waiting'
    BY <1>2, <1>7 DEF WaitEnd, Grant
  <2>2. UNCHANGED <<task, current, last_picked_idx, run_queue, kick_flag, ticks,
                    tick_count, cached_idle>>
    BY <1>7 DEF WaitEnd, Grant, timeUnchanged
  <2>3. GoodTable(task')
    BY <1>1, <2>2
  <2> QED BY <1>1, <1>2, <2>1, <2>2, <2>3, StayKeeps
<1> QED BY <1>3, <1>4, <1>5, <1>6, <1>7

LEMMA SleepKeeps ==
  ASSUME SchedInv, NEW n \in SleepLens, scheduler_sleep_current(n)
  PROVE  SchedInv'
<1> DEFINE c == mlfq_credit_release(task[current])
           d == (ticks + n) % TickMod
           p == [c EXCEPT !.sleep_until = d, !.state = "sleeping", !.quantum_used = 0]
<1>1. GoodTable(task) /\ current \in Tasks /\ task[current] \in TaskT
  BY InvGivesGood DEF GoodTable, TableT
<1>2. Keeps(task[current], c) /\ c.state # "zombie"
  BY <1>1, CreditKeeps DEF scheduler_sleep_current, Running
<1>3. d \in 0 .. (TickMod - 1)
  <2>1. \A a, m \in Nat : m # 0 => a % m \in 0 .. (m - 1)
    OBVIOUS
  <2>2. ticks + n \in Nat /\ TickMod \in Nat /\ TickMod # 0
    BY SchedulerConstants DEF SchedInv, TypeOK
  <2> QED BY <2>1, <2>2
<1>4. schedule([task EXCEPT ![current] = p]) /\ timeUnchanged
      /\ UNCHANGED <<waiting, granted>>
  BY DEF scheduler_sleep_current
<1> HIDE DEF c, d
<1>5. Keeps(c, p)
  <2>1. 0 \in 0 .. QuantumTop
    BY SchedulerConstants DEF QuantumTop
  <2> QED BY <1>2, <1>3, <2>1 DEF Keeps, TaskT, AddsUp, States
<1> HIDE DEF p
<1>6. Keeps(task[current], p)
  BY <1>2, <1>5, KeepsTransitive
<1>7. GoodTable([task EXCEPT ![current] = p])
  BY <1>1, <1>6, OneKept
<1>8. waiting' \subseteq Tasks /\ granted' \subseteq waiting'
  BY <1>4 DEF SchedInv, TypeOK
<1> QED BY <1>4, <1>7, <1>8, CallKeeps

\* A process that dies, by its own exit or a kill.
LEMMA DeathKeeps ==
  ASSUME GoodTable(task), NEW t \in Tasks
  PROVE  GoodTable([task EXCEPT ![t].state = "zombie"])
<1> DEFINE q == [task[t] EXCEPT !.state = "zombie"]
<1>1. task[t] \in TaskT
  BY DEF GoodTable, TableT
<1>2. Keeps(task[t], q)
  BY <1>1 DEF Keeps, TaskT, AddsUp, States
<1>3. [task EXCEPT ![t].state = "zombie"] = [task EXCEPT ![t] = q]
  OBVIOUS
<1> HIDE DEF q
<1> QED BY <1>2, <1>3, OneKept

LEMMA ExitKeeps ==
  ASSUME SchedInv, Exit
  PROVE  SchedInv'
<1>1. GoodTable(task) /\ current \in Tasks
  BY InvGivesGood
<1>2. GoodTable([task EXCEPT ![current].state = "zombie"])
  BY <1>1, DeathKeeps
<1>3. waiting' \subseteq Tasks /\ granted' \subseteq waiting'
  BY DEF Exit, SchedInv, TypeOK
<1> QED BY <1>2, <1>3, CallKeeps DEF Exit

LEMMA KillKeeps ==
  ASSUME SchedInv, NEW t \in Tasks, process_kill(t)
  PROVE  SchedInv'
<1>1. GoodTable(task) /\ run_queue \in Seq(Tasks) /\ Len(run_queue) <= MAX_PROCESSES
  BY InvGivesGood
<1>2. GoodTable(task')
  BY <1>1, DeathKeeps DEF process_kill
<1>3. /\ waiting' \subseteq Tasks /\ granted' \subseteq waiting'
      /\ kick_flag' \in BOOLEAN /\ run_queue' = run_queue
  BY DEF process_kill, timeUnchanged, SchedInv, TypeOK
<1> QED BY <1>1, <1>2, <1>3, StayKeeps DEF process_kill, timeUnchanged

LEMMA ReniceKeeps ==
  ASSUME SchedInv, NEW t \in Tasks, NEW prio \in Nices, process_set_priority(t, prio)
  PROVE  SchedInv'
<1> DEFINE q == [task[t] EXCEPT !.priority = prio]
<1>1. GoodTable(task) /\ run_queue \in Seq(Tasks) /\ Len(run_queue) <= MAX_PROCESSES
  BY InvGivesGood
<1>2. task[t] \in TaskT
  BY <1>1 DEF GoodTable, TableT
<1>3. Keeps(task[t], q)
  <2>1. prio \in (PRIO_MIN .. PRIO_MAX) \cup {PRIO_IDLE}
    BY SchedulerConstants
  <2> QED BY <1>2, <2>1 DEF Keeps, TaskT, AddsUp
<1>4. task' = [task EXCEPT ![t] = q]
  BY DEF process_set_priority
<1> HIDE DEF q
<1>5. GoodTable(task')
  BY <1>1, <1>3, <1>4, OneKept
<1>6. /\ waiting' \subseteq Tasks /\ granted' \subseteq waiting'
      /\ kick_flag' \in BOOLEAN /\ run_queue' = run_queue
  BY DEF process_set_priority, timeUnchanged, SchedInv, TypeOK
<1> QED BY <1>1, <1>5, <1>6, StayKeeps DEF process_set_priority, timeUnchanged

LEMMA BlankIsTask ==
  Blank \in TaskT /\ AddsUp(Blank)
<1>1. /\ 0 \in (PRIO_MIN .. PRIO_MAX) \cup {PRIO_IDLE}
      /\ 0 \in MLFQ_BOOST_MIN .. MLFQ_BOOST_MAX
      /\ 0 \in 0 .. QuantumTop /\ 0 \in 0 .. (MLFQ_DEMOTE_AFTER - 1)
      /\ 0 \in 0 .. (TickMod - 1) /\ 0 \in 0 .. (CountMod - 1)
  BY SchedulerConstants DEF QuantumTop
<1>2. (0 + 0) % CountMod = 0
  BY SchedulerConstants
<1> QED BY <1>1, <1>2 DEF Blank, TaskT, States, AddsUp

LEMMA SpawnKeeps ==
  ASSUME SchedInv, NEW prio \in Nices, usermode_run(prio)
  PROVE  SchedInv'
<1> DEFINE q == [Blank EXCEPT !.state = "ready", !.kstack = TRUE, !.priority = prio]
<1>1. GoodTable(task) /\ run_queue \in Seq(Tasks) /\ Len(run_queue) <= MAX_PROCESSES
  BY InvGivesGood
<1>2. PICK t \in NewSlots : task' = [task EXCEPT ![t] = q] /\ scheduler_add(t)
  BY DEF usermode_run
<1>3. t \in Tasks
  BY DEF NewSlots, ZombieSlots, FreeTasks
<1>4. q \in TaskT /\ AddsUp(q) /\ q.state # "running"
  <2>1. prio \in (PRIO_MIN .. PRIO_MAX) \cup {PRIO_IDLE}
    BY SchedulerConstants
  <2> QED BY <2>1, BlankIsTask DEF TaskT, AddsUp, States
<1> HIDE DEF q
<1>5. GoodTable(task')
  BY <1>1, <1>2, <1>3, <1>4, OneUpdate
<1>6. run_queue' \in Seq(Tasks) /\ Len(run_queue') <= MAX_PROCESSES
  BY <1>1, <1>2, <1>3, SchedulerConstants DEF scheduler_add
<1>7. /\ waiting' \subseteq Tasks /\ granted' \subseteq waiting'
      /\ kick_flag' \in BOOLEAN
  BY DEF usermode_run, SchedInv, TypeOK
<1> QED BY <1>5, <1>6, <1>7, StayKeeps DEF usermode_run

LEMMA InitHolds ==
  ASSUME Init
  PROVE  SchedInv
<1>1. Shell \in Tasks /\ Idle \in Tasks /\ Shell # Idle
  BY SchedulerConstants DEF Shell, Idle, Tasks
<1>2. \A t \in Tasks :
        /\ task[t] \in TaskT /\ AddsUp(task[t])
        /\ task[t].state = "running" => t = Shell
  <2> TAKE t \in Tasks
  <2>1. CASE t = Shell
    <3>1. task[t] = [Blank EXCEPT !.state = "running", !.priority = PRIO_IDLE]
      BY <2>1 DEF Init
    <3> QED BY <2>1, <3>1, BlankIsTask DEF TaskT, AddsUp, States
  <2>2. CASE t = Idle
    <3>1. task[t] = [Blank EXCEPT !.state = "ready", !.priority = PRIO_IDLE,
                                  !.is_idle = TRUE]
      BY <1>1, <2>2 DEF Init
    <3> QED BY <3>1, BlankIsTask DEF TaskT, AddsUp, States
  <2>3. CASE t \notin {Shell, Idle}
    <3>1. task[t] = Blank /\ Blank.state = "free"
      BY <2>3 DEF Init, Blank
    <3> QED BY <3>1, BlankIsTask
  <2> QED BY <2>1, <2>2, <2>3
<1>3. task \in [Tasks -> TaskT]
  BY <1>2 DEF Init
<1>4. TypeOK
  <2>1. run_queue \in Seq(Tasks) /\ Len(run_queue) <= MAX_PROCESSES
    BY SchedulerConstants DEF Init
  <2>2. /\ 0 \in 0 .. (TickMod - 1) /\ 0 \in 0 .. (MLFQ_DECAY_TICKS - 1)
        /\ 0 \in 0 .. MAX_PROCESSES /\ 0 \in Nat
    BY SchedulerConstants
  <2>3. /\ ticks = 0 /\ tick_count = 0 /\ cached_idle = 0 /\ last_picked_idx = 0
        /\ kick_flag = FALSE /\ current = Shell /\ waiting = {} /\ granted = {}
    BY DEF Init
  <2> QED BY <1>1, <1>3, <2>1, <2>2, <2>3 DEF TypeOK
<1>5. RunningIsCurrent /\ TimeAddsUp
  BY <1>2 DEF Init, RunningIsCurrent, TimeAddsUp
<1> QED BY <1>4, <1>5 DEF SchedInv

LEMMA NextKeeps ==
  ASSUME SchedInv, [Next]_vars
  PROVE  SchedInv'
<1>1. CASE TimerTick
  BY <1>1, TickKeeps
<1>2. CASE scheduler_kick \/ Yield \/ WaitBegin \/ WaitAgain \/ WaitEnd
           \/ \E t \in Tasks : Grant(t)
  BY <1>2, WaitKeeps
<1>3. CASE \E n \in SleepLens : scheduler_sleep_current(n)
  BY <1>3, SleepKeeps
<1>4. CASE Exit
  BY <1>4, ExitKeeps
<1>5. CASE \E t \in Tasks : process_kill(t)
  BY <1>5, KillKeeps
<1>6. CASE \E t \in Tasks, prio \in Nices : process_set_priority(t, prio)
  BY <1>6, ReniceKeeps
<1>7. CASE \E prio \in Nices : usermode_run(prio)
  BY <1>7, SpawnKeeps
<1>8. CASE UNCHANGED vars
  BY <1>8 DEF vars, SchedInv, TypeOK, RunningIsCurrent, TimeAddsUp, AddsUp
<1> QED BY <1>1, <1>2, <1>3, <1>4, <1>5, <1>6, <1>7, <1>8 DEF Next

\* In every state the scheduler reaches, boosts, streaks, quanta, deadlines
\* and counters are in range, only the slot the CPU executes is RUNNING, and
\* the CPU time of every slot is its user time plus its system time modulo
\* the width of the counters.
THEOREM SchedulerSafe == Spec => [](TypeOK /\ RunningIsCurrent /\ TimeAddsUp)
<1>1. Init => SchedInv
  BY InitHolds
<1>2. SchedInv /\ [Next]_vars => SchedInv'
  BY NextKeeps
<1>3. SchedInv => TypeOK /\ RunningIsCurrent /\ TimeAddsUp
  BY DEF SchedInv
<1> QED BY <1>1, <1>2, <1>3, PTL DEF Spec

\* Boosts, streaks, quanta, deadlines and counters of process/scheduler.c stay
\* in their ranges for every choice of the constants.
THEOREM SchedulerTypes == Spec => []TypeOK
BY SchedulerSafe, PTL

\* The CPU time scheduler_tick bills is user time plus system time in every
\* slot, through wrapping counters and reuse.
THEOREM TimeIsAccounted == Spec => []TimeAddsUp
BY SchedulerSafe, PTL

-----------------------------------------------------------------------------
(***************************************************************************)
(* Launched programs are queued.  The property is about READY ones; what   *)
(* is inductive is that every launched process that is not a zombie has an *)
(* entry, since it may sleep, run and be READY again.                      *)
(***************************************************************************)
LiveQueued(T) ==
  \A t \in Tasks : T[t].kstack /\ T[t].state # "zombie" =>
    t \in Queued \/ Len(run_queue) = MAX_PROCESSES

QueueInv == SchedInv /\ LiveQueued(task)

\* What a step may do to a process and leave it in the queue's care.
Stays(p, q) == q.kstack = p.kstack /\ (p.state = "zombie" => q.state = "zombie")

LEMMA ScheduleStays ==
  ASSUME NEW T, GoodTable(T), current \in Tasks, run_queue \in Seq(Tasks), schedule(T)
  PROVE  \A t \in Tasks : Stays(T[t], task'[t])
<1>0. \A t \in Tasks : T[t] \in TaskT
  BY DEF GoodTable, TableT
<1>1. CASE task' = T
  BY <1>1 DEF Stays
<1>2. CASE task' = KeepCpu(T)
  <2> TAKE t \in Tasks
  <2>1. CASE t = current
    <3>1. task'[t] = [T[t] EXCEPT !.quantum_used = 0]
      BY <1>2, <2>1 DEF KeepCpu
    <3> QED BY <1>0, <3>1 DEF TaskT, Stays
  <2>2. CASE t # current
    BY <1>2, <2>2 DEF KeepCpu, Stays
  <2> QED BY <2>1, <2>2
<1>3. ASSUME NEW i \in Positions, Picks(T, i), At(i) # current, task' = SwitchTo(T, At(i))
      PROVE  \A t \in Tasks : Stays(T[t], task'[t])
  <2>0. At(i) \in Tasks /\ T[At(i)].state # "zombie"
    BY <1>3, PickedIsTask DEF Picks, ReadyAt
  <2>1. /\ task'[current] = Released(T[current])
        /\ task'[At(i)] = [T[At(i)] EXCEPT !.state = "running", !.quantum_used = 0]
        /\ \A t \in Tasks \ {current, At(i)} : task'[t] = T[t]
    BY <1>3, <2>0 DEF SwitchTo
  <2>2. Stays(T[current], task'[current])
    BY <1>0, <2>1, ReleasedKeeps DEF Keeps, Stays
  <2>3. Stays(T[At(i)], task'[At(i)])
    BY <1>0, <2>0, <2>1 DEF TaskT, Stays
  <2> QED BY <2>1, <2>2, <2>3 DEF Stays
<1> QED BY <1>1, <1>2, <1>3 DEF schedule

LEMMA TickStays ==
  ASSUME SchedInv, TimerTick
  PROVE  \A t \in Tasks : Stays(task[t], task'[t])
<1> PICK was_user \in BOOLEAN : scheduler_tick(was_user)
  BY DEF TimerTick
<1> DEFINE cap == quantum_for(eff_prio(Accounted(current, was_user)))
           T   == [t \in Tasks |-> Charged(t, was_user, cap)]
<1>1. /\ GoodTable(task) /\ current \in Tasks
      /\ run_queue \in Seq(Tasks) /\ Len(run_queue) <= MAX_PROCESSES
  BY InvGivesGood
<1>2. \A t \in Tasks : Keeps(task[t], Charged(t, was_user, cap))
  <2> HIDE DEF cap
  <2> QED BY <1>1, ChargedKeeps DEF GoodTable
<1>3. schedule(T) \/ task' = T
  BY DEF scheduler_tick
<1> HIDE DEF cap
<1>4. \A t \in Tasks : Keeps(task[t], T[t])
  BY <1>2
<1>5. T = [t \in Tasks |-> T[t]]
  OBVIOUS
<1> HIDE DEF T
<1>6. GoodTable(T)
  BY <1>1, <1>4, <1>5, KeepsGood
<1>7. \A t \in Tasks : Stays(T[t], task'[t])
  BY <1>1, <1>3, <1>6, ScheduleStays DEF Stays
<1> QED BY <1>4, <1>7 DEF Keeps, Stays

\* A call that changes the running process only, then schedule().
LEMMA CallStays ==
  ASSUME SchedInv, NEW p, Keeps(task[current], p), schedule([task EXCEPT ![current] = p])
  PROVE  \A t \in Tasks : Stays(task[t], task'[t])
<1> DEFINE T == [task EXCEPT ![current] = p]
<1>1. /\ GoodTable(task) /\ current \in Tasks /\ run_queue \in Seq(Tasks)
      /\ task \in TableT
  BY InvGivesGood DEF GoodTable
<1>2. GoodTable(T)
  BY <1>1, OneKept
<1>3. \A t \in Tasks : Stays(task[t], T[t])
  BY <1>1 DEF Keeps, Stays, TableT
<1>4. schedule(T)
  OBVIOUS
<1> HIDE DEF T
<1>5. \A t \in Tasks : Stays(T[t], task'[t])
  BY <1>1, <1>2, <1>4, ScheduleStays
<1> QED BY <1>3, <1>5 DEF Stays

\* All steps but usermode_run leave the queue and the launched as they are.
LEMMA StepStays ==
  ASSUME SchedInv, [Next]_vars, ~\E prio \in Nices : usermode_run(prio)
  PROVE  run_queue' = run_queue /\ \A t \in Tasks : Stays(task[t], task'[t])
<1>0. /\ GoodTable(task) /\ current \in Tasks /\ run_queue \in Seq(Tasks)
      /\ task \in TableT /\ \A t \in Tasks : task[t] \in TaskT
  BY InvGivesGood DEF GoodTable, TableT
<1>1. CASE TimerTick
  BY <1>1, TickStays DEF TimerTick
<1>2. CASE Yield \/ WaitBegin \/ WaitAgain
  BY <1>0, <1>2, ScheduleStays DEF Yield, WaitBegin, WaitAgain, timeUnchanged
<1>3. CASE scheduler_kick \/ WaitEnd \/ (\E t \in Tasks : Grant(t)) \/ UNCHANGED vars
  BY <1>3 DEF scheduler_kick, WaitEnd, Grant, timeUnchanged, vars, Stays
<1>4. ASSUME NEW n \in SleepLens, scheduler_sleep_current(n)
      PROVE  run_queue' = run_queue /\ \A t \in Tasks : Stays(task[t], task'[t])
  <2> DEFINE c == mlfq_credit_release(task[current])
             d == (ticks + n) % TickMod
             p == [c EXCEPT !.sleep_until = d, !.state = "sleeping", !.quantum_used = 0]
  <2>1. Keeps(task[current], c) /\ c.state # "zombie" /\ c.state = task[current].state
    BY <1>0, <1>4, CreditKeeps DEF scheduler_sleep_current, Running
  <2>2. d \in 0 .. (TickMod - 1) /\ 0 \in 0 .. QuantumTop
    <3>1. \A a, m \in Nat : m # 0 => a % m \in 0 .. (m - 1)
      OBVIOUS
    <3>2. ticks + n \in Nat /\ TickMod \in Nat /\ TickMod # 0
      BY SchedulerConstants DEF SchedInv, TypeOK
    <3> QED BY <3>1, <3>2, SchedulerConstants DEF QuantumTop
  <2>3. schedule([task EXCEPT ![current] = p]) /\ run_queue' = run_queue
    BY <1>4 DEF scheduler_sleep_current, timeUnchanged
  <2> HIDE DEF c, d
  <2>4. Keeps(task[current], p)
    BY <2>1, <2>2 DEF Keeps, TaskT, AddsUp, States
  <2> HIDE DEF p
  <2> QED BY <2>3, <2>4, CallStays
<1>5. CASE Exit
  <2> DEFINE q == [task[current] EXCEPT !.state = "zombie"]
  <2>1. Keeps(task[current], q)
    <3>1. task[current] \in TaskT /\ "zombie" \in States
      BY <1>0 DEF TableT, States
    <3> QED BY <3>1, SMTT(40) DEF Keeps, TaskT, AddsUp
  <2>2. schedule([task EXCEPT ![current] = q]) /\ run_queue' = run_queue
    BY <1>5 DEF Exit, timeUnchanged
  <2> HIDE DEF q
  <2> QED BY <2>1, <2>2, CallStays
<1>6. ASSUME NEW t \in Tasks, process_kill(t)
      PROVE  run_queue' = run_queue /\ \A u \in Tasks : Stays(task[u], task'[u])
  BY <1>0, <1>6 DEF process_kill, timeUnchanged, Stays, TableT, TaskT
<1>7. ASSUME NEW t \in Tasks, NEW prio \in Nices, process_set_priority(t, prio)
      PROVE  run_queue' = run_queue /\ \A u \in Tasks : Stays(task[u], task'[u])
  BY <1>0, <1>7 DEF process_set_priority, timeUnchanged, Stays, TableT, TaskT
<1> QED BY <1>1, <1>2, <1>3, <1>4, <1>5, <1>6, <1>7 DEF Next

LEMMA LaunchQueues ==
  ASSUME QueueInv, NEW prio \in Nices, usermode_run(prio)
  PROVE  LiveQueued(task)'
<1> DEFINE q == [Blank EXCEPT !.state = "ready", !.kstack = TRUE, !.priority = prio]
<1>1. /\ task \in TableT /\ run_queue \in Seq(Tasks)
      /\ Len(run_queue) <= MAX_PROCESSES /\ Len(run_queue) \in Nat
  BY InvGivesGood DEF QueueInv, GoodTable
<1>2. PICK t \in NewSlots : task' = [task EXCEPT ![t] = q] /\ scheduler_add(t)
  BY DEF usermode_run
<1>3. t \in Tasks
  BY DEF NewSlots, ZombieSlots, FreeTasks
<1> HIDE DEF q
<1>4. \A u \in Tasks \ {t} : task'[u] = task[u]
  BY <1>1, <1>2, <1>3 DEF TableT
<1>5. CASE Len(run_queue) < MAX_PROCESSES
  <2>1. run_queue' = Append(run_queue, t)
    BY <1>2, <1>5 DEF scheduler_add
  <2>2. t \in Queued' /\ \A u \in Queued : u \in Queued'
    BY <1>1, <1>3, <2>1 DEF Queued
  <2>3. Len(run_queue) # MAX_PROCESSES
    BY <1>1, <1>5, SchedulerConstants
  <2> QED BY <1>4, <2>2, <2>3 DEF QueueInv, LiveQueued
<1>6. CASE ~(Len(run_queue) < MAX_PROCESSES)
  <2>1. run_queue' = run_queue
    BY <1>2, <1>6 DEF scheduler_add
  <2>2. Len(run_queue) = MAX_PROCESSES
    BY <1>1, <1>6, SchedulerConstants
  <2> QED BY <2>1, <2>2 DEF LiveQueued
<1> QED BY <1>5, <1>6

\* For every table size: a program that usermode_run launched and that is
\* READY is in the run queue, through sleeps, switches, kills and reuse of
\* slots, unless the queue has reached its limit.
THEOREM LaunchedAreQueued == Spec => []LaunchedIsQueued
<1>1. Init => QueueInv
  <2>1. Init => \A t \in Tasks : ~task[t].kstack
    BY DEF Init, Blank
  <2> QED BY <2>1, InitHolds DEF QueueInv, LiveQueued
<1>2. QueueInv /\ [Next]_vars => QueueInv'
  <2> SUFFICES ASSUME QueueInv, [Next]_vars PROVE QueueInv'
    OBVIOUS
  <2>1. SchedInv'
    BY NextKeeps DEF QueueInv
  <2>2. CASE \E prio \in Nices : usermode_run(prio)
    BY <2>1, <2>2, LaunchQueues DEF QueueInv
  <2>3. CASE ~\E prio \in Nices : usermode_run(prio)
    <3>1. run_queue' = run_queue /\ \A t \in Tasks : Stays(task[t], task'[t])
      BY <2>3, StepStays DEF QueueInv
    <3> QED BY <2>1, <3>1 DEF QueueInv, LiveQueued, Stays, Queued
  <2> QED BY <2>2, <2>3
<1>3. QueueInv => LaunchedIsQueued
  BY DEF QueueInv, LiveQueued, LaunchedIsQueued
<1> QED BY <1>1, <1>2, <1>3, PTL DEF Spec

-----------------------------------------------------------------------------
(***************************************************************************)
(* A switch goes to the best.  Whatever the calling action did to the      *)
(* table first, a step that changes current is schedule() on a well-typed  *)
(* table, and pick_next compared priorities in that table; of what         *)
(* schedule() changes afterwards only the credit of the process that       *)
(* leaves touches a priority.                                              *)
(***************************************************************************)
LEMMA SwitchIsSchedule ==
  ASSUME SchedInv, [Next]_vars, current' # current
  PROVE  \E T : GoodTable(T) /\ schedule(T)
<1>0. /\ GoodTable(task) /\ current \in Tasks /\ run_queue \in Seq(Tasks)
      /\ Len(run_queue) <= MAX_PROCESSES
      /\ task \in TableT /\ \A t \in Tasks : task[t] \in TaskT
  BY InvGivesGood DEF GoodTable, TableT
<1>1. CASE TimerTick
  <2> PICK was_user \in BOOLEAN : scheduler_tick(was_user)
    BY <1>1 DEF TimerTick
  <2> DEFINE cap == quantum_for(eff_prio(Accounted(current, was_user)))
             T   == [t \in Tasks |-> Charged(t, was_user, cap)]
  <2>1. \A t \in Tasks : Keeps(task[t], Charged(t, was_user, cap))
    <3> HIDE DEF cap
    <3> QED BY <1>0, ChargedKeeps DEF GoodTable
  <2>2. schedule(T)
    BY DEF scheduler_tick
  <2> HIDE DEF cap
  <2>3. \A t \in Tasks : Keeps(task[t], T[t])
    BY <2>1
  <2>4. T = [t \in Tasks |-> T[t]]
    OBVIOUS
  <2> HIDE DEF T
  <2> QED BY <1>0, <2>2, <2>3, <2>4, KeepsGood
<1>2. CASE Yield \/ WaitBegin \/ WaitAgain
  BY <1>0, <1>2 DEF Yield, WaitBegin, WaitAgain
<1>3. CASE scheduler_kick \/ WaitEnd \/ (\E t \in Tasks : Grant(t)) \/ UNCHANGED vars
  BY <1>3 DEF scheduler_kick, WaitEnd, Grant, vars
<1>4. ASSUME NEW n \in SleepLens, scheduler_sleep_current(n)
      PROVE  \E T : GoodTable(T) /\ schedule(T)
  <2> DEFINE c == mlfq_credit_release(task[current])
             d == (ticks + n) % TickMod
             p == [c EXCEPT !.sleep_until = d, !.state = "sleeping", !.quantum_used = 0]
  <2>1. Keeps(task[current], c) /\ c.state # "zombie" /\ c.state = task[current].state
    BY <1>0, <1>4, CreditKeeps DEF scheduler_sleep_current, Running
  <2>2. d \in 0 .. (TickMod - 1) /\ 0 \in 0 .. QuantumTop
    <3>1. \A a, m \in Nat : m # 0 => a % m \in 0 .. (m - 1)
      OBVIOUS
    <3>2. ticks + n \in Nat /\ TickMod \in Nat /\ TickMod # 0
      BY SchedulerConstants DEF SchedInv, TypeOK
    <3> QED BY <3>1, <3>2, SchedulerConstants DEF QuantumTop
  <2>3. schedule([task EXCEPT ![current] = p])
    BY <1>4 DEF scheduler_sleep_current
  <2> HIDE DEF c, d
  <2>4. Keeps(task[current], p)
    BY <2>1, <2>2 DEF Keeps, TaskT, AddsUp, States
  <2> HIDE DEF p
  <2>5. GoodTable([task EXCEPT ![current] = p])
    BY <1>0, <2>4, OneKept
  <2> QED BY <2>3, <2>5
<1>5. CASE Exit
  <2>1. GoodTable([task EXCEPT ![current].state = "zombie"])
    BY <1>0, DeathKeeps
  <2> QED BY <1>5, <2>1 DEF Exit
<1>6. CASE \/ \E t \in Tasks : process_kill(t)
           \/ \E t \in Tasks, prio \in Nices : process_set_priority(t, prio)
           \/ \E prio \in Nices : usermode_run(prio)
  BY <1>6 DEF process_kill, process_set_priority, usermode_run
<1> QED BY <1>1, <1>2, <1>3, <1>4, <1>5, <1>6 DEF Next

\* Clamping is monotone and does not widen a step of one.
LEMMA ClampStep ==
  ASSUME NEW n \in Int, NEW m \in Int, NEW lo \in Int, NEW hi \in Int, lo <= hi,
         m = n \/ m = n - 1
  PROVE  /\ Clamp(n, lo, hi) \in Int /\ Clamp(m, lo, hi) \in Int
         /\ Clamp(n, lo, hi) <= Clamp(m, lo, hi) + 1
  BY DEF Clamp

\* The credit for leaving early is worth one step of priority at most.
LEMMA CreditIsOneStep ==
  ASSUME NEW p \in TaskT
  PROVE  LET q == mlfq_credit_release(p)
         IN  /\ eff_prio(p) \in Int /\ eff_prio(q) \in Int
             /\ eff_prio(p) <= eff_prio(q) + 1
<1> DEFINE q == mlfq_credit_release(p)
           b == IF p.dyn_boost > MLFQ_BOOST_MIN THEN p.dyn_boost - 1 ELSE p.dyn_boost
<1>1. /\ p.priority \in Int /\ p.dyn_boost \in Int /\ PRIO_MIN \in Int /\ PRIO_MAX \in Int
      /\ PRIO_MIN <= PRIO_MAX /\ PRIO_IDLE \in Int /\ MLFQ_BOOST_MIN \in Int
  BY SchedulerConstants DEF TaskT
<1>2. q = p \/ q = [p EXCEPT !.dyn_boost = b, !.consec_full = 0]
  BY DEF mlfq_credit_release
<1>3. q.priority = p.priority /\ q.dyn_boost \in {p.dyn_boost, p.dyn_boost - 1}
  BY <1>2 DEF TaskT
<1> HIDE DEF q
<1>4. q.dyn_boost \in Int
  BY <1>1, <1>3
<1> DEFINE n == p.priority + p.dyn_boost
           m == p.priority + q.dyn_boost
<1>5. n \in Int /\ m \in Int /\ (m = n \/ m = n - 1)
  BY <1>1, <1>3
<1> HIDE DEF n, m
<1>6. /\ Clamp(n, PRIO_MIN, PRIO_MAX) \in Int /\ Clamp(m, PRIO_MIN, PRIO_MAX) \in Int
      /\ Clamp(n, PRIO_MIN, PRIO_MAX) <= Clamp(m, PRIO_MIN, PRIO_MAX) + 1
  BY <1>1, <1>5, ClampStep
<1>7. /\ eff_prio(p) = IF p.priority >= PRIO_IDLE THEN p.priority
                       ELSE Clamp(n, PRIO_MIN, PRIO_MAX)
      /\ eff_prio(q) = IF p.priority >= PRIO_IDLE THEN p.priority
                       ELSE Clamp(m, PRIO_MIN, PRIO_MAX)
  BY <1>3 DEF eff_prio, n, m
<1> QED BY <1>1, <1>6, <1>7 DEF q

\* Neither the state nor the quantum counts for the priority.
LEMMA StateNoPriority ==
  ASSUME NEW p, NEW q, q.priority = p.priority, q.dyn_boost = p.dyn_boost
  PROVE  eff_prio(q) = eff_prio(p)
  BY DEF eff_prio

\* What schedule() leaves behind when it switches.
LEMMA BestWins ==
  ASSUME NEW T, GoodTable(T), current \in Tasks, run_queue \in Seq(Tasks), schedule(T),
         current' # current, NEW t \in Queued, t # current',
         task'[t].state \in {"ready", "running"}
  PROVE  eff_prio(task'[current']) <= eff_prio(task'[t]) + (IF t = current THEN 1 ELSE 0)
<1>1. PICK i \in Positions : /\ Picks(T, i) /\ At(i) # current
                             /\ task' = SwitchTo(T, At(i)) /\ current' = At(i)
  BY DEF schedule
<1>2. \A u \in Tasks : T[u] \in TaskT
  BY DEF GoodTable, TableT
<1>3. At(i) \in Tasks
  BY PickedIsTask
<1>4. PICK j \in Positions : t = At(j)
  <2>1. PICK k \in 1 .. Len(run_queue) : t = run_queue[k]
    BY DEF Queued
  <2>2. k - 1 \in Positions /\ (k - 1) + 1 = k
    BY <2>1 DEF Positions
  <2> QED BY <2>1, <2>2 DEF At
<1>5. t \in Tasks
  BY <1>4, PickedIsTask
<1>6. /\ task'[current] = Released(T[current])
      /\ task'[At(i)] = [T[At(i)] EXCEPT !.state = "running", !.quantum_used = 0]
      /\ \A u \in Tasks \ {current, At(i)} : task'[u] = T[u]
  BY <1>1, <1>3 DEF SwitchTo
<1>7. eff_prio(task'[current']) = eff_prio(T[At(i)])
  <2> DEFINE p == T[At(i)]
             q == task'[At(i)]
  <2>1. p \in TaskT /\ q = [p EXCEPT !.state = "running", !.quantum_used = 0]
    BY <1>2, <1>3, <1>6
  <2> HIDE DEF p, q
  <2>2. q.priority = p.priority /\ q.dyn_boost = p.dyn_boost
    BY <2>1 DEF TaskT
  <2>3. eff_prio(q) = eff_prio(p)
    BY <2>2, StateNoPriority
  <2> QED BY <1>1, <2>3 DEF p, q
<1>8. \A u \in Tasks : eff_prio(T[u]) \in Int
  BY <1>2, CreditIsOneStep
<1>9. T[t].state \in {"ready", "running"} =>
        eff_prio(T[At(i)]) <= eff_prio(T[t])
  <2> HAVE T[t].state \in {"ready", "running"}
  <2>1. j \in ReadyAt(T)
    BY <1>4 DEF ReadyAt
  <2>2. eff_prio(T[At(i)]) < eff_prio(T[At(j)]) \/ eff_prio(T[At(i)]) = eff_prio(T[At(j)])
    BY <1>1, <2>1 DEF Picks
  <2> QED BY <1>3, <1>4, <1>5, <1>8, <2>2
<1>10. CASE t # current
  <2>1. task'[t] = T[t]
    BY <1>1, <1>5, <1>6, <1>10
  <2> QED BY <1>3, <1>5, <1>7, <1>8, <1>9, <1>10, <2>1
<1>11. CASE t = current
  <2> DEFINE p == T[t]
             q == mlfq_credit_release(p)
  <2>1. task'[t] = Released(p) /\ p \in TaskT
    BY <1>2, <1>5, <1>6, <1>11
  <2>2. q \in TaskT /\ q.state = p.state
    BY <2>1, CreditKeeps DEF Keeps
  <2>3. Released(p) = [q EXCEPT !.state = IF q.state = "running" THEN "ready" ELSE q.state]
    BY DEF Released
  <2>4. eff_prio(p) \in Int /\ eff_prio(q) \in Int /\ eff_prio(p) <= eff_prio(q) + 1
    BY <2>1, CreditIsOneStep
  <2> HIDE DEF q
  <2>5. eff_prio(task'[t]) = eff_prio(q)
    <3> DEFINE r == task'[t]
    <3>1. r = [q EXCEPT !.state = IF q.state = "running" THEN "ready" ELSE q.state]
      BY <2>1, <2>3
    <3> HIDE DEF r
    <3>2. r.priority = q.priority /\ r.dyn_boost = q.dyn_boost
      BY <2>2, <3>1 DEF TaskT
    <3>3. eff_prio(r) = eff_prio(q)
      BY <3>2, StateNoPriority
    <3> QED BY <3>3 DEF r
  <2>6. p.state \in {"ready", "running"}
    <3>1. q \in TaskT /\ task'[t].state = IF q.state = "running" THEN "ready" ELSE q.state
      BY <2>1, <2>2, <2>3 DEF TaskT
    <3> QED BY <2>2, <3>1
  <2>7. eff_prio(T[At(i)]) \in Int /\ eff_prio(T[At(i)]) <= eff_prio(p)
    BY <1>3, <1>8, <1>9, <2>6
  <2> HIDE DEF p
  <2> QED BY <1>7, <1>11, <2>4, <2>5, <2>7
<1> QED BY <1>10, <1>11

\* Every switch, whoever causes it, goes to a runnable process that no other
\* queued one beats, except that the process that leaves may be ahead by the
\* credit it gets: for any number of processes and any range of priorities
\* and boosts.
THEOREM SwitchesToTheBest == Spec => PicksBest
<1>1. SchedInv /\ [Next]_vars =>
        [current' # current =>
           \A t \in Queued \ {current'} :
             task'[t].state \in {"ready", "running"} =>
               eff_prio(task'[current']) <=
                 eff_prio(task'[t]) + (IF t = current THEN 1 ELSE 0)]_vars
  <2> SUFFICES ASSUME SchedInv, [Next]_vars, current' # current,
                      NEW t \in Queued \ {current'}, task'[t].state \in {"ready", "running"}
               PROVE  eff_prio(task'[current']) <=
                        eff_prio(task'[t]) + (IF t = current THEN 1 ELSE 0)
    OBVIOUS
  <2>1. current \in Tasks /\ run_queue \in Seq(Tasks)
    BY InvGivesGood
  <2>2. PICK T : GoodTable(T) /\ schedule(T)
    BY SwitchIsSchedule
  <2> QED BY <2>1, <2>2, BestWins
<1>2. Spec => []SchedInv
  BY SchedulerSafe, PTL DEF SchedInv
<1> QED BY <1>1, <1>2, PTL DEF Spec, PicksBest
=============================================================================
