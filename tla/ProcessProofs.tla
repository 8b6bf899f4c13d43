--------------------------- MODULE ProcessProofs ---------------------------
(***************************************************************************)
(* Proofs about Process, for every table size, pid bound, set of signals   *)
(* and set of exit codes.                                                  *)
(***************************************************************************)
EXTENDS Process, TLAPS

Table == [Slots -> ProcessT]
JmpT == [valid : BOOLEAN, starter : Slots, child : Slots]
WordsT == [Pids -> ExitCodes \cup {Unknown}]
ResultT == [asked : {AnyChild} \cup 0 .. MaxPid, pid : 0 .. MaxPid, status : ExitCodes]

\* Q is P after some processes died, perhaps with orphans given to init.
Older(P, Q) ==
  /\ Q[InitSlot].state = P[InitSlot].state
  /\ \A s \in Slots :
       /\ Q[s].pid = P[s].pid /\ Q[s].parent_pid \in {1, P[s].parent_pid}
       /\ Q[s].state = P[s].state \/ (P[s].state # "free" /\ Q[s].state = "zombie")

\* A table whose pids are below n.
TableOk(P, n) ==
  /\ P \in Table
  /\ \A s \in Slots : P[s].pid < n /\ (P[s].state # "free" => P[s].pid \in Pids)
  /\ \A s, t \in Slots : P[s].pid = P[t].pid /\ P[s].pid # 0 => s = t
  /\ P[InitSlot].pid = 1 /\ P[InitSlot].state = "alive"

\* What holds of a table P and calls c in the middle of a step, while the code
\* of slot cur runs, g is the exit buffer, n the next pid, and the pids of X
\* went through process_exit.
Good(P, c, cur, g, n, X) ==
  /\ TableOk(P, n) /\ n \in 2 .. (MaxPid + 1)
  /\ c \in [Slots -> Calls] /\ cur \in Slots /\ g \in JmpT /\ X \subseteq Pids
  /\ \A s \in {cur, g.starter, g.child} : P[s].state # "free"
  /\ g.valid => g.child # InitSlot /\ c[g.starter] = Spawning
  /\ \A p \in X : p < n /\ p # 1
  /\ \A s \in Slots : P[s].pid \in X => P[s].state = "zombie" /\ (s # cur => c[s] = Exited)
  /\ \A s \in Slots \ {InitSlot} : P[s].state = "alive" => P[s].parent_pid \notin X

\* The codes of the zombies are those they died with.
Recorded ==
  \A s \in Slots : processes[s].state = "zombie" =>
    last_words[processes[s].pid] = processes[s].exit_code

\* The inductive invariant: between steps the code in control did not exit, or
\* is in the loop of exit().
Inv ==
  /\ Good(processes, call, current, g_elf_jmp, next_pid, exited)
  /\ MyPid \in exited => call[current] = Exited
  /\ run_queue \subseteq Slots /\ result \in ResultT /\ last_words \in WordsT /\ Recorded

LEMMA SlotFacts == InitSlot \in Slots /\ 1 \in Pids
  BY ProcessConstants DEF InitSlot, Slots, Pids

LEMMA CallsDiffer ==
  /\ \A a, b \in {Lost, AtZero, Spawning, Exited, InUser, Yielded, AnyChild} \cup Pids :
       a \in {Exited, Spawning, InUser, Yielded} /\ b \in Pids \cup {AnyChild} => a # b
  /\ Exited # InUser /\ Exited # Spawning /\ Exited # Yielded /\ Spawning # InUser
  /\ Spawning # Yielded /\ Exited # AnyChild /\ Spawning # AnyChild
  BY DEF Lost, AtZero, Spawning, Exited, InUser, Yielded, AnyChild, Pids

-----------------------------------------------------------------------------
(***************************************************************************)
(* The updates of the table only make it older.                            *)
(***************************************************************************)

LEMMA OlderTwice ==
  ASSUME NEW P, NEW Q, NEW R, Older(P, Q), Older(Q, R) PROVE Older(P, R)
  BY DEF Older

\* process_signal only touches signal_pending.
LEMMA SignalTable ==
  ASSUME NEW P \in Table, NEW pid, NEW sig \in AllSigs
  PROVE  LET Q == process_signal(P, pid, sig)
         IN  /\ Q \in Table
             /\ \A s \in Slots : /\ Q[s].pid = P[s].pid /\ Q[s].parent_pid = P[s].parent_pid
                                 /\ Q[s].state = P[s].state
                                 /\ Q[s].exit_code = P[s].exit_code
  BY DEF Table, ProcessT, process_signal

LEMMA SignalOlder ==
  ASSUME NEW P \in Table, NEW pid, NEW sig \in AllSigs
  PROVE  process_signal(P, pid, sig) \in Table /\ Older(P, process_signal(P, pid, sig))
  BY SignalTable, SlotFacts DEF Older

\* Reparenting only touches parent_pid, of the children of the dead process.
LEMMA AdoptTable ==
  ASSUME NEW P \in Table, NEW pid
  PROVE  /\ Adopt(P, pid) \in Table
         /\ \A s \in Slots : /\ Adopt(P, pid)[s].pid = P[s].pid
                             /\ Adopt(P, pid)[s].state = P[s].state
                             /\ Adopt(P, pid)[s].exit_code = P[s].exit_code
                             /\ Adopt(P, pid)[s].parent_pid =
                                  IF P[s].state = "alive" /\ P[s].parent_pid = pid
                                       /\ P[s].pid # 1
                                  THEN 1 ELSE P[s].parent_pid
  BY ProcessConstants DEF Table, ProcessT, Adopt, Alive

\* process_exit: the current process is the only one that dies, and its living
\* children go to init.
LEMMA ExitTable ==
  ASSUME NEW P \in Table, current \in Slots, NEW code \in ExitCodes
  PROVE  /\ process_exit(P, code) \in Table
         /\ \A s \in Slots :
              /\ process_exit(P, code)[s].pid = P[s].pid
              /\ process_exit(P, code)[s].state =
                   IF s = current THEN "zombie" ELSE P[s].state
              /\ process_exit(P, code)[s].parent_pid =
                   IF /\ s # current /\ P[s].state = "alive"
                      /\ P[s].parent_pid = P[current].pid /\ P[s].pid # 1
                   THEN 1 ELSE P[s].parent_pid
<1> DEFINE D == [P EXCEPT ![current].state = "zombie", ![current].exit_code = code]
           A == Adopt(D, P[current].pid)
<1>1. /\ D \in Table
      /\ \A s \in Slots : /\ D[s].pid = P[s].pid
                          /\ D[s].parent_pid = P[s].parent_pid
                          /\ D[s].state = IF s = current THEN "zombie" ELSE P[s].state
  BY ZenonT(40) DEF Table, ProcessT
<1> HIDE DEF D
<1>2. /\ A \in Table
      /\ \A s \in Slots : /\ A[s].pid = D[s].pid
                          /\ A[s].state = D[s].state
                          /\ A[s].parent_pid =
                               IF D[s].state = "alive" /\ D[s].parent_pid = P[current].pid
                                    /\ D[s].pid # 1
                               THEN 1 ELSE D[s].parent_pid
  BY <1>1, AdoptTable
<1> HIDE DEF A
<1>3. SIGCHLD \in AllSigs
  BY DEF AllSigs
<1> DEFINE N == Notify(A, P[current].parent_pid)
<1>4. /\ N \in Table
      /\ \A s \in Slots : /\ N[s].pid = A[s].pid /\ N[s].parent_pid = A[s].parent_pid
                          /\ N[s].state = A[s].state
  BY <1>2, <1>3, SignalTable DEF Notify
<1>5. process_exit(P, code) = N
  BY DEF process_exit, A, D
<1> HIDE DEF N
<1> QED BY <1>1, <1>2, <1>4, <1>5

\* Burying a process.
LEMMA ZombieOlder ==
  ASSUME NEW P \in Table, NEW s \in Slots, s # InitSlot, P[s].state # "free",
         NEW code \in ExitCodes
  PROVE  LET Q == [P EXCEPT ![s].state = "zombie", ![s].exit_code = code]
         IN  Q \in Table /\ Older(P, Q)
<1> DEFINE Q == [P EXCEPT ![s].state = "zombie", ![s].exit_code = code]
<1>1. /\ Q \in Table
      /\ \A t \in Slots : /\ Q[t].pid = P[t].pid
                          /\ Q[t].parent_pid = P[t].parent_pid
                          /\ Q[t].state = IF t = s THEN "zombie" ELSE P[t].state
  BY ZenonT(40) DEF Table, ProcessT
<1> HIDE DEF Q
<1>2. Older(P, Q)
  BY <1>1, SlotFacts DEF Older
<1> QED BY <1>1, <1>2 DEF Q

\* Delivery touches signal_pending, state and exit_code of one process.
LEMMA DeliverType ==
  ASSUME NEW p \in ProcessT, NEW sig \in AllSigs
  PROVE  LET q == process_deliver_signal(p, sig)
         IN  /\ q \in ProcessT
             /\ q.pid = p.pid /\ q.parent_pid = p.parent_pid
             /\ q.state \in {p.state, "zombie"}
<1>1. p.sig_handlers[sig] \in Handlers /\ 128 + sig \in ExitCodes
  BY DEF ProcessT, ExitCodes
<1>2. CASE p.sig_handlers[sig] = "SIG_IGN"
  BY <1>2 DEF process_deliver_signal
<1>3. CASE p.sig_handlers[sig] = "custom"
  BY <1>3 DEF process_deliver_signal, ProcessT
<1>4. CASE p.sig_handlers[sig] = "SIG_DFL" /\ sig = SIGCHLD
  BY <1>4 DEF process_deliver_signal
<1>5. CASE p.sig_handlers[sig] = "SIG_DFL" /\ sig # SIGCHLD
  <2>1. process_deliver_signal(p, sig) = [p EXCEPT !.state = "zombie", !.exit_code = 128 + sig]
    BY <1>5 DEF process_deliver_signal
  <2> QED BY <2>1, <1>1, <1>5, ZenonT(40) DEF ProcessT
<1> QED BY <1>1, <1>2, <1>3, <1>4, <1>5 DEF Handlers

LEMMA CheckOlder ==
  ASSUME NEW P \in Table, NEW s \in Slots, P[s].state # "free"
  PROVE  process_check_signal(P, s) \in Table /\ Older(P, process_check_signal(P, s))
<1> DEFINE R == process_check_signal(P, s)
<1>1. CASE s = InitSlot \/ P[s].signal_pending = 0
  BY <1>1 DEF process_check_signal, Older
<1>2. CASE s # InitSlot /\ P[s].signal_pending # 0
  <2> DEFINE sig == P[s].signal_pending
             p == [P[s] EXCEPT !.signal_pending = 0]
             q == process_deliver_signal(p, sig)
  <2>1. P[s] \in ProcessT
    BY DEF Table
  <2>2. sig \in AllSigs /\ p \in ProcessT
    BY <1>2, <2>1 DEF ProcessT
  <2>3. p.pid = P[s].pid /\ p.parent_pid = P[s].parent_pid /\ p.state = P[s].state
    BY <2>1 DEF ProcessT
  <2>4. R = [P EXCEPT ![s] = q]
    BY <1>2 DEF process_check_signal
  <2> HIDE DEF sig, p
  <2>5. /\ q \in ProcessT
        /\ q.pid = p.pid /\ q.parent_pid = p.parent_pid /\ q.state \in {p.state, "zombie"}
    BY <2>2, DeliverType
  <2> HIDE DEF q, R
  <2>6. \A t \in Slots : R[t] = IF t = s THEN q ELSE P[t]
    BY <2>4 DEF Table
  <2>7. R \in Table
    BY <2>4, <2>5 DEF Table
  <2>8. Older(P, R)
    BY <1>2, <2>3, <2>5, <2>6, SlotFacts DEF Older
  <2> QED BY <2>7, <2>8 DEF R
<1> QED BY <1>1, <1>2

LEMMA KillOlder ==
  ASSUME processes \in Table, processes[InitSlot].pid = 1, NEW pid
  PROVE  process_kill(pid) \in Table /\ Older(processes, process_kill(pid))
<1> DEFINE Q == process_kill(pid)
<1>1. /\ Q \in Table
      /\ \A s \in Slots :
           \/ Q[s] = processes[s]
           \/ /\ pid # 1 /\ processes[s].state = "alive" /\ processes[s].pid = pid
              /\ Q[s].pid = processes[s].pid /\ Q[s].parent_pid = processes[s].parent_pid
              /\ Q[s].state = "zombie"
  BY DEF process_kill, process_get, Alive, Table, ProcessT
<1> HIDE DEF Q
<1>2. Older(processes, Q)
  BY <1>1, SlotFacts DEF Older
<1> QED BY <1>1, <1>2 DEF Q

\* What holds in the middle of a step still holds when processes die.
LEMMA OlderGood ==
  ASSUME NEW P, NEW Q, NEW c, NEW cur, NEW g, NEW n, NEW X,
         Good(P, c, cur, g, n, X), Q \in Table, Older(P, Q)
  PROVE  Good(Q, c, cur, g, n, X)
<1>1. g.starter \in Slots /\ g.child \in Slots /\ cur \in Slots /\ P \in Table
  BY DEF Good, JmpT, TableOk
<1>2. TableOk(Q, n)
  BY SlotFacts DEF Good, TableOk, Older
<1>3. \A s \in {cur, g.starter, g.child} : Q[s].state # "free"
  BY <1>1 DEF Good, Older
<1>4. \A s \in Slots : Q[s].pid \in X => Q[s].state = "zombie" /\ (s # cur => c[s] = Exited)
  BY DEF Good, Older
<1>5. \A s \in Slots \ {InitSlot} : Q[s].state = "alive" => Q[s].parent_pid \notin X
  BY DEF Good, Older
<1> QED BY <1>2, <1>3, <1>4, <1>5 DEF Good

-----------------------------------------------------------------------------
(***************************************************************************)
(* How steps end.                                                          *)
(***************************************************************************)

\* What SetTable records about a table without double pids.
LEMMA SetTableRecords ==
  ASSUME NEW P, NEW n, TableOk(P, n), last_words \in WordsT, SetTable(P)
  PROVE  processes' = P /\ last_words' \in WordsT /\ Recorded'
<1> DEFINE Of(pid) == CHOOSE s \in Slots : P[s].pid = pid
<1>1. P \in Table /\ processes' = P
  BY DEF TableOk, SetTable
<1>2. last_words' = [pid \in Pids |->
        IF \E s \in Slots : P[s].pid = pid /\ P[s].state = "zombie"
        THEN P[Of(pid)].exit_code ELSE last_words[pid]]
  BY DEF SetTable, Pids
<1>3. ASSUME NEW s \in Slots, P[s].state = "zombie"
      PROVE  P[s].pid \in Pids /\ Of(P[s].pid) = s
  <2>1. P[s].pid \in Pids /\ P[s].pid # 0
    BY <1>3 DEF TableOk, Pids
  <2>2. \A t \in Slots : P[t].pid = P[s].pid => t = s
    BY <2>1 DEF TableOk
  <2> QED BY <2>1, <2>2
<1>4. ASSUME NEW pid \in Pids, \E s \in Slots : P[s].pid = pid /\ P[s].state = "zombie"
      PROVE  P[Of(pid)].exit_code \in ExitCodes
  <2>1. Of(pid) \in Slots
    BY <1>3, <1>4
  <2> HIDE DEF Of
  <2> QED BY <1>1, <2>1 DEF Table, ProcessT
<1> HIDE DEF Of
<1>5. last_words' \in WordsT
  BY <1>2, <1>4 DEF WordsT
<1>6. Recorded'
  BY <1>1, <1>2, <1>3 DEF Recorded
<1> QED BY <1>1, <1>5, <1>6

\* What every step leaves alone, or in its type.
Rest == run_queue' \subseteq Slots /\ result' \in ResultT

\* A step that ends with the CPU where it may be.
LEMMA Settled ==
  ASSUME last_words \in WordsT, Rest, NEW P, SetTable(P),
         Good(P, call', current', g_elf_jmp', next_pid', exited'),
         P[current'].pid \in exited' => call'[current'] = Exited
  PROVE  Inv'
<1>1. processes' = P /\ last_words' \in WordsT /\ Recorded'
  BY SetTableRecords DEF Good
<1> QED BY <1>1 DEF Inv, MyPid, Rest

\* The use of the exit buffer: its starter is in elf_exec, so it did not exit.
LEMMA UseBufferKeeps ==
  ASSUME last_words \in WordsT, Rest, NEW P, NEW c, NEW code \in ExitCodes, g_elf_jmp.valid,
         Good(P, c, current, g_elf_jmp, next_pid', exited'), c[current] # Spawning,
         UseBuffer(P, c, code)
  PROVE  Inv'
<1> DEFINE w == g_elf_jmp.starter
           Q == [P EXCEPT ![g_elf_jmp.child].state = "zombie",
                          ![g_elf_jmp.child].exit_code = code]
           R == process_check_signal(Q, w)
<1>1. /\ w \in Slots /\ g_elf_jmp.child \in Slots /\ current \in Slots /\ P \in Table
      /\ P[w].state # "free" /\ P[g_elf_jmp.child].state # "free"
      /\ g_elf_jmp.child # InitSlot /\ c[w] = Spawning /\ c \in [Slots -> Calls]
  BY DEF Good, JmpT, TableOk
<1>2. /\ SetTable(R) /\ current' = w
      /\ call' = [c EXCEPT ![current] = Exited, ![w] = InUser]
      /\ g_elf_jmp' = [g_elf_jmp EXCEPT !.valid = FALSE]
  BY DEF UseBuffer
<1>3. Q \in Table /\ Older(P, Q)
  BY <1>1, ZombieOlder
<1> HIDE DEF Q, w
<1>4. Q[w].state # "free"
  BY <1>1, <1>3 DEF Older
<1>5. R \in Table /\ Older(Q, R)
  BY <1>1, <1>3, <1>4, CheckOlder
<1> HIDE DEF R
<1>6. Good(R, c, current, g_elf_jmp, next_pid', exited')
  BY <1>3, <1>5, OlderTwice, OlderGood
<1>7. w # current /\ R[w].pid \notin exited'
  BY <1>1, <1>6, CallsDiffer DEF Good
<1>8. /\ g_elf_jmp' \in JmpT /\ ~g_elf_jmp'.valid
      /\ g_elf_jmp'.starter = g_elf_jmp.starter /\ g_elf_jmp'.child = g_elf_jmp.child
  BY <1>2 DEF Good, JmpT
<1>9. call' \in [Slots -> Calls] /\ \A s \in Slots : call'[s] =
        IF s = w THEN InUser ELSE IF s = current THEN Exited ELSE c[s]
  <2>1. InUser \in Calls /\ Exited \in Calls
    BY DEF Calls
  <2> QED BY <1>1, <1>2, <1>7, <2>1
<1>10. Good(R, call', current', g_elf_jmp', next_pid', exited')
  <2>1. \A s \in {w, g_elf_jmp'.starter, g_elf_jmp'.child} : R[s].state # "free"
    BY <1>6, <1>8 DEF Good, w
  <2>2. \A s \in Slots : R[s].pid \in exited' =>
          R[s].state = "zombie" /\ (s # w => call'[s] = Exited)
    BY <1>6, <1>9 DEF Good
  <2> QED BY <1>1, <1>2, <1>6, <1>8, <1>9, <2>1, <2>2 DEF Good
<1> QED BY <1>2, <1>7, <1>10, Settled

LEMMA ReturnKeeps ==
  ASSUME last_words \in WordsT, Rest, NEW P, NEW c,
         Good(P, c, current, g_elf_jmp, next_pid', exited'),
         c[current] # Spawning, P[current].pid \notin exited', Return(P, c)
  PROVE  Inv'
<1> DEFINE Q == process_check_signal(P, current)
<1>1. current \in Slots /\ P \in Table /\ P[current].state # "free" /\ c \in [Slots -> Calls]
  BY DEF Good, TableOk
<1>2. Q \in Table /\ Older(P, Q)
  BY <1>1, CheckOlder
<1>3. \/ g_elf_jmp.valid /\ UseBuffer(Q, c, Q[current].exit_code)
      \/ /\ SetTable(Q) /\ call' = [c EXCEPT ![current] = InUser]
         /\ UNCHANGED <<current, g_elf_jmp>>
  BY DEF Return
<1> HIDE DEF Q
<1>4. Good(Q, c, current, g_elf_jmp, next_pid', exited')
  BY <1>2, OlderGood
<1>5. CASE g_elf_jmp.valid /\ UseBuffer(Q, c, Q[current].exit_code)
  <2>1. Q[current].exit_code \in ExitCodes
    BY <1>1, <1>2 DEF Table, ProcessT
  <2> QED BY <1>4, <1>5, <2>1, UseBufferKeeps
<1>6. CASE /\ SetTable(Q) /\ call' = [c EXCEPT ![current] = InUser]
           /\ UNCHANGED <<current, g_elf_jmp>>
  <2>1. call' \in [Slots -> Calls] /\ \A s \in Slots : call'[s] =
          IF s = current THEN InUser ELSE c[s]
    <3>1. InUser \in Calls
      BY DEF Calls
    <3> QED BY <1>1, <1>6, <3>1
  <2>2. Q[current].pid \notin exited'
    BY <1>1, <1>2 DEF Older
  <2>3. g_elf_jmp.valid => call'[g_elf_jmp.starter] = Spawning
    BY <1>4, <2>1 DEF Good, JmpT
  <2>4. Good(Q, call', current, g_elf_jmp, next_pid', exited')
    BY <1>4, <2>1, <2>3 DEF Good
  <2> QED BY <1>6, <2>2, <2>4, Settled
<1> QED BY <1>3, <1>5, <1>6

\* Whoever gets the CPU from schedule() lives; whoever keeps it is where it was.
LEMMA ScheduleKeeps ==
  ASSUME last_words \in WordsT, Rest, NEW P, NEW where \in Calls,
         Good(P, call, current, g_elf_jmp, next_pid', exited'), call[current] # Spawning,
         P[current].pid \in exited' => where = Exited, Schedule(P, where)
  PROVE  Inv'
<1>1. /\ SetTable(P) /\ call' = [call EXCEPT ![current] = where] /\ g_elf_jmp' = g_elf_jmp
      /\ \/ current' = current
         \/ current' \in Slots /\ P[current'].state = "alive"
  BY DEF Schedule, Runnable, Alive
<1>2. current \in Slots /\ call \in [Slots -> Calls]
  BY DEF Good
<1>3. call' \in [Slots -> Calls] /\ \A s \in Slots : call'[s] =
        IF s = current THEN where ELSE call[s]
  BY <1>1, <1>2
<1>4. g_elf_jmp.valid => call'[g_elf_jmp.starter] = Spawning
  BY <1>3 DEF Good, JmpT
<1>5. \A s \in Slots : P[s].pid \in exited' => P[s].state = "zombie" /\ call'[s] = Exited
  BY <1>3 DEF Good
<1>6. current' \in Slots /\ P[current'].state # "free"
  BY <1>1, <1>2 DEF Good
<1>7. Good(P, call', current', g_elf_jmp', next_pid', exited')
  BY <1>1, <1>3, <1>4, <1>5, <1>6 DEF Good
<1> QED BY <1>1, <1>5, <1>6, <1>7, Settled

-----------------------------------------------------------------------------
(***************************************************************************)
(* The steps.                                                              *)
(***************************************************************************)

\* The code of a process that is in a system call did not exit.
LEMMA NotExited ==
  ASSUME Inv, call[current] # Exited
  PROVE  /\ processes \in Table /\ current \in Slots /\ MyPid \notin exited
         /\ processes[current].pid = MyPid /\ processes[current].state # "free"
  BY DEF Inv, Good, TableOk, MyPid

LEMMA SameGood ==
  ASSUME Inv, UNCHANGED <<next_pid, exited>>
  PROVE  /\ last_words \in WordsT
         /\ Good(processes, call, current, g_elf_jmp, next_pid', exited')
  BY DEF Inv

\* A table of processes that died, or not, in the call of one that did not.
LEMMA OlderReturn ==
  ASSUME Inv, Rest, NEW P \in Table, Older(processes, P), Return(P, call),
         call[current] \notin {Exited, Spawning}, UNCHANGED <<next_pid, exited>>
  PROVE  Inv'
<1>1. Good(P, call, current, g_elf_jmp, next_pid', exited') /\ last_words \in WordsT
  BY SameGood, OlderGood
<1>2. P[current].pid \notin exited'
  BY NotExited DEF Older
<1> QED BY <1>1, <1>2, ReturnKeeps

LEMMA SameOlder == \A P : Older(P, P)
  BY DEF Older

LEMMA SameReturn ==
  ASSUME Inv, Rest, Return(processes, call), call[current] \notin {Exited, Spawning},
         UNCHANGED <<next_pid, exited>>
  PROVE  Inv'
  BY NotExited, SameOlder, OlderReturn

LEMMA SameSchedule ==
  ASSUME Inv, Rest, NEW where \in Calls, Schedule(processes, where),
         call[current] \notin {Exited, Spawning}, UNCHANGED <<next_pid, exited>>
  PROVE  Inv'
  BY NotExited, SameGood, ScheduleKeeps

\* The new process takes the slot of no living one, and its parent, the process
\* in control or, when that is dead and its own slot is taken, the new process
\* itself, did not exit.
LEMMA CreateGood ==
  ASSUME Inv, call[current] = InUser, NEW s \in Slots, NewSlot(s),
         NEW entry \in {"NULL", "userprog"}, NEW c \in [Slots -> Calls],
         \A t \in Slots \ {s} : c[t] = call[t], c = call \/ ~StackInUse(s)
  PROVE  LET P == process_create(s, entry)
         IN  /\ Good(P, c, current, g_elf_jmp, NextPid(next_pid), exited)
             /\ P[current].pid \notin exited /\ s # InitSlot /\ P[s].state = "alive"
             /\ s # current => c[current] = InUser
<1> DEFINE n == [Blank EXCEPT !.pid = next_pid, !.state = "alive", !.entry = entry]
           p == [n EXCEPT !.parent_pid = IF s = current THEN next_pid ELSE MyPid]
           P == process_create(s, entry)
<1>0. /\ processes \in Table /\ current \in Slots /\ MyPid \notin exited
      /\ processes[current].pid = MyPid /\ processes[current].state # "free"
  BY NotExited, CallsDiffer
<1>1. MyPid \in 0 .. MaxPid
  BY <1>0 DEF Table, ProcessT
<1>2. next_pid \in Pids /\ next_pid \in 0 .. MaxPid /\ next_pid \in Nat
  BY ProcessConstants DEF Inv, Good, NewSlot, Pids
<1>3. Blank \in ProcessT
  BY ProcessConstants DEF Blank, ProcessT, ExitCodes, Handlers
<1>4. n \in ProcessT /\ n.pid = next_pid /\ n.state = "alive"
  BY <1>2, <1>3 DEF ProcessT, Blank
<1> HIDE DEF n
<1>5. /\ p \in ProcessT /\ p.pid = next_pid /\ p.state = "alive"
      /\ p.parent_pid = IF s = current THEN next_pid ELSE MyPid
  BY <1>1, <1>2, <1>4 DEF ProcessT
<1>6. P = [processes EXCEPT ![s] = p]
  BY DEF process_create, n
<1> HIDE DEF p, P
<1>7. P \in Table /\ \A t \in Slots : P[t] = IF t = s THEN p ELSE processes[t]
  BY <1>0, <1>5, <1>6 DEF Table
<1>8. processes[s].state # "alive" /\ s # InitSlot
  BY DEF NewSlot, First, Zombies, Unused, Inv, Good, TableOk
<1>9. next_pid \notin exited /\ \A t \in Slots : processes[t].pid < next_pid
  BY <1>2 DEF Inv, Good, TableOk
<1>10. TableOk(P, next_pid + 1)
  <2>1. \A t \in Slots : processes[t].pid \in Nat
    BY <1>0 DEF Table, ProcessT
  <2>2. \A t \in Slots : P[t].pid < next_pid + 1 /\ (P[t].state # "free" => P[t].pid \in Pids)
    BY <1>2, <1>5, <1>7, <1>9, <2>1 DEF Inv, Good, TableOk
  <2>3. \A t, u \in Slots : P[t].pid = P[u].pid /\ P[t].pid # 0 => t = u
    BY <1>2, <1>5, <1>7, <1>9, <2>1 DEF Inv, Good, TableOk
  <2>4. P[InitSlot].pid = 1 /\ P[InitSlot].state = "alive"
    BY <1>7, <1>8, SlotFacts DEF Inv, Good, TableOk
  <2> QED BY <1>7, <2>2, <2>3, <2>4 DEF TableOk
<1>11. \A t \in Slots : P[t].pid \in exited => P[t].state = "zombie" /\ (t # current => c[t] = Exited)
  BY <1>5, <1>7, <1>9 DEF Inv, Good
<1>12. \A t \in Slots \ {InitSlot} : P[t].state = "alive" => P[t].parent_pid \notin exited
  BY <1>0, <1>5, <1>7, <1>9 DEF Inv, Good
<1>13. g_elf_jmp.valid => g_elf_jmp.child # InitSlot /\ c[g_elf_jmp.starter] = Spawning
  BY DEF Inv, Good, JmpT, StackInUse
<1>14. \A t \in {current, g_elf_jmp.starter, g_elf_jmp.child} : P[t].state # "free"
  BY <1>5, <1>7 DEF Inv, Good, JmpT
<1>15. next_pid + 1 \in 2 .. (MaxPid + 1) /\ NextPid(next_pid) = next_pid + 1
  BY <1>2, ProcessConstants DEF Pids, NextPid
<1>16. \A q \in exited : q < next_pid + 1 /\ q # 1
  BY <1>2 DEF Inv, Good, Pids
<1>17. Good(P, c, current, g_elf_jmp, NextPid(next_pid), exited)
  BY <1>10, <1>11, <1>12, <1>13, <1>14, <1>15, <1>16 DEF Inv, Good
<1>18. P[current].pid \notin exited
  BY <1>0, <1>5, <1>7, <1>9
<1> QED BY <1>0, <1>5, <1>7, <1>8, <1>17, <1>18 DEF P

\* SYS_FORK and usermode_run: the new process waits for the CPU.
LEMMA ForkKeeps ==
  ASSUME Inv, Rest, call[current] = InUser, NEW s \in Slots, NewSlot(s), ~StackInUse(s),
         NEW entry \in {"NULL", "userprog"}, NEW k \in {AtZero, InUser},
         Return(process_create(s, entry), [call EXCEPT ![s] = k]),
         next_pid' = NextPid(next_pid), exited' = exited
  PROVE  Inv'
<1> DEFINE c == [call EXCEPT ![s] = k]
           P == process_create(s, entry)
<1>1. call \in [Slots -> Calls] /\ last_words \in WordsT /\ s # current
  BY DEF Inv, Good, StackInUse
<1>2. c \in [Slots -> Calls] /\ \A t \in Slots \ {s} : c[t] = call[t]
  BY <1>1 DEF Calls
<1> HIDE DEF c
<1>3. /\ Good(P, c, current, g_elf_jmp, NextPid(next_pid), exited)
      /\ P[current].pid \notin exited /\ c[current] = InUser
  BY <1>1, <1>2, CreateGood
<1>4. Return(P, c)
  BY DEF c
<1> HIDE DEF P
<1> QED BY <1>1, <1>3, <1>4, CallsDiffer, ReturnKeeps

LEMMA SpawnKeeps == ASSUME Inv, Spawn PROVE Inv'
<1>1. PICK s \in Slots :
        /\ NewSlot(s) /\ ~StackInUse(s)
        /\ SetTable(process_create(s, "NULL")) /\ current' = s
        /\ call' = [call EXCEPT ![current] = Spawning, ![s] = InUser]
        /\ g_elf_jmp' = [valid |-> TRUE, starter |-> current, child |-> s]
  BY DEF Spawn
<1> DEFINE P == process_create(s, "NULL")
<1>2. /\ call[current] = InUser /\ next_pid' = NextPid(next_pid)
      /\ exited' = exited /\ UNCHANGED <<run_queue, result>>
  BY DEF Spawn, InProgram, InUserMode, InInit
<1>3. /\ call \in [Slots -> Calls] /\ last_words \in WordsT /\ Rest /\ current \in Slots
      /\ s # current
  BY <1>1, <1>2 DEF Inv, Good, Rest, StackInUse
<1> DEFINE c == [call EXCEPT ![s] = InUser]
<1>4. c \in [Slots -> Calls] /\ \A t \in Slots \ {s} : c[t] = call[t]
  BY <1>3 DEF Calls
<1>5. call' \in [Slots -> Calls] /\ \A t \in Slots : call'[t] =
        IF t = current THEN Spawning ELSE c[t]
  BY <1>1, <1>3 DEF Calls
<1> HIDE DEF c
<1>6. /\ Good(P, c, current, g_elf_jmp, NextPid(next_pid), exited)
      /\ P[current].pid \notin exited /\ s # InitSlot /\ P[s].state = "alive"
  BY <1>1, <1>2, <1>4, CreateGood
<1>7. SetTable(P)
  BY <1>1
<1> HIDE DEF P
<1>8. /\ g_elf_jmp' \in JmpT /\ g_elf_jmp'.starter = current /\ g_elf_jmp'.child = s
  BY <1>1, <1>3 DEF JmpT
<1>9. \A t \in Slots : P[t].pid \in exited => P[t].state = "zombie" /\ call'[t] = Exited
  <2> SUFFICES ASSUME NEW t \in Slots, P[t].pid \in exited
               PROVE  P[t].state = "zombie" /\ call'[t] = Exited
    OBVIOUS
  <2>1. t # current
    BY <1>6
  <2> QED BY <1>5, <1>6, <2>1 DEF Good
<1>10. \A t \in {s, current} : P[t].state # "free"
  BY <1>6 DEF Good
<1>11. call'[current] = Spawning
  BY <1>3, <1>5
<1>12. Good(P, call', current', g_elf_jmp', next_pid', exited')
  BY <1>1, <1>2, <1>5, <1>6, <1>8, <1>9, <1>10, <1>11 DEF Good
<1> QED BY <1>1, <1>2, <1>3, <1>7, <1>9, <1>12, Settled

LEMMA SpawnFailsKeeps == ASSUME Inv, SpawnFails PROVE Inv'
<1>1. PICK s \in Slots :
        /\ NewSlot(s) /\ ~StackInUse(s)
        /\ Return([process_create(s, "NULL") EXCEPT ![s].state = "zombie",
                                                   ![s].exit_code = LoadError],
                  [call EXCEPT ![s] = Exited])
  BY DEF SpawnFails
<1>2. /\ call[current] = InUser /\ next_pid' = NextPid(next_pid)
      /\ exited' = exited /\ UNCHANGED <<run_queue, result>>
  BY DEF SpawnFails, InProgram, InUserMode, InInit
<1> DEFINE P == process_create(s, "NULL")
           Q == [P EXCEPT ![s].state = "zombie", ![s].exit_code = LoadError]
           c == [call EXCEPT ![s] = Exited]
<1>3. /\ call \in [Slots -> Calls] /\ last_words \in WordsT /\ Rest /\ s # current
      /\ current \in Slots
  BY <1>1, <1>2 DEF Inv, Good, Rest, StackInUse
<1>4. c \in [Slots -> Calls] /\ \A t \in Slots \ {s} : c[t] = call[t]
  BY <1>3 DEF Calls
<1>5. Return(Q, c)
  BY <1>1
<1> HIDE DEF c
<1>6. /\ Good(P, c, current, g_elf_jmp, NextPid(next_pid), exited)
      /\ P[current].pid \notin exited /\ s # InitSlot /\ P[s].state = "alive"
      /\ c[current] = InUser
  BY <1>1, <1>2, <1>3, <1>4, CreateGood
<1> HIDE DEF P
<1>7. P \in Table /\ LoadError \in ExitCodes
  BY <1>6 DEF Good, TableOk, ExitCodes
<1>8. Q \in Table /\ Older(P, Q)
  BY <1>6, <1>7, ZombieOlder
<1> HIDE DEF Q
<1>9. Good(Q, c, current, g_elf_jmp, next_pid', exited')
  BY <1>2, <1>6, <1>8, OlderGood
<1>10. Q[current].pid \notin exited'
  BY <1>2, <1>3, <1>6, <1>8 DEF Older
<1> QED BY <1>3, <1>5, <1>6, <1>9, <1>10, CallsDiffer, ReturnKeeps

LEMMA CreateOnStackKeeps == ASSUME Inv, CreateOnStackInUse PROVE Inv'
<1>1. PICK s \in Slots : NewSlot(s) /\ StackInUse(s) /\ SetTable(process_create(s, "NULL"))
  BY DEF CreateOnStackInUse
<1>2. /\ call[current] = InUser /\ next_pid' = NextPid(next_pid)
      /\ UNCHANGED <<current, run_queue, g_elf_jmp, result, exited>>
      /\ call' = [call EXCEPT ![current] = Lost]
  BY DEF CreateOnStackInUse, InProgram, InUserMode
<1> DEFINE P == process_create(s, "NULL")
<1>3. call \in [Slots -> Calls] /\ last_words \in WordsT /\ Rest /\ current \in Slots
  BY <1>2 DEF Inv, Good, Rest
<1>4. /\ Good(P, call, current, g_elf_jmp, NextPid(next_pid), exited)
      /\ P[current].pid \notin exited
  BY <1>1, <1>2, <1>3, CreateGood
<1>5. SetTable(P)
  BY <1>1
<1> HIDE DEF P
<1>6. call' \in [Slots -> Calls] /\ \A t \in Slots : call'[t] =
        IF t = current THEN Lost ELSE call[t]
  BY <1>2, <1>3 DEF Calls
<1>7. g_elf_jmp.valid => call'[g_elf_jmp.starter] = Spawning
  BY <1>2, <1>4, <1>6, CallsDiffer DEF Good, JmpT
<1>8. Good(P, call', current', g_elf_jmp', next_pid', exited')
  BY <1>2, <1>4, <1>6, <1>7 DEF Good
<1> QED BY <1>2, <1>3, <1>4, <1>5, <1>8, Settled

\* A process exits: its living children go to init, which lives.
LEMMA ExitKeeps == ASSUME Inv, NEW code \in Codes, SysExit(code) PROVE Inv'
<1> DEFINE P == process_exit(processes, code)
           Q == IF Runnable(P) = {} THEN process_check_signal(P, current) ELSE P
<1>0. /\ call[current] = InUser /\ current # InitSlot /\ exited' = exited \cup {MyPid}
      /\ UNCHANGED <<next_pid, run_queue, result>>
      /\ \/ g_elf_jmp.valid /\ UseBuffer(P, call, code)
         \/ ~g_elf_jmp.valid /\ Schedule(Q, Exited)
  BY DEF SysExit, InUserMode
<1>1. /\ processes \in Table /\ current \in Slots /\ MyPid \notin exited
      /\ processes[current].pid = MyPid /\ processes[current].state # "free"
      /\ code \in ExitCodes /\ last_words \in WordsT /\ Rest /\ Exited \in Calls
  BY <1>0, NotExited, CallsDiffer DEF ExitCodes, Inv, Rest, Calls
<1>2. /\ P \in Table
      /\ \A s \in Slots :
           /\ P[s].pid = processes[s].pid
           /\ P[s].state = IF s = current THEN "zombie" ELSE processes[s].state
           /\ P[s].parent_pid =
                IF /\ s # current /\ processes[s].state = "alive"
                   /\ processes[s].parent_pid = processes[current].pid
                   /\ processes[s].pid # 1
                THEN 1 ELSE processes[s].parent_pid
  BY <1>1, ExitTable
<1> HIDE DEF P
<1>3. Older(processes, P)
  BY <1>0, <1>1, <1>2, SlotFacts DEF Older
<1>4. Good(P, call, current, g_elf_jmp, next_pid, exited)
  BY <1>2, <1>3, OlderGood DEF Inv
<1>5. MyPid \in Pids /\ MyPid < next_pid /\ MyPid # 0
  BY <1>1 DEF Inv, Good, TableOk, Pids
<1>6. \A s \in Slots : s # current => processes[s].pid # MyPid
  BY <1>1, <1>5 DEF Inv, Good, TableOk
<1>7. MyPid # 1 /\ \A s \in Slots \ {InitSlot} : processes[s].pid # 1
  BY <1>0, <1>1, SlotFacts DEF Inv, Good, TableOk
<1>8. Good(P, call, current, g_elf_jmp, next_pid', exited')
  <2>1. \A s \in Slots : P[s].pid \in exited' =>
          P[s].state = "zombie" /\ (s # current => call[s] = Exited)
    BY <1>0, <1>2, <1>4, <1>6 DEF Good
  <2>2. \A s \in Slots \ {InitSlot} : P[s].state = "alive" => P[s].parent_pid \notin exited'
    <3> SUFFICES ASSUME NEW s \in Slots \ {InitSlot}, P[s].state = "alive"
                 PROVE  P[s].parent_pid # MyPid /\ P[s].parent_pid \notin exited
      BY <1>0
    <3>1. P[s].parent_pid \notin exited
      BY <1>4 DEF Good
    <3>2. s # current /\ processes[s].state = "alive" /\ processes[s].pid # 1
      BY <1>2, <1>7
    <3>3. P[s].parent_pid # MyPid
      BY <1>1, <1>2, <1>7, <3>2
    <3> QED BY <3>1, <3>3
  <2>3. exited' \subseteq Pids /\ \A p \in exited' : p < next_pid /\ p # 1
    BY <1>0, <1>4, <1>5, <1>7 DEF Good
  <2> QED BY <1>0, <1>4, <2>1, <2>2, <2>3 DEF Good
<1>9. CASE g_elf_jmp.valid /\ UseBuffer(P, call, code)
  BY <1>0, <1>1, <1>8, <1>9, CallsDiffer, UseBufferKeeps
<1>10. CASE Schedule(Q, Exited)
  <2>1. P[current].state # "free"
    BY <1>1, <1>2
  <2>2. Q \in Table /\ Older(P, Q)
    BY <1>1, <1>2, <2>1, CheckOlder, SameOlder
  <2> HIDE DEF Q
  <2>3. Good(Q, call, current, g_elf_jmp, next_pid', exited')
    BY <1>8, <2>2, OlderGood
  <2> QED BY <1>0, <1>1, <1>10, <2>3, CallsDiffer, ScheduleKeeps
<1> QED BY <1>0, <1>9, <1>10

LEMMA WaitKeeps ==
  ASSUME Inv, NEW pid \in Pids \cup {AnyChild}, NEW nohang, WaitScan(pid, nohang),
         call[current] \notin {Exited, Spawning}, UNCHANGED <<next_pid, run_queue, exited>>
  PROVE  Inv'
<1>1. processes \in Table /\ run_queue' \subseteq Slots /\ result \in ResultT
  BY DEF Inv, Good, TableOk
<1>2. CASE /\ \E s \in Slots :
                /\ First(s, DeadChildren(pid))
                /\ result' = [asked |-> pid, pid |-> processes[s].pid,
                              status |-> processes[s].exit_code]
           /\ Return(processes, call)
  <2>1. PICK s \in Slots :
          result' = [asked |-> pid, pid |-> processes[s].pid, status |-> processes[s].exit_code]
    BY <1>2
  <2>2. processes[s] \in ProcessT
    BY <1>1 DEF Table
  <2>3. pid \in {AnyChild} \cup 0 .. MaxPid
    BY DEF Pids
  <2>4. result' \in ResultT
    BY <2>1, <2>2, <2>3 DEF ProcessT, ResultT
  <2> QED BY <1>1, <1>2, <2>4, SameReturn DEF Rest
<1>3. CASE Return(processes, call) /\ UNCHANGED result
  BY <1>1, <1>3, SameReturn DEF Rest
<1>4. CASE Schedule(processes, pid) /\ UNCHANGED result
  <2>1. pid \in Calls
    BY DEF Calls, Pids
  <2> QED BY <1>1, <1>4, <2>1, SameSchedule DEF Rest
<1> QED BY <1>2, <1>3, <1>4 DEF WaitScan

LEMMA InvInit == Init => Inv
<1> SUFFICES ASSUME Init PROVE Inv
  OBVIOUS
<1>1. Blank \in ProcessT
  BY ProcessConstants DEF Blank, ProcessT, ExitCodes, Handlers
<1>2. [Blank EXCEPT !.pid = 1, !.state = "alive"] \in ProcessT
  <2>1. 1 \in 0 .. MaxPid
    BY ProcessConstants
  <2> QED BY <1>1, <2>1 DEF ProcessT, Blank
<1>3. processes \in Table
  BY <1>1, <1>2 DEF Init, Table
<1>4. \A s \in Slots : /\ processes[s].pid = IF s = InitSlot THEN 1 ELSE 0
                       /\ processes[s].state = IF s = InitSlot THEN "alive" ELSE "free"
  BY DEF Init, Blank
<1>5. TableOk(processes, 2)
  BY <1>3, <1>4, SlotFacts DEF TableOk
<1>6. g_elf_jmp \in JmpT /\ current = InitSlot /\ exited = {} /\ ~g_elf_jmp.valid
  BY SlotFacts DEF Init, JmpT
<1>7. \A s \in {current, g_elf_jmp.starter, g_elf_jmp.child} : processes[s].state # "free"
  BY <1>4, SlotFacts DEF Init
<1>8. next_pid = 2 /\ 2 \in 2 .. (MaxPid + 1) /\ call \in [Slots -> Calls]
  BY ProcessConstants DEF Init, Calls
<1>9. Good(processes, call, current, g_elf_jmp, next_pid, exited)
  BY <1>5, <1>6, <1>7, <1>8, <1>4, SlotFacts DEF Good
<1>10. result \in ResultT
  BY ProcessConstants DEF Init, ResultT, ExitCodes
<1>11. last_words \in WordsT
  BY DEF Init, WordsT, Pids
<1>12. run_queue \subseteq Slots /\ Recorded
  BY <1>4 DEF Init, Recorded
<1> QED BY <1>6, <1>9, <1>10, <1>11, <1>12 DEF Inv

LEMMA InvInductive == Inv /\ [Next]_vars => Inv'
<1> SUFFICES ASSUME Inv, [Next]_vars PROVE Inv'
  OBVIOUS
<1>0. /\ processes \in Table /\ current \in Slots /\ call \in [Slots -> Calls]
      /\ run_queue \subseteq Slots /\ result \in ResultT /\ processes[InitSlot].pid = 1
      /\ call[current] = InUser => call[current] \notin {Exited, Spawning}
  BY CallsDiffer DEF Inv, Good, TableOk
<1>1. CASE Preempt
  <2>1. /\ processes[current'].state = "alive" /\ current' \in Slots
        /\ call[current] \in {InUser, Exited}
        /\ UNCHANGED <<processes, next_pid, call, run_queue, g_elf_jmp, result, history>>
    BY <1>1 DEF Preempt, Runnable, Alive
  <2>2. \A s \in Slots : processes[s].pid \in exited =>
          processes[s].state = "zombie" /\ call[s] = Exited
    BY DEF Inv, Good, MyPid
  <2>3. Good(processes, call, current', g_elf_jmp, next_pid, exited)
    BY <2>1, <2>2 DEF Inv, Good
  <2> QED BY <2>1, <2>2, <2>3 DEF Inv, Recorded, MyPid, history
<1>2. CASE SysFork
  <2>1. PICK s \in Slots :
          /\ NewSlot(s) /\ ~StackInUse(s)
          /\ run_queue' \in {run_queue, run_queue \cup {s}}
          /\ Return(process_create(s, "NULL"), [call EXCEPT ![s] = AtZero])
    BY <1>2 DEF SysFork
  <2>2. /\ call[current] = InUser /\ next_pid' = NextPid(next_pid)
        /\ UNCHANGED <<result, exited>>
    BY <1>2 DEF SysFork, InProgram, InUserMode
  <2>3. Rest
    BY <1>0, <2>1, <2>2 DEF Rest
  <2> QED BY <2>1, <2>2, <2>3, ForkKeeps
<1>3. CASE UsermodeRun
  <2>1. PICK s \in Slots :
          /\ NewSlot(s) /\ ~StackInUse(s)
          /\ run_queue' \in {run_queue, run_queue \cup {s}}
          /\ Return(process_create(s, "userprog"), [call EXCEPT ![s] = InUser])
    BY <1>3 DEF UsermodeRun
  <2>2. /\ call[current] = InUser /\ next_pid' = NextPid(next_pid)
        /\ UNCHANGED <<result, exited>>
    BY <1>3 DEF UsermodeRun, InInit
  <2>3. Rest
    BY <1>0, <2>1, <2>2 DEF Rest
  <2> QED BY <2>1, <2>2, <2>3, ForkKeeps
<1>4. CASE Spawn
  BY <1>4, SpawnKeeps
<1>5. CASE SpawnFails
  BY <1>5, SpawnFailsKeeps
<1>6. CASE CreateOnStackInUse
  BY <1>6, CreateOnStackKeeps
<1>7. ASSUME NEW code \in Codes, SysExit(code) PROVE Inv'
  BY <1>7, ExitKeeps
<1>8. CASE SysYield
  <2>1. Yielded \in Calls
    BY DEF Calls
  <2> QED BY <1>0, <1>8, <2>1, SameSchedule DEF SysYield, InUserMode, Rest
<1>9. CASE YieldReturn
  BY <1>0, <1>9, CallsDiffer, SameReturn DEF YieldReturn, Rest
<1>10. CASE SysOther
  BY <1>0, <1>10, SameReturn DEF SysOther, InUserMode, Rest
<1>11. ASSUME NEW pid \in Pids, SysKill(pid) PROVE Inv'
  <2>1. process_kill(pid) \in Table /\ Older(processes, process_kill(pid))
    BY <1>0, KillOlder
  <2>2. Return(process_kill(pid), call) /\ call[current] = InUser /\ Rest
    BY <1>0, <1>11 DEF SysKill, InProgram, InUserMode, InInit, Rest
  <2> QED BY <1>0, <1>11, <2>1, <2>2, OlderReturn DEF SysKill
<1>12. ASSUME NEW pid \in Pids, NEW sig \in AllSigs, SysSignal(pid, sig) PROVE Inv'
  <2> DEFINE P == process_signal(processes, pid, sig)
  <2>1. P \in Table /\ Older(processes, P)
    BY <1>0, SignalOlder
  <2>2. Return(P, call) /\ call[current] = InUser /\ Rest
    BY <1>0, <1>12 DEF SysSignal, InProgram, InUserMode, Rest
  <2> HIDE DEF P
  <2> QED BY <1>0, <1>12, <2>1, <2>2, OlderReturn DEF SysSignal
<1>13. ASSUME NEW sig \in Sigs, CtrlC(sig) PROVE Inv'
  <2>1. sig \in AllSigs
    BY DEF AllSigs
  <2>2. /\ processes' = process_signal(processes, MyPid, sig)
        /\ UNCHANGED <<next_pid, current, call, run_queue, g_elf_jmp, result, history>>
    BY <1>13 DEF CtrlC
  <2>3. /\ processes' \in Table
        /\ \A s \in Slots : /\ processes'[s].pid = processes[s].pid
                            /\ processes'[s].state = processes[s].state
                            /\ processes'[s].exit_code = processes[s].exit_code
    BY <1>0, <2>1, <2>2, SignalTable
  <2>4. Older(processes, processes')
    BY <1>0, <2>1, <2>2, SignalOlder
  <2>5. Good(processes', call, current, g_elf_jmp, next_pid, exited)
    BY <2>3, <2>4, OlderGood DEF Inv
  <2>6. Recorded' /\ MyPid' = MyPid
    BY <1>0, <2>2, <2>3 DEF Inv, Recorded, history, MyPid
  <2> QED BY <2>2, <2>5, <2>6 DEF Inv, history
<1>14. ASSUME NEW sig \in AllSigs, NEW handler \in Handlers,
              process_sigaction(sig, handler)
       PROVE  Inv'
  <2> DEFINE P == [processes EXCEPT ![current].sig_handlers =
                     [processes[current].sig_handlers EXCEPT ![sig] = handler]]
  <2>1. /\ P \in Table
        /\ \A s \in Slots : /\ P[s].pid = processes[s].pid
                            /\ P[s].parent_pid = processes[s].parent_pid
                            /\ P[s].state = processes[s].state
    BY <1>0, ZenonT(40) DEF Table, ProcessT
  <2>2. /\ Return(P, call) /\ call[current] = InUser /\ Rest
        /\ UNCHANGED <<next_pid, exited>>
    BY <1>0, <1>14 DEF process_sigaction, InProgram, InUserMode, Rest
  <2> HIDE DEF P
  <2>3. Older(processes, P)
    BY <2>1, SlotFacts DEF Older
  <2> QED BY <1>0, <2>1, <2>2, <2>3, OlderReturn
<1>15. ASSUME NEW pid \in Pids \cup {AnyChild}, NEW nohang \in BOOLEAN,
              SysWaitpid(pid, nohang)
       PROVE  Inv'
  BY <1>0, <1>15, WaitKeeps DEF SysWaitpid, InProgram, InUserMode
<1>16. CASE WaitRetry
  <2>1. call[current] \in Pids \cup {AnyChild} /\ call[current] \notin {Exited, Spawning}
    BY <1>16 DEF WaitRetry, Pids, AnyChild, Exited, Spawning
  <2> QED BY <1>16, <2>1, WaitKeeps DEF WaitRetry
<1>17. CASE UNCHANGED vars
  BY <1>17 DEF vars, history, Inv, Recorded, MyPid
<1> QED BY <1>1, <1>2, <1>3, <1>4, <1>5, <1>6, <1>7, <1>8, <1>9, <1>10, <1>11, <1>12,
           <1>13, <1>14, <1>15, <1>16, <1>17 DEF Next

LEMMA InvAlways == Spec => []Inv
  BY InvInit, InvInductive, PTL DEF Spec

-----------------------------------------------------------------------------
(***************************************************************************)
(* The theorems.                                                           *)
(***************************************************************************)

\* Every entry of the process table is well-typed after any sequence of
\* spawns, forks, exits, kills, signals and waits (process/process.c).
THEOREM ProcessTypes == Spec => []TypeOK
<1>1. Inv => TypeOK
  BY DEF Inv, Good, TableOk, Table, JmpT, ResultT, WordsT, TypeOK
<1> QED BY <1>1, InvAlways, PTL

\* No two processes of the table ever share a pid, whatever is created, killed,
\* signalled, waited for and recycled in whatever order (process/process.c).
THEOREM PidsStayUnique == Spec => []PidsUnique
<1>1. Inv => PidsUnique
  BY DEF Inv, Good, TableOk, PidsUnique
<1> QED BY <1>1, InvAlways, PTL

\* process_exit hands the living children of the process to init, and nobody
\* becomes its child later: one that exited makes no more system calls, and its
\* slot is taken with a new pid (process/process.c).
THEOREM NoOrphans == Spec => []OrphansAdopted
<1>1. Inv => OrphansAdopted
  BY DEF Inv, Good, OrphansAdopted, Alive
<1> QED BY <1>1, InvAlways, PTL

\* Only the scan that found a dead child changes the answer.
LEMMA ScanReports ==
  ASSUME Inv, NEW pid \in Pids \cup {AnyChild}, NEW nohang, WaitScan(pid, nohang),
         result' # result
  PROVE  /\ result'.asked \in {AnyChild, result'.pid}
         /\ last_words[result'.pid] = result'.status
<1>1. PICK s \in Slots : /\ s \in DeadChildren(pid)
                         /\ result' = [asked |-> pid, pid |-> processes[s].pid,
                                       status |-> processes[s].exit_code]
  BY DEF WaitScan, First
<1>2. processes[s].state = "zombie" /\ (pid > 0 => processes[s].pid = pid)
  BY <1>1 DEF DeadChildren, Zombies
<1>3. pid = AnyChild \/ pid > 0
  BY DEF Pids
<1> QED BY <1>1, <1>2, <1>3 DEF Inv, Recorded

\* process_waitpid never mixes children up, however long zombies linger and
\* slots are recycled: the argument is that the exit codes of the zombies in
\* the table are those they died with.
THEOREM WaitsReportRight == Spec => WaitReports
<1>1. Inv /\ [Next]_vars =>
        [result' # result =>
           /\ result'.asked \in {AnyChild, result'.pid}
           /\ last_words[result'.pid] = result'.status]_vars
  <2> SUFFICES ASSUME Inv, Next, result' # result
               PROVE  /\ result'.asked \in {AnyChild, result'.pid}
                      /\ last_words[result'.pid] = result'.status
    OBVIOUS
  <2>1. CASE \E pid \in Pids \cup {AnyChild}, nohang \in BOOLEAN : SysWaitpid(pid, nohang)
    BY <2>1, ScanReports DEF SysWaitpid
  <2>2. CASE WaitRetry
    <3>1. call[current] \in Pids \cup {AnyChild}
      BY <2>2 DEF WaitRetry, Pids
    <3> QED BY <2>2, <3>1, ScanReports DEF WaitRetry
  <2>3. \/ \E pid \in Pids \cup {AnyChild}, nohang \in BOOLEAN : SysWaitpid(pid, nohang)
        \/ WaitRetry
    BY DEF Next, Preempt, SysFork, UsermodeRun, Spawn, SpawnFails, CreateOnStackInUse,
           SysExit, SysYield, YieldReturn, SysOther, SysKill, SysSignal, CtrlC,
           process_sigaction
  <2> QED BY <2>1, <2>2, <2>3
<1> QED BY <1>1, InvAlways, PTL DEF Spec, WaitReports
=============================================================================
