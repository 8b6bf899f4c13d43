-------------------------------- MODULE Pipe --------------------------------
(***************************************************************************)
(* In-memory pipes of the kernel (fs/pipe.c) as the system calls of        *)
(* cpu/syscall.c drive them.                                               *)
(*                                                                         *)
(* int 0x80 is an interrupt gate, so a system call runs with interrupts    *)
(* disabled and is atomic from its entry, or from the return of a          *)
(* schedule() inside it, up to the next schedule() or to its end.  Each    *)
(* action below is one such stretch.  A process whose transfer called      *)
(* schedule() keeps the pointer p to its pipe_t on its kernel stack: here  *)
(* the slot number stays in proc[q].slot, whatever happens to the slot in  *)
(* the meantime.                                                           *)
(*                                                                         *)
(* Descriptors are plain numbers shared by all processes: no table records *)
(* who opened what, so every process may pass every descriptor.            *)
(***************************************************************************)
EXTENDS Integers, Sequences, FiniteSets

CONSTANTS
  Procs,          \* processes that issue system calls
  Data,           \* byte values that are written
  NoByte,         \* the zero that memset leaves in a buffer cell
  PIPE_MAX_OPEN,  \* slots in the pipe table
  PIPE_BUF_SIZE,  \* bytes of one ring buffer
  MaxLen,         \* bound: longest transfer a process asks for
  MaxGen,         \* bound: pipes created in one slot
  MayExit,        \* processes that terminate through SYS_EXIT
  MayBeKilled     \* processes that SYS_KILL or a fault may take away

ASSUME PipeConstants ==
  /\ PIPE_MAX_OPEN \in Nat \ {0}
  /\ PIPE_BUF_SIZE \in Nat \ {0}
  /\ MaxLen \in Nat
  /\ MaxGen \in Nat
  /\ MayExit \subseteq Procs
  /\ MayBeKilled \subseteq Procs
  /\ NoByte \notin Data

VARIABLES
  pipes,   \* the table: ring buffer, flags and pipe_used of every slot
  proc,    \* per process: the transfer it is in, or the last one it did
  gen      \* history: how many pipes each slot has hosted

vars == <<pipes, proc, gen>>

PIPE_FD_BASE   == 100
PIPE_FD_STRIDE == 2

Slots == 0 .. (PIPE_MAX_OPEN - 1)
Cells == 0 .. (PIPE_BUF_SIZE - 1)
Fds   == PIPE_FD_BASE .. (PIPE_FD_BASE + PIPE_FD_STRIDE * PIPE_MAX_OPEN - 1)

fd_to_slot(fd)   == (fd - PIPE_FD_BASE) \div PIPE_FD_STRIDE
pipe_fd_type(fd) == IF (fd - PIPE_FD_BASE) % PIPE_FD_STRIDE = 0 THEN "R" ELSE "W"

Lesser(a, b) == IF a <= b THEN a ELSE b

(***************************************************************************)
(* A pipe_t with its pipe_used flag.                                       *)
(***************************************************************************)
PipeT ==
  [buf : [Cells -> Data \cup {NoByte}], head : Cells, tail : Cells,
   used : 0 .. PIPE_BUF_SIZE, write_closed : BOOLEAN, read_closed : BOOLEAN,
   refcount : 0 .. 2, pipe_used : BOOLEAN]

ZeroPipe ==
  [buf |-> [c \in Cells |-> NoByte], head |-> 0, tail |-> 0, used |-> 0,
   write_closed |-> FALSE, read_closed |-> FALSE, refcount |-> 0,
   pipe_used |-> FALSE]

pipe_is_pipe(fd) == pipes[fd_to_slot(fd)].pipe_used

(***************************************************************************)
(* The bytes in the ring, oldest first.                                    *)
(***************************************************************************)
Contents(P) ==
  [i \in 1 .. P.used |-> P.buf[(P.head + i - 1) % PIPE_BUF_SIZE]]

(***************************************************************************)
(* The copy loops: n bytes leave at head, or the first n bytes of src      *)
(* enter at tail.                                                          *)
(***************************************************************************)
TakeBytesKeepsUsed(P, n) ==
  [P EXCEPT !.head = (P.head + n) % PIPE_BUF_SIZE]

TakeBytes(P, n) ==
  [P EXCEPT !.head = (P.head + n) % PIPE_BUF_SIZE, !.used = P.used - n]

\* The buffer after the first n bytes of src were stored from cell pos on.
Stored(P, src, n, pos) ==
  [c \in Cells |->
     LET k == (c + PIPE_BUF_SIZE - pos) % PIPE_BUF_SIZE
     IN  IF k < n THEN src[k + 1] ELSE P.buf[c]]

PutBytesAtHead(P, src, n) ==
  [P EXCEPT !.buf = Stored(P, src, n, P.head),
            !.tail = (P.tail + n) % PIPE_BUF_SIZE, !.used = P.used + n]

PutBytes(P, src, n) ==
  [P EXCEPT !.buf = Stored(P, src, n, P.tail),
            !.tail = (P.tail + n) % PIPE_BUF_SIZE, !.used = P.used + n]

(***************************************************************************)
(* A call record: the operation in progress ("read" and "write" are        *)
(* blocked in schedule(), "idle" is in user mode, "zombie" never runs      *)
(* again), its slot, the bytes asked for, the bytes moved so far, the      *)
(* bytes still to be written, the value returned, and (history) which of   *)
(* the slot's pipes a call in progress was made on.                        *)
(***************************************************************************)
Idle == [op |-> "idle", call |-> "none", slot |-> 0, len |-> 0, data |-> <<>>,
         ret |-> 0, gen |-> 0]

CallT ==
  [op : {"idle", "read", "write", "zombie"}, call : {"none", "read", "write"},
   slot : Slots, len : 0 .. MaxLen,
   data : Seq(Data \cup {NoByte}), ret : -1 .. MaxLen, gen : 0 .. MaxGen]

Call(op, kind, s, len, data, ret) ==
  [op |-> op, call |-> kind, slot |-> s, len |-> len, data |-> data,
   ret |-> ret, gen |-> gen[s]]

Init ==
  /\ pipes = [s \in Slots |-> ZeroPipe]
  /\ proc = [q \in Procs |-> Idle]
  /\ gen = [s \in Slots |-> 0]

-----------------------------------------------------------------------------
(***************************************************************************)
(* SYS_PIPE: the first free slot, zeroed, with both ends counted.          *)
(***************************************************************************)
FreeSlots == {s \in Slots : ~pipes[s].pipe_used}

pipe_create(s) ==
  /\ s \in FreeSlots
  /\ \A t \in FreeSlots : s <= t
  /\ gen[s] < MaxGen
  /\ pipes' = [pipes EXCEPT ![s] = [ZeroPipe EXCEPT !.refcount = 2,
                                                    !.pipe_used = TRUE]]
  /\ gen' = [gen EXCEPT ![s] = @ + 1]

SysPipe(q) ==
  /\ proc[q].op = "idle"
  /\ \E s \in Slots : pipe_create(s)
  /\ UNCHANGED proc

(***************************************************************************)
(* One stretch of pipe_read's loop: drain what is there, then return when  *)
(* satisfied or at end of file, else yield.                                *)
(***************************************************************************)
ReadLoop(q, c, eof) ==
  LET P    == pipes[c.slot]
      n    == Lesser(P.used, c.len - Len(c.data))
      got  == c.data \o SubSeq(Contents(P), 1, n)
      done == Len(got) = c.len \/ eof
  IN  /\ pipes' = [pipes EXCEPT ![c.slot] = TakeBytes(P, n)]
      /\ proc' = [proc EXCEPT ![q] =
                    [c EXCEPT !.op = IF done THEN "idle" ELSE "read",
                              !.data = got,
                              !.ret = IF done THEN Len(got) ELSE 0,
                              !.gen = IF done THEN 0 ELSE c.gen]]
      /\ UNCHANGED gen

ReadPassOnce(q, c)         == ReadLoop(q, c, TRUE)
ReadPassIgnoresClose(q, c) == ReadLoop(q, c, FALSE)

ReadPass(q, c) == ReadLoop(q, c, pipes[c.slot].write_closed)

Failed(q, kind, s, len, after) ==
  /\ proc' = [proc EXCEPT ![q] = [Call(after, kind, s, len, <<>>, -1) EXCEPT !.gen = 0]]
  /\ UNCHANGED <<pipes, gen>>

SysRead(q, fd, len) ==
  LET s == fd_to_slot(fd)
  IN  /\ proc[q].op = "idle"
      /\ pipe_is_pipe(fd)
      /\ \/ /\ pipe_fd_type(fd) = "R"
            /\ ReadPass(q, Call("idle", "read", s, len, <<>>, 0))
         \/ /\ pipe_fd_type(fd) # "R"
            /\ Failed(q, "read", s, len, "idle")

ReadResume(q) ==
  /\ proc[q].op = "read"
  /\ ReadPass(q, proc[q])

(***************************************************************************)
(* One stretch of pipe_write's loop.  data holds the bytes still to be     *)
(* sent.  The test of read_closed on entry is SysWrite's; inside the loop  *)
(* it is only made while the ring is full.                                 *)
(***************************************************************************)
WriteLoop(q, c, gone) ==
  LET P    == pipes[c.slot]
      n    == Lesser(PIPE_BUF_SIZE - P.used, Len(c.data))
      left == SubSeq(c.data, n + 1, Len(c.data))
      done == left = <<>> \/ gone
  IN  /\ pipes' = [pipes EXCEPT ![c.slot] = PutBytes(P, c.data, n)]
      /\ proc' = [proc EXCEPT ![q] =
                    [c EXCEPT !.op = IF done THEN "idle" ELSE "write",
                              !.data = left,
                              !.ret = IF done THEN c.len - Len(left) ELSE 0,
                              !.gen = IF done THEN 0 ELSE c.gen]]
      /\ UNCHANGED gen

WritePassOnce(q, c)         == WriteLoop(q, c, TRUE)
WritePassIgnoresClose(q, c) == WriteLoop(q, c, FALSE)

WritePass(q, c) == WriteLoop(q, c, pipes[c.slot].read_closed)

(***************************************************************************)
(* A negative result raises SIGPIPE, whose default action ends the process *)
(* before the handler returns, without process_exit and so without         *)
(* closing anything.                                                       *)
(***************************************************************************)
SysWrite(q, fd, src) ==
  LET s == fd_to_slot(fd)
  IN  /\ proc[q].op = "idle"
      /\ pipe_is_pipe(fd)
      /\ \/ /\ pipe_fd_type(fd) = "W"
            /\ ~pipes[s].read_closed
            /\ WritePass(q, Call("idle", "write", s, Len(src), src, 0))
         \/ /\ pipe_fd_type(fd) # "W" \/ pipes[s].read_closed
            /\ Failed(q, "write", s, Len(src), "zombie")

WriteResume(q) ==
  /\ proc[q].op = "write"
  /\ WritePass(q, proc[q])

(***************************************************************************)
(* SYS_PIPE_CLOSE and SYS_FILE_CLOSE: flag the end, drop a reference, and  *)
(* zero the slot when none is left.  An end that is closed already is not  *)
(* told from an open one.                                                  *)
(***************************************************************************)
Unref(P, end) ==
  [P EXCEPT !.read_closed  = @ \/ end = "R",
            !.write_closed = @ \/ end = "W",
            !.refcount     = @ - 1]

pipe_close_late(P, end) ==
  CASE ~P.pipe_used                  -> P
    [] P.pipe_used /\ P.refcount < 1 -> ZeroPipe
    [] OTHER                         -> Unref(P, end)

pipe_close(P, end) ==
  CASE ~P.pipe_used                   -> P
    [] P.pipe_used /\ P.refcount <= 1 -> ZeroPipe
    [] OTHER                          -> Unref(P, end)

SysPipeClose(q, fd) ==
  LET s == fd_to_slot(fd)
      e == pipe_fd_type(fd)
  IN  /\ proc[q].op = "idle"
      /\ pipe_is_pipe(fd)
      /\ pipes' = [pipes EXCEPT ![s] = pipe_close(@, e)]
      /\ UNCHANGED <<proc, gen>>

(***************************************************************************)
(* SYS_EXIT: process_exit calls fd_cleanup_process, whose loop over all    *)
(* pipe descriptors closes both ends of every open pipe.                   *)
(***************************************************************************)
fd_cleanup_process ==
  pipes' = [s \in Slots |-> pipe_close(pipe_close(pipes[s], "R"), "W")]

SysExit(q) ==
  /\ q \in MayExit
  /\ proc[q].op = "idle"
  /\ fd_cleanup_process
  /\ proc' = [proc EXCEPT ![q] = [Idle EXCEPT !.op = "zombie"]]
  /\ UNCHANGED gen

(***************************************************************************)
(* process_kill, or the default action of a signal: only the state changes. *)
(* A transfer that is blocked stays where it is for good.                  *)
(***************************************************************************)
Killed(q) ==
  /\ q \in MayBeKilled
  /\ proc[q].op # "zombie"
  /\ proc' = [proc EXCEPT ![q] = [Idle EXCEPT !.op = "zombie"]]
  /\ UNCHANGED <<pipes, gen>>

Sources == UNION {[1 .. n -> Data] : n \in 0 .. MaxLen}

Next ==
  \E q \in Procs :
    \/ SysPipe(q)
    \/ \E fd \in Fds, len \in 0 .. MaxLen : SysRead(q, fd, len)
    \/ \E fd \in Fds, src \in Sources : SysWrite(q, fd, src)
    \/ ReadResume(q)
    \/ WriteResume(q)
    \/ \E fd \in Fds : SysPipeClose(q, fd)
    \/ SysExit(q)
    \/ Killed(q)

\* q is the only process inside a yield loop of the kernel.
OnlySpinner(q) == \A r \in Procs \ {q} : proc[r].op \notin {"read", "write"}

(***************************************************************************)
(* A process that yielded inside a transfer stays in the run queue, and a  *)
(* yield only ever raises its effective priority, so it gets the CPU again *)
(* as long as nobody else yields in the kernel too (another yield loop at  *)
(* a better priority may keep the CPU for itself: see module Scheduler).   *)
(***************************************************************************)
Fairness ==
  \A q \in Procs : /\ WF_vars(ReadResume(q) /\ OnlySpinner(q))
                   /\ WF_vars(WriteResume(q) /\ OnlySpinner(q))

Spec == Init /\ [][Next]_vars
FairSpec == Spec /\ Fairness
-----------------------------------------------------------------------------
(***************************************************************************)
(* Properties.                                                             *)
(***************************************************************************)

\* Every variable of the pipe table, of the calls in progress and of the
\* history stays in its type (pipe_t in fs/pipe.h).
TypeOK ==
  /\ pipes \in [Slots -> PipeT]
  /\ proc \in [Procs -> CallT]
  /\ \A q \in Procs : Len(proc[q].data) <= proc[q].len
  /\ gen \in [Slots -> 0 .. MaxGen]

\* The three ring fields always agree: tail is used cells past head, modulo
\* the size, through partial transfers, wrap-around, resets of a slot under a
\* blocked process, and a write that resumes into a slot already given back.
RingConsistent ==
  \A s \in Slots :
    LET P == pipes[s] IN P.tail = (P.head + P.used) % PIPE_BUF_SIZE

\* The reference count is what keeps a slot alive: a slot is in use exactly
\* while references are left, and a slot with both references has no closed
\* end (pipe_create, pipe_close).
RefcountKeepsSlot ==
  \A s \in Slots :
    LET P == pipes[s]
    IN  /\ P.pipe_used <=> P.refcount > 0
        /\ P.refcount = 2 => ~P.read_closed /\ ~P.write_closed
        /\ P.refcount = 1 => P.read_closed \/ P.write_closed

\* pipe_read gives back fewer bytes than asked for only at end of file: the
\* write end is closed and not one byte is left behind in the ring.
ShortReadOnlyAtEof ==
  [][\A q \in Procs :
       (/\ proc'[q] # proc[q]
        /\ proc'[q].op = "idle"
        /\ proc'[q].call = "read"
        /\ proc'[q].ret \in 0 .. (proc'[q].len - 1))
       => LET P == pipes'[proc'[q].slot] IN P.write_closed /\ P.used = 0]_vars

\* pipe_write gives up on part of its bytes only when the read end is closed
\* and the ring has no room: it never drops bytes that would still fit.
ShortWriteOnlyWhenFull ==
  [][\A q \in Procs :
       (/\ proc'[q] # proc[q]
        /\ proc'[q].op = "idle"
        /\ proc'[q].call = "write"
        /\ proc'[q].ret \in 0 .. (proc'[q].len - 1))
       => LET P == pipes'[proc'[q].slot]
          IN  P.read_closed /\ P.used = PIPE_BUF_SIZE]_vars

\* The table implements one bounded byte queue per slot (PipeFifo): nothing
\* is lost, duplicated or reordered between a write and a read, however the
\* two are cut into pieces by the ring's capacity and by schedule().
Fifo == INSTANCE PipeFifo WITH
  Readers  <- Procs,
  Capacity <- PIPE_BUF_SIZE,
  queue    <- [s \in Slots |-> Contents(pipes[s])],
  got      <- [q \in Procs |-> IF proc[q].call = "read" THEN proc[q].data ELSE <<>>],
  todo     <- [q \in Procs |-> IF proc[q].call = "write" THEN proc[q].data ELSE <<>>]

ImplementsFifo == Fifo!Spec

\* A reader that waits on an empty pipe does not stay there while the write end
\* is marked closed: it gets end of file, whatever other processes close, exit
\* from or are killed in.  (An exit that clears the mark under it is the subject
\* of ReaderEndsWithItsPipe.)
ReaderSeesEof ==
  \A q \in Procs :
    []<>~(/\ proc[q].op = "read"
          /\ pipes[proc[q].slot].write_closed
          /\ OnlySpinner(q))

\* A writer that waits on a full pipe does not stay there once there is room
\* or the read end has been closed.
WriterNotStuck ==
  \A q \in Procs :
    []<>~(/\ proc[q].op = "write"
          /\ \/ pipes[proc[q].slot].read_closed
             \/ pipes[proc[q].slot].used < PIPE_BUF_SIZE
          /\ OnlySpinner(q))

(***************************************************************************)
(* What comments of the source say of pipes, each refuted by a run.        *)
(***************************************************************************)

\* cpu/syscall.c, fd_cleanup_process: closing all pipes when any process dies
\* "is safe since pipes are transient".  A transfer in progress must then
\* still be working on the pipe it was called on.
TransferKeepsItsPipe ==
  \A q \in Procs :
    proc[q].op \in {"read", "write"} /\ pipes[proc[q].slot].pipe_used
      => gen[proc[q].slot] = proc[q].gen

\* fs/pipe.h: "El lector recibe EOF cuando el extremo de escritura esta cerrado".
\* A reader whose pipe was closed on both ends must then come back.
ReaderEndsWithItsPipe ==
  \A q \in Procs :
    []<>~(/\ proc[q].op = "read"
          /\ ~pipes[proc[q].slot].pipe_used
          /\ OnlySpinner(q))
=============================================================================
