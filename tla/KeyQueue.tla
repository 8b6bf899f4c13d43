------------------------------ MODULE KeyQueue ------------------------------
(***************************************************************************)
(* The input queue of drivers/keyboard.c: the ring that the keyboard and   *)
(* serial interrupts fill and keyboard_getchar empties.                    *)
(*                                                                         *)
(* An interrupt handler runs with interrupts off, so a push is one step.   *)
(* keyboard_getchar turns interrupts on: they come between any two of its  *)
(* steps, also between finding the ring empty and hlt.  One flow reads at  *)
(* a time.  Which key a scancode stands for is left out.                   *)
(***************************************************************************)
EXTENDS Integers, Sequences

CONSTANTS
  BUF_SIZE,   \* cells of the ring
  Keys,       \* key codes
  MaxStdin    \* bound: bytes of a stdin override

ASSUME KeyQueueConstants == BUF_SIZE \in Nat /\ BUF_SIZE > 1 /\ MaxStdin \in Nat

VARIABLES
  kbuf, khead, ktail,
  stdin_left,   \* bytes of the stdin override not read yet
  kq_pc,        \* the reader: "user", "pop", "advance", "empty", "hlt" or "try"
  kq_key,       \* the key it took out, while it advances ktail
  queued        \* history: keys accepted and not handed to the reader yet

kqVars == <<kbuf, khead, ktail, stdin_left, kq_pc, kq_key, queued>>

Cells == 0 .. (BUF_SIZE - 1)
Nothing == ""

\* i plus d cells, around the end of the ring.
Around(i, d) == IF i + d < BUF_SIZE THEN i + d ELSE i + d - BUF_SIZE

KqInit ==
  /\ kbuf \in [Cells -> {Nothing}] /\ khead = 0 /\ ktail = 0
  /\ stdin_left = 0 /\ kq_pc = "user" /\ kq_key = Nothing /\ queued = <<>>

\* A full ring is not noticed.
buf_push_unchecked(key) ==
  /\ kbuf' = [kbuf EXCEPT ![khead] = key]
  /\ khead' = Around(khead, 1)
  /\ queued' = Append(queued, key)
  /\ kq_pc' = IF kq_pc = "hlt" THEN "pop" ELSE kq_pc
  /\ UNCHANGED <<ktail, stdin_left, kq_key>>

\* buf_push in an interrupt: a key that finds the ring full is dropped.  The
\* interrupt ends hlt.
buf_push(key) ==
  /\ IF Around(khead, 1) # ktail
     THEN /\ kbuf' = [kbuf EXCEPT ![khead] = key]
          /\ khead' = Around(khead, 1)
          /\ queued' = Append(queued, key)
     ELSE UNCHANGED <<kbuf, khead, queued>>
  /\ kq_pc' = IF kq_pc = "hlt" THEN "pop" ELSE kq_pc
  /\ UNCHANGED <<ktail, stdin_left, kq_key>>

\* The reader sleeps on.
SleepsOn == kq_pc = "hlt" /\ UNCHANGED kqVars

\* Any other interrupt, the timer above all.
OtherInterrupt ==
  /\ kq_pc = "hlt" /\ kq_pc' = "pop"
  /\ UNCHANGED <<kbuf, khead, ktail, stdin_left, kq_key, queued>>

\* SYS_SPAWN_R gives a program other input, and takes it away at its end.
SetStdin(n) ==
  /\ kq_pc = "user" /\ stdin_left' = n
  /\ UNCHANGED <<kbuf, khead, ktail, kq_pc, kq_key, queued>>

\* keyboard_getchar: a byte of the override if there is one left, a key of
\* the ring otherwise.
Getchar ==
  /\ kq_pc = "user"
  /\ IF stdin_left > 0 THEN stdin_left' = stdin_left - 1 /\ UNCHANGED kq_pc
                       ELSE kq_pc' = "pop" /\ UNCHANGED stdin_left
  /\ UNCHANGED <<kbuf, khead, ktail, kq_key, queued>>

\* keyboard_try_getchar (SYS_KEY_POLL) gives up on an empty ring.
TryGetchar ==
  /\ kq_pc = "user"
  /\ IF stdin_left > 0 THEN stdin_left' = stdin_left - 1 /\ UNCHANGED kq_pc
                       ELSE kq_pc' = "try" /\ UNCHANGED stdin_left
  /\ UNCHANGED <<kbuf, khead, ktail, kq_key, queued>>

TryEmpty ==
  /\ kq_pc = "try" /\ khead = ktail /\ kq_pc' = "user"
  /\ UNCHANGED <<kbuf, khead, ktail, stdin_left, kq_key, queued>>

\* buf_pop: the key is read, and then ktail advanced.
PopEmpty ==
  /\ kq_pc = "pop" /\ khead = ktail /\ kq_pc' = "empty"
  /\ UNCHANGED <<kbuf, khead, ktail, stdin_left, kq_key, queued>>

PopKey ==
  /\ kq_pc \in {"pop", "try"} /\ khead # ktail
  /\ kq_key' = kbuf[ktail] /\ kq_pc' = "advance"
  /\ UNCHANGED <<kbuf, khead, ktail, stdin_left, queued>>

Advance ==
  /\ kq_pc = "advance"
  /\ ktail' = Around(ktail, 1) /\ kq_pc' = "user" /\ kq_key' = Nothing
  /\ queued' = Tail(queued)
  /\ UNCHANGED <<kbuf, khead, stdin_left>>

Hlt ==
  /\ kq_pc = "empty" /\ kq_pc' = "hlt"
  /\ UNCHANGED <<kbuf, khead, ktail, stdin_left, kq_key, queued>>

KqNext ==
  \/ \E k \in Keys : buf_push(k)
  \/ \E n \in 0 .. MaxStdin : SetStdin(n)
  \/ OtherInterrupt \/ Getchar \/ TryGetchar \/ TryEmpty \/ PopEmpty \/ PopKey \/ Advance \/ Hlt

KqSpec == KqInit /\ [][KqNext]_kqVars

\* The reader goes on, and the timer keeps ticking; nobody has to type.
KqFairness == /\ WF_kqVars(PopEmpty) /\ WF_kqVars(PopKey) /\ WF_kqVars(Advance)
              /\ WF_kqVars(Hlt) /\ WF_kqVars(OtherInterrupt)
KqFairSpec == KqSpec /\ KqFairness
----------------------------------------------------------------------------
(* Properties. *)

\* khead and ktail stay in the ring and only keys get into it (keyboard.c).
KqTypeOK ==
  /\ kbuf \in [Cells -> Keys \cup {Nothing}]
  /\ khead \in Cells /\ ktail \in Cells
  /\ stdin_left \in 0 .. MaxStdin
  /\ kq_pc \in {"user", "pop", "advance", "empty", "hlt", "try"}
  /\ kq_key \in Keys \cup {Nothing} /\ queued \in Seq(Keys)

\* What the ring holds from ktail on is what was accepted and not read yet, in
\* that order, however pushes fall between the steps of a pop: no key is lost,
\* doubled or overtaken, also around the end of the array and at a full ring.
KeysInOrder ==
  /\ khead = Around(ktail, Len(queued)) /\ Len(queued) < BUF_SIZE
  /\ \A i \in 1 .. Len(queued) : queued[i] = kbuf[Around(ktail, i - 1)]
  /\ kq_pc = "advance" => queued # <<>> /\ kq_key = queued[1]

\* A key that comes in while the reader waits reaches it, even when it comes
\* between the look at the ring and hlt.
KeyReachesReader == (khead # ktail /\ kq_pc # "user") ~> (kq_pc = "user")
=============================================================================
