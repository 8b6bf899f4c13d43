------------------------------ MODULE PipeFifo ------------------------------
(***************************************************************************)
(* What the pipe table promises, without rings, indices or counters: every *)
(* slot is a bounded first-in first-out queue of bytes.  Bytes enter at    *)
(* the back in the order the writer has them, leave at the front in that   *)
(* order, or are all dropped together when the slot is reset.              *)
(***************************************************************************)
EXTENDS Integers, Sequences

CONSTANTS Readers, Slots, Data, Capacity, MaxLen

VARIABLES
  queue,   \* queue[s]: the bytes that slot s holds, oldest first
  got,     \* got[q]: the bytes process q has read in its current or last read
  todo     \* todo[q]: the bytes process q has not yet handed over

fifoVars == <<queue, got, todo>>

Strings == UNION {[1 .. n -> Data] : n \in 0 .. MaxLen}

Init ==
  /\ queue = [s \in Slots |-> <<>>]
  /\ got = [q \in Readers |-> <<>>]
  /\ todo = [q \in Readers |-> <<>>]

\* A read takes n bytes off the front of a slot's queue, on top of what the
\* same call had already read, or as the first bytes of a new call.
Get(q, s) ==
  /\ todo' = [todo EXCEPT ![q] = <<>>]
  /\ \E n \in 0 .. Len(queue[s]), old \in {got[q], <<>>} :
       /\ got' = [got EXCEPT ![q] = old \o SubSeq(queue[s], 1, n)]
       /\ queue' = [queue EXCEPT ![s] = SubSeq(@, n + 1, Len(@))]

\* A write appends the first bytes of what is to be sent, as far as they fit.
Put(q, s) ==
  /\ got' = [got EXCEPT ![q] = <<>>]
  /\ \E src \in {todo[q]} \cup Strings, n \in 0 .. MaxLen :
       /\ n <= Len(src)
       /\ todo' = [todo EXCEPT ![q] = SubSeq(src, n + 1, Len(src))]
       /\ Len(queue[s]) + n <= Capacity
       /\ queue' = [queue EXCEPT ![s] = @ \o SubSeq(src, 1, n)]

\* A set of slots is reset: all their bytes go at once.
Reset ==
  /\ \E S \in SUBSET Slots :
       queue' = [s \in Slots |-> IF s \in S THEN <<>> ELSE queue[s]]
  /\ UNCHANGED <<got, todo>>

\* A process drops what its call had in hand (it failed or died).
Drop(q) ==
  /\ got' = [got EXCEPT ![q] = <<>>]
  /\ todo' = [todo EXCEPT ![q] = <<>>]
  /\ \E S \in SUBSET Slots :
       queue' = [s \in Slots |-> IF s \in S THEN <<>> ELSE queue[s]]

Next ==
  \/ \E q \in Readers, s \in Slots : Get(q, s) \/ Put(q, s)
  \/ \E q \in Readers : Drop(q)
  \/ Reset

Spec == Init /\ [][Next]_fifoVars
=============================================================================
