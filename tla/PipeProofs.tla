----------------------------- MODULE PipeProofs -----------------------------
(***************************************************************************)
(* Proofs about Pipe, for every number of processes, slots, buffer size    *)
(* and transfer length: the ring's indices and the reference count decide  *)
(* which bytes and which slots are in use; a short read means end of file, *)
(* a short write a full ring; a slot outlives both of its ends; and the    *)
(* table implements PipeFifo, a FIFO per slot.                             *)
(*                                                                         *)
(* Every step of the table is classified once (Steps): a stretch of        *)
(* pipe_read, a stretch of pipe_write, a reset of a slot's contents, or    *)
(* dropping a call.  The action properties and the refinement are then     *)
(* proved kind by kind.                                                    *)
(***************************************************************************)
EXTENDS Pipe, TLAPS, SequenceTheorems

\* The remainder of a natural number is a ring index.
LEMMA ModRange ==
  ASSUME NEW N \in Nat \ {0}, NEW a \in Nat
  PROVE  a % N \in 0 .. (N - 1)
  OBVIOUS

\* What masking does to a sum of two ring quantities: it stays or it wraps
\* around once.
LEMMA ModWrap ==
  ASSUME NEW N \in Nat \ {0}, NEW x \in 0 .. (2 * N - 1)
  PROVE  x % N = IF x < N THEN x ELSE x - N
<1>1. CASE x < N
  BY <1>1
<1>2. CASE x >= N
  BY <1>2
<1> QED BY <1>1, <1>2

\* Masking an index before adding to it changes nothing, as long as the sum
\* goes around the ring at most once.
LEMMA ModAdd ==
  ASSUME NEW N \in Nat \ {0}, NEW a \in Nat, NEW b \in Nat,
         a + b <= 2 * N - 1
  PROVE  ((a % N) + b) % N = (a + b) % N
<1>1. a % N = IF a < N THEN a ELSE a - N
  <2>1. a \in 0 .. (2 * N - 1)
    OBVIOUS
  <2> QED BY <2>1, ModWrap
<1>2. (a + b) % N = IF a + b < N THEN a + b ELSE a + b - N
  <2> DEFINE y == a + b
  <2>1. y \in 0 .. (2 * N - 1)
    OBVIOUS
  <2> HIDE DEF y
  <2>2. y % N = IF y < N THEN y ELSE y - N
    BY <2>1, ModWrap
  <2> QED BY <2>2 DEF y
<1>3. (a % N) + b \in 0 .. (2 * N - 1)
  BY <1>1
<1>4. ((a % N) + b) % N =
         IF (a % N) + b < N THEN (a % N) + b ELSE (a % N) + b - N
  <2> DEFINE y == (a % N) + b
  <2>1. y \in 0 .. (2 * N - 1)
    BY <1>3
  <2> HIDE DEF y
  <2>2. y % N = IF y < N THEN y ELSE y - N
    BY <2>1, ModWrap
  <2> QED BY <2>2 DEF y
<1> QED BY <1>1, <1>2, <1>4

-----------------------------------------------------------------------------
USE PipeConstants

\* One zeroed slot satisfies everything that is said of a slot.
SlotInv(P) ==
  /\ P \in PipeT
  /\ P.tail = (P.head + P.used) % PIPE_BUF_SIZE
  /\ P.pipe_used <=> P.refcount > 0
  /\ P.refcount = 2 => ~P.read_closed /\ ~P.write_closed
  /\ P.refcount = 1 => P.read_closed \/ P.write_closed

LEMMA ZeroPipeInv == SlotInv(ZeroPipe)
<1>1. ZeroPipe \in PipeT
  BY DEF ZeroPipe, PipeT, Cells
<1>2. 0 % PIPE_BUF_SIZE = 0
  OBVIOUS
<1> QED BY <1>1, <1>2 DEF SlotInv, ZeroPipe

LEMMA FreshPipeInv ==
  SlotInv([ZeroPipe EXCEPT !.refcount = 2, !.pipe_used = TRUE])
<1> DEFINE Q == [ZeroPipe EXCEPT !.refcount = 2, !.pipe_used = TRUE]
<1>1. ZeroPipe \in PipeT
  BY ZeroPipeInv DEF SlotInv
<1>2. Q \in PipeT
  <2> DEFINE t == TRUE
             r == 2
  <2>1. t \in BOOLEAN /\ r \in 0 .. 2
    OBVIOUS
  <2>2. Q = [ZeroPipe EXCEPT !.refcount = r, !.pipe_used = t]
    BY Zenon
  <2> HIDE DEF t, r, Q
  <2> QED BY <1>1, <2>1, <2>2 DEF PipeT
<1>3. /\ Q.tail = ZeroPipe.tail /\ Q.head = ZeroPipe.head
      /\ Q.used = ZeroPipe.used /\ Q.refcount = 2 /\ Q.pipe_used = TRUE
      /\ Q.read_closed = ZeroPipe.read_closed
      /\ Q.write_closed = ZeroPipe.write_closed
  BY <1>1 DEF PipeT
<1>4. ~ZeroPipe.read_closed /\ ~ZeroPipe.write_closed
  BY DEF ZeroPipe
<1> QED BY <1>2, <1>3, <1>4, ZeroPipeInv DEF SlotInv

\* Taking n bytes that are there keeps the ring consistent.
LEMMA TakeBytesInv ==
  ASSUME NEW P, SlotInv(P), NEW n \in 0 .. P.used
  PROVE  SlotInv(TakeBytes(P, n))
<1> DEFINE Q == TakeBytes(P, n)
<1>1. /\ P \in PipeT /\ P.head \in Cells /\ P.used \in 0 .. PIPE_BUF_SIZE
      /\ P.tail = (P.head + P.used) % PIPE_BUF_SIZE
      /\ n \in Nat /\ P.head \in Nat /\ P.used \in Nat
  BY DEF SlotInv, PipeT, Cells
<1>2. (P.head + n) % PIPE_BUF_SIZE \in Cells
  <2> DEFINE a == P.head + n
  <2>1. a \in Nat
    BY <1>1
  <2> HIDE DEF a
  <2>2. a % PIPE_BUF_SIZE \in Cells
    BY <2>1, ModRange DEF Cells
  <2> QED BY <2>2 DEF a
<1>3. Q \in PipeT
  <2> DEFINE h == (P.head + n) % PIPE_BUF_SIZE
             u == P.used - n
  <2>1. Q = [P EXCEPT !.head = h, !.used = u]
    BY DEF TakeBytes
  <2>2. h \in Cells /\ u \in 0 .. PIPE_BUF_SIZE
    BY <1>1, <1>2
  <2> HIDE DEF h, u, Q
  <2> QED BY <1>1, <2>1, <2>2 DEF PipeT
<1>4. (((P.head + n) % PIPE_BUF_SIZE) + (P.used - n)) % PIPE_BUF_SIZE
        = (P.head + P.used) % PIPE_BUF_SIZE
  <2> DEFINE a == P.head + n
             b == P.used - n
  <2>1. a \in Nat /\ b \in Nat /\ a + b <= 2 * PIPE_BUF_SIZE - 1
        /\ a + b = P.head + P.used
    BY <1>1 DEF Cells
  <2> HIDE DEF a, b
  <2>2. ((a % PIPE_BUF_SIZE) + b) % PIPE_BUF_SIZE = (a + b) % PIPE_BUF_SIZE
    BY <2>1, ModAdd
  <2> QED BY <2>1, <2>2 DEF a, b
<1>5. Q.tail = (Q.head + Q.used) % PIPE_BUF_SIZE
  BY <1>1, <1>4 DEF TakeBytes, PipeT
<1> QED BY <1>1, <1>3, <1>5 DEF SlotInv, TakeBytes, PipeT

\* Putting n bytes that fit keeps the ring consistent.
LEMMA PutBytesInv ==
  ASSUME NEW P, SlotInv(P), NEW src \in Seq(Data \cup {NoByte}),
         NEW n \in 0 .. Len(src), n <= PIPE_BUF_SIZE - P.used
  PROVE  SlotInv(PutBytes(P, src, n))
<1> DEFINE Q == PutBytes(P, src, n)
<1>1. /\ P \in PipeT /\ P.head \in Cells /\ P.used \in 0 .. PIPE_BUF_SIZE
      /\ P.tail \in Cells /\ P.buf \in [Cells -> Data \cup {NoByte}]
      /\ P.tail = (P.head + P.used) % PIPE_BUF_SIZE
      /\ n \in Nat /\ P.head \in Nat /\ P.used \in Nat /\ P.tail \in Nat
  BY DEF SlotInv, PipeT, Cells
<1>2. (P.tail + n) % PIPE_BUF_SIZE \in Cells
  <2> DEFINE a == P.tail + n
  <2>1. a \in Nat
    BY <1>1
  <2> HIDE DEF a
  <2>2. a % PIPE_BUF_SIZE \in Cells
    BY <2>1, ModRange DEF Cells
  <2> QED BY <2>2 DEF a
<1>3. ASSUME NEW c \in Cells,
             (c + PIPE_BUF_SIZE - P.tail) % PIPE_BUF_SIZE < n
      PROVE  src[((c + PIPE_BUF_SIZE - P.tail) % PIPE_BUF_SIZE) + 1]
               \in Data \cup {NoByte}
  <2> DEFINE k == (c + PIPE_BUF_SIZE - P.tail) % PIPE_BUF_SIZE
  <2>1. c + PIPE_BUF_SIZE - P.tail \in Nat
    <3>1. \A x, y, z \in Nat : z <= y - 1 => x + y - z \in Nat
      OBVIOUS
    <3>2. c \in Nat /\ P.tail \in Nat /\ P.tail <= PIPE_BUF_SIZE - 1
      <4>1. \A x \in Cells : x \in Nat /\ x <= PIPE_BUF_SIZE - 1
        BY DEF Cells
      <4> QED BY <1>1, <4>1
    <3> HIDE <1>1
    <3> QED BY <3>1, <3>2, PipeConstants
  <2>2. k \in 0 .. (PIPE_BUF_SIZE - 1)
    BY <2>1, ModRange
  <2> HIDE DEF k
  <2>3. k + 1 \in 1 .. Len(src)
    BY <1>3, <2>2 DEF k
  <2>4. src[k + 1] \in Data \cup {NoByte}
    BY <2>3
  <2> QED BY <2>4 DEF k
<1>4. [c \in Cells |->
         LET k == (c + PIPE_BUF_SIZE - P.tail) % PIPE_BUF_SIZE
         IN  IF k < n THEN src[k + 1] ELSE P.buf[c]]
        \in [Cells -> Data \cup {NoByte}]
  BY <1>1, <1>3
<1>8. /\ n \in Nat /\ P.used \in Nat /\ P.head \in Nat
      /\ P.head <= PIPE_BUF_SIZE - 1 /\ P.used + n <= PIPE_BUF_SIZE
  BY <1>1 DEF Cells
<1>5. Q \in PipeT
  <2> DEFINE B == [c \in Cells |->
                    LET k == (c + PIPE_BUF_SIZE - P.tail) % PIPE_BUF_SIZE
                    IN  IF k < n THEN src[k + 1] ELSE P.buf[c]]
  <2> DEFINE t == (P.tail + n) % PIPE_BUF_SIZE
             u == P.used + n
  <2>1. Q = [P EXCEPT !.buf = B, !.tail = t, !.used = u]
    BY DEF PutBytes, Stored
  <2>2. /\ B \in [Cells -> Data \cup {NoByte}]
        /\ t \in Cells
        /\ u \in 0 .. PIPE_BUF_SIZE
    <3>1. u \in 0 .. PIPE_BUF_SIZE
      BY <1>8
    <3> QED BY <3>1, <1>2, <1>4, Zenon
  <2> HIDE DEF B, t, u, Q
  <2> QED BY <1>1, <2>1, <2>2 DEF PipeT
<1>6. (P.tail + n) % PIPE_BUF_SIZE = (P.head + (P.used + n)) % PIPE_BUF_SIZE
  <2> DEFINE a == P.head + P.used
  <2>1. /\ a \in Nat /\ a + n = P.head + (P.used + n)
        /\ a + n <= 2 * PIPE_BUF_SIZE - 1
    <3>1. \A h, u, m, z \in Nat :
            h <= z - 1 /\ u + m <= z =>
              /\ h + u \in Nat /\ (h + u) + m = h + (u + m)
              /\ (h + u) + m <= 2 * z - 1
      OBVIOUS
    <3> QED BY <1>8, <3>1, PipeConstants
  <2> HIDE DEF a
  <2>2. ((a % PIPE_BUF_SIZE) + n) % PIPE_BUF_SIZE = (a + n) % PIPE_BUF_SIZE
    BY <1>1, <2>1, ModAdd
  <2> QED BY <1>1, <2>1, <2>2 DEF a
<1>7. /\ Q.tail = (P.tail + n) % PIPE_BUF_SIZE
      /\ Q.head = P.head /\ Q.used = P.used + n
      /\ Q.pipe_used = P.pipe_used /\ Q.refcount = P.refcount
      /\ Q.read_closed = P.read_closed /\ Q.write_closed = P.write_closed
  BY <1>1 DEF PutBytes, PipeT
<1> QED BY <1>5, <1>6, <1>7 DEF SlotInv

\* Closing an end keeps the flags and the reference count together.
LEMMA PipeCloseInv ==
  ASSUME NEW P, SlotInv(P), NEW end \in {"R", "W"}
  PROVE  SlotInv(pipe_close(P, end))
<1> DEFINE Q == Unref(P, end)
<1>1. CASE ~P.pipe_used
  BY <1>1 DEF pipe_close
<1>2. CASE P.pipe_used /\ P.refcount <= 1
  BY <1>2, ZeroPipeInv DEF pipe_close
<1>3. CASE P.pipe_used /\ ~(P.refcount <= 1)
  <2>1. P \in PipeT /\ P.refcount \in 0 .. 2
    BY DEF SlotInv, PipeT
  <2>2. Q.refcount = P.refcount - 1 /\ P.refcount = 2 /\ Q.refcount = 1
    BY <1>3, <2>1 DEF PipeT, Unref
  <2>3. Q \in PipeT
    <3> DEFINE r == P.read_closed \/ end = "R"
               w == P.write_closed \/ end = "W"
               n == P.refcount - 1
    <3>1. P.read_closed \in BOOLEAN /\ P.write_closed \in BOOLEAN
      BY <2>1 DEF PipeT
    <3>2. r \in BOOLEAN /\ w \in BOOLEAN
      BY <3>1, Zenon
    <3>3. n \in 0 .. 2
      BY <2>1, <2>2
    <3>4. Q = [P EXCEPT !.read_closed = r, !.write_closed = w, !.refcount = n]
      BY Zenon DEF Unref
    <3> HIDE DEF r, w, n, Q
    <3> QED BY <2>1, <3>2, <3>3, <3>4 DEF PipeT
  <2>4. /\ Q.tail = P.tail /\ Q.head = P.head /\ Q.used = P.used
        /\ Q.pipe_used = P.pipe_used
        /\ Q.read_closed \/ Q.write_closed
    BY <2>1 DEF PipeT, Unref
  <2>5. SlotInv(Q)
    BY <1>3, <2>2, <2>3, <2>4 DEF SlotInv
  <2> QED BY <1>3, <2>5 DEF pipe_close
<1> QED BY <1>1, <1>2, <1>3

-----------------------------------------------------------------------------
(***************************************************************************)
(* What is in a ring, and what taking and putting bytes does to it.        *)
(***************************************************************************)
Byte == Data \cup {NoByte}

LEMMA ContentsIs ==
  ASSUME NEW P, SlotInv(P)
  PROVE  /\ P.used \in 0 .. PIPE_BUF_SIZE /\ P.head \in Cells
         /\ Contents(P) \in Seq(Byte) /\ Len(Contents(P)) = P.used
         /\ \A i \in 1 .. P.used : Contents(P)[i] = P.buf[(P.head + i - 1) % PIPE_BUF_SIZE]
<1>1. P.used \in 0 .. PIPE_BUF_SIZE /\ P.head \in Cells /\ P.buf \in [Cells -> Byte]
  BY DEF SlotInv, PipeT, Byte
<1>2. ASSUME NEW i \in 1 .. P.used PROVE P.buf[(P.head + i - 1) % PIPE_BUF_SIZE] \in Byte
  <2> DEFINE x == P.head + i - 1
  <2>1. x \in Nat
    BY <1>1 DEF Cells
  <2> HIDE DEF x
  <2>2. x % PIPE_BUF_SIZE \in Cells
    BY <2>1, ModRange DEF Cells
  <2>3. P.buf[x % PIPE_BUF_SIZE] \in Byte
    BY <1>1, <2>2
  <2> QED BY <2>3 DEF x
<1>3. Contents(P) \in [1 .. P.used -> Byte]
  BY <1>2 DEF Contents
<1>4. Contents(P) \in Seq(Byte) /\ Len(Contents(P)) = P.used
  <2> DEFINE u == P.used
             s == Contents(P)
  <2>1. u \in Nat /\ s \in [1 .. u -> Byte]
    BY <1>1, <1>3
  <2> HIDE DEF u, s
  <2>2. s \in Seq(Byte) /\ Len(s) = u
    BY <2>1
  <2> QED BY <2>2 DEF u, s
<1>5. \A i \in 1 .. P.used : Contents(P)[i] = P.buf[(P.head + i - 1) % PIPE_BUF_SIZE]
  BY DEF Contents
<1> QED BY <1>1, <1>4, <1>5

LEMMA EmptyContents ==
  ASSUME NEW P, SlotInv(P), P.used = 0
  PROVE  Contents(P) = <<>>
<1> DEFINE s == Contents(P)
<1>1. s \in Seq(Byte) /\ Len(s) = 0
  BY ContentsIs
<1> HIDE DEF s
<1>2. s = <<>>
  BY <1>1, EmptySeq
<1> QED BY <1>2 DEF s

\* Two sequences of bytes that agree in length and element by element.
LEMMA SameBytes ==
  ASSUME NEW s \in Seq(Byte), NEW t \in Seq(Byte), Len(s) = Len(t),
         \A i \in 1 .. Len(s) : s[i] = t[i]
  PROVE  s = t
  BY SeqEqual

LEMMA SuffixIs ==
  ASSUME NEW s \in Seq(Byte), NEW n \in 0 .. Len(s)
  PROVE  /\ SubSeq(s, n + 1, Len(s)) \in Seq(Byte)
         /\ Len(SubSeq(s, n + 1, Len(s))) = Len(s) - n
         /\ \A i \in 1 .. (Len(s) - n) : SubSeq(s, n + 1, Len(s))[i] = s[n + i]
<1> DEFINE m == n + 1
           e == Len(s)
<1>1. m \in Int /\ e \in Int /\ n \in 0 .. e
  BY LenProperties
<1>2. \A i \in m .. e : s[i] \in Byte
  BY <1>1, ElementOfSeq
<1>3. /\ SubSeq(s, m, e) \in Seq(Byte)
      /\ Len(SubSeq(s, m, e)) = IF m <= e THEN e - m + 1 ELSE 0
      /\ \A i \in 1 .. e - m + 1 : SubSeq(s, m, e)[i] = s[m + i - 1]
  <2> HIDE DEF m, e
  <2> QED BY <1>1, <1>2, SubSeqProperties
<1>4. (IF m <= e THEN e - m + 1 ELSE 0) = e - n /\ e - m + 1 = e - n
  BY <1>1
<1>5. \A i \in 1 .. (e - n) : m + i - 1 = n + i
  BY <1>1
<1> HIDE DEF e
<1>6. \A i \in 1 .. (e - n) : SubSeq(s, m, e)[i] = s[n + i]
  BY <1>3, <1>4, <1>5
<1> QED BY <1>3, <1>4, <1>6 DEF e

LEMMA PrefixIs ==
  ASSUME NEW s \in Seq(Byte), NEW n \in 0 .. Len(s)
  PROVE  /\ SubSeq(s, 1, n) \in Seq(Byte) /\ Len(SubSeq(s, 1, n)) = n
         /\ \A i \in 1 .. n : SubSeq(s, 1, n)[i] = s[i]
<1>1. n \in Int /\ \A i \in 1 .. n : s[i] \in Byte
  BY LenProperties, ElementOfSeq
<1>2. /\ SubSeq(s, 1, n) \in Seq(Byte)
      /\ Len(SubSeq(s, 1, n)) = IF 1 <= n THEN n - 1 + 1 ELSE 0
      /\ \A i \in 1 .. n - 1 + 1 : SubSeq(s, 1, n)[i] = s[1 + i - 1]
  BY <1>1, SubSeqProperties
<1>3. (IF 1 <= n THEN n - 1 + 1 ELSE 0) = n /\ n - 1 + 1 = n /\ \A i \in 1 .. n : 1 + i - 1 = i
  BY <1>1, LenProperties
<1>4. \A i \in 1 .. n : SubSeq(s, 1, n)[i] = s[i]
  BY <1>2, <1>3
<1> QED BY <1>2, <1>3, <1>4

\* The bytes that pipe_read copies are the oldest ones, and the rest stay.
LEMMA TakeContents ==
  ASSUME NEW P, SlotInv(P), NEW n \in 0 .. P.used
  PROVE  Contents(TakeBytes(P, n)) = SubSeq(Contents(P), n + 1, Len(Contents(P)))
<1> DEFINE Q == TakeBytes(P, n)
           s == Contents(P)
           u == P.used
           h == P.head
           N == PIPE_BUF_SIZE
<1>1. /\ u \in 0 .. N /\ h \in 0 .. (N - 1) /\ s \in Seq(Byte) /\ Len(s) = u /\ N \in Nat \ {0}
      /\ \A i \in 1 .. u : s[i] = P.buf[(h + i - 1) % N]
  BY ContentsIs DEF Cells
<1>2. Q.used = u - n /\ Q.head = (h + n) % N /\ Q.buf = P.buf
  BY DEF SlotInv, PipeT, TakeBytes
<1>3. /\ Contents(Q) \in Seq(Byte) /\ Len(Contents(Q)) = Q.used
      /\ \A i \in 1 .. Q.used : Contents(Q)[i] = Q.buf[(Q.head + i - 1) % N]
  <2>1. SlotInv(Q)
    BY TakeBytesInv
  <2> HIDE DEF Q
  <2> QED BY <2>1, ContentsIs
<1> HIDE DEF Q, s, u, h, N
<1>4. /\ SubSeq(s, n + 1, Len(s)) \in Seq(Byte) /\ Len(SubSeq(s, n + 1, Len(s))) = u - n
      /\ \A i \in 1 .. (u - n) : SubSeq(s, n + 1, Len(s))[i] = s[n + i]
  <2>1. n \in 0 .. Len(s)
    BY <1>1 DEF u
  <2> QED BY <1>1, <2>1, SuffixIs
<1>5. ASSUME NEW i \in 1 .. (u - n) PROVE Contents(Q)[i] = s[n + i]
  <2> DEFINE a == h + n
             b == i - 1
  <2>0. n \in 0 .. u
    BY DEF u
  <2>1. /\ a \in Nat /\ b \in Nat /\ a + b <= 2 * N - 1 /\ a + b = h + (n + i) - 1
        /\ n + i \in 1 .. u
    BY <1>1, <2>0
  <2>2. \A x \in Int : x + i - 1 = x + b
    OBVIOUS
  <2> HIDE DEF a, b
  <2>3. ((a % N) + b) % N = (a + b) % N
    BY <1>1, <2>1, ModAdd
  <2>4. a % N \in Int
    BY <1>1, <2>1
  <2>5. Contents(Q)[i] = P.buf[((a % N) + i - 1) % N]
    BY <1>2, <1>3 DEF a
  <2>6. (a % N) + i - 1 = (a % N) + b
    BY <2>2, <2>4
  <2>7. s[n + i] = P.buf[(h + (n + i) - 1) % N]
    BY <1>1, <2>1
  <2> QED BY <2>1, <2>3, <2>5, <2>6, <2>7
<1>6. Contents(Q) = SubSeq(s, n + 1, Len(s))
  <2> DEFINE t == SubSeq(s, n + 1, Len(s))
             c == Contents(Q)
  <2>1. /\ t \in Seq(Byte) /\ c \in Seq(Byte) /\ Len(c) = Len(t)
        /\ \A i \in 1 .. Len(c) : c[i] = t[i]
    BY <1>2, <1>3, <1>4, <1>5
  <2> HIDE DEF t, c
  <2>2. c = t
    BY <2>1, SameBytes
  <2> QED BY <2>2 DEF c, t
<1> QED BY <1>6 DEF Q, s

\* Where byte i of a ring with u bytes from cell h on is stored, counted from
\* the cell after the last byte: behind the n free cells, as n of them are
\* free, or, past the u bytes, in the order it was appended.
ByteAt(N, h, u, n, i, c, t) ==
  /\ N \in Nat \ {0} /\ h \in 0 .. (N - 1) /\ u \in 0 .. N
  /\ n \in 0 .. (N - u) /\ i \in 1 .. (u + n)
  /\ c \in 0 .. (N - 1) /\ c = (h + i - 1) % N
  /\ t \in 0 .. (N - 1) /\ t = (h + u) % N

LEMMA RingDistance ==
  ASSUME NEW N, NEW h, NEW u, NEW n, NEW i, NEW c, NEW t, ByteAt(N, h, u, n, i, c, t)
  PROVE  (c + N - t) % N = IF i <= u THEN N - u + i - 1 ELSE i - u - 1
<1> USE DEF ByteAt
<1>1. t = IF h + u < N THEN h + u ELSE h + u - N
  <2> DEFINE x == h + u
  <2>1. x \in 0 .. (2 * N - 1) /\ t = x % N
    OBVIOUS
  <2> HIDE DEF x
  <2>2. x % N = IF x < N THEN x ELSE x - N
    BY <2>1, ModWrap
  <2> QED BY <2>1, <2>2 DEF x
<1>2. c = IF h + i - 1 < N THEN h + i - 1 ELSE h + i - 1 - N
  <2> DEFINE x == h + i - 1
  <2>1. x \in 0 .. (2 * N - 1) /\ c = x % N
    OBVIOUS
  <2> HIDE DEF x
  <2>2. x % N = IF x < N THEN x ELSE x - N
    BY <2>1, ModWrap
  <2> QED BY <2>1, <2>2 DEF x
<1> DEFINE d == c + N - t
<1>3. d \in 0 .. (2 * N - 1)
  OBVIOUS
<1>4. (IF d < N THEN d ELSE d - N) = IF i <= u THEN N - u + i - 1 ELSE i - u - 1
  BY <1>1, <1>2
<1> HIDE DEF d
<1>5. d % N = IF d < N THEN d ELSE d - N
  BY <1>3, ModWrap
<1> QED BY <1>4, <1>5 DEF d

\* The bytes that pipe_write copies follow those that are there, in the order
\* the writer has them.
LEMMA PutContents ==
  ASSUME NEW P, SlotInv(P), NEW src \in Seq(Byte),
         NEW n \in 0 .. Len(src), n <= PIPE_BUF_SIZE - P.used
  PROVE  Contents(PutBytes(P, src, n)) = Contents(P) \o SubSeq(src, 1, n)
<1> DEFINE Q == PutBytes(P, src, n)
           s == Contents(P)
           u == P.used
           h == P.head
           t == P.tail
           N == PIPE_BUF_SIZE
           f == SubSeq(src, 1, n)
<1>1. /\ u \in 0 .. N /\ h \in 0 .. (N - 1) /\ s \in Seq(Byte) /\ Len(s) = u /\ N \in Nat \ {0}
      /\ \A i \in 1 .. u : s[i] = P.buf[(h + i - 1) % N]
  BY ContentsIs DEF Cells
<1>2. t \in 0 .. (N - 1) /\ t = (h + u) % N
  BY DEF SlotInv, PipeT, Cells
<1>3. /\ Q.used = u + n /\ Q.head = h
      /\ \A c \in Cells :
           Q.buf[c] = IF (c + N - t) % N < n THEN src[((c + N - t) % N) + 1] ELSE P.buf[c]
  <2> DEFINE B == Stored(P, src, n, t)
             e == (t + n) % N
             v == u + n
  <2>1. Q = [P EXCEPT !.buf = B, !.tail = e, !.used = v] /\ P \in PipeT
    BY DEF PutBytes, SlotInv
  <2>2. \A c \in Cells :
           B[c] = IF (c + N - t) % N < n THEN src[((c + N - t) % N) + 1] ELSE P.buf[c]
    BY DEF Stored
  <2> HIDE DEF B, e, v, Q, t
  <2>3. Q.used = v /\ Q.head = h /\ Q.buf = B
    BY <2>1 DEF PipeT
  <2> QED BY <2>2, <2>3 DEF v
<1>4. /\ Contents(Q) \in Seq(Byte) /\ Len(Contents(Q)) = Q.used
      /\ \A i \in 1 .. Q.used : Contents(Q)[i] = Q.buf[(Q.head + i - 1) % N]
  <2>1. SlotInv(Q)
    BY PutBytesInv DEF Byte
  <2> HIDE DEF Q
  <2> QED BY <2>1, ContentsIs
<1>5. f \in Seq(Byte) /\ Len(f) = n /\ \A i \in 1 .. n : f[i] = src[i]
  BY PrefixIs
<1>6. n \in 0 .. (N - u) /\ n \in Nat
  <2>1. Len(src) \in Nat
    BY LenProperties
  <2> QED BY <1>1, <2>1
<1> HIDE DEF Q, s, u, h, t, N, f
<1>7. /\ s \o f \in Seq(Byte) /\ Len(s \o f) = u + n
      /\ \A i \in 1 .. (u + n) : (s \o f)[i] = IF i <= u THEN s[i] ELSE f[i - u]
  <2>1. /\ s \o f \in Seq(Byte) /\ Len(s \o f) = Len(s) + Len(f)
        /\ \A i \in 1 .. Len(s) + Len(f) : (s \o f)[i] = IF i <= Len(s) THEN s[i] ELSE f[i - Len(s)]
    BY <1>1, <1>5, ConcatProperties, ZenonT(80)
  <2> QED BY <1>1, <1>5, <2>1, ZenonT(20)
<1>8. ASSUME NEW i \in 1 .. (u + n) PROVE Contents(Q)[i] = (s \o f)[i]
  <2> DEFINE x == h + i - 1
             c == x % N
             k == (c + N - t) % N
  <2>1. x \in Nat
    BY <1>1
  <2>2. c \in 0 .. (N - 1)
    <3> HIDE DEF x
    <3> QED BY <1>1, <2>1, ModRange
  <2>3. c = (h + i - 1) % N
    OBVIOUS
  <2>4. Contents(Q)[i] = Q.buf[c]
    BY <1>3, <1>4
  <2>5. s[i] = P.buf[c] \/ i > u
    <3>1. i <= u => s[i] = P.buf[(h + i - 1) % N]
      BY <1>1
    <3> QED BY <1>1, <1>6, <2>3, <3>1
  <2> HIDE DEF x, c
  <2>6. k = IF i <= u THEN N - u + i - 1 ELSE i - u - 1
    <3>1. ByteAt(N, h, u, n, i, c, t)
      BY <1>1, <1>2, <1>6, <2>2, <2>3 DEF ByteAt
    <3> QED BY <3>1, RingDistance
  <2>7. Q.buf[c] = IF k < n THEN src[k + 1] ELSE P.buf[c]
    BY <1>3, <2>2 DEF Cells, N
  <2> HIDE DEF k
  <2>8. CASE i <= u
    <3>1. ~(k < n)
      BY <1>1, <1>6, <2>6, <2>8
    <3>2. s[i] = P.buf[c]
      BY <1>1, <2>5, <2>8
    <3> QED BY <1>7, <2>4, <2>7, <2>8, <3>1, <3>2
  <2>9. CASE ~(i <= u)
    <3>1. k < n /\ k + 1 = i - u /\ i - u \in 1 .. n
      BY <1>1, <1>6, <2>6, <2>9
    <3>2. f[i - u] = src[k + 1]
      BY <1>5, <3>1
    <3> QED BY <1>7, <2>4, <2>7, <2>9, <3>1, <3>2
  <2> QED BY <2>8, <2>9
<1>9. Contents(Q) = s \o f
  <2> DEFINE v == s \o f
             c == Contents(Q)
  <2>1. /\ v \in Seq(Byte) /\ c \in Seq(Byte) /\ Len(c) = Len(v)
        /\ \A i \in 1 .. Len(c) : c[i] = v[i]
    BY <1>3, <1>4, <1>7, <1>8
  <2> HIDE DEF v, c
  <2>2. c = v
    BY <2>1, SameBytes
  <2> QED BY <2>2 DEF c, v
<1> QED BY <1>9 DEF Q, s, f

-----------------------------------------------------------------------------
(***************************************************************************)
(* The inductive invariant: the three invariants the run pipe_any checks.  *)
(***************************************************************************)
PipeInv == TypeOK /\ RingConsistent /\ RefcountKeepsSlot

\* The invariant, slot by slot and call by call.
CallInv(c) == c \in CallT /\ Len(c.data) <= c.len

LEMMA PipeInvParts ==
  PipeInv <=>
    /\ pipes \in [Slots -> PipeT] /\ \A s \in Slots : SlotInv(pipes[s])
    /\ proc \in [Procs -> CallT] /\ \A q \in Procs : CallInv(proc[q])
    /\ gen \in [Slots -> 0 .. MaxGen]
  BY DEF PipeInv, TypeOK, RingConsistent, RefcountKeepsSlot, SlotInv, CallInv

LEMMA PipeInvPartsNext ==
  PipeInv' <=>
    /\ pipes' \in [Slots -> PipeT] /\ \A s \in Slots : SlotInv(pipes'[s])
    /\ proc' \in [Procs -> CallT] /\ \A q \in Procs : CallInv(proc'[q])
    /\ gen' \in [Slots -> 0 .. MaxGen]
  BY DEF PipeInv, TypeOK, RingConsistent, RefcountKeepsSlot, SlotInv, CallInv

\* Replacing one slot and one call by good ones keeps the invariant.
LEMMA UpdateInv ==
  ASSUME PipeInv, NEW s \in Slots, NEW P, SlotInv(P),
         NEW q \in Procs, NEW c, CallInv(c),
         pipes' = [pipes EXCEPT ![s] = P],
         proc' = [proc EXCEPT ![q] = c],
         gen' \in [Slots -> 0 .. MaxGen]
  PROVE  PipeInv'
<1>1. P \in PipeT /\ c \in CallT
  BY DEF SlotInv, CallInv
<1>2. pipes' \in [Slots -> PipeT] /\ \A t \in Slots : SlotInv(pipes'[t])
  BY <1>1, PipeInvParts
<1>3. proc' \in [Procs -> CallT] /\ \A r \in Procs : CallInv(proc'[r])
  BY <1>1, PipeInvParts
<1> QED BY <1>2, <1>3, PipeInvPartsNext

\* A call record whose mutable fields are replaced by good values is good.
LEMMA CallUpdate ==
  ASSUME NEW c \in CallT, NEW op \in {"idle", "read", "write", "zombie"},
         NEW d \in Seq(Byte), Len(d) <= c.len, NEW r \in -1 .. MaxLen,
         NEW g \in 0 .. MaxGen
  PROVE  CallInv([c EXCEPT !.op = op, !.data = d, !.ret = r, !.gen = g])
<1>1. [c EXCEPT !.op = op, !.data = d, !.ret = r, !.gen = g] \in CallT
  BY DEF CallT, Byte
<1> QED BY <1>1 DEF CallInv, CallT

\* What a stretch of pipe_read by process q in call c does: n bytes leave the
\* ring, the call becomes e, and it ends short only at end of file.
ReadDid(q, c, n, e) ==
  LET P == pipes[c.slot]
  IN  /\ n \in 0 .. P.used /\ CallInv(e)
      /\ pipes' = [pipes EXCEPT ![c.slot] = TakeBytes(P, n)]
      /\ proc' = [proc EXCEPT ![q] = e] /\ gen' = gen
      /\ e.data = c.data \o SubSeq(Contents(P), 1, n)
      /\ e.op \in {"idle", "read"} /\ e.call = c.call /\ e.slot = c.slot
      /\ e.op = "idle" /\ e.ret # e.len => P.write_closed /\ n = P.used

LEMMA ReadPassDoes ==
  ASSUME PipeInv, NEW q \in Procs, NEW c, CallInv(c), ReadPass(q, c)
  PROVE  \E n, e : ReadDid(q, c, n, e)
<1> DEFINE P == pipes[c.slot]
           n == Lesser(P.used, c.len - Len(c.data))
           sub == SubSeq(Contents(P), 1, n)
           got == c.data \o sub
           done == Len(got) = c.len \/ P.write_closed
<1>1. /\ c \in CallT /\ c.slot \in Slots /\ c.len \in 0 .. MaxLen
      /\ c.data \in Seq(Byte) /\ Len(c.data) <= c.len /\ Len(c.data) \in Nat
  BY DEF CallInv, CallT, Byte
<1>2. SlotInv(P) /\ P.used \in 0 .. PIPE_BUF_SIZE
  BY <1>1, PipeInvParts DEF SlotInv, PipeT
<1>3. /\ n \in 0 .. P.used /\ n <= c.len - Len(c.data)
      /\ n = P.used \/ n = c.len - Len(c.data)
  <2> DEFINE a == P.used
             b == c.len - Len(c.data)
  <2>1. a \in Nat /\ b \in Nat
    BY <1>1, <1>2
  <2> HIDE DEF a, b
  <2>2. /\ Lesser(a, b) \in 0 .. a /\ Lesser(a, b) <= b
        /\ Lesser(a, b) = a \/ Lesser(a, b) = b
    BY <2>1 DEF Lesser
  <2> QED BY <2>2 DEF a, b
<1>4. sub \in Seq(Byte) /\ Len(sub) = n
  <2> DEFINE s == Contents(P)
  <2>1. s \in Seq(Byte) /\ n \in 0 .. Len(s)
    BY <1>2, <1>3, ContentsIs
  <2> HIDE DEF s, n
  <2>2. SubSeq(s, 1, n) \in Seq(Byte) /\ Len(SubSeq(s, 1, n)) = n
    BY <2>1, PrefixIs
  <2> QED BY <2>2 DEF s
<1>5. got \in Seq(Byte) /\ Len(got) = Len(c.data) + n
  <2> HIDE DEF sub, n, P
  <2>1. c.data \o sub \in Seq(Byte) /\ Len(c.data \o sub) = Len(c.data) + Len(sub)
    BY <1>1, <1>4, ConcatProperties, ZenonT(20)
  <2> QED BY <1>4, <2>1, ZenonT(20)
<1> DEFINE op == IF done THEN "idle" ELSE "read"
           r == IF done THEN Len(got) ELSE 0
           g == IF done THEN 0 ELSE c.gen
           e == [c EXCEPT !.op = op, !.data = got, !.ret = r, !.gen = g]
<1>6. /\ pipes' = [pipes EXCEPT ![c.slot] = TakeBytes(P, n)]
      /\ proc' = [proc EXCEPT ![q] = e] /\ gen' = gen
  BY DEF ReadPass, ReadLoop
<1>7. Len(got) <= c.len /\ Len(got) \in 0 .. MaxLen
  <2> HIDE DEF got, n
  <2> QED BY <1>1, <1>3, <1>5
<1>8. /\ op \in {"idle", "read", "write", "zombie"} /\ r \in -1 .. MaxLen
      /\ g \in 0 .. MaxGen
  <2> HIDE DEF got, done
  <2>1. c.gen \in 0 .. MaxGen /\ 0 \in 0 .. MaxGen
    BY <1>1 DEF CallT
  <2> QED BY <1>7, <2>1
<1>9. op \in {"idle", "read"} /\ (op = "idle" /\ r # c.len => P.write_closed /\ n = P.used)
  <2> HIDE DEF got, n, P
  <2>1. op = "idle" /\ r # c.len => P.write_closed /\ Len(got) # c.len
    OBVIOUS
  <2> QED BY <1>1, <1>3, <1>5, <2>1
<1> HIDE DEF P, n, sub, got, done, op, r, g
<1>10. CallInv(e)
  BY <1>1, <1>5, <1>7, <1>8, CallUpdate
<1>11. e.data = got /\ e.op = op /\ e.call = c.call /\ e.slot = c.slot /\ e.ret = r /\ e.len = c.len
  BY <1>1 DEF CallT
<1> HIDE DEF e
<1>12. ReadDid(q, c, n, e)
  BY <1>3, <1>6, <1>9, <1>10, <1>11 DEF ReadDid, P, got, sub
<1> QED BY <1>12

\* A stretch of pipe_read keeps the invariant.
LEMMA ReadPassInv ==
  ASSUME PipeInv, NEW q \in Procs, NEW c, CallInv(c), ReadPass(q, c)
  PROVE  PipeInv'
<1>1. PICK n, e : ReadDid(q, c, n, e)
  BY ReadPassDoes
<1> DEFINE s == c.slot
           P == pipes[s]
           R == TakeBytes(P, n)
<1>2. /\ n \in 0 .. P.used /\ CallInv(e) /\ pipes' = [pipes EXCEPT ![s] = R]
      /\ proc' = [proc EXCEPT ![q] = e] /\ gen' = gen
  BY <1>1 DEF ReadDid
<1>3. s \in Slots
  BY DEF CallInv, CallT
<1>4. SlotInv(P)
  BY <1>3, PipeInvParts
<1>5. SlotInv(R)
  BY <1>2, <1>4, TakeBytesInv
<1>6. gen' \in [Slots -> 0 .. MaxGen]
  BY <1>2, PipeInvParts
<1> HIDE DEF R, P, s
<1> QED BY <1>2, <1>3, <1>5, <1>6, UpdateInv

\* What a stretch of pipe_write by process q in call c does: the first n bytes
\* of its data enter the ring, the call becomes e, and it ends short only when
\* the read end is closed and the ring full.
WriteDid(q, c, n, e) ==
  LET P == pipes[c.slot]
  IN  /\ n \in 0 .. Len(c.data) /\ n <= PIPE_BUF_SIZE - P.used /\ CallInv(e)
      /\ pipes' = [pipes EXCEPT ![c.slot] = PutBytes(P, c.data, n)]
      /\ proc' = [proc EXCEPT ![q] = e] /\ gen' = gen
      /\ e.data = SubSeq(c.data, n + 1, Len(c.data))
      /\ e.op \in {"idle", "write"} /\ e.call = c.call /\ e.slot = c.slot
      /\ e.op = "idle" /\ e.ret # e.len => P.read_closed /\ n = PIPE_BUF_SIZE - P.used

LEMMA WritePassDoes ==
  ASSUME PipeInv, NEW q \in Procs, NEW c, CallInv(c), WritePass(q, c)
  PROVE  \E n, e : WriteDid(q, c, n, e)
<1> DEFINE P == pipes[c.slot]
           n == Lesser(PIPE_BUF_SIZE - P.used, Len(c.data))
           left == SubSeq(c.data, n + 1, Len(c.data))
           done == left = <<>> \/ P.read_closed
<1>1. /\ c \in CallT /\ c.slot \in Slots /\ c.len \in 0 .. MaxLen
      /\ c.data \in Seq(Byte) /\ Len(c.data) <= c.len /\ Len(c.data) \in Nat
  BY DEF CallInv, CallT, Byte
<1>2. SlotInv(P) /\ P.used \in 0 .. PIPE_BUF_SIZE
  BY <1>1, PipeInvParts DEF SlotInv, PipeT
<1>3. /\ n \in 0 .. Len(c.data) /\ n <= PIPE_BUF_SIZE - P.used
      /\ n = PIPE_BUF_SIZE - P.used \/ n = Len(c.data)
  <2> DEFINE a == PIPE_BUF_SIZE - P.used
             b == Len(c.data)
  <2>1. a \in Nat /\ b \in Nat
    BY <1>1, <1>2
  <2> HIDE DEF a, b
  <2>2. /\ Lesser(a, b) \in 0 .. b /\ Lesser(a, b) <= a
        /\ Lesser(a, b) = a \/ Lesser(a, b) = b
    BY <2>1 DEF Lesser
  <2> QED BY <2>2 DEF a, b
<1>4. left \in Seq(Byte) /\ Len(left) = Len(c.data) - n
  <2> DEFINE s == c.data
  <2>1. s \in Seq(Byte) /\ n \in 0 .. Len(s)
    BY <1>1, <1>3
  <2> HIDE DEF s, n
  <2>2. SubSeq(s, n + 1, Len(s)) \in Seq(Byte) /\ Len(SubSeq(s, n + 1, Len(s))) = Len(s) - n
    BY <2>1, SuffixIs
  <2> QED BY <2>2 DEF s
<1> DEFINE op == IF done THEN "idle" ELSE "write"
           r == IF done THEN c.len - Len(left) ELSE 0
           g == IF done THEN 0 ELSE c.gen
           e == [c EXCEPT !.op = op, !.data = left, !.ret = r, !.gen = g]
<1>5. /\ pipes' = [pipes EXCEPT ![c.slot] = PutBytes(P, c.data, n)]
      /\ proc' = [proc EXCEPT ![q] = e] /\ gen' = gen
  BY DEF WritePass, WriteLoop
<1>6. Len(left) <= c.len /\ c.len - Len(left) \in 0 .. MaxLen
  <2> DEFINE a == Len(left)
             b == Len(c.data)
             l == c.len
  <2>1. a = b - n /\ n \in 0 .. b /\ b \in Nat /\ b <= l /\ l \in 0 .. MaxLen
    BY <1>1, <1>3, <1>4, LenProperties
  <2> HIDE DEF a, b, l, n
  <2>2. a <= l /\ l - a \in 0 .. MaxLen
    BY <2>1, PipeConstants
  <2> QED BY <2>2 DEF a, l
<1>7. /\ op \in {"idle", "read", "write", "zombie"} /\ r \in -1 .. MaxLen
      /\ g \in 0 .. MaxGen
  <2> HIDE DEF left, done
  <2>1. c.gen \in 0 .. MaxGen /\ 0 \in 0 .. MaxGen
    BY <1>1 DEF CallT
  <2> QED BY <1>6, <2>1
<1>8. op \in {"idle", "write"}
      /\ (op = "idle" /\ r # c.len => P.read_closed /\ n = PIPE_BUF_SIZE - P.used)
  <2>1. left = <<>> => Len(left) = 0
    BY EmptySeq
  <2> HIDE DEF left, n, P
  <2>2. op = "idle" /\ r # c.len => Len(left) # 0
    BY <1>1
  <2>3. op = "idle" /\ r # c.len => P.read_closed
    BY <2>1, <2>2
  <2> QED BY <1>1, <1>3, <1>4, <2>2, <2>3
<1> HIDE DEF P, n, left, done, op, r, g
<1>9. CallInv(e)
  BY <1>1, <1>4, <1>6, <1>7, CallUpdate
<1>10. e.data = left /\ e.op = op /\ e.call = c.call /\ e.slot = c.slot /\ e.ret = r /\ e.len = c.len
  BY <1>1 DEF CallT
<1> HIDE DEF e
<1>11. WriteDid(q, c, n, e)
  BY <1>3, <1>5, <1>8, <1>9, <1>10 DEF WriteDid, P, left
<1> QED BY <1>11

\* A stretch of pipe_write keeps the invariant.
LEMMA WritePassInv ==
  ASSUME PipeInv, NEW q \in Procs, NEW c, CallInv(c), WritePass(q, c)
  PROVE  PipeInv'
<1>1. PICK n, e : WriteDid(q, c, n, e)
  BY WritePassDoes
<1> DEFINE s == c.slot
           P == pipes[s]
           src == c.data
           R == PutBytes(P, src, n)
<1>2. /\ n \in 0 .. Len(src) /\ n <= PIPE_BUF_SIZE - P.used /\ CallInv(e)
      /\ pipes' = [pipes EXCEPT ![s] = R]
      /\ proc' = [proc EXCEPT ![q] = e] /\ gen' = gen
  BY <1>1 DEF WriteDid
<1>3. s \in Slots /\ src \in Seq(Data \cup {NoByte})
  BY DEF CallInv, CallT
<1>4. SlotInv(P)
  BY <1>3, PipeInvParts
<1> HIDE DEF src, P
<1>5. SlotInv(R)
  BY <1>2, <1>3, <1>4, PutBytesInv
<1>6. gen' \in [Slots -> 0 .. MaxGen]
  BY <1>2, PipeInvParts
<1> HIDE DEF R, s
<1> QED BY <1>2, <1>3, <1>5, <1>6, UpdateInv

\* Descriptors name slots of the table.
LEMMA FdToSlot ==
  ASSUME NEW fd \in Fds
  PROVE  fd_to_slot(fd) \in Slots /\ pipe_fd_type(fd) \in {"R", "W"}
  BY DEF Fds, fd_to_slot, Slots, PIPE_FD_BASE, PIPE_FD_STRIDE, pipe_fd_type

\* The records a call starts from, fails with or ends in are good.
LEMMA IdleInv ==
  ASSUME NEW op \in {"idle", "zombie"}
  PROVE  CallInv([Idle EXCEPT !.op = op])
<1> DEFINE e == <<>>
<1>1. e \in Seq(Data \cup {NoByte}) /\ Len(e) = 0
  OBVIOUS
<1>2. 0 \in Slots /\ 0 \in 0 .. MaxLen /\ 0 \in 0 .. MaxGen /\ 0 \in -1 .. MaxLen
  BY DEF Slots
<1>3. [Idle EXCEPT !.op = op] =
         [op |-> op, call |-> "none", slot |-> 0, len |-> 0, data |-> e,
          ret |-> 0, gen |-> 0]
  BY DEF Idle
<1> HIDE DEF e
<1>4. [Idle EXCEPT !.op = op] \in CallT
  BY <1>1, <1>2, <1>3, ZenonT(40) DEF CallT
<1>5. Len([Idle EXCEPT !.op = op].data) <= [Idle EXCEPT !.op = op].len
  BY <1>1, <1>3
<1> QED BY <1>4, <1>5 DEF CallInv

LEMMA StartInv ==
  ASSUME PipeInv,
         NEW op \in {"idle", "zombie"}, NEW call \in {"read", "write"},
         NEW s \in Slots, NEW len \in 0 .. MaxLen,
         NEW d \in Seq(Byte), Len(d) <= len, NEW r \in -1 .. MaxLen
  PROVE  CallInv(Call(op, call, s, len, d, r))
<1>1. gen[s] \in 0 .. MaxGen
  BY PipeInvParts
<1> QED BY <1>1 DEF CallInv, CallT, Byte, Call

\* A system call that fails at once keeps the invariant.
LEMMA FailedInv ==
  ASSUME PipeInv, NEW q \in Procs, NEW call \in {"read", "write"},
         NEW s \in Slots, NEW len \in 0 .. MaxLen,
         NEW after \in {"idle", "zombie"}, Failed(q, call, s, len, after)
  PROVE  PipeInv'
<1> DEFINE e == <<>>
           r == -1
           z == 0
           b == Call(after, call, s, len, e, r)
           c == [b EXCEPT !.gen = z]
<1>1. e \in Seq(Byte) /\ Len(e) <= len /\ r \in -1 .. MaxLen
  OBVIOUS
<1>2. proc' = [proc EXCEPT ![q] = c] /\ pipes' = pipes /\ gen' = gen
  BY DEF Failed
<1> HIDE DEF e, r
<1>3. CallInv(c)
  <2>1. CallInv(b) /\ z \in 0 .. MaxGen
    BY <1>1, StartInv
  <2> HIDE DEF b, z
  <2> QED BY <2>1 DEF CallInv, CallT
<1> HIDE DEF c
<1>4. SlotInv(pipes[s]) /\ pipes' = [pipes EXCEPT ![s] = pipes[s]]
  BY <1>2, PipeInvParts
<1>5. gen' \in [Slots -> 0 .. MaxGen]
  BY <1>2, PipeInvParts
<1> QED BY <1>2, <1>3, <1>4, <1>5, UpdateInv

\* SYS_FILE_READ on a pipe keeps the invariant.
LEMMA SysReadInv ==
  ASSUME PipeInv, NEW q \in Procs, NEW fd \in Fds, NEW len \in 0 .. MaxLen,
         SysRead(q, fd, len)
  PROVE  PipeInv'
<1> DEFINE s == fd_to_slot(fd)
           e == <<>>
           z == 0
<1>1. s \in Slots
  BY FdToSlot
<1>2. e \in Seq(Byte) /\ Len(e) <= len /\ z \in -1 .. MaxLen
  OBVIOUS
<1>3. CASE pipe_fd_type(fd) = "R"
  <2> DEFINE c == Call("idle", "read", s, len, e, z)
  <2>1. ReadPass(q, c)
    BY <1>3 DEF SysRead
  <2> HIDE DEF s, e, z
  <2>2. CallInv(c)
    BY <1>1, <1>2, StartInv
  <2> HIDE DEF c
  <2> QED BY <2>1, <2>2, ReadPassInv
<1>4. CASE pipe_fd_type(fd) # "R"
  <2>1. Failed(q, "read", s, len, "idle")
    BY <1>4 DEF SysRead
  <2> HIDE DEF s
  <2> QED BY <1>1, <2>1, FailedInv
<1> QED BY <1>3, <1>4

\* SYS_FILE_WRITE on a pipe keeps the invariant.
LEMMA SysWriteInv ==
  ASSUME PipeInv, NEW q \in Procs, NEW fd \in Fds, NEW src \in Sources,
         SysWrite(q, fd, src)
  PROVE  PipeInv'
<1> DEFINE s == fd_to_slot(fd)
           l == Len(src)
           z == 0
<1>1. s \in Slots
  BY FdToSlot
<1>2. src \in Seq(Byte) /\ Len(src) <= l /\ l \in 0 .. MaxLen
      /\ z \in -1 .. MaxLen
  <2>1. PICK n \in 0 .. MaxLen : src \in [1 .. n -> Data]
    BY DEF Sources
  <2>2. src \in Seq(Data) /\ Len(src) = n
    BY <2>1
  <2>3. src \in Seq(Byte)
    BY <2>2, SeqMonotonic DEF Byte
  <2> QED BY <2>2, <2>3
<1>3. CASE pipe_fd_type(fd) = "W" /\ ~pipes[s].read_closed
  <2> DEFINE c == Call("idle", "write", s, l, src, z)
  <2>1. WritePass(q, c)
    BY <1>3 DEF SysWrite
  <2> HIDE DEF s, l, z
  <2>2. CallInv(c)
    BY <1>1, <1>2, StartInv
  <2> HIDE DEF c
  <2> QED BY <2>1, <2>2, WritePassInv
<1>4. CASE ~(pipe_fd_type(fd) = "W" /\ ~pipes[s].read_closed)
  <2>1. Failed(q, "write", s, l, "zombie")
    BY <1>4 DEF SysWrite
  <2> HIDE DEF s, l
  <2> QED BY <1>1, <1>2, <2>1, FailedInv
<1> QED BY <1>3, <1>4

\* The invariant is inductive.
LEMMA PipeInvInductive == PipeInv /\ [Next]_vars => PipeInv'
<1> SUFFICES ASSUME PipeInv, [Next]_vars PROVE PipeInv'
  OBVIOUS
<1> USE PipeInvParts, PipeInvPartsNext
<1>1. ASSUME NEW q \in Procs, SysPipe(q) PROVE PipeInv'
  <2>1. PICK s \in Slots : pipe_create(s)
    BY <1>1 DEF SysPipe
  <2> DEFINE P == [ZeroPipe EXCEPT !.refcount = 2, !.pipe_used = TRUE]
  <2>2. SlotInv(P) /\ pipes' = [pipes EXCEPT ![s] = P]
    BY <2>1, FreshPipeInv DEF pipe_create
  <2>3. gen' \in [Slots -> 0 .. MaxGen] /\ proc' = [proc EXCEPT ![q] = proc[q]]
    BY <1>1, <2>1 DEF pipe_create, SysPipe
  <2> HIDE DEF P
  <2> QED BY <2>1, <2>2, <2>3, UpdateInv
<1>2. ASSUME NEW q \in Procs, NEW fd \in Fds, SysPipeClose(q, fd)
      PROVE  PipeInv'
  <2> DEFINE s == fd_to_slot(fd)
             P == pipe_close(pipes[s], pipe_fd_type(fd))
  <2>1. s \in Slots /\ SlotInv(P)
    BY FdToSlot, PipeCloseInv
  <2>2. /\ pipes' = [pipes EXCEPT ![s] = P]
        /\ gen' \in [Slots -> 0 .. MaxGen] /\ proc' = [proc EXCEPT ![q] = proc[q]]
    BY <1>2 DEF SysPipeClose
  <2> HIDE DEF s, P
  <2> QED BY <2>1, <2>2, UpdateInv
<1>3. ASSUME NEW q \in Procs, SysExit(q) PROVE PipeInv'
  <2>1. ASSUME NEW s \in Slots
        PROVE  SlotInv(pipe_close(pipe_close(pipes[s], "R"), "W"))
    BY PipeCloseInv
  <2>2. pipes' = [s \in Slots |-> pipe_close(pipe_close(pipes[s], "R"), "W")]
    BY <1>3 DEF SysExit, fd_cleanup_process
  <2>3. pipes' \in [Slots -> PipeT] /\ \A s \in Slots : SlotInv(pipes'[s])
    BY <2>1, <2>2 DEF SlotInv
  <2>4. proc' \in [Procs -> CallT] /\ \A r \in Procs : CallInv(proc'[r])
    BY <1>3, IdleInv DEF SysExit, CallInv
  <2> QED BY <1>3, <2>3, <2>4 DEF SysExit
<1>4. ASSUME NEW q \in Procs, Killed(q) PROVE PipeInv'
  <2>1. proc' \in [Procs -> CallT] /\ \A r \in Procs : CallInv(proc'[r])
    BY <1>4, IdleInv DEF Killed, CallInv
  <2> QED BY <1>4, <2>1 DEF Killed
<1>5. ASSUME NEW q \in Procs, ReadResume(q) PROVE PipeInv'
  BY <1>5, ReadPassInv DEF ReadResume
<1>6. ASSUME NEW q \in Procs, WriteResume(q) PROVE PipeInv'
  BY <1>6, WritePassInv DEF WriteResume
<1>7. CASE UNCHANGED vars
  BY <1>7 DEF vars
<1> QED BY <1>1, <1>2, <1>3, <1>4, <1>5, <1>6, <1>7, SysReadInv, SysWriteInv
        DEF Next

-----------------------------------------------------------------------------
(***************************************************************************)
(* The four things a step can do: move bytes out of a ring, move bytes     *)
(* into one, end a call without moving any, or only reset rings.           *)
(***************************************************************************)
Kinds == \A q \in Procs : /\ proc[q].op = "read" => proc[q].call = "read"
                          /\ proc[q].op = "write" => proc[q].call = "write"

Reading(q) ==
  \E c, n, e : /\ CallInv(c) /\ c.call = "read" /\ (c.data = <<>> \/ c = proc[q])
               /\ ReadDid(q, c, n, e)

Writing(q) ==
  \E c, n, e : /\ CallInv(c) /\ c.call = "write" /\ (c.data \in Sources \/ c = proc[q])
               /\ WriteDid(q, c, n, e)

Resets == \A s \in Slots : Contents(pipes'[s]) \in {<<>>, Contents(pipes[s])}

Dropping(q) ==
  /\ Resets
  /\ \E e : /\ proc' = [proc EXCEPT ![q] = e] /\ e.data = <<>>
            /\ e.op \in {"idle", "zombie"} /\ (e.op = "idle" => e.ret = -1)

LEMMA CloseContents ==
  ASSUME NEW P, SlotInv(P), NEW end \in {"R", "W"}
  PROVE  Contents(pipe_close(P, end)) \in {<<>>, Contents(P)}
<1>1. Contents(ZeroPipe) = <<>>
  BY ZeroPipeInv, EmptyContents DEF ZeroPipe
<1>2. Contents(Unref(P, end)) = Contents(P)
  <2> DEFINE Q == Unref(P, end)
  <2>1. Q.used = P.used /\ Q.buf = P.buf /\ Q.head = P.head
    BY DEF Unref, SlotInv, PipeT
  <2> HIDE DEF Q
  <2>2. Contents(Q) = Contents(P)
    BY <2>1 DEF Contents
  <2> QED BY <2>2 DEF Q
<1> QED BY <1>1, <1>2 DEF pipe_close

LEMMA StartIs ==
  ASSUME NEW op, NEW kind, NEW s, NEW len, NEW d, NEW r
  PROVE  /\ Call(op, kind, s, len, d, r).call = kind
         /\ Call(op, kind, s, len, d, r).data = d
  BY DEF Call

LEMMA FailedDrops ==
  ASSUME PipeInv, NEW q \in Procs, NEW kind, NEW s, NEW len, NEW after \in {"idle", "zombie"},
         Failed(q, kind, s, len, after)
  PROVE  Dropping(q)
<1> DEFINE m == -1
           d == <<>>
           z == 0
           b == Call(after, kind, s, len, d, m)
           e == [b EXCEPT !.gen = z]
<1>1. proc' = [proc EXCEPT ![q] = e] /\ pipes' = pipes
  BY DEF Failed
<1>2. b = [op |-> after, call |-> kind, slot |-> s, len |-> len, data |-> d, ret |-> m, gen |-> gen[s]]
  BY DEF Call
<1> HIDE DEF d, z, m, b
<1>3. e.data = d /\ e.op = after /\ e.ret = m
  BY <1>2
<1> HIDE DEF e
<1>4. Resets
  BY <1>1 DEF Resets
<1> QED BY <1>1, <1>3, <1>4 DEF Dropping, d, m

LEMMA ReadStarts ==
  ASSUME PipeInv, NEW q \in Procs, NEW fd \in Fds, NEW len \in 0 .. MaxLen, SysRead(q, fd, len)
  PROVE  Reading(q) \/ Dropping(q)
<1> DEFINE s == fd_to_slot(fd)
           d == <<>>
           z == 0
<1>1. s \in Slots
  BY FdToSlot
<1>2. d \in Seq(Byte) /\ Len(d) <= len /\ z \in -1 .. MaxLen
  OBVIOUS
<1>3. CASE pipe_fd_type(fd) = "R"
  <2> DEFINE c == Call("idle", "read", s, len, d, z)
  <2>1. ReadPass(q, c)
    BY <1>3 DEF SysRead
  <2> HIDE DEF s, d, z
  <2>2. CallInv(c) /\ c.call = "read" /\ c.data = d
    BY <1>1, <1>2, StartInv, StartIs
  <2> HIDE DEF c
  <2>3. PICK n, e : ReadDid(q, c, n, e)
    BY <2>1, <2>2, ReadPassDoes
  <2> QED BY <2>2, <2>3 DEF Reading, d
<1>4. CASE pipe_fd_type(fd) # "R"
  <2>1. Failed(q, "read", s, len, "idle")
    BY <1>4 DEF SysRead
  <2> HIDE DEF s
  <2> QED BY <2>1, FailedDrops
<1> QED BY <1>3, <1>4

LEMMA WriteStarts ==
  ASSUME PipeInv, NEW q \in Procs, NEW fd \in Fds, NEW src \in Sources, SysWrite(q, fd, src)
  PROVE  Writing(q) \/ Dropping(q)
<1> DEFINE s == fd_to_slot(fd)
           l == Len(src)
           z == 0
<1>1. s \in Slots
  BY FdToSlot
<1>2. src \in Seq(Byte) /\ Len(src) <= l /\ l \in 0 .. MaxLen /\ z \in -1 .. MaxLen
  <2>1. PICK n \in 0 .. MaxLen : src \in [1 .. n -> Data]
    BY DEF Sources
  <2>2. src \in Seq(Data) /\ Len(src) = n
    BY <2>1
  <2>3. src \in Seq(Byte)
    BY <2>2, SeqMonotonic DEF Byte
  <2> QED BY <2>2, <2>3
<1>3. CASE pipe_fd_type(fd) = "W" /\ ~pipes[s].read_closed
  <2> DEFINE c == Call("idle", "write", s, l, src, z)
  <2>1. WritePass(q, c)
    BY <1>3 DEF SysWrite
  <2> HIDE DEF s, l, z
  <2>2. CallInv(c) /\ c.call = "write" /\ c.data = src
    BY <1>1, <1>2, StartInv, StartIs
  <2> HIDE DEF c
  <2>3. PICK n, e : WriteDid(q, c, n, e)
    BY <2>1, <2>2, WritePassDoes
  <2> QED BY <2>2, <2>3 DEF Writing
<1>4. CASE ~(pipe_fd_type(fd) = "W" /\ ~pipes[s].read_closed)
  <2>1. Failed(q, "write", s, l, "zombie")
    BY <1>4 DEF SysWrite
  <2> HIDE DEF s, l
  <2> QED BY <2>1, FailedDrops
<1> QED BY <1>3, <1>4

LEMMA ZombieIs ==
  LET e == [Idle EXCEPT !.op = "zombie"] IN e.data = <<>> /\ e.op = "zombie"
  BY DEF Idle

LEMMA Steps ==
  ASSUME PipeInv, Kinds, [Next]_vars
  PROVE  \/ \E q \in Procs : Reading(q) \/ Writing(q) \/ Dropping(q)
         \/ Resets /\ proc' = proc
<1> DEFINE Goal == \/ \E q \in Procs : Reading(q) \/ Writing(q) \/ Dropping(q)
                   \/ Resets /\ proc' = proc
<1>1. ASSUME NEW q \in Procs, SysPipe(q) PROVE Goal
  <2>1. PICK s \in Slots : pipe_create(s)
    BY <1>1 DEF SysPipe
  <2> DEFINE P == [ZeroPipe EXCEPT !.refcount = 2, !.pipe_used = TRUE]
  <2>2. pipes' = [pipes EXCEPT ![s] = P] /\ SlotInv(P)
    BY <2>1, FreshPipeInv DEF pipe_create
  <2>3. P.used = 0
    BY DEF ZeroPipe
  <2> HIDE DEF P
  <2>4. Contents(P) = <<>>
    BY <2>2, <2>3, EmptyContents
  <2>5. Resets
    BY <2>2, <2>4, PipeInvParts DEF Resets
  <2> QED BY <1>1, <2>5 DEF SysPipe
<1>2. ASSUME NEW q \in Procs, NEW fd \in Fds, SysPipeClose(q, fd) PROVE Goal
  <2> DEFINE s == fd_to_slot(fd)
             P == pipe_close(pipes[s], pipe_fd_type(fd))
  <2>1. s \in Slots /\ pipe_fd_type(fd) \in {"R", "W"}
    BY FdToSlot
  <2>2. SlotInv(pipes[s])
    BY <2>1, PipeInvParts
  <2>3. Contents(P) \in {<<>>, Contents(pipes[s])}
    BY <2>1, <2>2, CloseContents
  <2>4. pipes' = [pipes EXCEPT ![s] = P] /\ proc' = proc
    BY <1>2 DEF SysPipeClose
  <2> HIDE DEF s, P
  <2>5. Resets
    BY <2>1, <2>3, <2>4, PipeInvParts DEF Resets
  <2> QED BY <2>4, <2>5
<1>3. ASSUME NEW q \in Procs, SysExit(q) PROVE Goal
  <2>1. ASSUME NEW s \in Slots
        PROVE  Contents(pipe_close(pipe_close(pipes[s], "R"), "W")) \in {<<>>, Contents(pipes[s])}
    <3> DEFINE P == pipes[s]
               R == pipe_close(P, "R")
    <3>1. SlotInv(P)
      BY PipeInvParts
    <3>2. SlotInv(R) /\ Contents(R) \in {<<>>, Contents(P)}
      BY <3>1, PipeCloseInv, CloseContents
    <3> HIDE DEF R
    <3>3. Contents(pipe_close(R, "W")) \in {<<>>, Contents(R)}
      BY <3>2, CloseContents
    <3> QED BY <3>2, <3>3 DEF R
  <2>2. pipes' = [s \in Slots |-> pipe_close(pipe_close(pipes[s], "R"), "W")]
    BY <1>3 DEF SysExit, fd_cleanup_process
  <2>3. Resets
    BY <2>1, <2>2 DEF Resets
  <2>4. proc' = [proc EXCEPT ![q] = [Idle EXCEPT !.op = "zombie"]]
    BY <1>3 DEF SysExit
  <2> QED BY <2>3, <2>4, ZombieIs DEF Dropping
<1>4. ASSUME NEW q \in Procs, Killed(q) PROVE Goal
  <2>1. proc' = [proc EXCEPT ![q] = [Idle EXCEPT !.op = "zombie"]] /\ Resets
    BY <1>4 DEF Killed, Resets
  <2> QED BY <2>1, ZombieIs DEF Dropping
<1>5. ASSUME NEW q \in Procs, ReadResume(q) PROVE Goal
  <2>1. CallInv(proc[q]) /\ proc[q].call = "read" /\ ReadPass(q, proc[q])
    BY <1>5, PipeInvParts DEF ReadResume, Kinds
  <2>2. PICK n, e : ReadDid(q, proc[q], n, e)
    BY <2>1, ReadPassDoes
  <2> QED BY <2>1, <2>2 DEF Reading
<1>6. ASSUME NEW q \in Procs, WriteResume(q) PROVE Goal
  <2>1. CallInv(proc[q]) /\ proc[q].call = "write" /\ WritePass(q, proc[q])
    BY <1>6, PipeInvParts DEF WriteResume, Kinds
  <2>2. PICK n, e : WriteDid(q, proc[q], n, e)
    BY <2>1, WritePassDoes
  <2> QED BY <2>1, <2>2 DEF Writing
<1>7. CASE UNCHANGED vars
  BY <1>7 DEF vars, Resets
<1> QED BY <1>1, <1>2, <1>3, <1>4, <1>5, <1>6, <1>7, ReadStarts, WriteStarts DEF Next

LEMMA KindsInductive == PipeInv /\ Kinds /\ [Next]_vars => Kinds'
<1> SUFFICES ASSUME PipeInv, Kinds, [Next]_vars PROVE Kinds'
  OBVIOUS
<1>0. proc \in [Procs -> CallT]
  BY PipeInvParts
<1>1. ASSUME NEW q \in Procs, NEW e, proc' = [proc EXCEPT ![q] = e],
             e.op = "read" => e.call = "read", e.op = "write" => e.call = "write"
      PROVE  Kinds'
  BY <1>0, <1>1 DEF Kinds
<1>2. ASSUME NEW q \in Procs, Reading(q) PROVE Kinds'
  <2>1. PICK c, n, e : c.call = "read" /\ ReadDid(q, c, n, e)
    BY <1>2 DEF Reading
  <2> QED BY <1>1, <2>1 DEF ReadDid
<1>3. ASSUME NEW q \in Procs, Writing(q) PROVE Kinds'
  <2>1. PICK c, n, e : c.call = "write" /\ WriteDid(q, c, n, e)
    BY <1>3 DEF Writing
  <2> QED BY <1>1, <2>1 DEF WriteDid
<1>4. ASSUME NEW q \in Procs, Dropping(q) PROVE Kinds'
  BY <1>1, <1>4 DEF Dropping
<1> QED BY <1>2, <1>3, <1>4, Steps DEF Kinds

LEMMA PipeInvInit == Init => PipeInv /\ Kinds
<1> SUFFICES ASSUME Init PROVE PipeInv /\ Kinds
  OBVIOUS
<1>1. pipes \in [Slots -> PipeT] /\ \A s \in Slots : SlotInv(pipes[s])
  BY ZeroPipeInv DEF Init, SlotInv
<1>2. CallInv(Idle) /\ Idle.op = "idle"
  <2>1. [Idle EXCEPT !.op = "idle"] = Idle /\ Idle.op = "idle"
    BY DEF Idle
  <2> QED BY <2>1, IdleInv
<1>3. proc \in [Procs -> CallT] /\ \A q \in Procs : CallInv(proc[q])
  BY <1>2 DEF Init, CallInv
<1>4. gen \in [Slots -> 0 .. MaxGen]
  BY DEF Init
<1>5. Kinds
  BY <1>2 DEF Init, Kinds
<1> QED BY <1>1, <1>3, <1>4, <1>5, PipeInvParts

LEMMA PipeAlways == Spec => [](PipeInv /\ Kinds)
  BY PipeInvInit, PipeInvInductive, KindsInductive, PTL DEF Spec

\* In every behaviour of the pipe table, for every number of processes, slots
\* and buffer bytes, the types hold, head, tail and used agree, and the
\* reference count decides whether the slot is in use.
THEOREM PipeCorrect == Spec => [](TypeOK /\ RingConsistent /\ RefcountKeepsSlot)
BY PipeAlways, PTL DEF PipeInv

\* Every pipe_t stays well-typed: head, tail and used inside the buffer, the
\* count and the closed flags of fs/pipe.c in range, for any sizes.
THEOREM PipeTypes == Spec => []TypeOK
BY PipeCorrect, PTL

\* The reference count decides the life of a slot of fs/pipe.c, however often
\* an end is closed and by whom.
THEOREM PipeSlotsCounted == Spec => []RefcountKeepsSlot
BY PipeCorrect, PTL
\* pipe_read gives back fewer bytes than asked for only at end of file and
\* with an empty ring, for every size of the ring and every interleaving.
THEOREM ShortReadsEndFiles == Spec => ShortReadOnlyAtEof
<1>1. ASSUME PipeInv, Kinds, [Next]_vars, NEW q \in Procs, proc'[q] # proc[q],
             proc'[q].op = "idle", proc'[q].call = "read",
             proc'[q].ret \in 0 .. (proc'[q].len - 1)
      PROVE  pipes'[proc'[q].slot].write_closed /\ pipes'[proc'[q].slot].used = 0
  <2>0. proc \in [Procs -> CallT] /\ proc' \in [Procs -> CallT]
    BY <1>1, PipeInvInductive, PipeInvParts, PipeInvPartsNext
  <2>1. proc'[q].ret # proc'[q].len /\ proc'[q].ret # -1
    BY <1>1, <2>0 DEF CallT
  <2>2. ASSUME NEW r \in Procs, NEW e, proc' = [proc EXCEPT ![r] = e] PROVE q = r /\ proc'[q] = e
    BY <1>1, <2>0, <2>2
  <2>3. PICK r \in Procs : Reading(r)
    <3>1. ASSUME NEW r \in Procs, Writing(r) PROVE FALSE
      <4>1. PICK c, n, e : c.call = "write" /\ WriteDid(r, c, n, e)
        BY <3>1 DEF Writing
      <4>2. proc' = [proc EXCEPT ![r] = e] /\ e.call = "write"
        BY <4>1 DEF WriteDid
      <4> QED BY <1>1, <2>2, <4>2
    <3>2. ASSUME NEW r \in Procs, Dropping(r) PROVE FALSE
      BY <1>1, <2>1, <2>2, <3>2 DEF Dropping
    <3> QED BY <1>1, <3>1, <3>2, Steps
  <2>4. PICK c, n, e : CallInv(c) /\ ReadDid(r, c, n, e)
    BY <2>3 DEF Reading
  <2> DEFINE P == pipes[c.slot]
  <2>5. /\ proc' = [proc EXCEPT ![r] = e] /\ e.slot = c.slot /\ n \in 0 .. P.used
        /\ pipes' = [pipes EXCEPT ![c.slot] = TakeBytes(P, n)]
        /\ e.op = "idle" /\ e.ret # e.len => P.write_closed /\ n = P.used
    BY <2>4 DEF ReadDid
  <2>6. proc'[q] = e
    BY <2>2, <2>5
  <2>7. P.write_closed /\ n = P.used
    BY <1>1, <2>1, <2>5, <2>6
  <2>8. c.slot \in Slots /\ SlotInv(P)
    BY <1>1, <2>4, PipeInvParts DEF CallInv, CallT
  <2>9. pipes'[c.slot] = TakeBytes(P, n)
    BY <1>1, <2>5, <2>8, PipeInvParts
  <2>10. TakeBytes(P, n).write_closed = P.write_closed /\ TakeBytes(P, n).used = P.used - n
    BY <2>8 DEF TakeBytes, SlotInv, PipeT
  <2>11. P.used - n = 0
    BY <2>7, <2>8 DEF SlotInv, PipeT
  <2> QED BY <2>5, <2>6, <2>7, <2>9, <2>10, <2>11
<1>2. PipeInv /\ Kinds /\ [Next]_vars =>
        [\A q \in Procs :
           (/\ proc'[q] # proc[q]
            /\ proc'[q].op = "idle"
            /\ proc'[q].call = "read"
            /\ proc'[q].ret \in 0 .. (proc'[q].len - 1))
           => LET P == pipes'[proc'[q].slot] IN P.write_closed /\ P.used = 0]_vars
  BY <1>1
<1> QED BY <1>2, PipeAlways, PTL DEF Spec, ShortReadOnlyAtEof

\* pipe_write gives up on bytes only when nobody can read them any more and
\* the ring has no room for another one.
THEOREM ShortWritesFillRing == Spec => ShortWriteOnlyWhenFull
<1>1. ASSUME PipeInv, Kinds, [Next]_vars, NEW q \in Procs, proc'[q] # proc[q],
             proc'[q].op = "idle", proc'[q].call = "write",
             proc'[q].ret \in 0 .. (proc'[q].len - 1)
      PROVE  /\ pipes'[proc'[q].slot].read_closed
             /\ pipes'[proc'[q].slot].used = PIPE_BUF_SIZE
  <2>0. proc \in [Procs -> CallT] /\ proc' \in [Procs -> CallT]
    BY <1>1, PipeInvInductive, PipeInvParts, PipeInvPartsNext
  <2>1. proc'[q].ret # proc'[q].len /\ proc'[q].ret # -1
    BY <1>1, <2>0 DEF CallT
  <2>2. ASSUME NEW r \in Procs, NEW e, proc' = [proc EXCEPT ![r] = e] PROVE q = r /\ proc'[q] = e
    BY <1>1, <2>0, <2>2
  <2>3. PICK r \in Procs : Writing(r)
    <3>1. ASSUME NEW r \in Procs, Reading(r) PROVE FALSE
      <4>1. PICK c, n, e : c.call = "read" /\ ReadDid(r, c, n, e)
        BY <3>1 DEF Reading
      <4>2. proc' = [proc EXCEPT ![r] = e] /\ e.call = "read"
        BY <4>1 DEF ReadDid
      <4> QED BY <1>1, <2>2, <4>2
    <3>2. ASSUME NEW r \in Procs, Dropping(r) PROVE FALSE
      BY <1>1, <2>1, <2>2, <3>2 DEF Dropping
    <3> QED BY <1>1, <3>1, <3>2, Steps
  <2>4. PICK c, n, e : CallInv(c) /\ WriteDid(r, c, n, e)
    BY <2>3 DEF Writing
  <2> DEFINE P == pipes[c.slot]
             R == PutBytes(P, c.data, n)
  <2>5. /\ proc' = [proc EXCEPT ![r] = e] /\ e.slot = c.slot
        /\ pipes' = [pipes EXCEPT ![c.slot] = R]
        /\ e.op = "idle" /\ e.ret # e.len => P.read_closed /\ n = PIPE_BUF_SIZE - P.used
    BY <2>4 DEF WriteDid
  <2>6. proc'[q] = e
    BY <2>2, <2>5
  <2>7. P.read_closed /\ n = PIPE_BUF_SIZE - P.used
    BY <1>1, <2>1, <2>5, <2>6
  <2>8. c.slot \in Slots /\ SlotInv(P)
    BY <1>1, <2>4, PipeInvParts DEF CallInv, CallT
  <2>9. R.read_closed = P.read_closed /\ R.used = P.used + n
    <3> DEFINE b == Stored(P, c.data, n, P.tail)
               t == (P.tail + n) % PIPE_BUF_SIZE
               u == P.used + n
    <3>1. R = [P EXCEPT !.buf = b, !.tail = t, !.used = u] /\ P \in PipeT
      BY <2>8 DEF PutBytes, SlotInv
    <3> HIDE DEF b, t, u, R, P
    <3>2. R.read_closed = P.read_closed /\ R.used = u
      BY <3>1 DEF PipeT
    <3> QED BY <3>2 DEF u
  <2>10. P.used + n = PIPE_BUF_SIZE
    BY <2>7, <2>8 DEF SlotInv, PipeT
  <2> HIDE DEF R
  <2>11. pipes'[c.slot] = R
    BY <1>1, <2>5, <2>8, PipeInvParts
  <2> QED BY <2>5, <2>6, <2>7, <2>9, <2>10, <2>11
<1>2. PipeInv /\ Kinds /\ [Next]_vars =>
        [\A q \in Procs :
           (/\ proc'[q] # proc[q]
            /\ proc'[q].op = "idle"
            /\ proc'[q].call = "write"
            /\ proc'[q].ret \in 0 .. (proc'[q].len - 1))
           => LET P == pipes'[proc'[q].slot]
              IN  P.read_closed /\ P.used = PIPE_BUF_SIZE]_vars
  BY <1>1
<1> QED BY <1>2, PipeAlways, PTL DEF Spec, ShortWriteOnlyWhenFull

-----------------------------------------------------------------------------
(***************************************************************************)
(* The table implements PipeFifo.  The three functions of the mapping:     *)
(***************************************************************************)
QueueOf == [s \in Slots |-> Contents(pipes[s])]
GotOf   == [q \in Procs |-> IF proc[q].call = "read" THEN proc[q].data ELSE <<>>]
TodoOf  == [q \in Procs |-> IF proc[q].call = "write" THEN proc[q].data ELSE <<>>]

\* One process has a new call record: what the mapping makes of it.
LEMMA MapCall ==
  ASSUME proc \in [Procs -> CallT], NEW q \in Procs, NEW e, proc' = [proc EXCEPT ![q] = e]
  PROVE  /\ GotOf' = [GotOf EXCEPT ![q] = IF e.call = "read" THEN e.data ELSE <<>>]
         /\ TodoOf' = [TodoOf EXCEPT ![q] = IF e.call = "write" THEN e.data ELSE <<>>]
  BY DEF GotOf, TodoOf

LEMMA MapSlot ==
  ASSUME pipes \in [Slots -> PipeT], NEW s \in Slots, NEW P, pipes' = [pipes EXCEPT ![s] = P]
  PROVE  QueueOf' = [QueueOf EXCEPT ![s] = Contents(P)]
  BY DEF QueueOf

LEMMA MapReset ==
  ASSUME Resets
  PROVE  \E S \in SUBSET Slots : QueueOf' = [s \in Slots |-> IF s \in S THEN <<>> ELSE QueueOf[s]]
<1> DEFINE S == {s \in Slots : Contents(pipes'[s]) = <<>>}
<1>1. \A s \in Slots : Contents(pipes'[s]) = IF s \in S THEN <<>> ELSE QueueOf[s]
  BY DEF Resets, QueueOf
<1>2. S \in SUBSET Slots
  OBVIOUS
<1> HIDE DEF S
<1>3. QueueOf' = [s \in Slots |-> IF s \in S THEN <<>> ELSE QueueOf[s]]
  BY <1>1 DEF QueueOf
<1> QED BY <1>2, <1>3

\* A stretch of pipe_read is a Get.
LEMMA ReadIsGet ==
  ASSUME PipeInv, NEW q \in Procs, Reading(q)
  PROVE  \E s \in Slots : Fifo!Get(q, s)
<1>1. PICK c, n, e : /\ CallInv(c) /\ c.call = "read" /\ (c.data = <<>> \/ c = proc[q])
                     /\ ReadDid(q, c, n, e)
  BY DEF Reading
<1> DEFINE s == c.slot
           P == pipes[s]
           R == TakeBytes(P, n)
<1>2. /\ n \in 0 .. P.used /\ pipes' = [pipes EXCEPT ![s] = R]
      /\ proc' = [proc EXCEPT ![q] = e] /\ e.call = "read"
      /\ e.data = c.data \o SubSeq(Contents(P), 1, n)
  BY <1>1 DEF ReadDid
<1>3. s \in Slots
  BY <1>1 DEF CallInv, CallT
<1>4. /\ SlotInv(P) /\ pipes \in [Slots -> PipeT] /\ proc \in [Procs -> CallT]
  BY <1>3, PipeInvParts
<1>5. Contents(R) = SubSeq(Contents(P), n + 1, Len(Contents(P))) /\ Len(Contents(P)) = P.used
  BY <1>2, <1>4, TakeContents, ContentsIs
<1>6. Contents(P) = QueueOf[s]
  BY <1>3 DEF QueueOf
<1>7. c.data \in {GotOf[q], <<>>}
  BY <1>1 DEF GotOf
<1> HIDE DEF R, P, s
<1>8. QueueOf' = [QueueOf EXCEPT ![s] = SubSeq(QueueOf[s], n + 1, Len(QueueOf[s]))]
  BY <1>2, <1>3, <1>4, <1>5, <1>6, MapSlot
<1>9. GotOf' = [GotOf EXCEPT ![q] = c.data \o SubSeq(QueueOf[s], 1, n)] /\ TodoOf' = [TodoOf EXCEPT ![q] = <<>>]
  BY <1>2, <1>4, <1>6, MapCall
<1>10. n \in 0 .. Len(QueueOf[s])
  BY <1>2, <1>5, <1>6
<1>11. /\ TodoOf' = [TodoOf EXCEPT ![q] = <<>>]
       /\ \E k \in 0 .. Len(QueueOf[s]), old \in {GotOf[q], <<>>} :
            /\ GotOf' = [GotOf EXCEPT ![q] = old \o SubSeq(QueueOf[s], 1, k)]
            /\ QueueOf' = [QueueOf EXCEPT ![s] = SubSeq(@, k + 1, Len(@))]
  BY <1>7, <1>8, <1>9, <1>10
<1>12. Fifo!Get(q, s)
  BY <1>11 DEF Fifo!Get, QueueOf, GotOf, TodoOf
<1> QED BY <1>3, <1>12

\* A stretch of pipe_write is a Put.
LEMMA WriteIsPut ==
  ASSUME PipeInv, NEW q \in Procs, Writing(q)
  PROVE  \E s \in Slots : Fifo!Put(q, s)
<1>1. PICK c, n, e : /\ CallInv(c) /\ c.call = "write" /\ (c.data \in Sources \/ c = proc[q])
                     /\ WriteDid(q, c, n, e)
  BY DEF Writing
<1> DEFINE s == c.slot
           P == pipes[s]
           src == c.data
           R == PutBytes(P, src, n)
<1>2. /\ n \in 0 .. Len(src) /\ n <= PIPE_BUF_SIZE - P.used /\ pipes' = [pipes EXCEPT ![s] = R]
      /\ proc' = [proc EXCEPT ![q] = e] /\ e.call = "write"
      /\ e.data = SubSeq(src, n + 1, Len(src))
  BY <1>1 DEF WriteDid
<1>3. s \in Slots /\ src \in Seq(Byte) /\ Len(src) <= c.len /\ c.len \in 0 .. MaxLen
  BY <1>1 DEF CallInv, CallT, Byte
<1>4. /\ SlotInv(P) /\ pipes \in [Slots -> PipeT] /\ proc \in [Procs -> CallT]
  BY <1>3, PipeInvParts
<1>5. src \in {TodoOf[q]} \cup Fifo!Strings
  BY <1>1 DEF TodoOf, Sources, Fifo!Strings
<1>6. Contents(P) = QueueOf[s]
  BY <1>3 DEF QueueOf
<1> HIDE DEF src
<1>7. Contents(R) = Contents(P) \o SubSeq(src, 1, n) /\ Len(Contents(P)) = P.used
      /\ P.used \in 0 .. PIPE_BUF_SIZE
  BY <1>2, <1>3, <1>4, PutContents, ContentsIs
<1>8. n \in 0 .. MaxLen /\ n <= Len(src) /\ Len(QueueOf[s]) + n <= PIPE_BUF_SIZE
  <2>1. Len(src) \in Nat
    BY <1>3, LenProperties
  <2>2. Len(QueueOf[s]) = P.used
    BY <1>6, <1>7, Zenon
  <2> HIDE DEF P
  <2> QED BY <1>2, <1>3, <1>7, <2>1, <2>2, PipeConstants
<1> HIDE DEF R, P, s
<1>9. QueueOf' = [QueueOf EXCEPT ![s] = QueueOf[s] \o SubSeq(src, 1, n)]
  BY <1>2, <1>3, <1>4, <1>6, <1>7, MapSlot
<1>10. GotOf' = [GotOf EXCEPT ![q] = <<>>] /\ TodoOf' = [TodoOf EXCEPT ![q] = SubSeq(src, n + 1, Len(src))]
  BY <1>2, <1>4, MapCall
<1>11. /\ GotOf' = [GotOf EXCEPT ![q] = <<>>]
       /\ \E sr \in {TodoOf[q]} \cup Fifo!Strings, k \in 0 .. MaxLen :
            /\ k <= Len(sr)
            /\ TodoOf' = [TodoOf EXCEPT ![q] = SubSeq(sr, k + 1, Len(sr))]
            /\ Len(QueueOf[s]) + k <= PIPE_BUF_SIZE
            /\ QueueOf' = [QueueOf EXCEPT ![s] = @ \o SubSeq(sr, 1, k)]
  BY <1>5, <1>8, <1>9, <1>10
<1>12. Fifo!Put(q, s)
  BY <1>11 DEF Fifo!Put, QueueOf, GotOf, TodoOf
<1> QED BY <1>3, <1>12

LEMMA DropIsDrop ==
  ASSUME PipeInv, NEW q \in Procs, Dropping(q)
  PROVE  Fifo!Drop(q)
<1>1. PICK e : proc' = [proc EXCEPT ![q] = e] /\ e.data = <<>>
  BY DEF Dropping
<1>2. proc \in [Procs -> CallT]
  BY PipeInvParts
<1>3. GotOf' = [GotOf EXCEPT ![q] = <<>>] /\ TodoOf' = [TodoOf EXCEPT ![q] = <<>>]
  BY <1>1, <1>2, MapCall
<1>4. \E S \in SUBSET Slots : QueueOf' = [s \in Slots |-> IF s \in S THEN <<>> ELSE QueueOf[s]]
  BY MapReset DEF Dropping
<1> QED BY <1>3, <1>4 DEF Fifo!Drop, QueueOf, GotOf, TodoOf

LEMMA ResetIsReset ==
  ASSUME Resets, proc' = proc
  PROVE  Fifo!Reset
<1>1. GotOf' = GotOf /\ TodoOf' = TodoOf
  BY DEF GotOf, TodoOf
<1>2. \E S \in SUBSET Slots : QueueOf' = [s \in Slots |-> IF s \in S THEN <<>> ELSE QueueOf[s]]
  BY MapReset
<1> QED BY <1>1, <1>2 DEF Fifo!Reset, QueueOf, GotOf, TodoOf

\* Each slot of the table is a bounded queue of bytes: through every cut of
\* transfers by the capacity of the ring and by schedule(), bytes leave in the
\* order they entered, none is lost, doubled or made up, and only a reset of
\* the slot drops them, all at once.
THEOREM TableIsFifo == Spec => ImplementsFifo
<1>1. Init => Fifo!Init
  <2> SUFFICES ASSUME Init PROVE Fifo!Init
    OBVIOUS
  <2>1. Contents(ZeroPipe) = <<>>
    BY ZeroPipeInv, EmptyContents DEF ZeroPipe
  <2>2. Idle.call = "none"
    BY DEF Idle
  <2>3. QueueOf = [s \in Slots |-> <<>>]
    BY <2>1 DEF Init, QueueOf
  <2>4. GotOf = [q \in Procs |-> <<>>] /\ TodoOf = [q \in Procs |-> <<>>]
    BY <2>2 DEF Init, GotOf, TodoOf
  <2> QED BY <2>3, <2>4 DEF Fifo!Init, QueueOf, GotOf, TodoOf
<1>2. PipeInv /\ Kinds /\ [Next]_vars => [Fifo!Next]_(Fifo!fifoVars)
  <2> SUFFICES ASSUME PipeInv, Kinds, [Next]_vars PROVE Fifo!Next
    OBVIOUS
  <2> QED BY Steps, ReadIsGet, WriteIsPut, DropIsDrop, ResetIsReset DEF Fifo!Next
<1> QED BY <1>1, <1>2, PipeAlways, PTL DEF Spec, ImplementsFifo, Fifo!Spec
=============================================================================
