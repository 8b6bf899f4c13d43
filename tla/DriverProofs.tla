---------------------------- MODULE DriverProofs ----------------------------
(***************************************************************************)
(* Proofs about two drivers.                                               *)
(*                                                                         *)
(* KeyQueue, for every size of the ring and every set of keys: no order of *)
(* interrupts and reader steps loses or swaps a key.                       *)
(*                                                                         *)
(* Xhci, for every number of chunks, tries, commands and errors: what a    *)
(* successful read or write of drivers/xhci.c means.  A read needs no      *)
(* assumption on timing, because the tag in the status block ties it to the *)
(* command; a write does, because the stick takes its data from a buffer   *)
(* whose contents nothing ties to the command.                             *)
(***************************************************************************)
EXTENDS KeyQueue, Xhci, SequenceTheorems, TLAPS

-----------------------------------------------------------------------------
(* The keyboard ring. *)

KqInv == KqTypeOK /\ KeysInOrder

\* Going around the ring stays in it, and in steps is the same as at once.
LEMMA AroundCells ==
  ASSUME NEW i \in Cells, NEW d \in 0 .. BUF_SIZE
  PROVE  Around(i, d) \in Cells
  BY KeyQueueConstants DEF Around, Cells

LEMMA AroundSteps ==
  ASSUME NEW i \in Cells, NEW d \in 0 .. (BUF_SIZE - 1)
  PROVE  Around(Around(i, d), 1) = Around(i, d + 1)
  BY KeyQueueConstants DEF Around, Cells

LEMMA AroundFromNext ==
  ASSUME NEW i \in Cells, NEW d \in 0 .. (BUF_SIZE - 1)
  PROVE  Around(Around(i, 1), d) = Around(i, d + 1)
  BY KeyQueueConstants DEF Around, Cells

\* Two different distances below the size of the ring lead to different cells.
LEMMA AroundInjective ==
  ASSUME NEW i \in Cells, NEW d \in 0 .. (BUF_SIZE - 1), NEW e \in 0 .. (BUF_SIZE - 1),
         d # e
  PROVE  Around(i, d) # Around(i, e)
  BY KeyQueueConstants DEF Around, Cells

LEMMA QueuedFacts ==
  ASSUME KqInv
  PROVE  /\ Len(queued) \in 0 .. (BUF_SIZE - 1) /\ queued \in Seq(Keys)
         /\ khead \in Cells /\ ktail \in Cells /\ BUF_SIZE \in Nat \ {0}
         /\ kbuf \in [Cells -> Keys \cup {Nothing}]
         /\ khead = Around(ktail, Len(queued))
         /\ khead = ktail <=> queued = <<>>
<1>1. /\ Len(queued) \in 0 .. (BUF_SIZE - 1) /\ queued \in Seq(Keys)
      /\ khead \in Cells /\ ktail \in Cells /\ BUF_SIZE \in Nat \ {0}
      /\ kbuf \in [Cells -> Keys \cup {Nothing}]
      /\ khead = Around(ktail, Len(queued))
  BY KeyQueueConstants DEF KqInv, KqTypeOK, KeysInOrder
<1>2. Around(ktail, 0) = ktail
  BY <1>1 DEF Around, Cells
<1>3. Len(queued) # 0 => khead # ktail
  BY <1>1, <1>2, AroundInjective
<1>4. queued = <<>> <=> Len(queued) = 0
  BY <1>1
<1> QED BY <1>1, <1>2, <1>3, <1>4

\* buf_push: the cell it fills is not one of those still to be read.
LEMMA PushInv ==
  ASSUME KqInv, NEW key \in Keys, buf_push(key)
  PROVE  KqInv'
<1> DEFINE n == Len(queued)
<1>1. /\ n \in 0 .. (BUF_SIZE - 1) /\ queued \in Seq(Keys)
      /\ khead \in Cells /\ ktail \in Cells /\ BUF_SIZE \in Nat \ {0}
      /\ kbuf \in [Cells -> Keys \cup {Nothing}]
      /\ khead = Around(ktail, n)
  BY QueuedFacts
<1>2. /\ UNCHANGED <<ktail, stdin_left, kq_key>>
      /\ kq_pc' \in {kq_pc, "pop"} /\ (kq_pc' = "advance" => kq_pc = "advance")
  BY DEF buf_push
<1>3. CASE Around(khead, 1) = ktail
  <2>1. UNCHANGED <<kbuf, khead, queued>>
    BY <1>3 DEF buf_push
  <2>2. KqTypeOK'
    BY <1>2, <2>1 DEF KqInv, KqTypeOK
  <2>3. KeysInOrder'
    BY <1>2, <2>1 DEF KqInv, KeysInOrder
  <2> QED BY <2>2, <2>3 DEF KqInv
<1>4. CASE Around(khead, 1) # ktail
  <2>1. /\ kbuf' = [kbuf EXCEPT ![khead] = key] /\ khead' = Around(khead, 1)
        /\ queued' = Append(queued, key)
    BY <1>4 DEF buf_push
  <2>2. khead' = Around(ktail, n + 1)
    BY <1>1, <2>1, AroundSteps
  <2>3. n + 1 < BUF_SIZE
    <3>1. n + 1 = BUF_SIZE => Around(ktail, n + 1) = ktail
      BY <1>1 DEF Around, Cells
    <3> QED BY <1>1, <1>4, <2>1, <2>2, <3>1
  <2>4. /\ Len(queued') = n + 1 /\ queued'[n + 1] = key
        /\ \A i \in 1 .. n : queued'[i] = queued[i]
        /\ queued' \in Seq(Keys)
    BY <1>1, <2>1
  <2>5. /\ kbuf'[khead] = key /\ kbuf' \in [Cells -> Keys \cup {Nothing}]
        /\ \A c \in Cells \ {khead} : kbuf'[c] = kbuf[c]
    BY <1>1, <2>1
  <2>6. \A i \in 1 .. (n + 1) : queued'[i] = kbuf'[Around(ktail, i - 1)]
    <3> SUFFICES ASSUME NEW i \in 1 .. (n + 1)
                 PROVE  queued'[i] = kbuf'[Around(ktail, i - 1)]
      OBVIOUS
    <3>1. CASE i = n + 1
      <4>1. i - 1 = n
        BY <1>1, <3>1
      <4> QED BY <1>1, <2>4, <2>5, <3>1, <4>1
    <3>2. CASE i # n + 1
      <4>1. i \in 1 .. n /\ i - 1 \in 0 .. (BUF_SIZE - 1) /\ i - 1 # n
            /\ i - 1 \in 0 .. BUF_SIZE
        BY <1>1, <3>2
      <4>2. Around(ktail, i - 1) \in Cells /\ Around(ktail, i - 1) # khead
        BY <1>1, <4>1, AroundCells, AroundInjective
      <4>3. queued[i] = kbuf[Around(ktail, i - 1)]
        BY <4>1 DEF KqInv, KeysInOrder
      <4> QED BY <2>4, <2>5, <4>1, <4>2, <4>3
    <3> QED BY <3>1, <3>2
  <2>7. kq_pc' = "advance" => queued' # <<>> /\ kq_key' = queued'[1]
    <3>1. kq_pc' = "advance" => queued # <<>> /\ kq_key = queued[1]
      BY <1>2 DEF KqInv, KeysInOrder
    <3>2. queued # <<>> => 1 \in 1 .. n
      BY <1>1
    <3>3. queued' # <<>>
      BY <1>1, <2>4
    <3> QED BY <1>2, <2>4, <3>1, <3>2, <3>3
  <2>8. khead' \in Cells
    BY <1>1, <2>1, AroundCells
  <2>9. KqTypeOK'
    BY <1>1, <1>2, <2>4, <2>5, <2>8 DEF KqInv, KqTypeOK
  <2>10. KeysInOrder'
    BY <1>2, <2>2, <2>3, <2>4, <2>6, <2>7 DEF KeysInOrder
  <2> QED BY <2>9, <2>10 DEF KqInv
<1> QED BY <1>3, <1>4

\* The last step of buf_pop: ktail goes on, whatever was pushed since the key
\* was read.
LEMMA AdvanceInv ==
  ASSUME KqInv, Advance
  PROVE  KqInv'
<1> DEFINE n == Len(queued)
<1>1. /\ n \in 0 .. (BUF_SIZE - 1) /\ queued \in Seq(Keys)
      /\ khead \in Cells /\ ktail \in Cells /\ BUF_SIZE \in Nat \ {0}
      /\ khead = Around(ktail, n)
  BY QueuedFacts
<1>2. /\ ktail' = Around(ktail, 1) /\ kq_pc' = "user" /\ kq_key' = Nothing
      /\ queued' = Tail(queued) /\ UNCHANGED <<kbuf, khead, stdin_left>>
  BY DEF Advance
<1>3. n > 0
  BY <1>1 DEF Advance, KqInv, KeysInOrder
<1>4. /\ Len(queued') = n - 1 /\ queued' \in Seq(Keys)
      /\ \A i \in 1 .. (n - 1) : queued'[i] = queued[i + 1]
  BY <1>1, <1>2, <1>3
<1>5. ktail' \in Cells
  BY <1>1, <1>2, AroundCells
<1>6. khead' = Around(ktail', Len(queued'))
  BY <1>1, <1>2, <1>3, <1>4, AroundFromNext
<1>7. \A i \in 1 .. (n - 1) : queued'[i] = kbuf'[Around(ktail', i - 1)]
  <2> SUFFICES ASSUME NEW i \in 1 .. (n - 1)
               PROVE  queued'[i] = kbuf'[Around(ktail', i - 1)]
    OBVIOUS
  <2>1. i + 1 \in 1 .. n /\ i - 1 \in 0 .. (BUF_SIZE - 1) /\ (i - 1) + 1 = (i + 1) - 1
    BY <1>1
  <2>2. Around(ktail', i - 1) = Around(ktail, (i - 1) + 1)
    BY <1>1, <1>2, <2>1, AroundFromNext
  <2>3. queued[i + 1] = kbuf[Around(ktail, (i + 1) - 1)]
    BY <2>1 DEF KqInv, KeysInOrder
  <2> QED BY <1>2, <1>4, <2>1, <2>2, <2>3
<1>8. KqTypeOK'
  BY <1>2, <1>4, <1>5 DEF KqInv, KqTypeOK
<1>9. KeysInOrder'
  BY <1>1, <1>2, <1>3, <1>4, <1>6, <1>7 DEF KeysInOrder
<1> QED BY <1>8, <1>9 DEF KqInv

\* PopKey: the cell at ktail holds the oldest key.
LEMMA PopInv ==
  ASSUME KqInv, PopKey
  PROVE  KqInv'
<1>1. /\ Len(queued) \in 0 .. (BUF_SIZE - 1) /\ queued \in Seq(Keys)
      /\ ktail \in Cells /\ BUF_SIZE \in Nat \ {0}
      /\ queued # <<>>
  BY QueuedFacts DEF PopKey
<1>2. /\ kq_key' = kbuf[ktail] /\ kq_pc' = "advance"
      /\ UNCHANGED <<kbuf, khead, ktail, stdin_left, queued>>
  BY DEF PopKey
<1>3. Around(ktail, 1 - 1) = ktail /\ 1 \in 1 .. Len(queued)
  BY <1>1 DEF Around, Cells
<1>4. queued[1] = kbuf[ktail] /\ queued[1] \in Keys
  BY <1>1, <1>3 DEF KqInv, KeysInOrder
<1>5. KqTypeOK'
  BY <1>2, <1>4 DEF KqInv, KqTypeOK
<1>6. KeysInOrder'
  BY <1>1, <1>2, <1>4 DEF KqInv, KeysInOrder
<1> QED BY <1>5, <1>6 DEF KqInv

\* The steps that touch neither the ring nor its history.
LEMMA OtherInv ==
  ASSUME KqInv, UNCHANGED <<kbuf, khead, ktail, kq_key, queued>>,
         stdin_left' \in 0 .. MaxStdin,
         kq_pc' = kq_pc \/ kq_pc' \in {"user", "pop", "empty", "hlt", "try"}
  PROVE  KqInv'
<1>1. KqTypeOK'
  BY DEF KqInv, KqTypeOK
<1>2. KeysInOrder'
  BY DEF KqInv, KeysInOrder
<1> QED BY <1>1, <1>2 DEF KqInv

LEMMA KqInvInit == KqInit => KqInv
<1> SUFFICES ASSUME KqInit PROVE KqInv
  OBVIOUS
<1>1. 0 \in Cells /\ 0 \in 0 .. MaxStdin /\ BUF_SIZE > 0
  BY KeyQueueConstants DEF Cells
<1>2. kbuf \in [Cells -> Keys \cup {Nothing}]
  BY DEF KqInit
<1>3. queued = <<>> /\ Len(queued) = 0
  BY DEF KqInit
<1>4. KqTypeOK
  BY <1>1, <1>2 DEF KqInit, KqTypeOK
<1>5. KeysInOrder
  BY <1>1, <1>3, KeyQueueConstants DEF KqInit, KeysInOrder, Around
<1> QED BY <1>4, <1>5 DEF KqInv

LEMMA KqInvInductive == KqInv /\ [KqNext]_kqVars => KqInv'
<1> SUFFICES ASSUME KqInv, [KqNext]_kqVars PROVE KqInv'
  OBVIOUS
<1>0. stdin_left \in 0 .. MaxStdin /\ MaxStdin \in Nat
  BY KeyQueueConstants DEF KqInv, KqTypeOK
<1>1. ASSUME NEW k \in Keys, buf_push(k) PROVE KqInv'
  BY <1>1, PushInv
<1>2. ASSUME NEW n \in 0 .. MaxStdin, SetStdin(n) PROVE KqInv'
  BY <1>2, OtherInv DEF SetStdin
<1>3. CASE Getchar \/ TryGetchar
  <2>1. stdin_left' \in 0 .. MaxStdin
    BY <1>0, <1>3 DEF Getchar, TryGetchar
  <2> QED BY <1>3, <2>1, OtherInv DEF Getchar, TryGetchar
<1>4. CASE OtherInterrupt \/ TryEmpty \/ PopEmpty \/ Hlt
  BY <1>0, <1>4, OtherInv DEF OtherInterrupt, TryEmpty, PopEmpty, Hlt
<1>5. CASE PopKey
  BY <1>5, PopInv
<1>6. CASE Advance
  BY <1>6, AdvanceInv
<1>7. CASE UNCHANGED kqVars
  BY <1>0, <1>7, OtherInv DEF kqVars
<1> QED BY <1>1, <1>2, <1>3, <1>4, <1>5, <1>6, <1>7 DEF KqNext

\* For every ring size: the keys between ktail and khead of drivers/keyboard.c
\* are those accepted and not read yet, in order, wherever interrupts fall.
THEOREM KeysKeepOrder == KqSpec => []KeysInOrder
<1>1. KqInv => KeysInOrder
  BY DEF KqInv
<1> QED BY <1>1, KqInvInit, KqInvInductive, PTL DEF KqSpec

\* khead, ktail and the keys read stay in their ranges for every ring size.
THEOREM KeyQueueTypes == KqSpec => []KqTypeOK
<1>1. KqInv => KqTypeOK
  BY DEF KqInv
<1> QED BY <1>1, KqInvInit, KqInvInductive, PTL DEF KqSpec

-----------------------------------------------------------------------------
(***************************************************************************)
(* The driver of the stick between two steps.                              *)
(***************************************************************************)
Stages == {"idle", "send", "cbw", "data", "csw", "clear"}
Phases == {"idle", "out", "in", "csw", "halted"}
Active(d) == d.stage \in {"cbw", "data", "csw", "clear"}
DrvT == [stage : Stages, op : {"read", "write"}, lba : Lba \cup {0}, val : Values,
         left : 0 .. Chunks, try : 0 .. (Attempts - 1), outer : -1 .. (Attempts - 1)]
CommandT == [tag : 0 .. Tags, op : {"read", "write", "sense"}, lba : Lba \cup {0}]

DrvOk(d) ==
  /\ d \in DrvT
  /\ d.stage # "idle" => d.lba \in Lba /\ d.left >= 1 /\ d.lba + d.left <= Chunks

LEMMA XhFacts ==
  /\ Chunks \in Nat /\ Attempts \in Nat \ {0} /\ Tags \in Nat /\ MaxErrors \in Nat
  /\ Blank \in Values /\ SenseData \in Values /\ Junk \in Values /\ Vals \subseteq Values
  /\ \A a \in Lba : Old(a) \in Values
  BY XhciConstants DEF Values

LEMMA IdleOk == DrvOk(Idle) /\ Idle.stage = "idle" /\ Idle.outer = -1
  BY XhFacts DEF DrvOk, DrvT, Idle, Stages

LEMMA StageOk ==
  ASSUME NEW d, DrvOk(d), d.stage # "idle", NEW s \in Stages \ {"idle"}
  PROVE  LET e == [d EXCEPT !.stage = s]
         IN  /\ DrvOk(e) /\ e.stage = s /\ e.op = d.op /\ e.lba = d.lba /\ e.val = d.val
             /\ e.left = d.left /\ e.try = d.try /\ e.outer = d.outer
  BY DEF DrvOk, DrvT

LEMMA BackOk ==
  ASSUME NEW d, DrvOk(d), d.stage # "idle", d.outer # -1
  PROVE  LET e == BackToOuter(d)
         IN  /\ DrvOk(e) /\ e.stage \in {"send", "idle"} /\ e.outer = -1
             /\ e.stage = "send" => e.op = d.op /\ e.lba = d.lba /\ e.val = d.val
<1> DEFINE e == BackToOuter(d)
<1>1. d.outer \in -1 .. (Attempts - 1) /\ Attempts \in Nat
  BY XhFacts DEF DrvOk, DrvT
<1>2. CASE d.outer + 1 < Attempts
  <2>1. e = [d EXCEPT !.try = d.outer + 1, !.outer = -1, !.stage = "send"]
    BY <1>2 DEF BackToOuter
  <2>2. d.outer + 1 \in 0 .. (Attempts - 1) /\ -1 \in -1 .. (Attempts - 1)
    BY <1>1, <1>2
  <2> HIDE DEF e
  <2>3. /\ DrvOk(e) /\ e.stage = "send" /\ e.outer = -1
        /\ e.op = d.op /\ e.lba = d.lba /\ e.val = d.val
    BY <2>1, <2>2 DEF DrvOk, DrvT, Stages
  <2> QED BY <2>3 DEF e
<1>3. CASE ~(d.outer + 1 < Attempts)
  <2>1. e = Idle
    BY <1>3 DEF BackToOuter
  <2> HIDE DEF e
  <2>2. DrvOk(e) /\ e.stage = "idle" /\ e.outer = -1
    BY <2>1, IdleOk
  <2> QED BY <2>2 DEF e
<1> QED BY <1>2, <1>3

LEMMA RetryOk ==
  ASSUME NEW d, DrvOk(d), d.stage # "idle"
  PROVE  LET e == Retry(d)
         IN  /\ DrvOk(e) /\ e.stage \in {"send", "idle"} /\ e.outer \in {-1, d.outer}
             /\ e.stage = "send" => e.op = d.op /\ e.lba = d.lba /\ e.val = d.val
<1> DEFINE e == Retry(d)
<1>1. d.try \in 0 .. (Attempts - 1) /\ Attempts \in Nat
  BY XhFacts DEF DrvOk, DrvT
<1>2. CASE d.try + 1 < Attempts
  <2>1. e = [d EXCEPT !.try = d.try + 1, !.stage = "send"]
    BY <1>2 DEF Retry
  <2>2. d.try + 1 \in 0 .. (Attempts - 1)
    BY <1>1, <1>2
  <2> HIDE DEF e
  <2>3. /\ DrvOk(e) /\ e.stage = "send" /\ e.outer = d.outer
        /\ e.op = d.op /\ e.lba = d.lba /\ e.val = d.val
    BY <2>1, <2>2 DEF DrvOk, DrvT, Stages
  <2> QED BY <2>3 DEF e
<1>3. CASE ~(d.try + 1 < Attempts) /\ d.outer # -1
  <2>1. e = BackToOuter(d)
    BY <1>3 DEF Retry
  <2> QED BY <1>3, <2>1, BackOk
<1>4. CASE ~(d.try + 1 < Attempts) /\ d.outer = -1
  <2>1. e = Idle
    BY <1>4 DEF Retry
  <2> HIDE DEF e
  <2>2. DrvOk(e) /\ e.stage = "idle" /\ e.outer = -1
    BY <2>1, IdleOk
  <2> QED BY <2>2 DEF e
<1> QED BY <1>2, <1>3, <1>4

LEMMA DoneOk ==
  ASSUME NEW d, DrvOk(d), d.stage # "idle"
  PROVE  LET e == Done(d)
         IN  /\ DrvOk(e) /\ e.stage \in {"send", "idle"} /\ e.outer = -1
             /\ e.stage = "send" => e.op = d.op /\ e.val = d.val
<1> DEFINE e == Done(d)
<1>1. CASE d.outer # -1
  <2>1. e = BackToOuter(d)
    BY <1>1 DEF Done
  <2> QED BY <1>1, <2>1, BackOk
<1>2. CASE d.outer = -1 /\ d.left > 1
  <2>1. e = [d EXCEPT !.stage = "send", !.lba = d.lba + 1, !.left = d.left - 1, !.try = 0]
    BY <1>2 DEF Done
  <2>2. /\ d.lba \in 0 .. (Chunks - 1) /\ d.left \in 0 .. Chunks /\ d.lba + d.left <= Chunks
        /\ Chunks \in Nat /\ Attempts \in Nat \ {0} /\ d \in DrvT
    BY XhFacts DEF DrvOk, DrvT, Lba
  <2>3. /\ d.lba + 1 \in Lba /\ d.left - 1 \in 0 .. Chunks /\ d.left - 1 >= 1
        /\ (d.lba + 1) + (d.left - 1) <= Chunks /\ 0 \in 0 .. (Attempts - 1)
    BY <1>2, <2>2 DEF Lba
  <2> HIDE DEF e
  <2>4. /\ e \in DrvT /\ e.stage = "send" /\ e.outer = d.outer /\ e.op = d.op /\ e.val = d.val
        /\ e.lba = d.lba + 1 /\ e.left = d.left - 1
    BY <2>1, <2>2, <2>3 DEF DrvT, Stages
  <2>5. DrvOk(e)
    BY <2>3, <2>4 DEF DrvOk
  <2> QED BY <1>2, <2>4, <2>5 DEF e
<1>3. CASE d.outer = -1 /\ ~(d.left > 1)
  <2>1. e = Idle
    BY <1>3 DEF Done
  <2> HIDE DEF e
  <2>2. DrvOk(e) /\ e.stage = "idle" /\ e.outer = -1
    BY <2>1, IdleOk
  <2> QED BY <2>2 DEF e
<1> QED BY <1>1, <1>2, <1>3

-----------------------------------------------------------------------------
(***************************************************************************)
(* The invariant.                                                          *)
(***************************************************************************)
Types ==
  /\ DrvOk(drv) /\ msd_tag \in 0 .. Tags
  /\ static_cbw \in CommandT /\ static_csw \in [tag : 0 .. Tags, ok : BOOLEAN]
  /\ stick \in [phase : Phases, cmd : CommandT, ok : BOOLEAN]
  /\ xhci_dma_buf \in Values /\ usb_disk \in [Lba -> Values]
  /\ bulk_out \in Seq({"cbw", "data"}) /\ bulk_in \in Seq({"csw", "data"})
  /\ evt_ring \in Seq(BOOLEAN) /\ errors \in 0 .. MaxErrors
  /\ sensed \in BOOLEAN /\ late \in BOOLEAN

\* Commands reach the stick only when there is a disk to address.
Addressed ==
  drv.stage # "idle" \/ bulk_out # <<>> \/ stick.phase # "idle" => Chunks > 0

\* The command block in memory is the one of the command under way; the stick
\* is at that one or an earlier one, and the status block too.
TagsInOrder ==
  /\ static_cbw.tag = msd_tag
  /\ Active(drv) => /\ msd_tag > 0 /\ static_cbw.op = CommandOp
                    /\ static_cbw.lba = drv.lba
  /\ stick.cmd.tag <= msd_tag
  /\ stick.cmd.tag = msd_tag => stick.cmd = static_cbw
  /\ static_csw.tag <= stick.cmd.tag

\* Behind every transfer for data is one for a status, except at the end.
Paired(q) == \A i \in 1 .. (Len(q) - 1) : q[i] = "data" => q[i + 1] = "csw"

PhaseOp ==
  /\ stick.phase = "out" => stick.cmd.op = "write"
  /\ stick.phase = "in" => stick.cmd.op # "write"
StatusFollows ==
  /\ Paired(bulk_in)
  /\ bulk_in # <<>> /\ bulk_in[Len(bulk_in)] = "data" => drv.stage = "data"
  /\ stick.phase = "csw" /\ stick.cmd.op # "write" =>
       IF bulk_in = <<>> THEN drv.stage = "data" ELSE Head(bulk_in) = "csw"

\* The stick, or the status block it wrote, says that the read went well.
Fetched == \/ stick.phase = "csw" /\ stick.ok
           \/ static_csw.tag = msd_tag /\ static_csw.ok
ReadArrived ==
  Active(drv) /\ stick.cmd = static_cbw /\ static_cbw.op = "read" /\ Fetched =>
    xhci_dma_buf = usb_disk[drv.lba]

\* As long as no answer was late, driver and stick are in step: what is queued
\* is what the driver waits for, and its event is the only one.
InStep ==
  /\ drv.stage \in {"idle", "send"} =>
       /\ bulk_out = <<>> /\ bulk_in = <<>> /\ evt_ring = <<>> /\ stick.phase = "idle"
  /\ drv.stage = "cbw" =>
       /\ bulk_in = <<>>
       /\ \/ bulk_out = <<"cbw">> /\ evt_ring = <<>> /\ stick.phase = "idle"
          \/ /\ bulk_out = <<>> /\ evt_ring = <<TRUE>> /\ stick.cmd = static_cbw
             /\ stick.phase = IF Writes THEN "out" ELSE "in"
  /\ drv.stage = "data" =>
       /\ stick.cmd = static_cbw
       /\ \/ /\ Writes /\ bulk_out = <<"data">> /\ bulk_in = <<>>
             /\ evt_ring = <<>> /\ stick.phase = "out"
          \/ /\ ~Writes /\ bulk_out = <<>> /\ bulk_in = <<"data">>
             /\ evt_ring = <<>> /\ stick.phase = "in"
          \/ /\ bulk_out = <<>> /\ bulk_in = <<>>
             /\ evt_ring = <<TRUE>> /\ stick.phase = "csw"
  /\ drv.stage = "csw" =>
       /\ stick.cmd = static_cbw /\ bulk_out = <<>>
       /\ \/ bulk_in = <<"csw">> /\ evt_ring = <<>> /\ stick.phase = "csw"
          \/ bulk_in = <<>> /\ evt_ring = <<TRUE>> /\ stick.phase = "idle"
  /\ drv.stage # "clear"

\* After a stall every wait of the driver ends without an answer.
Stalled ==
  \/ drv.stage = "data" /\ evt_ring = <<FALSE>>
  \/ drv.stage \in {"idle", "send", "cbw", "clear"} /\ evt_ring = <<>>

Synchronous == ~late => IF Halted THEN Stalled ELSE InStep

\* The bounce buffer of a write keeps its data, and then the disk has it.
WriteKept ==
  /\ Sensing => sensed
  /\ ~late /\ ~sensed /\ drv.stage # "idle" /\ drv.op = "write" =>
       /\ xhci_dma_buf = drv.val
       /\ Active(drv) /\ stick.cmd = static_cbw /\ Fetched /\ ~Halted =>
            usb_disk[drv.lba] = drv.val

XhInv == /\ Types /\ Addressed /\ TagsInOrder /\ PhaseOp /\ StatusFollows /\ ReadArrived
         /\ Synchronous /\ WriteKept

-----------------------------------------------------------------------------
(* Sequences of transfers. *)

LEMMA One ==
  ASSUME NEW x
  PROVE  /\ <<x>> # <<>> /\ Append(<<>>, x) = <<x>> /\ Head(<<x>>) = x /\ Tail(<<x>>) = <<>>
  OBVIOUS

LEMMA Taken ==
  ASSUME NEW S, NEW q \in Seq(S), q # <<>>
  PROVE  /\ Tail(q) \in Seq(S) /\ Head(q) \in S /\ Head(q) = q[1]
         /\ Len(q) \in Nat \ {0} /\ Len(Tail(q)) = Len(q) - 1
         /\ \A i \in 1 .. (Len(q) - 1) : Tail(q)[i] = q[i + 1]
         /\ Tail(q) = <<>> <=> Len(q) = 1
<1>1. Len(q) \in Nat \ {0} /\ Head(q) \in S /\ Tail(q) \in Seq(S) /\ Head(q) = q[1]
  OBVIOUS
<1>2. /\ Len(Tail(q)) = Len(q) - 1
      /\ \A i \in 1 .. Len(Tail(q)) : Tail(q)[i] = q[i + 1]
  BY HeadTailProperties
<1>3. Tail(q) = <<>> <=> Len(Tail(q)) = 0
  BY <1>1, EmptySeq
<1>4. \A i \in 1 .. (Len(q) - 1) : Tail(q)[i] = q[i + 1]
  BY <1>2
<1>5. Tail(q) = <<>> <=> Len(q) = 1
  BY <1>1, <1>2, <1>3
<1> QED BY <1>1, <1>2, <1>4, <1>5

LEMMA Queued ==
  ASSUME NEW S, NEW q \in Seq(S), NEW x \in S
  PROVE  /\ Append(q, x) \in Seq(S) /\ Append(q, x) # <<>>
         /\ Len(q) \in Nat /\ Len(Append(q, x)) = Len(q) + 1
         /\ \A i \in 1 .. Len(q) : Append(q, x)[i] = q[i]
         /\ Append(q, x)[Len(q) + 1] = x
         /\ q = <<>> => Head(Append(q, x)) = x
         /\ q # <<>> => Head(Append(q, x)) = Head(q)
  OBVIOUS

LEMMA PairedTail ==
  ASSUME NEW q \in Seq({"csw", "data"}), q # <<>>, Paired(q)
  PROVE  /\ Paired(Tail(q))
         /\ Head(q) = "data" /\ Tail(q) # <<>> => Head(Tail(q)) = "csw"
         /\ Head(q) = "data" /\ Tail(q) = <<>> => q[Len(q)] = "data"
         /\ Tail(q) # <<>> => Tail(q)[Len(Tail(q))] = q[Len(q)]
<1>1. /\ Tail(q) \in Seq({"csw", "data"}) /\ Head(q) = q[1]
      /\ Len(q) \in Nat \ {0} /\ Len(Tail(q)) = Len(q) - 1
      /\ \A i \in 1 .. (Len(q) - 1) : Tail(q)[i] = q[i + 1]
      /\ Tail(q) = <<>> <=> Len(q) = 1
  BY Taken
<1>2. Paired(Tail(q))
  <2> SUFFICES ASSUME NEW i \in 1 .. (Len(q) - 2), Tail(q)[i] = "data"
               PROVE  Tail(q)[i + 1] = "csw"
    BY <1>1 DEF Paired
  <2>1. /\ Tail(q)[i] = q[i + 1] /\ Tail(q)[i + 1] = q[(i + 1) + 1]
        /\ i + 1 \in 1 .. (Len(q) - 1)
    BY <1>1
  <2> QED BY <2>1 DEF Paired
<1>3. Tail(q) # <<>> => /\ Len(q) - 1 \in 1 .. (Len(q) - 1) /\ 1 \in 1 .. (Len(q) - 1)
                        /\ Tail(q)[1] = q[2] /\ Tail(q)[Len(q) - 1] = q[Len(q)]
                        /\ Head(Tail(q)) = Tail(q)[1]
  <2> SUFFICES ASSUME Tail(q) # <<>>
               PROVE  /\ Len(q) - 1 \in 1 .. (Len(q) - 1) /\ 1 \in 1 .. (Len(q) - 1)
                      /\ Tail(q)[1] = q[2] /\ Tail(q)[Len(q) - 1] = q[Len(q)]
                      /\ Head(Tail(q)) = Tail(q)[1]
    OBVIOUS
  <2>1. Len(q) - 1 \in 1 .. (Len(q) - 1) /\ 1 \in 1 .. (Len(q) - 1)
    BY <1>1
  <2>2. Tail(q)[1] = q[1 + 1] /\ Tail(q)[Len(q) - 1] = q[(Len(q) - 1) + 1]
    BY <1>1, <2>1
  <2>3. Head(Tail(q)) = Tail(q)[1]
    BY <1>1, Taken
  <2> QED BY <1>1, <2>1, <2>2, <2>3
<1>4. Head(q) = "data" /\ Tail(q) # <<>> => Head(Tail(q)) = "csw"
  <2>1. Tail(q) # <<>> => 1 \in 1 .. (Len(q) - 1) /\ Head(Tail(q)) = q[1 + 1]
    BY <1>3
  <2> QED BY <1>1, <2>1 DEF Paired
<1> QED BY <1>1, <1>2, <1>3, <1>4

LEMMA PairedAppend ==
  ASSUME NEW q \in Seq({"csw", "data"}), Paired(q), NEW x \in {"csw", "data"},
         q # <<>> /\ q[Len(q)] = "data" => x = "csw"
  PROVE  Paired(Append(q, x)) /\ Append(q, x)[Len(Append(q, x))] = x
<1>1. /\ Len(q) \in Nat /\ Len(Append(q, x)) = Len(q) + 1
      /\ \A i \in 1 .. Len(q) : Append(q, x)[i] = q[i]
      /\ Append(q, x)[Len(q) + 1] = x
  BY Queued
<1>2. ASSUME NEW i \in 1 .. Len(q), Append(q, x)[i] = "data" PROVE Append(q, x)[i + 1] = "csw"
  <2>1. q[i] = "data" /\ q # <<>>
    BY <1>1, <1>2
  <2>2. CASE i = Len(q)
    BY <1>1, <2>1, <2>2
  <2>3. CASE i # Len(q)
    <3>1. i \in 1 .. (Len(q) - 1) /\ i + 1 \in 1 .. Len(q)
      BY <1>1, <2>3
    <3> QED BY <1>1, <2>1, <3>1 DEF Paired
  <2> QED BY <2>2, <2>3
<1> QED BY <1>1, <1>2 DEF Paired
-----------------------------------------------------------------------------
(* What a poll leaves to the driver: the one event of the transfer while the *)
(* two are in step, none after a stall.                                      *)

Ended(good) ==
  ~late' => /\ ~late /\ evt_ring' = <<>>
            /\ IF Halted THEN ~good /\ drv.stage \in {"cbw", "data", "clear"}
               ELSE good /\ InStep /\ evt_ring = <<TRUE>>

Polled(good) ==
  /\ UNCHANGED <<msd_tag, static_cbw, stick, usb_disk, errors>>
  /\ evt_ring' \in Seq(BOOLEAN) /\ late' \in BOOLEAN /\ Ended(good)

LEMMA EventEnds ==
  ASSUME XhInv, PollEvent
  PROVE  Head(evt_ring) \in BOOLEAN /\ Polled(Head(evt_ring))
<1>1. evt_ring \in Seq(BOOLEAN) /\ evt_ring # <<>> /\ late \in BOOLEAN
  BY DEF XhInv, Types, PollEvent
<1>2. Head(evt_ring) \in BOOLEAN /\ Tail(evt_ring) \in Seq(BOOLEAN)
  BY <1>1, Taken
<1>3. /\ UNCHANGED <<msd_tag, static_cbw, stick, usb_disk, errors>> /\ late' = late
      /\ evt_ring' = Tail(evt_ring) /\ After(Head(evt_ring))
  BY DEF PollEvent, devVars
<1>4. Ended(Head(evt_ring))
  <2> SUFFICES ASSUME ~late
               PROVE  /\ evt_ring' = <<>>
                      /\ IF Halted THEN ~Head(evt_ring) /\ drv.stage \in {"cbw", "data", "clear"}
                         ELSE Head(evt_ring) /\ InStep /\ evt_ring = <<TRUE>>
    BY <1>3 DEF Ended
  <2>1. CASE Halted
    <3>1. drv.stage = "data" /\ evt_ring = <<FALSE>>
      BY <1>1, <2>1 DEF XhInv, Synchronous, Stalled
    <3> QED BY <1>3, <2>1, <3>1, One
  <2>2. CASE ~Halted
    <3>1. InStep
      BY <2>2 DEF XhInv, Synchronous
    <3>2. evt_ring = <<TRUE>>
      BY <1>1, <3>1 DEF InStep, XhInv, Types, DrvOk, DrvT, Stages
    <3> QED BY <1>3, <2>2, <3>1, <3>2, One
  <2> QED BY <2>1, <2>2
<1> QED BY <1>1, <1>2, <1>3, <1>4 DEF Polled

LEMMA TimeoutEnds ==
  ASSUME XhInv, PollTimeout
  PROVE  Polled(FALSE)
<1>1. /\ evt_ring \in Seq(BOOLEAN) /\ evt_ring = <<>> /\ late \in BOOLEAN /\ After(FALSE)
      /\ UNCHANGED <<msd_tag, static_cbw, stick, usb_disk, errors, evt_ring>>
      /\ late' = (late \/ CanAnswer)
  BY DEF XhInv, Types, PollTimeout, devVars
<1>2. drv.stage \in {"cbw", "data", "clear", "csw"}
  BY <1>1 DEF After, AfterCbw, AfterData, AfterClear, AfterCsw
<1>3. late' \in BOOLEAN
  BY <1>1 DEF CanAnswer
<1>4. Ended(FALSE)
  <2> SUFFICES ASSUME ~late'
               PROVE  /\ ~late /\ evt_ring' = <<>>
                      /\ Halted /\ drv.stage \in {"cbw", "data", "clear"}
    BY DEF Ended
  <2>1. ~late /\ ~CanAnswer
    BY <1>1
  <2>2. CASE Halted
    <3>1. drv.stage # "csw"
      BY <2>1, <2>2 DEF XhInv, Synchronous, Stalled
    <3> QED BY <1>1, <1>2, <2>1, <2>2, <3>1
  <2>3. CASE ~Halted
    <3>1. InStep
      BY <2>1, <2>3 DEF XhInv, Synchronous
    <3> QED BY <1>1, <1>2, <2>1, <3>1, One DEF InStep, CanAnswer
  <2> QED BY <2>2, <2>3
<1> QED BY <1>1, <1>3, <1>4 DEF Polled

LEMMA Returned ==
  ASSUME XhInv, NEW good \in BOOLEAN, Polled(good), WriteKept',
         UNCHANGED <<static_csw, bulk_out, bulk_in>>,
         DrvOk(drv'), drv'.stage \in {"send", "idle"},
         drv.stage \in {"cbw", "clear", "csw"}, drv.stage = "cbw" => ~good,
         xhci_dma_buf' \in Values, sensed' \in BOOLEAN
  PROVE  XhInv'
<1> USE DEF XhInv
<1>1. /\ UNCHANGED <<msd_tag, static_cbw, stick, usb_disk, errors>>
      /\ evt_ring' \in Seq(BOOLEAN) /\ late' \in BOOLEAN /\ Ended(good)
  BY DEF Polled
<1>2. Types'
  BY <1>1 DEF Types
<1>3. Addressed' /\ TagsInOrder' /\ PhaseOp' /\ ReadArrived'
  BY <1>1 DEF Addressed, TagsInOrder, PhaseOp, ReadArrived, Active
<1>4. StatusFollows'
  BY <1>1 DEF StatusFollows
<1>5. Synchronous'
  <2> SUFFICES ASSUME ~late' PROVE IF Halted THEN Stalled' ELSE InStep'
    BY <1>1 DEF Synchronous, Halted
  <2>1. CASE Halted
    BY <1>1, <2>1 DEF Ended, Stalled
  <2>2. CASE ~Halted
    <3>1. good /\ InStep /\ evt_ring = <<TRUE>> /\ evt_ring' = <<>>
      BY <1>1, <2>2 DEF Ended
    <3>2. drv.stage = "csw"
      BY <3>1 DEF InStep
    <3>3. bulk_out = <<>> /\ bulk_in = <<>> /\ stick.phase = "idle"
      BY <3>1, <3>2, One DEF InStep
    <3> QED BY <1>1, <2>2, <3>1, <3>3 DEF InStep
  <2> QED BY <2>1, <2>2
<1> QED BY <1>2, <1>3, <1>4, <1>5

\* A try that failed leaves a write its data.
LEMMA RetryKeeps ==
  ASSUME XhInv, drv.stage # "idle", drv' = Retry(drv), UNCHANGED xhci_dma_buf,
         sensed' \in BOOLEAN, sensed => sensed', late => late'
  PROVE  WriteKept' /\ DrvOk(drv') /\ drv'.stage \in {"send", "idle"}
<1>1. /\ DrvOk(drv') /\ drv'.stage \in {"send", "idle"} /\ drv'.outer \in {-1, drv.outer}
      /\ drv'.stage = "send" => drv'.op = drv.op /\ drv'.lba = drv.lba /\ drv'.val = drv.val
  BY RetryOk DEF XhInv, Types
<1>2. late \in BOOLEAN /\ sensed \in BOOLEAN
  BY DEF XhInv, Types
<1> QED BY <1>1, <1>2 DEF XhInv, WriteKept, Sensing, Active

LEMMA AfterClearStep ==
  ASSUME XhInv, NEW good \in BOOLEAN, AfterClear(good), Polled(good)
  PROVE  XhInv'
<1>1. /\ drv.stage = "clear" /\ drv' = Retry(drv)
      /\ UNCHANGED <<static_csw, xhci_dma_buf, bulk_out, bulk_in, sensed>>
  BY DEF AfterClear
<1>2. sensed \in BOOLEAN /\ late \in BOOLEAN /\ xhci_dma_buf \in Values
  BY DEF XhInv, Types
<1>3. late => late'
  BY <1>2 DEF Polled, Ended
<1>4. WriteKept' /\ DrvOk(drv') /\ drv'.stage \in {"send", "idle"}
  BY <1>1, <1>2, <1>3, RetryKeeps
<1> QED BY <1>1, <1>2, <1>4, Returned

LEMMA AfterCbwStep ==
  ASSUME XhInv, NEW good \in BOOLEAN, AfterCbw(good), Polled(good)
  PROVE  XhInv'
<1>1. drv.stage = "cbw" /\ UNCHANGED <<static_csw, xhci_dma_buf, sensed>>
  BY DEF AfterCbw
<1>2. /\ sensed \in BOOLEAN /\ late \in BOOLEAN /\ xhci_dma_buf \in Values
      /\ DrvOk(drv) /\ bulk_out \in Seq({"cbw", "data"}) /\ bulk_in \in Seq({"csw", "data"})
  BY DEF XhInv, Types
<1>3. late => late'
  BY <1>2 DEF Polled, Ended
<1>4. CASE ~good
  <2>1. drv' = Retry(drv) /\ UNCHANGED <<bulk_out, bulk_in>>
    BY <1>4 DEF AfterCbw
  <2>2. WriteKept' /\ DrvOk(drv') /\ drv'.stage \in {"send", "idle"}
    BY <1>1, <1>2, <1>3, <2>1, RetryKeeps
  <2> QED BY <1>1, <1>2, <1>4, <2>1, <2>2, Returned
<1>5. CASE good
  <2>1. QueueData /\ drv' = [drv EXCEPT !.stage = "data"]
    BY <1>5 DEF AfterCbw
  <2>2. /\ DrvOk(drv') /\ drv'.stage = "data" /\ drv'.op = drv.op /\ drv'.lba = drv.lba
        /\ drv'.val = drv.val /\ drv'.outer = drv.outer
    <3>1. "data" \in Stages \ {"idle"}
      BY DEF Stages
    <3> QED BY <1>1, <1>2, <2>1, <3>1, StageOk
  <2>3. /\ UNCHANGED <<msd_tag, static_cbw, stick, usb_disk, errors>>
        /\ evt_ring' \in Seq(BOOLEAN) /\ late' \in BOOLEAN /\ Ended(good)
    BY DEF Polled
  <2>4. Append(bulk_out, "data") \in Seq({"cbw", "data"}) /\ Append(bulk_in, "data") \in Seq({"csw", "data"})
    BY <1>2, Queued
  <2>5. Types'
    BY <1>1, <2>1, <2>2, <2>3, <2>4 DEF XhInv, Types, QueueData
  <2>6. Addressed' /\ TagsInOrder' /\ PhaseOp' /\ ReadArrived'
    BY <1>1, <2>2, <2>3
    DEF XhInv, Addressed, TagsInOrder, PhaseOp, ReadArrived, Active, CommandOp, Sensing, Fetched
  <2>7. StatusFollows'
    <3>1. /\ Paired(bulk_in) /\ ~(bulk_in # <<>> /\ bulk_in[Len(bulk_in)] = "data")
          /\ stick.phase = "csw" /\ stick.cmd.op # "write" => bulk_in # <<>> /\ Head(bulk_in) = "csw"
      BY <1>1 DEF XhInv, StatusFollows
    <3>2. CASE Writes
      BY <2>1, <2>2, <2>3, <3>1, <3>2 DEF QueueData, StatusFollows
    <3>3. CASE ~Writes
      <4>1. bulk_in' = Append(bulk_in, "data")
        BY <2>1, <3>3 DEF QueueData
      <4>2. Paired(bulk_in')
        BY <1>2, <3>1, <4>1, PairedAppend
      <4>3. bulk_in' # <<>> /\ (bulk_in # <<>> => Head(bulk_in') = Head(bulk_in))
        BY <1>2, <4>1, Queued
      <4> QED BY <2>2, <2>3, <3>1, <4>2, <4>3 DEF StatusFollows
    <3> QED BY <3>2, <3>3
  <2>8. Synchronous'
    <3> SUFFICES ASSUME ~late' PROVE ~Halted /\ InStep'
      BY <2>3 DEF Synchronous, Halted
    <3>1. ~Halted /\ InStep /\ evt_ring = <<TRUE>> /\ evt_ring' = <<>>
      BY <1>5, <2>3 DEF Ended
    <3>2. /\ bulk_in = <<>> /\ bulk_out = <<>> /\ stick.cmd = static_cbw
          /\ stick.phase = IF Writes THEN "out" ELSE "in"
      BY <1>1, <3>1, One DEF InStep
    <3>3. Writes' = Writes
      BY <2>2 DEF Writes, CommandOp, Sensing
    <3>4. /\ Writes => bulk_out' = <<"data">> /\ bulk_in' = <<>>
          /\ ~Writes => bulk_in' = <<"data">> /\ bulk_out' = <<>>
      BY <2>1, <3>2, One DEF QueueData
    <3> QED BY <2>2, <2>3, <3>1, <3>2, <3>3, <3>4 DEF InStep
  <2>9. WriteKept'
    BY <1>1, <1>2, <1>3, <2>2, <2>3 DEF XhInv, WriteKept, Sensing, Active, Fetched, Halted
  <2> QED BY <2>5, <2>6, <2>7, <2>8, <2>9 DEF XhInv
<1> QED BY <1>4, <1>5

LEMMA AfterDataStep ==
  ASSUME XhInv, NEW good \in BOOLEAN, AfterData(good), Polled(good)
  PROVE  XhInv'
<1>1. /\ drv.stage = "data" /\ UNCHANGED <<xhci_dma_buf, sensed, bulk_out>>
      /\ static_csw' = NoCsw /\ bulk_in' = Append(bulk_in, "csw")
      /\ drv' = [drv EXCEPT !.stage = IF good THEN "csw" ELSE "clear"]
  BY DEF AfterData, QueueCsw
<1>2. /\ sensed \in BOOLEAN /\ late \in BOOLEAN /\ xhci_dma_buf \in Values
      /\ DrvOk(drv) /\ bulk_in \in Seq({"csw", "data"})
  BY DEF XhInv, Types
<1>3. late => late'
  BY <1>2 DEF Polled, Ended
<1>4. /\ DrvOk(drv') /\ drv'.stage = (IF good THEN "csw" ELSE "clear") /\ drv'.op = drv.op
      /\ drv'.lba = drv.lba /\ drv'.val = drv.val /\ drv'.outer = drv.outer
  <2>1. (IF good THEN "csw" ELSE "clear") \in Stages \ {"idle"}
    BY DEF Stages
  <2> QED BY <1>1, <1>2, <2>1, StageOk
<1>5. /\ UNCHANGED <<msd_tag, static_cbw, stick, usb_disk, errors>>
      /\ evt_ring' \in Seq(BOOLEAN) /\ late' \in BOOLEAN /\ Ended(good)
  BY DEF Polled
<1>6. /\ bulk_in' \in Seq({"csw", "data"}) /\ bulk_in' # <<>>
      /\ bulk_in = <<>> => Head(bulk_in') = "csw"
      /\ bulk_in # <<>> => Head(bulk_in') = Head(bulk_in)
  BY <1>1, <1>2, Queued
<1>7. static_csw'.tag = 0 /\ static_csw' \in [tag : 0 .. Tags, ok : BOOLEAN]
  BY <1>1, XhFacts DEF NoCsw
<1>8. Types'
  BY <1>1, <1>4, <1>5, <1>6, <1>7 DEF XhInv, Types
<1>9. msd_tag > 0 /\ stick.cmd.tag \in Nat
  BY <1>1 DEF XhInv, Types, TagsInOrder, Active, CommandT
<1>10. Addressed' /\ TagsInOrder' /\ PhaseOp'
  BY <1>1, <1>4, <1>5, <1>7, <1>9 DEF XhInv, Addressed, TagsInOrder, PhaseOp, Active, CommandOp, Sensing
<1>11. Fetched' => Fetched
  BY <1>5, <1>7, <1>9 DEF Fetched
<1>12. ReadArrived'
  BY <1>1, <1>4, <1>5, <1>11 DEF XhInv, ReadArrived, Active
<1>13. StatusFollows'
  <2>1. Paired(bulk_in') /\ bulk_in'[Len(bulk_in')] = "csw"
    BY <1>1, <1>2, PairedAppend DEF XhInv, StatusFollows
  <2>2. stick.phase = "csw" /\ stick.cmd.op # "write" => Head(bulk_in') = "csw"
    BY <1>6 DEF XhInv, StatusFollows
  <2> QED BY <1>5, <1>6, <2>1, <2>2 DEF StatusFollows
<1>14. Synchronous'
  <2> SUFFICES ASSUME ~late' PROVE IF Halted THEN Stalled' ELSE InStep'
    BY <1>5 DEF Synchronous, Halted
  <2>1. CASE Halted
    BY <1>4, <1>5, <2>1 DEF Ended, Stalled
  <2>2. CASE ~Halted
    <3>1. good /\ InStep /\ evt_ring = <<TRUE>> /\ evt_ring' = <<>>
      BY <1>5, <2>2 DEF Ended
    <3>2. bulk_in = <<>> /\ bulk_out = <<>> /\ stick.cmd = static_cbw /\ stick.phase = "csw"
      BY <1>1, <3>1, One DEF InStep
    <3>3. bulk_in' = <<"csw">>
      BY <1>1, <3>2, One
    <3>4. drv'.stage = "csw"
      BY <1>4, <3>1
    <3>5. /\ bulk_in' = <<"csw">> /\ bulk_out' = <<>> /\ evt_ring' = <<>>
          /\ stick'.cmd = static_cbw' /\ stick'.phase = "csw"
      BY <1>1, <1>5, <3>1, <3>2, <3>3
    <3>6. InStep'
      BY <3>4, <3>5 DEF InStep
    <3> QED BY <2>2, <3>6
  <2> QED BY <2>1, <2>2
<1>15. WriteKept'
  BY <1>1, <1>2, <1>3, <1>4, <1>5, <1>11 DEF XhInv, WriteKept, Sensing, Active, Halted
<1> QED BY <1>8, <1>10, <1>12, <1>13, <1>14, <1>15 DEF XhInv

LEMMA AfterCswStep ==
  ASSUME XhInv, NEW good \in BOOLEAN, AfterCsw(good), Polled(good)
  PROVE  XhInv'
<1>1. drv.stage = "csw" /\ UNCHANGED <<static_csw, bulk_out, bulk_in>>
  BY DEF AfterCsw
<1>2. /\ sensed \in BOOLEAN /\ late \in BOOLEAN /\ xhci_dma_buf \in Values /\ DrvOk(drv)
      /\ Sensing => sensed
  BY DEF XhInv, Types, WriteKept
<1>3. late => late'
  BY <1>2 DEF Polled, Ended
<1>4. CASE ~(good /\ CswMatches) /\ drv' = Retry(drv) /\ UNCHANGED <<xhci_dma_buf, sensed>>
  <2>1. WriteKept' /\ DrvOk(drv') /\ drv'.stage \in {"send", "idle"}
    BY <1>1, <1>2, <1>3, <1>4, RetryKeeps
  <2> QED BY <1>1, <1>2, <1>4, <2>1, Returned
<1>5. CASE /\ drv' = Done(drv)
           /\ IF ~Sensing /\ drv'.stage = "send"
              THEN xhci_dma_buf' = Filled /\ sensed' = FALSE
              ELSE UNCHANGED <<xhci_dma_buf, sensed>>
  <2>1. /\ DrvOk(drv') /\ drv'.stage \in {"send", "idle"} /\ drv'.outer = -1
        /\ drv'.stage = "send" => drv'.op = drv.op /\ drv'.val = drv.val
    BY <1>1, <1>2, <1>5, DoneOk
  <2>2. drv'.val \in Values
    BY <2>1 DEF DrvOk, DrvT
  <2>3. xhci_dma_buf' \in Values /\ sensed' \in BOOLEAN
    BY <1>2, <1>5, <2>2, XhFacts DEF Filled
  <2>4. WriteKept'
    BY <1>2, <1>5, <2>1 DEF WriteKept, Filled, Sensing, Active
  <2> QED BY <1>1, <2>1, <2>3, <2>4, Returned
<1>6. CASE /\ drv' = IF Sensing THEN Retry(drv)
                     ELSE [drv EXCEPT !.outer = drv.try, !.try = 0, !.stage = "send"]
           /\ sensed' = TRUE /\ UNCHANGED xhci_dma_buf
  <2>1. DrvOk(drv') /\ drv'.stage \in {"send", "idle"}
    <3>1. CASE Sensing
      BY <1>1, <1>2, <1>6, <3>1, RetryOk
    <3>2. CASE ~Sensing
      <4>1. drv' = [drv EXCEPT !.outer = drv.try, !.try = 0, !.stage = "send"]
        BY <1>6, <3>2
      <4>2. drv.try \in -1 .. (Attempts - 1) /\ 0 \in 0 .. (Attempts - 1)
        BY <1>2, XhFacts DEF DrvOk, DrvT
      <4> QED BY <1>1, <1>2, <4>1, <4>2 DEF DrvOk, DrvT, Stages
    <3> QED BY <3>1, <3>2
  <2>2. WriteKept'
    BY <1>6 DEF WriteKept
  <2> QED BY <1>1, <1>2, <1>6, <2>1, <2>2, Returned
<1> QED BY <1>4, <1>5, <1>6 DEF AfterCsw

LEMMA PollStep ==
  ASSUME XhInv, PollEvent \/ PollTimeout
  PROVE  XhInv'
<1>1. ASSUME NEW good \in BOOLEAN, After(good), Polled(good) PROVE XhInv'
  BY <1>1, AfterCbwStep, AfterDataStep, AfterClearStep, AfterCswStep DEF After
<1>2. CASE PollEvent
  BY <1>1, <1>2, EventEnds DEF PollEvent
<1>3. CASE PollTimeout
  BY <1>1, <1>3, TimeoutEnds DEF PollTimeout
<1> QED BY <1>2, <1>3

-----------------------------------------------------------------------------
(* The calls and the start of a try. *)

LEMMA InvInit == XhInit => XhInv
<1> SUFFICES ASSUME XhInit PROVE XhInv
  OBVIOUS
<1> USE DEF XhInit
<1>1. /\ Idle.stage = "idle" /\ NoCommand \in CommandT /\ NoCommand.tag = 0
      /\ NoCsw \in [tag : 0 .. Tags, ok : BOOLEAN] /\ NoCsw.tag = 0
  BY XhFacts DEF Idle, NoCommand, NoCsw, CommandT
<1>2. /\ stick \in [phase : Phases, cmd : CommandT, ok : BOOLEAN]
      /\ stick.phase = "idle" /\ stick.cmd = NoCommand
  BY <1>1 DEF Phases
<1>3. Types
  <2>1. usb_disk \in [Lba -> Values]
    BY XhFacts
  <2>2. bulk_out \in Seq({"cbw", "data"}) /\ bulk_in \in Seq({"csw", "data"}) /\ evt_ring \in Seq(BOOLEAN)
    OBVIOUS
  <2>3. msd_tag \in 0 .. Tags /\ errors \in 0 .. MaxErrors /\ xhci_dma_buf \in Values
    BY XhFacts
  <2>4. static_cbw \in CommandT /\ static_csw \in [tag : 0 .. Tags, ok : BOOLEAN] /\ DrvOk(drv)
    BY <1>1, IdleOk
  <2> QED BY <1>2, <2>1, <2>2, <2>3, <2>4 DEF Types
<1>4. Addressed /\ TagsInOrder /\ PhaseOp /\ ReadArrived
  BY <1>1, <1>2 DEF Addressed, TagsInOrder, PhaseOp, ReadArrived, Active
<1>5. StatusFollows
  BY <1>1, <1>2 DEF StatusFollows, Paired
<1>6. Synchronous
  BY <1>1, <1>2 DEF Synchronous, InStep, Halted
<1>7. WriteKept
  BY <1>1, <1>2, IdleOk DEF WriteKept, Sensing
<1> QED BY <1>3, <1>4, <1>5, <1>6, <1>7 DEF XhInv

LEMMA CallStep ==
  ASSUME XhInv, NEW op \in {"read", "write"}, NEW a \in Lba, NEW n \in 1 .. Chunks,
         NEW v \in Values, Call(op, a, n, v)
  PROVE  XhInv'
<1>1. /\ drv.stage = "idle" /\ a + n <= Chunks /\ xhci_dma_buf' = Filled /\ sensed' = FALSE
      /\ drv' = [Idle EXCEPT !.stage = "send", !.op = op, !.lba = a, !.val = v, !.left = n]
      /\ UNCHANGED <<msd_tag, static_cbw, static_csw, bulk_out, bulk_in, evt_ring,
                     stick, usb_disk, errors, late>>
  BY DEF Call, devVars
<1>2. DrvOk(drv') /\ drv'.stage = "send" /\ drv'.op = op /\ drv'.val = v /\ drv'.outer = -1
  <2>1. drv' = [stage |-> "send", op |-> op, lba |-> a, val |-> v, left |-> n,
                try |-> 0, outer |-> -1]
    BY <1>1 DEF Idle
  <2>2. Attempts \in Nat \ {0} /\ Chunks \in Nat
    BY XhFacts
  <2>3. 0 \in 0 .. (Attempts - 1) /\ -1 \in -1 .. (Attempts - 1) /\ n \in 0 .. Chunks /\ n >= 1
    BY <2>2
  <2>4. drv' \in DrvT
    BY <2>1, <2>3 DEF DrvT, Stages
  <2>5. /\ drv'.stage = "send" /\ drv'.op = op /\ drv'.val = v /\ drv'.outer = -1
        /\ drv'.lba = a /\ drv'.left = n
    BY <2>1
  <2>6. DrvOk(drv')
    BY <1>1, <2>3, <2>4, <2>5 DEF DrvOk
  <2> QED BY <2>5, <2>6
<1>3. xhci_dma_buf' \in Values /\ (op = "write" => xhci_dma_buf' = v)
  BY <1>1, <1>2, XhFacts DEF Filled
<1>4. Types'
  BY <1>1, <1>2, <1>3 DEF XhInv, Types
<1>5. Addressed' /\ TagsInOrder' /\ PhaseOp' /\ ReadArrived'
  <2>1. Chunks > 0
    BY XhFacts DEF Lba
  <2> QED BY <1>1, <1>2, <2>1 DEF XhInv, Addressed, TagsInOrder, PhaseOp, ReadArrived, Active
<1>6. StatusFollows'
  BY <1>1, <1>2 DEF XhInv, StatusFollows
<1>7. Synchronous'
  <2> SUFFICES ASSUME ~late PROVE IF Halted THEN Stalled' ELSE InStep'
    BY <1>1 DEF Synchronous, Halted
  <2>1. CASE Halted
    BY <1>1, <1>2, <2>1 DEF XhInv, Synchronous, Stalled
  <2>2. CASE ~Halted
    BY <1>1, <1>2, <2>2 DEF XhInv, Synchronous, InStep
  <2> QED BY <2>1, <2>2
<1>8. WriteKept'
  BY <1>2, <1>3 DEF WriteKept, Sensing, Active
<1> QED BY <1>4, <1>5, <1>6, <1>7, <1>8 DEF XhInv

LEMMA SendStep ==
  ASSUME XhInv, SendCbw
  PROVE  XhInv'
<1>1. /\ drv.stage = "send" /\ msd_tag < Tags /\ msd_tag' = msd_tag + 1
      /\ static_cbw' = [tag |-> msd_tag + 1, op |-> CommandOp, lba |-> drv.lba]
      /\ bulk_out' = Append(bulk_out, "cbw") /\ drv' = [drv EXCEPT !.stage = "cbw"]
      /\ UNCHANGED <<static_csw, xhci_dma_buf, bulk_in, evt_ring, stick, usb_disk,
                     errors, sensed, late>>
  BY DEF SendCbw, devVars
<1>2. /\ sensed \in BOOLEAN /\ late \in BOOLEAN /\ DrvOk(drv) /\ msd_tag \in 0 .. Tags
      /\ bulk_out \in Seq({"cbw", "data"}) /\ Tags \in Nat
  BY XhFacts DEF XhInv, Types
<1>3. /\ DrvOk(drv') /\ drv'.stage = "cbw" /\ drv'.op = drv.op /\ drv'.lba = drv.lba
      /\ drv'.val = drv.val /\ drv'.outer = drv.outer
  <2>1. "cbw" \in Stages \ {"idle"}
    BY DEF Stages
  <2> QED BY <1>1, <1>2, <2>1, StageOk
<1>4. /\ static_cbw' \in CommandT /\ static_cbw'.tag = msd_tag' /\ static_cbw'.lba = drv.lba
      /\ static_cbw'.op = CommandOp /\ msd_tag' \in 0 .. Tags /\ msd_tag' > 0
  <2>1. drv.lba \in Lba /\ CommandOp \in {"read", "write", "sense"} /\ msd_tag + 1 \in 0 .. Tags
    BY <1>1, <1>2 DEF DrvOk, DrvT, CommandOp
  <2> QED BY <1>1, <1>2, <2>1 DEF CommandT
<1>5. bulk_out' \in Seq({"cbw", "data"})
  BY <1>1, <1>2, Queued
<1>6. Types'
  BY <1>1, <1>3, <1>4, <1>5 DEF XhInv, Types
<1>7. stick.cmd \in CommandT /\ stick.cmd.tag < msd_tag' /\ static_csw.tag < msd_tag'
  BY <1>1, <1>2 DEF XhInv, Types, TagsInOrder, CommandT
<1>8. stick.cmd # static_cbw'
  BY <1>2, <1>4, <1>7 DEF CommandT
<1>9. Addressed' /\ TagsInOrder' /\ PhaseOp' /\ ReadArrived'
  <2>1. CommandOp' = CommandOp
    BY <1>3 DEF CommandOp, Sensing
  <2>2. TagsInOrder'
    BY <1>1, <1>3, <1>4, <1>7, <2>1, XhFacts DEF XhInv, TagsInOrder, Types, CommandT
  <2> QED BY <1>1, <1>8, <2>2 DEF XhInv, Addressed, PhaseOp, ReadArrived
<1>10. StatusFollows'
  BY <1>1, <1>3 DEF XhInv, StatusFollows
<1>11. Synchronous'
  <2> SUFFICES ASSUME ~late PROVE IF Halted THEN Stalled' ELSE InStep'
    BY <1>1 DEF Synchronous, Halted
  <2>1. CASE Halted
    BY <1>1, <1>3, <2>1 DEF XhInv, Synchronous, Stalled
  <2>2. CASE ~Halted
    <3>1. bulk_out = <<>> /\ bulk_in = <<>> /\ evt_ring = <<>> /\ stick.phase = "idle"
      BY <1>1, <2>2 DEF XhInv, Synchronous, InStep
    <3>2. bulk_out' = <<"cbw">>
      BY <1>1, <3>1, One
    <3> QED BY <1>1, <1>3, <2>2, <3>1, <3>2 DEF InStep
  <2> QED BY <2>1, <2>2
<1>12. WriteKept'
  BY <1>1, <1>2, <1>3, <1>8 DEF XhInv, WriteKept, Sensing, Active
<1> QED BY <1>6, <1>9, <1>10, <1>11, <1>12 DEF XhInv

-----------------------------------------------------------------------------
(* The stick's steps.  Each takes one transfer and adds one event. *)

\* The facts about the stick and the queues that every step of it starts from.
LEMMA StickTypes ==
  ASSUME XhInv
  PROVE  /\ stick \in [phase : Phases, cmd : CommandT, ok : BOOLEAN]
         /\ stick.cmd \in CommandT /\ stick.cmd.tag \in Nat /\ msd_tag \in Nat
         /\ static_cbw \in CommandT /\ static_cbw.tag = msd_tag /\ static_csw.tag \in Nat
         /\ bulk_out \in Seq({"cbw", "data"}) /\ bulk_in \in Seq({"csw", "data"})
         /\ evt_ring \in Seq(BOOLEAN) /\ late \in BOOLEAN /\ sensed \in BOOLEAN
         /\ DrvOk(drv) /\ usb_disk \in [Lba -> Values] /\ xhci_dma_buf \in Values
  BY XhFacts DEF XhInv, Types, TagsInOrder, CommandT

\* A status block that has the command's tag comes from that command.
LEMMA StatusIsCurrent ==
  ASSUME XhInv, static_csw.tag = msd_tag
  PROVE  stick.cmd = static_cbw
<1>1. stick.cmd.tag \in Nat /\ msd_tag \in Nat
  BY StickTypes
<1>2. stick.cmd.tag = msd_tag
  BY <1>1 DEF XhInv, TagsInOrder
<1> QED BY <1>2 DEF XhInv, TagsInOrder

\* While the driver waits, its command addresses the chunk it is at.
LEMMA CommandAddress ==
  ASSUME XhInv, Active(drv), stick.cmd = static_cbw
  PROVE  stick.cmd.lba = drv.lba /\ drv.lba \in Lba /\ stick.cmd.op = CommandOp
<1>1. static_cbw.lba = drv.lba /\ static_cbw.op = CommandOp
  BY DEF XhInv, TagsInOrder
<1>2. drv.lba \in Lba
  BY StickTypes DEF DrvOk, Active
<1> QED BY <1>1, <1>2

LEMMA CommandStep ==
  ASSUME XhInv, StickCommand
  PROVE  XhInv'
<1>1. /\ stick.phase = "idle" /\ bulk_out # <<>> /\ ~Halted /\ Head(bulk_out) = "cbw"
      /\ stick' = [phase |-> IF static_cbw.op = "write" THEN "out" ELSE "in",
                   cmd |-> static_cbw, ok |-> TRUE]
      /\ bulk_out' = Tail(bulk_out) /\ evt_ring' = Append(evt_ring, TRUE)
      /\ UNCHANGED <<drv, msd_tag, static_cbw, static_csw, xhci_dma_buf, bulk_in,
                     usb_disk, errors, sensed, late>>
  BY DEF StickCommand, Waiting, TakeOut, Complete, drvVars
<1>2. /\ stick'.phase = (IF static_cbw.op = "write" THEN "out" ELSE "in")
      /\ stick'.cmd = static_cbw
      /\ stick' \in [phase : Phases, cmd : CommandT, ok : BOOLEAN]
  BY <1>1, StickTypes DEF Phases
<1>3. bulk_out' \in Seq({"cbw", "data"}) /\ evt_ring' \in Seq(BOOLEAN)
  BY <1>1, StickTypes, Taken, Queued
<1>4. Types'
  BY <1>1, <1>2, <1>3 DEF XhInv, Types
<1>5. Addressed' /\ PhaseOp'
  BY <1>1, <1>2 DEF XhInv, Addressed, PhaseOp
<1>6. TagsInOrder'
  <2>1. static_csw.tag <= msd_tag
    BY StickTypes DEF XhInv, TagsInOrder
  <2> QED BY <1>1, <1>2, <2>1, StickTypes DEF XhInv, TagsInOrder, CommandOp, Sensing
<1>7. Fetched' => Fetched /\ stick.cmd = static_cbw
  BY <1>1, <1>2, StatusIsCurrent DEF Fetched
<1>8. ReadArrived'
  BY <1>1, <1>2, <1>7 DEF XhInv, ReadArrived
<1>9. StatusFollows'
  BY <1>1, <1>2 DEF XhInv, StatusFollows
<1>10. Synchronous'
  <2> SUFFICES ASSUME ~late PROVE ~Halted' /\ InStep'
    BY <1>1 DEF Synchronous
  <2>1. InStep
    BY <1>1 DEF XhInv, Synchronous
  <2>2. drv.stage = "cbw" /\ bulk_in = <<>> /\ bulk_out = <<"cbw">> /\ evt_ring = <<>>
    BY <1>1, <2>1, StickTypes DEF InStep, DrvOk, DrvT, Stages
  <2>3. bulk_out' = <<>> /\ evt_ring' = <<TRUE>> /\ bulk_in' = <<>> /\ drv'.stage = "cbw"
    BY <1>1, <2>2, One
  <2>4. Writes' <=> static_cbw.op = "write"
    BY <1>1, <2>2 DEF XhInv, TagsInOrder, Active, Writes, CommandOp, Sensing
  <2>5. stick'.cmd = static_cbw' /\ stick'.phase = (IF Writes' THEN "out" ELSE "in")
    BY <1>1, <1>2, <2>4
  <2> QED BY <1>2, <2>3, <2>5 DEF InStep, Halted
<1>11. WriteKept'
  BY <1>1, <1>7 DEF XhInv, WriteKept, Sensing
<1> QED BY <1>4, <1>5, <1>6, <1>8, <1>9, <1>10, <1>11 DEF XhInv

LEMMA OutStep ==
  ASSUME XhInv, NEW ok \in BOOLEAN, StickOut(ok)
  PROVE  XhInv'
<1>1. /\ stick.phase = "out" /\ bulk_out # <<>> /\ ~Halted
      /\ ok \/ errors < MaxErrors
      /\ errors' = IF ok THEN errors ELSE errors + 1
      /\ stick' = [stick EXCEPT !.phase = "csw", !.ok = ok]
      /\ usb_disk' = IF ~ok THEN usb_disk
                     ELSE [usb_disk EXCEPT ![stick.cmd.lba] =
                             IF Head(bulk_out) = "data" THEN xhci_dma_buf ELSE Junk]
      /\ bulk_out' = Tail(bulk_out) /\ evt_ring' = Append(evt_ring, TRUE)
      /\ UNCHANGED <<drv, msd_tag, static_cbw, static_csw, xhci_dma_buf, bulk_in,
                     sensed, late>>
  BY DEF StickOut, Waiting, TakeOut, Complete, drvVars
<1>2. /\ stick'.phase = "csw" /\ stick'.ok = ok /\ stick'.cmd = stick.cmd
      /\ stick' \in [phase : Phases, cmd : CommandT, ok : BOOLEAN]
  BY <1>1, StickTypes DEF Phases
<1>3. bulk_out' \in Seq({"cbw", "data"}) /\ evt_ring' \in Seq(BOOLEAN)
  BY <1>1, StickTypes, Taken, Queued
<1>4. errors' \in 0 .. MaxErrors
  <2>1. errors \in 0 .. MaxErrors /\ MaxErrors \in Nat
    BY XhFacts DEF XhInv, Types
  <2> QED BY <1>1, <2>1
<1>5. usb_disk' \in [Lba -> Values]
  BY <1>1, StickTypes, XhFacts
<1>6. Types'
  BY <1>1, <1>2, <1>3, <1>4, <1>5 DEF XhInv, Types
<1>7. stick.cmd.op = "write"
  BY <1>1 DEF XhInv, PhaseOp
<1>8. Addressed' /\ TagsInOrder' /\ PhaseOp' /\ ReadArrived'
  BY <1>1, <1>2, <1>7
  DEF XhInv, Addressed, TagsInOrder, PhaseOp, ReadArrived, CommandOp, Sensing
<1>9. StatusFollows'
  BY <1>1, <1>2, <1>7 DEF XhInv, StatusFollows
<1>10. ASSUME ~late
       PROVE  /\ drv.stage = "data" /\ bulk_out = <<"data">> /\ bulk_in = <<>> /\ evt_ring = <<>>
              /\ stick.cmd = static_cbw
  <2>1. InStep
    BY <1>1, <1>10 DEF XhInv, Synchronous
  <2> QED BY <1>1, <2>1, StickTypes DEF InStep, DrvOk, DrvT, Stages
<1>11. Synchronous'
  <2> SUFFICES ASSUME ~late PROVE ~Halted' /\ InStep'
    BY <1>1 DEF Synchronous
  <2>1. bulk_out' = <<>> /\ evt_ring' = <<TRUE>> /\ bulk_in' = <<>> /\ drv'.stage = "data"
    BY <1>1, <1>10, One
  <2>2. stick'.cmd = static_cbw' /\ stick'.phase = "csw"
    BY <1>1, <1>2, <1>10
  <2> QED BY <2>1, <2>2 DEF InStep, Halted
<1>12. WriteKept'
  <2>1. Sensing' => sensed'
    BY <1>1 DEF XhInv, WriteKept, Sensing
  <2> SUFFICES ASSUME ~late, ~sensed, drv.op = "write", drv.stage # "idle"
               PROVE  /\ xhci_dma_buf = drv.val
                      /\ Active(drv) /\ stick.cmd = static_cbw /\ Fetched' =>
                           usb_disk'[drv.lba] = drv.val
    BY <1>1, <1>2, <2>1 DEF WriteKept
  <2>2. xhci_dma_buf = drv.val
    BY DEF XhInv, WriteKept
  <2>3. ASSUME Active(drv), stick.cmd = static_cbw, Fetched' PROVE usb_disk'[drv.lba] = drv.val
    <3>1. stick.cmd.lba = drv.lba /\ drv.lba \in Lba
      BY <2>3, CommandAddress
    <3>2. CASE ok
      <4>1. Head(bulk_out) = "data"
        BY <1>10, One
      <4>2. usb_disk' = [usb_disk EXCEPT ![drv.lba] = xhci_dma_buf]
        BY <1>1, <3>1, <3>2, <4>1
      <4> QED BY <2>2, <3>1, <4>2, StickTypes
    <3>3. CASE ~ok
      <4>1. Fetched /\ usb_disk' = usb_disk
        BY <1>1, <1>2, <2>3, <3>3 DEF Fetched
      <4> QED BY <1>1, <2>3, <4>1 DEF XhInv, WriteKept
    <3> QED BY <3>2, <3>3
  <2> QED BY <2>2, <2>3
<1> QED BY <1>6, <1>8, <1>9, <1>11, <1>12 DEF XhInv

LEMMA InStepTaken ==
  ASSUME XhInv, NEW ok \in BOOLEAN, StickIn(ok)
  PROVE  XhInv'
<1>1. /\ stick.phase = "in" /\ bulk_in # <<>> /\ ~Halted /\ Head(bulk_in) = "data"
      /\ ok \/ errors < MaxErrors
      /\ errors' = IF ok THEN errors ELSE errors + 1
      /\ stick' = [stick EXCEPT !.phase = "csw", !.ok = ok]
      /\ xhci_dma_buf' = IF ~ok THEN xhci_dma_buf
                         ELSE IF stick.cmd.op = "sense" THEN SenseData
                         ELSE usb_disk[stick.cmd.lba]
      /\ bulk_in' = Tail(bulk_in) /\ evt_ring' = Append(evt_ring, TRUE)
      /\ UNCHANGED <<drv, msd_tag, static_cbw, static_csw, bulk_out, usb_disk, sensed, late>>
  BY DEF StickIn, Waiting, TakeIn, Complete
<1>2. /\ stick'.phase = "csw" /\ stick'.ok = ok /\ stick'.cmd = stick.cmd
      /\ stick' \in [phase : Phases, cmd : CommandT, ok : BOOLEAN]
  BY <1>1, StickTypes DEF Phases
<1>3. bulk_in' \in Seq({"csw", "data"}) /\ evt_ring' \in Seq(BOOLEAN)
  BY <1>1, StickTypes, Taken, Queued
<1>4. errors' \in 0 .. MaxErrors
  <2>1. errors \in 0 .. MaxErrors /\ MaxErrors \in Nat
    BY XhFacts DEF XhInv, Types
  <2> QED BY <1>1, <2>1
<1>5. xhci_dma_buf' \in Values
  <2>1. Chunks > 0 /\ stick.cmd.lba \in Lba \cup {0}
    BY <1>1, StickTypes DEF XhInv, Addressed, CommandT
  <2>2. stick.cmd.lba \in Lba
    BY <2>1, XhFacts DEF Lba
  <2> QED BY <1>1, <2>2, StickTypes, XhFacts
<1>6. Types'
  BY <1>1, <1>2, <1>3, <1>4, <1>5 DEF XhInv, Types
<1>7. stick.cmd.op # "write"
  BY <1>1 DEF XhInv, PhaseOp
<1>8. Addressed' /\ TagsInOrder' /\ PhaseOp'
  BY <1>1, <1>2, <1>7
  DEF XhInv, Addressed, TagsInOrder, PhaseOp, CommandOp, Sensing
<1>9. ReadArrived'
  <2> SUFFICES ASSUME Active(drv), stick.cmd = static_cbw, static_cbw.op = "read", Fetched'
               PROVE  xhci_dma_buf' = usb_disk[drv.lba]
    BY <1>1, <1>2 DEF ReadArrived
  <2>1. CASE ok
    BY <1>1, <2>1, CommandAddress
  <2>2. CASE ~ok
    <3>1. Fetched
      BY <1>1, <1>2, <2>2 DEF Fetched
    <3> QED BY <1>1, <2>2, <3>1 DEF XhInv, ReadArrived
  <2> QED BY <2>1, <2>2
<1>10. StatusFollows'
  <2>1. /\ Paired(bulk_in') /\ (bulk_in' # <<>> => Head(bulk_in') = "csw")
        /\ bulk_in' = <<>> => bulk_in[Len(bulk_in)] = "data"
        /\ bulk_in' # <<>> => bulk_in'[Len(bulk_in')] = bulk_in[Len(bulk_in)]
    BY <1>1, StickTypes, PairedTail DEF XhInv, StatusFollows
  <2>2. bulk_in[Len(bulk_in)] = "data" => drv.stage = "data"
    BY <1>1 DEF XhInv, StatusFollows
  <2> QED BY <1>1, <2>1, <2>2 DEF StatusFollows
<1>11. ASSUME ~late
       PROVE  /\ drv.stage = "data" /\ bulk_out = <<>> /\ bulk_in = <<"data">> /\ evt_ring = <<>>
              /\ stick.cmd = static_cbw /\ ~Writes
  <2>1. InStep
    BY <1>1, <1>11 DEF XhInv, Synchronous
  <2> QED BY <1>1, <2>1, StickTypes DEF InStep, DrvOk, DrvT, Stages
<1>12. Synchronous'
  <2> SUFFICES ASSUME ~late PROVE ~Halted' /\ InStep'
    BY <1>1 DEF Synchronous
  <2>1. bulk_out' = <<>> /\ evt_ring' = <<TRUE>> /\ bulk_in' = <<>> /\ drv'.stage = "data"
    BY <1>1, <1>11, One
  <2>2. stick'.cmd = static_cbw' /\ stick'.phase = "csw"
    BY <1>1, <1>2, <1>11
  <2> QED BY <2>1, <2>2 DEF InStep, Halted
<1>13. WriteKept'
  <2>1. Sensing => sensed
    BY DEF XhInv, WriteKept
  <2>2. ~late /\ ~sensed => drv.op # "write"
    BY <1>11, <2>1 DEF Writes, CommandOp
  <2> QED BY <1>1, <2>1, <2>2 DEF WriteKept, Sensing
<1> QED BY <1>6, <1>8, <1>9, <1>10, <1>12, <1>13 DEF XhInv

LEMMA StatusStep ==
  ASSUME XhInv, StickStatus
  PROVE  XhInv'
<1>1. /\ stick.phase = "csw" /\ bulk_in # <<>> /\ ~Halted
      /\ IF Head(bulk_in) = "csw"
         THEN /\ static_csw' = [tag |-> stick.cmd.tag, ok |-> stick.ok]
              /\ xhci_dma_buf' = xhci_dma_buf
         ELSE xhci_dma_buf' = Junk /\ static_csw' = static_csw
      /\ stick' = [stick EXCEPT !.phase = "idle"]
      /\ bulk_in' = Tail(bulk_in) /\ evt_ring' = Append(evt_ring, TRUE)
      /\ UNCHANGED <<drv, msd_tag, static_cbw, bulk_out, usb_disk, errors, sensed, late>>
  BY DEF StickStatus, Waiting, TakeIn, Complete
<1>2. /\ stick'.phase = "idle" /\ stick'.cmd = stick.cmd
      /\ stick' \in [phase : Phases, cmd : CommandT, ok : BOOLEAN]
  BY <1>1, StickTypes DEF Phases
<1>3. bulk_in' \in Seq({"csw", "data"}) /\ evt_ring' \in Seq(BOOLEAN)
  BY <1>1, StickTypes, Taken, Queued
<1>4. ASSUME Head(bulk_in) = "csw" PROVE Types' /\ ReadArrived' /\ TagsInOrder' /\ WriteKept'
  <2>1. static_csw'.tag = stick.cmd.tag /\ static_csw'.ok = stick.ok /\ xhci_dma_buf' = xhci_dma_buf
    BY <1>1, <1>4
  <2>2. static_csw' \in [tag : 0 .. Tags, ok : BOOLEAN]
    BY <1>1, <1>4, StickTypes DEF CommandT
  <2>3. Types'
    BY <1>1, <1>2, <1>3, <2>1, <2>2 DEF XhInv, Types
  <2>4. Fetched' => Fetched
    BY <1>1, <1>2, <2>1 DEF Fetched
  <2>5. ReadArrived' /\ WriteKept'
    BY <1>1, <1>2, <2>1, <2>4 DEF XhInv, ReadArrived, WriteKept, Sensing
  <2>6. TagsInOrder'
    BY <1>1, <1>2, <2>1, StickTypes DEF XhInv, TagsInOrder, CommandOp, Sensing
  <2> QED BY <2>3, <2>5, <2>6
<1>5. ASSUME Head(bulk_in) # "csw" PROVE Types' /\ ReadArrived' /\ TagsInOrder' /\ WriteKept'
  <2>1. xhci_dma_buf' = Junk /\ static_csw' = static_csw
    BY <1>1, <1>5
  <2>2. Types'
    BY <1>1, <1>2, <1>3, <2>1, XhFacts DEF XhInv, Types
  <2>3. stick.cmd.op = "write"
    BY <1>1, <1>5 DEF XhInv, StatusFollows
  <2>4. ReadArrived'
    BY <1>1, <1>2, <2>3 DEF ReadArrived
  <2>5. TagsInOrder'
    BY <1>1, <1>2, <2>1 DEF XhInv, TagsInOrder, CommandOp, Sensing
  <2>6. late
    <3> SUFFICES ASSUME ~late PROVE FALSE
      OBVIOUS
    <3>1. InStep
      BY <1>1 DEF XhInv, Synchronous
    <3> QED BY <1>1, <1>5, <3>1, One, StickTypes DEF InStep, DrvOk, DrvT, Stages
  <2>7. WriteKept'
    BY <1>1, <2>6 DEF XhInv, WriteKept, Sensing
  <2> QED BY <2>2, <2>4, <2>5, <2>7
<1>6. Types' /\ ReadArrived' /\ TagsInOrder' /\ WriteKept'
  BY <1>4, <1>5
<1>7. Addressed' /\ PhaseOp'
  BY <1>1, <1>2 DEF XhInv, Addressed, PhaseOp
<1>8. StatusFollows'
  <2>1. /\ Paired(bulk_in')
        /\ bulk_in' # <<>> => bulk_in'[Len(bulk_in')] = bulk_in[Len(bulk_in)]
    BY <1>1, StickTypes, PairedTail DEF XhInv, StatusFollows
  <2> QED BY <1>1, <1>2, <2>1 DEF XhInv, StatusFollows
<1>9. Synchronous'
  <2> SUFFICES ASSUME ~late PROVE ~Halted' /\ InStep'
    BY <1>1 DEF Synchronous
  <2>1. InStep
    BY <1>1 DEF XhInv, Synchronous
  <2>2. /\ drv.stage = "csw" /\ bulk_out = <<>> /\ bulk_in = <<"csw">> /\ evt_ring = <<>>
        /\ stick.cmd = static_cbw
    BY <1>1, <2>1, StickTypes DEF InStep, DrvOk, DrvT, Stages
  <2>3. bulk_out' = <<>> /\ evt_ring' = <<TRUE>> /\ bulk_in' = <<>> /\ drv'.stage = "csw"
    BY <1>1, <2>2, One
  <2>4. stick'.cmd = static_cbw' /\ stick'.phase = "idle"
    BY <1>1, <1>2, <2>2
  <2> QED BY <2>3, <2>4 DEF InStep, Halted
<1> QED BY <1>6, <1>7, <1>8, <1>9 DEF XhInv

LEMMA StallStep ==
  ASSUME XhInv, StickStalls
  PROVE  XhInv'
<1>1. /\ stick.phase \in {"idle", "in", "out"} /\ ~Halted
      /\ stick' = [stick EXCEPT !.phase = "halted"] /\ evt_ring' = Append(evt_ring, FALSE)
      /\ UNCHANGED <<drv, msd_tag, static_cbw, static_csw, xhci_dma_buf, usb_disk, sensed, late>>
      /\ errors' = errors \/ (errors < MaxErrors /\ errors' = errors + 1)
      /\ \/ bulk_out # <<>> /\ bulk_out' = Tail(bulk_out) /\ bulk_in' = bulk_in
            /\ (stick.phase = "out" \/ (stick.phase = "idle" /\ Head(bulk_out) = "data"))
         \/ bulk_in # <<>> /\ bulk_in' = Tail(bulk_in) /\ bulk_out' = bulk_out /\ stick.phase = "in"
  <2>1. /\ stick' = [stick EXCEPT !.phase = "halted"] /\ evt_ring' = Append(evt_ring, FALSE)
        /\ UNCHANGED <<drv, msd_tag, static_cbw, static_csw, xhci_dma_buf, usb_disk, sensed, late>>
    BY DEF StickStalls, Complete, drvVars
  <2>2. CASE stick.phase = "idle" /\ Waiting(bulk_out) /\ Head(bulk_out) = "data"
             /\ UNCHANGED errors /\ TakeOut
    BY <2>1, <2>2 DEF Waiting, TakeOut
  <2>3. CASE stick.phase = "in" /\ Waiting(bulk_in) /\ Head(bulk_in) = "csw"
             /\ UNCHANGED errors /\ TakeIn
    BY <2>1, <2>3 DEF Waiting, TakeIn
  <2>4. CASE stick.phase = "in" /\ Waiting(bulk_in) /\ errors < MaxErrors
             /\ errors' = errors + 1 /\ TakeIn
    BY <2>1, <2>4 DEF Waiting, TakeIn
  <2>5. CASE stick.phase = "out" /\ Waiting(bulk_out) /\ errors < MaxErrors
             /\ errors' = errors + 1 /\ TakeOut
    BY <2>1, <2>5 DEF Waiting, TakeOut
  <2> QED BY <2>2, <2>3, <2>4, <2>5 DEF StickStalls
<1>2. /\ stick'.phase = "halted" /\ stick'.cmd = stick.cmd
      /\ stick' \in [phase : Phases, cmd : CommandT, ok : BOOLEAN]
  BY <1>1, StickTypes DEF Phases
<1>3. /\ bulk_out' \in Seq({"cbw", "data"}) /\ bulk_in' \in Seq({"csw", "data"})
      /\ evt_ring' \in Seq(BOOLEAN)
  <2>1. evt_ring' \in Seq(BOOLEAN)
    BY <1>1, StickTypes, Queued
  <2>2. /\ bulk_out # <<>> => Tail(bulk_out) \in Seq({"cbw", "data"})
        /\ bulk_in # <<>> => Tail(bulk_in) \in Seq({"csw", "data"})
    BY StickTypes, Taken
  <2>3. bulk_out' \in Seq({"cbw", "data"}) /\ bulk_in' \in Seq({"csw", "data"})
    BY <1>1, <2>2, StickTypes
  <2> QED BY <2>1, <2>3
<1>4. errors' \in 0 .. MaxErrors
  BY <1>1, XhFacts DEF XhInv, Types
<1>5. Types'
  BY <1>1, <1>2, <1>3, <1>4 DEF XhInv, Types
<1>6. Addressed' /\ TagsInOrder' /\ PhaseOp'
  BY <1>1, <1>2 DEF XhInv, Addressed, TagsInOrder, PhaseOp, CommandOp, Sensing
<1>7. ReadArrived'
  BY <1>1, <1>2 DEF XhInv, ReadArrived, Fetched
<1>8. StatusFollows'
  <2>1. /\ Paired(bulk_in')
        /\ bulk_in' # <<>> => bulk_in # <<>> /\ bulk_in'[Len(bulk_in')] = bulk_in[Len(bulk_in)]
    <3>1. CASE bulk_in' = bulk_in
      BY <3>1 DEF XhInv, StatusFollows
    <3>2. CASE bulk_in # <<>> /\ bulk_in' = Tail(bulk_in)
      BY <3>2, StickTypes, PairedTail DEF XhInv, StatusFollows
    <3> QED BY <1>1, <3>1, <3>2
  <2> QED BY <1>1, <1>2, <2>1 DEF XhInv, StatusFollows
<1>9. Synchronous'
  <2> SUFFICES ASSUME ~late PROVE Stalled'
    BY <1>1, <1>2 DEF Synchronous, Halted
  <2>1. InStep
    BY <1>1 DEF XhInv, Synchronous
  <2>2. drv.stage = "data" /\ evt_ring = <<>>
    BY <1>1, <2>1, One, StickTypes DEF InStep, DrvOk, DrvT, Stages
  <2>3. evt_ring' = <<FALSE>> /\ drv'.stage = "data"
    BY <1>1, <2>2, One
  <2> QED BY <2>3 DEF Stalled
<1>10. WriteKept'
  BY <1>1, <1>2 DEF XhInv, WriteKept, Sensing, Halted
<1> QED BY <1>5, <1>6, <1>7, <1>8, <1>9, <1>10 DEF XhInv

-----------------------------------------------------------------------------
LEMMA XhInvariant == XhSpec => []XhInv
<1>1. XhInv /\ [XhNext]_xhVars => XhInv'
  <2> SUFFICES ASSUME XhInv, [XhNext]_xhVars PROVE XhInv'
    OBVIOUS
  <2>1. ASSUME NEW a \in Lba, NEW n \in 1 .. Chunks, Call("read", a, n, Blank) PROVE XhInv'
    BY <2>1, CallStep, XhFacts
  <2>2. ASSUME NEW a \in Lba, NEW n \in 1 .. Chunks, NEW v \in Vals, Call("write", a, n, v) PROVE XhInv'
    BY <2>2, CallStep, XhFacts
  <2>3. CASE UNCHANGED xhVars
    <3>1. UNCHANGED <<drv, msd_tag, static_cbw, static_csw, xhci_dma_buf, bulk_out, bulk_in,
                      evt_ring, stick, usb_disk, errors, sensed, late>>
      BY <2>3 DEF xhVars, drvVars, devVars
    <3>2. Types' /\ Addressed' /\ TagsInOrder' /\ PhaseOp' /\ StatusFollows'
      BY <3>1 DEF XhInv, Types, Addressed, TagsInOrder, PhaseOp, StatusFollows, CommandOp, Sensing
    <3>3. ReadArrived' /\ Synchronous' /\ WriteKept'
      BY <3>1 DEF XhInv, ReadArrived, Fetched, Synchronous, Halted, Stalled, InStep, Writes,
                  CommandOp, Sensing, WriteKept
    <3> QED BY <3>2, <3>3 DEF XhInv
  <2> QED BY <2>1, <2>2, <2>3, SendStep, PollStep, CommandStep, StatusStep, StallStep, OutStep,
             InStepTaken DEF XhNext
<1> QED BY <1>1, InvInit, PTL DEF XhSpec

\* The tries of a command and of the REQUEST SENSE inside it stay below
\* Attempts, the address below Chunks, and the rings and buffers in their types.
THEOREM UsbTypes == XhSpec => []XhTypeOK
<1>1. XhInv => XhTypeOK
  BY DEF XhInv, Types, TagsInOrder, XhTypeOK, DrvOk, DrvT, Stages, CommandT
<1> QED BY <1>1, XhInvariant, PTL

\* A read that reports success hands out what the stick holds at that address,
\* for every order of late events, errors, stalls and retries: the tag of the
\* status block alone ties the answer to the command.
THEOREM UsbReadsAreTrue == XhSpec => ReadsAreTrue
<1>1. ASSUME XhInv, ChunkReported("read") PROVE xhci_dma_buf = usb_disk[drv.lba]
  <2>1. /\ Active(drv) /\ static_csw.tag = msd_tag /\ static_csw.ok /\ static_cbw.op = "read"
    BY <1>1, StickTypes
    DEF ChunkReported, CswMatches, Active, XhInv, TagsInOrder, CommandOp
  <2> QED BY <1>1, <2>1, StatusIsCurrent DEF XhInv, ReadArrived, Fetched
<1>2. XhInv => [ChunkReported("read") => xhci_dma_buf = usb_disk[drv.lba]]_xhVars
  BY <1>1
<1> QED BY <1>2, XhInvariant, PTL DEF ReadsAreTrue

\* A write that reports success is on the stick, provided that no answer came
\* after the driver gave up on it and no REQUEST SENSE overwrote the buffer.
THEOREM UsbWritesAreTrue == XhSpec => WritesAreTrue
<1>1. ASSUME XhInv, ChunkReported("write"), ~late, ~sensed PROVE usb_disk[drv.lba] = drv.val
  <2>1. /\ Active(drv) /\ static_csw.tag = msd_tag /\ static_csw.ok /\ drv.op = "write"
        /\ drv.stage = "csw"
    BY <1>1, StickTypes DEF ChunkReported, CswMatches, Active
  <2>2. ~Halted
    BY <1>1, <2>1 DEF XhInv, Synchronous, Stalled
  <2> QED BY <1>1, <2>1, <2>2, StatusIsCurrent DEF XhInv, WriteKept, Fetched
<1>2. XhInv => [ChunkReported("write") /\ ~late /\ ~sensed => usb_disk[drv.lba] = drv.val]_xhVars
  BY <1>1
<1> QED BY <1>2, XhInvariant, PTL DEF WritesAreTrue
=============================================================================
