-------------------------------- MODULE Xhci --------------------------------
(***************************************************************************)
(* Sectors over USB: the bulk transfers, the Bulk-Only commands with their *)
(* retries, and the read and write calls of drivers/xhci.c, against a      *)
(* stick that may be late, report errors or stall.                         *)
(*                                                                         *)
(* The driver queues a transfer and takes the next event for its answer,   *)
(* whatever transfer the event belongs to; an event that comes after the   *)
(* driver gave up waiting is taken for a later one.  Transfers name        *)
(* buffers, not contents: the controller reads or writes the buffer when   *)
(* it gets there.  A chunk of sectors is one value; transfer rings and the *)
(* event ring are sequences.  Start-up is left out.                        *)
(***************************************************************************)
EXTENDS Integers, Sequences

CONSTANTS
  Chunks,     \* addresses of the disk, in chunks: 0 .. Chunks - 1
  Vals,       \* what callers write
  Attempts,   \* tries of a command (3 in the code)
  Tags,       \* bound: commands sent in all
  MaxErrors,  \* bound: SCSI errors and stalls
  Late        \* whether the stick may answer after the timeout

ASSUME XhciConstants ==
  /\ Chunks \in Nat /\ Attempts \in Nat \ {0} /\ Tags \in Nat
  /\ MaxErrors \in Nat /\ Late \in BOOLEAN

VARIABLES
  drv,          \* the driver: where it is in which command
  msd_tag,      \* commands sent so far
  static_cbw, static_csw, xhci_dma_buf,
  bulk_out, bulk_in,   \* transfers queued on the two endpoints
  evt_ring,     \* completion events not taken yet, TRUE for a good one
  stick,        \* the device: its phase and command
  usb_disk,     \* what the stick holds
  errors,       \* errors so far
  sensed,       \* history: a REQUEST SENSE was sent since this chunk began
  late          \* history: the driver gave up on a transfer that came after all

drvVars == <<drv, msd_tag, static_cbw, static_csw, xhci_dma_buf>>
devVars == <<stick, usb_disk, errors>>
xhVars == <<drvVars, bulk_out, bulk_in, evt_ring, devVars, sensed, late>>

Blank == 0       \* a zeroed buffer
SenseData == -1  \* the answer to REQUEST SENSE
Junk == -2       \* a command or status block taken for data
Lba == 0 .. (Chunks - 1)
Old(a) == -3 - a \* what the stick comes with
Values == Vals \cup {Blank, SenseData, Junk} \cup {Old(a) : a \in Lba}
NoCsw == [tag |-> 0, ok |-> FALSE]
NoCommand == [tag |-> 0, op |-> "sense", lba |-> 0]

\* outer counts the tries of the command that a REQUEST SENSE serves, or is -1.
Idle == [stage |-> "idle", op |-> "read", lba |-> 0, val |-> Blank, left |-> 0,
         try |-> 0, outer |-> -1]

XhInit ==
  /\ drv = Idle /\ msd_tag = 0
  /\ static_cbw = NoCommand /\ static_csw = NoCsw /\ xhci_dma_buf = Blank
  /\ bulk_out = <<>> /\ bulk_in = <<>> /\ evt_ring = <<>>
  /\ stick = [phase |-> "idle", cmd |-> NoCommand, ok |-> TRUE]
  /\ usb_disk = [a \in Lba |-> Old(a)]
  /\ errors = 0 /\ sensed = FALSE /\ late = FALSE
----------------------------------------------------------------------------
(* The driver. *)

Sensing == drv.outer # -1
CommandOp == IF Sensing THEN "sense" ELSE drv.op
Writes == CommandOp = "write"

\* The copy is forgotten.
Unfilled == xhci_dma_buf

\* The bounce buffer before a chunk.
Filled == IF drv'.op = "write" THEN drv'.val ELSE Blank

\* xhci_read_sectors and xhci_write_sectors of n chunks.
Call(op, a, n, v) ==
  /\ drv.stage = "idle" /\ a + n <= Chunks
  /\ drv' = [Idle EXCEPT !.stage = "send", !.op = op, !.lba = a, !.val = v,
                         !.left = n]
  /\ xhci_dma_buf' = Filled
  /\ sensed' = FALSE
  /\ UNCHANGED <<msd_tag, static_cbw, static_csw, bulk_out, bulk_in, evt_ring,
                 devVars, late>>

\* msd_command, the start of a try.
SendCbw ==
  /\ drv.stage = "send" /\ msd_tag < Tags
  /\ msd_tag' = msd_tag + 1
  /\ static_cbw' = [tag |-> msd_tag + 1, op |-> CommandOp, lba |-> drv.lba]
  /\ bulk_out' = Append(bulk_out, "cbw")
  /\ drv' = [drv EXCEPT !.stage = "cbw"]
  /\ UNCHANGED <<static_csw, xhci_dma_buf, bulk_in, evt_ring, devVars,
                 sensed, late>>

\* A REQUEST SENSE, however it ended, costs the command it serves its try.
BackToOuter(d) ==
  IF d.outer + 1 < Attempts
  THEN [d EXCEPT !.try = d.outer + 1, !.outer = -1, !.stage = "send"] ELSE Idle

\* One try too many.
RetryOnceMore(d) ==
  IF d.try < Attempts THEN [d EXCEPT !.try = @ + 1, !.stage = "send"]
  ELSE IF d.outer # -1 THEN BackToOuter(d) ELSE Idle

\* Another try, or the end of the command without success.
Retry(d) ==
  IF d.try + 1 < Attempts THEN [d EXCEPT !.try = @ + 1, !.stage = "send"]
  ELSE IF d.outer # -1 THEN BackToOuter(d) ELSE Idle

\* The command is done: the call goes on with its next chunk or ends.
Done(d) ==
  IF d.outer # -1 THEN BackToOuter(d)
  ELSE IF d.left > 1
       THEN [d EXCEPT !.stage = "send", !.lba = @ + 1, !.left = @ - 1, !.try = 0]
       ELSE Idle

QueueData ==
  IF Writes THEN bulk_out' = Append(bulk_out, "data") /\ UNCHANGED bulk_in
            ELSE bulk_in' = Append(bulk_in, "data") /\ UNCHANGED bulk_out

QueueCsw == /\ static_csw' = NoCsw
            /\ bulk_in' = Append(bulk_in, "csw") /\ UNCHANGED bulk_out

\* xhci_bulk_transfer returned: the command goes on.
AfterCbw(good) ==
  /\ drv.stage = "cbw"
  /\ IF good THEN QueueData /\ drv' = [drv EXCEPT !.stage = "data"]
             ELSE drv' = Retry(drv) /\ UNCHANGED <<bulk_out, bulk_in>>
  /\ UNCHANGED <<static_csw, xhci_dma_buf, sensed>>

\* After a failed data phase the status is read to clear the pipe.
AfterData(good) ==
  /\ drv.stage = "data"
  /\ QueueCsw
  /\ drv' = [drv EXCEPT !.stage = IF good THEN "csw" ELSE "clear"]
  /\ UNCHANGED <<xhci_dma_buf, sensed>>

AfterClear(good) ==
  /\ drv.stage = "clear"
  /\ drv' = Retry(drv)
  /\ UNCHANGED <<static_csw, xhci_dma_buf, bulk_out, bulk_in, sensed>>

\* Any status will do.
AnyCsw == TRUE

CswMatches == static_csw.tag = static_cbw.tag

\* The sense data goes to the bounce buffer, which a write has its data in.
AfterCsw(good) ==
  /\ drv.stage = "csw"
  /\ \/ /\ ~(good /\ CswMatches)
        /\ drv' = Retry(drv) /\ UNCHANGED <<xhci_dma_buf, sensed>>
     \/ /\ good /\ CswMatches /\ static_csw.ok
        /\ drv' = Done(drv)
        /\ IF ~Sensing /\ drv'.stage = "send"
           THEN xhci_dma_buf' = Filled /\ sensed' = FALSE
           ELSE UNCHANGED <<xhci_dma_buf, sensed>>
     \/ /\ good /\ CswMatches /\ ~static_csw.ok
        /\ drv' = IF Sensing THEN Retry(drv)
                  ELSE [drv EXCEPT !.outer = drv.try, !.try = 0, !.stage = "send"]
        /\ sensed' = TRUE /\ UNCHANGED xhci_dma_buf
  /\ UNCHANGED <<static_csw, bulk_out, bulk_in>>

After(good) == AfterCbw(good) \/ AfterData(good) \/ AfterClear(good) \/ AfterCsw(good)

\* poll_event found an event: the transfer is taken to be done.
PollEvent ==
  /\ evt_ring # <<>>
  /\ After(Head(evt_ring))
  /\ evt_ring' = Tail(evt_ring)
  /\ UNCHANGED <<msd_tag, static_cbw, devVars, late>>
----------------------------------------------------------------------------
(* The stick and the controller (external). *)

Halted == stick.phase = "halted"
Waiting(q) == q # <<>> /\ ~Halted
Complete(good) == evt_ring' = Append(evt_ring, good)
TakeOut == bulk_out' = Tail(bulk_out) /\ UNCHANGED bulk_in
TakeIn == bulk_in' = Tail(bulk_in) /\ UNCHANGED bulk_out

\* A command block, as the buffer has it now.
StickCommand ==
  /\ stick.phase = "idle" /\ Waiting(bulk_out) /\ Head(bulk_out) = "cbw"
  /\ stick' = [phase |-> IF static_cbw.op = "write" THEN "out" ELSE "in",
               cmd |-> static_cbw, ok |-> TRUE]
  /\ TakeOut /\ Complete(TRUE)
  /\ UNCHANGED <<drvVars, usb_disk, errors, sensed, late>>

\* Data to write.  A command block found in its place is taken for data.
StickOut(ok) ==
  /\ stick.phase = "out" /\ Waiting(bulk_out)
  /\ ok \/ errors < MaxErrors
  /\ errors' = IF ok THEN errors ELSE errors + 1
  /\ stick' = [stick EXCEPT !.phase = "csw", !.ok = ok]
  /\ usb_disk' = IF ~ok THEN usb_disk
                 ELSE [usb_disk EXCEPT ![stick.cmd.lba] =
                         IF Head(bulk_out) = "data" THEN xhci_dma_buf ELSE Junk]
  /\ TakeOut /\ Complete(TRUE)
  /\ UNCHANGED <<drvVars, sensed, late>>

\* Data that was read, or the sense data, or less of it with an error.
StickIn(ok) ==
  /\ stick.phase = "in" /\ Waiting(bulk_in) /\ Head(bulk_in) = "data"
  /\ ok \/ (errors < MaxErrors /\ stick.cmd.op # "sense")
  /\ errors' = IF ok THEN errors ELSE errors + 1
  /\ stick' = [stick EXCEPT !.phase = "csw", !.ok = ok]
  /\ xhci_dma_buf' = IF ~ok THEN xhci_dma_buf
                     ELSE IF stick.cmd.op = "sense" THEN SenseData
                     ELSE usb_disk[stick.cmd.lba]
  /\ TakeIn /\ Complete(TRUE)
  /\ UNCHANGED <<drv, msd_tag, static_cbw, static_csw, usb_disk, sensed, late>>

StickStatus ==
  /\ stick.phase = "csw" /\ Waiting(bulk_in)
  /\ IF Head(bulk_in) = "csw"
     THEN /\ static_csw' = [tag |-> stick.cmd.tag, ok |-> stick.ok]
          /\ UNCHANGED xhci_dma_buf
     ELSE xhci_dma_buf' = Junk /\ UNCHANGED static_csw
  /\ stick' = [stick EXCEPT !.phase = "idle"]
  /\ TakeIn /\ Complete(TRUE)
  /\ UNCHANGED <<drv, msd_tag, static_cbw, usb_disk, errors, sensed, late>>

\* A block that is no command, or data longer than the buffer, stalls the
\* stick, and so may a data phase that fails.  The driver never clears a stall.
StickStalls ==
  /\ \/ stick.phase = "idle" /\ Waiting(bulk_out) /\ Head(bulk_out) = "data"
        /\ UNCHANGED errors /\ TakeOut
     \/ stick.phase = "in" /\ Waiting(bulk_in) /\ Head(bulk_in) = "csw"
        /\ UNCHANGED errors /\ TakeIn
     \/ stick.phase = "in" /\ Waiting(bulk_in) /\ errors < MaxErrors
        /\ errors' = errors + 1 /\ TakeIn
     \/ stick.phase = "out" /\ Waiting(bulk_out) /\ errors < MaxErrors
        /\ errors' = errors + 1 /\ TakeOut
  /\ stick' = [stick EXCEPT !.phase = "halted"]
  /\ Complete(FALSE)
  /\ UNCHANGED <<drvVars, usb_disk, sensed, late>>

\* What the stick is able to do now.
CanAnswer ==
  \/ stick.phase = "idle" /\ bulk_out # <<>>
  \/ stick.phase = "out" /\ bulk_out # <<>>
  \/ stick.phase \in {"in", "csw"} /\ bulk_in # <<>>

\* poll_event gave up: the stick had nothing to answer with, or is late.
PollTimeout ==
  /\ evt_ring = <<>> /\ (CanAnswer => Late)
  /\ After(FALSE)
  /\ late' = (late \/ CanAnswer)
  /\ UNCHANGED <<msd_tag, static_cbw, evt_ring, devVars>>

XhNext ==
  \/ \E a \in Lba, n \in 1 .. Chunks : Call("read", a, n, Blank)
  \/ \E a \in Lba, n \in 1 .. Chunks, v \in Vals : Call("write", a, n, v)
  \/ SendCbw \/ PollEvent \/ PollTimeout
  \/ StickCommand \/ StickStatus \/ StickStalls
  \/ \E ok \in BOOLEAN : StickOut(ok) \/ StickIn(ok)

XhSpec == XhInit /\ [][XhNext]_xhVars
----------------------------------------------------------------------------
(* Properties. *)

\* A command never uses more than its tries, nested REQUEST SENSE commands
\* included, and addresses, tags and buffers stay in their types (xhci.c).
XhTypeOK ==
  /\ drv.stage \in {"idle", "send", "cbw", "data", "csw", "clear"}
  /\ drv.lba \in Lba \cup {0} /\ drv.left \in 0 .. Chunks
  /\ drv.try \in 0 .. (Attempts - 1) /\ drv.outer \in -1 .. (Attempts - 1)
  /\ msd_tag \in 0 .. Tags /\ static_cbw.tag \in 0 .. Tags
  /\ xhci_dma_buf \in Values /\ usb_disk \in [Lba -> Values]
  /\ bulk_out \in Seq({"cbw", "data"}) /\ bulk_in \in Seq({"csw", "data"})
  /\ evt_ring \in Seq(BOOLEAN) /\ errors \in 0 .. MaxErrors

\* A chunk is reported done: the status block has the tag of the command.
ChunkReported(op) ==
  /\ drv.stage = "csw" /\ ~Sensing /\ drv.op = op
  /\ evt_ring # <<>> /\ Head(evt_ring) /\ evt_ring' = Tail(evt_ring)
  /\ CswMatches /\ static_csw.ok

\* A read that reports success hands out what the stick holds there, however
\* late events, errors, stalls and retries shifted the answers.
ReadsAreTrue ==
  [][ChunkReported("read") => xhci_dma_buf = usb_disk[drv.lba]]_xhVars

\* A write that reports success is on the stick, as long as the stick answers
\* in time and no REQUEST SENSE came between.
WritesAreTrue ==
  [][ChunkReported("write") /\ ~late /\ ~sensed =>
       usb_disk[drv.lba] = drv.val]_xhVars

\* What drivers/ata.h says of ata_write_sectors: 0 is success.
WriteStored == [][ChunkReported("write") => usb_disk[drv.lba] = drv.val]_xhVars
=============================================================================
