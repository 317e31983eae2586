------------------------------ MODULE XNetDev ------------------------------
(***************************************************************************)
(* static/coding/xnetdev.c: an Ethernet driver for the DM9000 on a         *)
(* uniprocessor S3C2410.  One kernel context at a time runs open, stop or  *)
(* hard_start_xmit (the stack serialises them); the interrupt handler      *)
(* preempts it between any two instructions and is not preempted by it;    *)
(* the chip moves at any time.  xmit takes no lock: it relies on the       *)
(* chip's interrupt mask, and the handler unmasks the chip when it leaves. *)
(***************************************************************************)
EXTENDS Dm9000

CONSTANTS
  MaxPkts,   \* bound: packets offered for transmission
  Latency    \* port accesses and shared-field accesses of the process that may
             \* still execute once an interrupt is latched at the CPU: 0 is an
             \* ideal machine, 1 the race of an edge with a write to the mask

ASSUME MaxPktsAssumption == MaxPkts \in Nat
ASSUME LatencyAssumption == Latency \in Nat

VARIABLES
  chip, latch, wire,           \* the chip, its edge latched at the CPU, what was sent
  pc, sel, tmp, skb, lag,      \* the process: label, "register selected", count
                               \* read, packet, steps since an interrupt is due
  hpc, hstat, hsave,           \* the handler: label, int_status, reg_save
  tx_pkt_cnt, queue_pkt_len, device_wait_reset,   \* struct dm9000x
  awake, irqOn,                \* the stack's queue is not stopped; irq requested
  delivered,                   \* history: frames given to netif_rx
  raced                        \* history: since open cleared the count, a completion
                               \* was counted off between xmit's test of the count
                               \* (365) and its store of queue_pkt_len (376)

procVars    == <<pc, sel, tmp, skb, lag>>
handlerVars == <<hpc, hstat, hsave>>
driverVars  == <<tx_pkt_cnt, queue_pkt_len, device_wait_reset, awake, irqOn, delivered, raced>>
vars == <<chip, latch, wire, procVars, handlerVars, driverVars>>

U16 == 65536

\* outb(reg, ioaddr); outb(value, iodata)
iowt(c, reg, bits, num) == Put([c EXCEPT !.addr = reg], bits, num)

\* outb(reg, ioaddr); inb(iodata).  Reading NSR clears it.
iord(c, reg) == [c EXCEPT !.addr = reg, !.sent = @ /\ reg # "NSR"]

\* The chip moves to state c; an edge of its interrupt pin is latched.
ChipBecomes(c) == chip' = c /\ latch' = (latch \/ Edge(chip, c))

\* Definitions named <Action>_<Bug> are not part of the driver: each is the
\* operation it precedes with one plausible mistake, and stands in for it to
\* show that a property notices.

(***************************************************************************)
(* The process: every register write is two instructions, the index port   *)
(* and then the data port, and the handler may come between them.          *)
(***************************************************************************)
PortWrites == {
  [at |-> "reset",     reg |-> "NCR",   bits |-> {"RST"},   next |-> "clear_nsr"],
  [at |-> "clear_nsr", reg |-> "NSR",   bits |-> {},        next |-> "clear_isr"],
  [at |-> "clear_isr", reg |-> "ISR",   bits |-> Events,    next |-> "rx_on"],
  [at |-> "rx_on",     reg |-> "RCR",   bits |-> {"RXEN"},  next |-> "enable"],
  [at |-> "enable",    reg |-> "IMR",   bits |-> Events,    next |-> "opened"],
  [at |-> "mask",      reg |-> "IMR",   bits |-> {},        next |-> "fill"],
  [at |-> "fill",      reg |-> "MWCMD", bits |-> {},        next |-> "branch"],
  [at |-> "txpl",      reg |-> "TXPL",  bits |-> {},        next |-> "tcr"],
  [at |-> "tcr",       reg |-> "TCR",   bits |-> {"TXREQ"}, next |-> "finish"],
  [at |-> "unmask",    reg |-> "IMR",   bits |-> Events,    next |-> "idle"],
  [at |-> "quiet",     reg |-> "IMR",   bits |-> {},        next |-> "rx_off"],
  [at |-> "rx_off",    reg |-> "RCR",   bits |-> {},        next |-> "closed"]}

\* The process runs: the handler does not, and is not overdue.
ProcRuns ==
  /\ hpc = "out"
  /\ latch /\ irqOn => lag < Latency
  /\ lag' = IF latch /\ irqOn THEN lag + 1 ELSE 0

Goto(from, to) == ProcRuns /\ pc = from /\ ~sel /\ pc' = to

Select(w) ==
  /\ ProcRuns /\ pc = w.at /\ ~sel
  /\ sel' = TRUE
  /\ ChipBecomes([chip EXCEPT !.addr = w.reg])
  /\ UNCHANGED <<wire, pc, tmp, skb, handlerVars, driverVars>>

Write(w) ==
  /\ ProcRuns /\ pc = w.at /\ sel
  /\ sel' = FALSE
  /\ pc' = w.next
  /\ ChipBecomes(Put(chip, w.bits, skb))
  /\ UNCHANGED <<wire, tmp, skb, handlerVars, driverVars>>

\* xnet_open: request_irq, then do_init_dm9000x's port writes, ...
Open ==
  /\ Goto("closed", "reset")
  /\ irqOn' = TRUE
  /\ UNCHANGED <<chip, latch, wire, sel, tmp, skb, handlerVars, tx_pkt_cnt,
                 queue_pkt_len, device_wait_reset, awake, delivered, raced>>

Opened_KeepsCount ==
  /\ Goto("opened", "idle")
  /\ awake' = TRUE
  /\ UNCHANGED <<chip, latch, wire, sel, tmp, skb, handlerVars, tx_pkt_cnt,
                 queue_pkt_len, device_wait_reset, irqOn, delivered, raced>>

\* ... then the counters it clears, and netif_start_queue.
Opened ==
  /\ Goto("opened", "idle")
  /\ tx_pkt_cnt' = 0
  /\ queue_pkt_len' = 0
  /\ awake' = TRUE
  /\ raced' = FALSE
  /\ UNCHANGED <<chip, latch, wire, sel, tmp, skb, handlerVars,
                 device_wait_reset, irqOn, delivered>>

\* xnet_stop: netif_stop_queue, free_irq, then its port writes.
Stop ==
  /\ Goto("idle", "free_irq")
  /\ awake' = FALSE
  /\ UNCHANGED <<chip, latch, wire, sel, tmp, skb, handlerVars, tx_pkt_cnt,
                 queue_pkt_len, device_wait_reset, irqOn, delivered, raced>>

FreeIrq ==
  /\ Goto("free_irq", "quiet")
  /\ irqOn' = FALSE
  /\ UNCHANGED <<chip, latch, wire, sel, tmp, skb, handlerVars, tx_pkt_cnt,
                 queue_pkt_len, device_wait_reset, awake, delivered, raced>>

Xmit_OneTooMany ==
  /\ awake /\ skb < MaxPkts /\ tx_pkt_cnt <= 2
  /\ Goto("idle", "mask")
  /\ skb' = skb + 1
  /\ awake' = FALSE
  /\ UNCHANGED <<chip, latch, wire, sel, tmp, handlerVars, tx_pkt_cnt,
                 queue_pkt_len, device_wait_reset, irqOn, delivered, raced>>

\* xnet_xmit, called while the queue is awake; it returns 1 and changes
\* nothing when two packets are counted.
Xmit ==
  /\ awake /\ skb < MaxPkts /\ tx_pkt_cnt <= 1
  /\ Goto("idle", "mask")
  /\ skb' = skb + 1
  /\ awake' = FALSE
  /\ UNCHANGED <<chip, latch, wire, sel, tmp, handlerVars, tx_pkt_cnt,
                 queue_pkt_len, device_wait_reset, irqOn, delivered, raced>>

\* if (tx_pkt_cnt == 0): the count is read here, ...
Branch ==
  /\ Goto("branch", IF tx_pkt_cnt = 0 THEN "first" ELSE "second")
  /\ tmp' = tx_pkt_cnt
  /\ UNCHANGED <<chip, latch, wire, sel, skb, handlerVars, driverVars>>

\* ... may be read again for tx_pkt_cnt++ (the field is not volatile) ...
Reload ==
  /\ pc \in {"first", "second"} /\ Goto(pc, pc)
  /\ tmp # tx_pkt_cnt
  /\ tmp' = tx_pkt_cnt
  /\ UNCHANGED <<chip, latch, wire, sel, skb, handlerVars, driverVars>>

\* ... and is written here.
CountFirst ==
  /\ Goto("first", "txpl")
  /\ tx_pkt_cnt' = (tmp + 1) % U16
  /\ UNCHANGED <<chip, latch, wire, sel, tmp, skb, handlerVars,
                 queue_pkt_len, device_wait_reset, awake, irqOn, delivered, raced>>

CountSecond ==
  /\ Goto("second", "queue")
  /\ tx_pkt_cnt' = (tmp + 1) % U16
  /\ UNCHANGED <<chip, latch, wire, sel, tmp, skb, handlerVars,
                 queue_pkt_len, device_wait_reset, awake, irqOn, delivered, raced>>

QueueLen_Padded ==
  /\ Goto("queue", "finish")
  /\ queue_pkt_len' = skb + 1
  /\ UNCHANGED <<chip, latch, wire, sel, tmp, skb, handlerVars, tx_pkt_cnt,
                 device_wait_reset, awake, irqOn, delivered, raced>>

QueueLen_Forgotten ==
  /\ Goto("queue", "finish")
  /\ UNCHANGED <<chip, latch, wire, sel, tmp, skb, handlerVars, driverVars>>

QueueLen ==
  /\ Goto("queue", "finish")
  /\ queue_pkt_len' = skb
  /\ UNCHANGED <<chip, latch, wire, sel, tmp, skb, handlerVars, tx_pkt_cnt,
                 device_wait_reset, awake, irqOn, delivered, raced>>

Finish_AlwaysWakes ==
  /\ Goto("finish", "wake")
  /\ UNCHANGED <<chip, latch, wire, sel, tmp, skb, handlerVars, driverVars>>

\* if (tx_pkt_cnt == 1) ...
Finish ==
  /\ Goto("finish", IF tx_pkt_cnt = 1 THEN "wake" ELSE "unmask")
  /\ UNCHANGED <<chip, latch, wire, sel, tmp, skb, handlerVars, driverVars>>

\* ... netif_wake_queue(dev)
Wake ==
  /\ Goto("wake", "unmask")
  /\ awake' = TRUE
  /\ UNCHANGED <<chip, latch, wire, sel, tmp, skb, handlerVars, tx_pkt_cnt,
                 queue_pkt_len, device_wait_reset, irqOn, delivered, raced>>

(***************************************************************************)
(* The handler, xnet_interrupt.  The process cannot run inside it, the     *)
(* chip can, so steps the chip could come between are separate.            *)
(***************************************************************************)
HGoto(from, to) == hpc = from /\ hpc' = to

HEnter ==
  /\ latch /\ irqOn
  /\ HGoto("out", "mask")
  /\ latch' = FALSE
  /\ lag' = 0
  /\ hsave' = chip.addr
  /\ UNCHANGED <<chip, wire, pc, sel, tmp, skb, hstat, driverVars>>

HMask_Skipped ==
  /\ HGoto("mask", "status")
  /\ UNCHANGED <<chip, latch, wire, procVars, hstat, hsave, driverVars>>

HMask ==
  /\ HGoto("mask", "status")
  /\ ChipBecomes(iowt(chip, "IMR", {}, 0))
  /\ UNCHANGED <<wire, procVars, hstat, hsave, driverVars>>

HStatus ==
  /\ HGoto("status", "ack")
  /\ hstat' = chip.isr
  /\ ChipBecomes(iord(chip, "ISR"))
  /\ UNCHANGED <<wire, procVars, hsave, driverVars>>

HAck_ClearsAll ==
  /\ HGoto("ack", "tx")
  /\ ChipBecomes(iowt(chip, "ISR", Events, 0))
  /\ UNCHANGED <<wire, procVars, hstat, hsave, driverVars>>

HAck ==
  /\ HGoto("ack", "tx")
  /\ ChipBecomes(iowt(chip, "ISR", hstat, 0))
  /\ UNCHANGED <<wire, procVars, hstat, hsave, driverVars>>

SendQueued_NoRequest(c) == iowt(c, "TXPL", {}, queue_pkt_len)

\* do_xnet_tx, when NSR says that a packet is out: the other one, if one is
\* queued, is sent with the length xmit left in queue_pkt_len.
SendQueued(c) == iowt(iowt(c, "TXPL", {}, queue_pkt_len), "TCR", {"TXREQ"}, 0)

HTxDone ==
  /\ HGoto("tx", "rx")
  /\ "PT" \in hstat /\ chip.sent
  /\ tx_pkt_cnt' = (tx_pkt_cnt + U16 - 1) % U16
  /\ LET c == iord(chip, "NSR")
     IN  ChipBecomes(IF tx_pkt_cnt' > 0 THEN SendQueued(c) ELSE c)
  /\ awake' = TRUE
  /\ raced' = (raced \/ pc \in {"second", "queue"})
  /\ UNCHANGED <<wire, procVars, hstat, hsave, queue_pkt_len,
                 device_wait_reset, irqOn, delivered>>

HTxNone ==
  /\ HGoto("tx", "rx")
  /\ ~("PT" \in hstat /\ chip.sent)
  /\ ChipBecomes(IF "PT" \in hstat THEN iord(chip, "NSR") ELSE chip)
  /\ UNCHANGED <<wire, procVars, hstat, hsave, driverVars>>

\* do_xnet_rx: one step per round of its loop, by the first byte read.
PKT_MAX == 1536
PKT_MIN == 64

\* The header read after a first byte of 1; in the middle of a frame it is
\* anything (marked 0, as no sender's frame is handed up that way).
Headers == IF chip.skewed THEN {[f EXCEPT !.mark = 0] : f \in Frames} ELSE {Head(chip.ring)}

Waits_AnyLength(h) == device_wait_reset

Waits(h) == device_wait_reset \/ h.len > PKT_MAX
Good(h)  == h.len >= PKT_MIN /\ ~h.err

\* What the loop writes into the skb, word by word, is all that skb_put announces,
\* len - 4, and no more than there is room for: len + 4, of which 2 are reserved.
Fits(h) == 2 * ((h.len + 1) \div 2) \in h.len - 4 .. h.len + 4 - 2

RxNone ==
  /\ HGoto("rx", "exit")
  /\ "PR" \notin hstat
  /\ UNCHANGED <<chip, latch, wire, procVars, hstat, hsave, driverVars>>

RxByte(b) == hpc = "rx" /\ "PR" \in hstat /\ b \in FirstBytes(chip)

RxEmpty ==
  /\ RxByte(0)
  /\ hpc' = "exit"
  /\ ChipBecomes(iord(chip, "MRCMD"))
  /\ UNCHANGED <<wire, procVars, hstat, hsave, driverVars>>

\* "this byte must be 0 or 1": the receiver is switched off.  The 0x80
\* written to ISR holds no event bit and clears none.
RxBadMark ==
  /\ \E b \in FirstBytes(chip) : b > 1 /\ RxByte(b)
  /\ hpc' = "exit"
  /\ ChipBecomes(iowt(iowt(chip, "RCR", {}, 0), "ISR", {}, 0))
  /\ device_wait_reset' = TRUE
  /\ UNCHANGED <<wire, procVars, hstat, hsave, tx_pkt_cnt, queue_pkt_len,
                 awake, irqOn, delivered, raced>>

\* A good frame goes up when an skb can be had; else it is read and dropped.
RxFrame ==
  /\ RxByte(1)
  /\ \E h \in Headers :
       /\ ~Waits(h)
       /\ \/ Good(h) /\ delivered' = delivered \cup {h}
          \/ UNCHANGED delivered
  /\ ChipBecomes(IF chip.skewed THEN chip ELSE Drained(iord(chip, "MRCMD")))
  /\ UNCHANGED <<wire, procVars, handlerVars, tx_pkt_cnt, queue_pkt_len,
                 device_wait_reset, awake, irqOn, raced>>

\* The frame's body stays in the chip and the loop ends.
RxTooLong ==
  /\ RxByte(1)
  /\ \E h \in Headers : Waits(h)
  /\ hpc' = "exit"
  /\ device_wait_reset' = TRUE
  /\ ChipBecomes(HeaderRead(iord(chip, "MRCMD")))
  /\ UNCHANGED <<wire, procVars, hstat, hsave, tx_pkt_cnt, queue_pkt_len,
                 awake, irqOn, delivered, raced>>

HExit_KeepsAddress ==
  /\ HGoto("exit", "out")
  /\ ChipBecomes(iowt(chip, "IMR", Events, 0))
  /\ UNCHANGED <<wire, procVars, hstat, hsave, driverVars>>

HExit_StaysMasked ==
  /\ HGoto("exit", "out")
  /\ ChipBecomes([chip EXCEPT !.addr = hsave])
  /\ UNCHANGED <<wire, procVars, hstat, hsave, driverVars>>

HExit ==
  /\ HGoto("exit", "out")
  /\ ChipBecomes([iowt(chip, "IMR", Events, 0) EXCEPT !.addr = hsave])
  /\ UNCHANGED <<wire, procVars, hstat, hsave, driverVars>>

(***************************************************************************)
(* The chip's own steps.                                                   *)
(***************************************************************************)
TxComplete ==
  /\ chip.busy
  /\ wire' = Append(wire, [pkt |-> Head(chip.sram), len |-> chip.txLen])
  /\ ChipBecomes(Transmitted(chip))
  /\ UNCHANGED <<procVars, handlerVars, driverVars>>

RxArrive(f) ==
  /\ chip.rxOn /\ Len(chip.ring) < RingSize
  /\ ChipBecomes(Received(chip, f))
  /\ UNCHANGED <<wire, procVars, handlerVars, driverVars>>

\* After xnet_probe: the structure is zeroed, the chip as the reset left it;
\* the CPU's latch may hold an edge from before.
Init ==
  /\ chip = [addr |-> "NCR", imr |-> {}, isr |-> {}, sent |-> FALSE, sram |-> <<>>,
             txLen |-> 0, busy |-> FALSE, rxOn |-> FALSE, ring |-> <<>>, skewed |-> FALSE]
  /\ latch \in BOOLEAN
  /\ wire = <<>>
  /\ pc = "closed" /\ sel = FALSE /\ tmp = 0 /\ skb = 0 /\ lag = 0
  /\ hpc = "out" /\ hstat = {} /\ hsave = "NCR"
  /\ tx_pkt_cnt = 0 /\ queue_pkt_len = 0 /\ device_wait_reset = FALSE
  /\ awake = FALSE /\ irqOn = FALSE
  /\ delivered = {} /\ raced = FALSE

XmitStep == Branch \/ Reload \/ CountFirst \/ CountSecond \/ QueueLen \/ Finish \/ Wake

Process ==
  \/ \E w \in PortWrites : Select(w) \/ Write(w)
  \/ Open \/ Opened \/ Stop \/ FreeIrq \/ Xmit \/ XmitStep

Handler ==
  \/ HEnter \/ HMask \/ HStatus \/ HAck \/ HTxDone \/ HTxNone
  \/ RxNone \/ RxEmpty \/ RxBadMark \/ RxFrame \/ RxTooLong \/ HExit

Device == TxComplete \/ \E f \in Frames : RxArrive(f)

Next == Process \/ Handler \/ Device

Spec == Init /\ [][Next]_vars

(***************************************************************************)
(* Properties of the interrupts, the ports, the count and the ring.        *)
(***************************************************************************)
Labels ==
  {"reset", "clear_nsr", "clear_isr", "rx_on", "enable", "opened", "idle",
   "mask", "fill", "branch", "first", "second", "queue", "txpl", "tcr", "finish", "wake", "unmask",
   "free_irq", "quiet", "rx_off", "closed"}
HLabels == {"out", "mask", "status", "ack", "tx", "rx", "exit"}

\* Every variable has its type: the counter stays in its u16, and a length is
\* the length of a packet (Ethernet's are at most 1514, so the u16 at 376
\* truncates none and no truncation is modelled).
TypeOK ==
  /\ chip \in Chip /\ latch \in BOOLEAN
  /\ wire \in Seq([pkt: Nat, len: Nat])
  /\ pc \in Labels /\ sel \in BOOLEAN /\ tmp \in 0..U16-1 /\ skb \in 0..MaxPkts
  /\ lag \in 0..Latency
  /\ hpc \in HLabels /\ hstat \in SUBSET Events /\ hsave \in Registers
  /\ tx_pkt_cnt \in 0..U16-1 /\ queue_pkt_len \in 0..MaxPkts
  /\ device_wait_reset \in BOOLEAN /\ awake \in BOOLEAN /\ irqOn \in BOOLEAN /\ raced \in BOOLEAN
  /\ delivered \subseteq [len: Nat, err: BOOLEAN, mark: Nat]

\* No interrupt is lost although the line is edge-triggered: while the pin
\* is asserted its edge is latched or the handler is about to mask the chip
\* (masking and unmasking around the handler makes the edge anew).
NoLostIrq == Asserted(chip) => latch \/ hpc = "mask"

\* The handler gives the index port back as it found it, so a process
\* write never reaches another register than the one it selected.
AddressRestored ==
  sel /\ hpc = "out" => \E w \in PortWrites : w.at = pc /\ w.reg = chip.addr

\* A received frame is never forgotten: ISR was cleared before the ring was
\* read, so while a frame waits a receive event is pending or being handled
\* (until the driver has decided that the chip must be reset).
NoStrandedFrame ==
  chip.ring # <<>> /\ ~device_wait_reset =>
    "PR" \in chip.isr \/ ("PR" \in hstat /\ hpc \in {"ack", "tx", "rx"})

\* Only whole, good frames go up, never bytes from the middle of a frame
\* the driver left in the chip, and their bytes fit in the buffer.
DeliveredIntact ==
  \A f \in delivered : Good(f) /\ f.len <= PKT_MAX /\ f.mark = 1 /\ Fits(f)

\* Packets in the SRAM, being sent, sent and not yet seen by the handler;
\* xmit's write to the SRAM runs ahead of its count.
Held == Len(chip.sram)
Busy == IF chip.busy THEN 1 ELSE 0
Sent == IF chip.sent THEN 1 ELSE 0
Uncounted == IF pc \in {"branch", "first", "second"} THEN 1 ELSE 0

\* The count never falls short of the packets the chip holds or has just
\* sent: do_xnet_tx never decrements 0 (65535 would shut xmit for good) and
\* the two-packet SRAM is never given a third.
TxCountCovers ==
  /\ Held + Sent <= tx_pkt_cnt + Uncounted
  /\ tx_pkt_cnt + Uncounted <= 2
  /\ hpc = "tx" /\ chip.sent => tx_pkt_cnt >= 1

(***************************************************************************)
(* The inductive invariant behind them.                                    *)
(***************************************************************************)
\* AddressRestored, and the handler holds the address while it runs.
AddrInv ==
  sel => \E w \in PortWrites :
           w.at = pc /\ w.reg = (IF hpc = "out" THEN chip.addr ELSE hsave)

\* TxCountCovers with what it rests on: while a packet is being sent, or is
\* sent and not yet seen by the handler, the count is exact; it is too high
\* only when it was written from a stale tmp, and then nothing is in flight.
TxInv ==
  /\ tx_pkt_cnt <= 2
  /\ pc \in {"mask", "fill", "branch", "first", "second"} => tx_pkt_cnt <= 1
  /\ Held + Sent <= tx_pkt_cnt + Uncounted
  /\ Busy = 1 => Held >= 1 /\ Sent = 0
  /\ Busy + Sent >= 1 => tx_pkt_cnt >= 1 /\ tx_pkt_cnt + Uncounted = Held + Sent
  /\ Uncounted <= Held
  /\ pc = "first" => tx_pkt_cnt = 0 /\ tmp = 0
  /\ pc = "second" => tx_pkt_cnt <= tmp /\ tmp <= 1
  /\ pc \in {"txpl", "tcr"} => tx_pkt_cnt = 1 /\ Held = 1 /\ Busy + Sent = 0
  /\ pc \in {"clear_nsr", "clear_isr", "rx_on", "enable", "opened"} =>
       Held = 0 /\ Busy + Sent = 0

\* NoStrandedFrame and DeliveredIntact with what they rest on: the chip is
\* read from the middle of a frame only when a reset is waited for, and no
\* frame comes in before open has cleared ISR.
RxInv ==
  /\ NoStrandedFrame
  /\ DeliveredIntact
  /\ chip.skewed => device_wait_reset
  /\ pc \in {"clear_nsr", "clear_isr", "rx_on"} => chip.ring = <<>> /\ ~chip.rxOn

IInv == TypeOK /\ NoLostIrq /\ AddrInv /\ TxInv /\ RxInv

(***************************************************************************)
(* What xmit, the handler and the chip make of the packets.  The chip's    *)
(* mask does not keep the handler out of xmit, and the properties do not   *)
(* assume so: they hold at every latency until a completion is counted off *)
(* in the one stretch of xmit that cannot bear it (`raced`).               *)
(***************************************************************************)
Quiescent == pc = "idle" /\ hpc = "out"

\* Between calls the count is exactly what the chip holds or has just sent:
\* the handler's decrement is lost nowhere but in that stretch.
CountTracksSram == Quiescent /\ ~raced => tx_pkt_cnt = Held + Sent

\* The stack's queue is awake exactly while the pipeline has room, so xmit
\* is never called only to return 1, and a stopped queue has a packet whose
\* completion will wake it, wherever else in xmit the handler woke it.
QueueTracksPipeline == Quiescent /\ ~raced => (awake <=> tx_pkt_cnt < 2)

\* A packet written behind another is being sent or its turn comes with the
\* completion of the one before ("Queue packet check & send").
NoStrandedTx == Quiescent /\ Held > 0 => Busy + Sent > 0

\* Nothing but a completion in that stretch strands a packet.
StrandedOnlyByRace == ~raced => NoStrandedTx

\* What the driver promises: xmit and the chip implement the two-packet pipe,
\* at every latency; a packet leaves with another's length only after a
\* completion in that stretch.
Pipe == INSTANCE TxPipe WITH held <- chip.sram, Packets <- 1..MaxPkts
ImplementsPipe == Pipe!PipeSpec

(***************************************************************************)
(* The inductive invariant behind them, on top of IInv.                    *)
(***************************************************************************)
Opening == {"clear_nsr", "clear_isr", "rx_on", "enable"}
Filled  == {"branch", "first", "second", "queue", "txpl", "tcr"}

\* Unless the handler has taken its completion from under it, the count xmit
\* read is the count it writes over.
ExactInv ==
  /\ pc \notin Opening \cup {"opened"} => tx_pkt_cnt + Uncounted = Held + Sent
  /\ pc \in {"first", "second"} => tmp = tx_pkt_cnt
  /\ pc = "second" => tx_pkt_cnt = 1
  /\ pc = "queue" => tx_pkt_cnt = 2

\* NoStrandedTx at every label: the packet just written may stand alone,
\* one written behind another may not.
MovingInv ==
  /\ pc \notin {"branch", "first", "txpl", "tcr"} /\ Held > 0 => Busy + Sent > 0
  /\ pc = "branch" /\ Held + Sent >= 2 => Busy + Sent > 0

\* While xmit is under way the queue is awake only if the handler woke it,
\* and the handler has woken it if it found the count that xmit wrote.
QueueInv ==
  /\ pc \in {"unmask", "idle"} => (awake <=> tx_pkt_cnt < 2)
  /\ pc \in {"mask", "fill", "branch", "first", "second"} /\ awake => tx_pkt_cnt = 0
  /\ pc \in {"queue", "finish"} /\ awake => tx_pkt_cnt <= 1
  /\ pc = "wake" => tx_pkt_cnt <= 1
  /\ pc = "finish" /\ tx_pkt_cnt = 0 => awake

\* Each packet meets its own length: the one xmit writes in skb, the one
\* written behind another in queue_pkt_len, the one being sent in TXPL.
LengthInv ==
  /\ pc \in Filled => Held >= 1 /\ chip.sram[Held] = skb
  /\ pc \notin Filled /\ Held + Sent = 2 => Held >= 1 /\ chip.sram[Held] = queue_pkt_len
  /\ chip.busy \/ pc = "tcr" => chip.txLen = chip.sram[1]

\* What holds at every latency and after a race too.
SentInv ==
  /\ pc \in Filled \cup {"mask", "fill"} => skb >= 1
  /\ chip.txLen \in 0..MaxPkts

CountInv == ExactInv /\ MovingInv /\ QueueInv
PipeInv == SentInv /\ (~raced => CountInv /\ LengthInv)

(***************************************************************************)
(* Liveness.                                                               *)
(***************************************************************************)
\* Steps the process takes once a call is under way.
InCall == (\E w \in PortWrites : Select(w) \/ Write(w)) \/ Opened \/ FreeIrq \/ XmitStep

\* A call goes on although it is interrupted, the handler runs, the chip
\* sends; and the receive loop ends, that is, no flood of frames lasts for
\* ever (do_xnet_rx has no budget).
FloodEnds == []<>(hpc # "rx")
Fairness == SF_vars(InCall) /\ WF_vars(Handler) /\ WF_vars(TxComplete)
LiveSpec == Spec /\ Fairness /\ FloodEnds

InSram(p) == \E i \in 1..Len(chip.sram) : chip.sram[i] = p

\* Every packet xmit has accepted leaves the chip, unless the interface is
\* stopped first or a completion has raced with xmit.
AcceptedIsSent == \A p \in 1..MaxPkts : InSram(p) ~> (~InSram(p) \/ ~irqOn \/ raced)

\* A device found in need of a reset is reset when the interface is opened
\* again ("must reset").
ResetServed == (device_wait_reset /\ pc = "reset") ~> ~device_wait_reset
============================================================================
